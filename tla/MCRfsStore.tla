----------------------------- MODULE MCRfsStore -----------------------------
EXTENDS RfsStore, TLC

CONSTANTS t1, t2, t3, u1, u2

ThreadSymmetry == Permutations(Threads)

\* Requests for the paths; GETVERSION asks for one of the versions in nums.
Each(ops, paths, nums) ==
  [op : ops \ {"GETVERSION"}, path : paths, num : {0}]
    \cup [op : ops \cap {"GETVERSION"}, path : paths, num : nums]

\* One file, and a mutex of its own.
OneFile     == "a" :> "a"
OneMutex    == "a" :> "m"
OneExtends  == "a" :> {}
AllRequests == Each(Ops, {"a"}, {1, 2})

\* A second file, which is only written.  Its name hashes to the same mutex; or it
\* begins with the pattern of the first one's versions ("a.v2.txt"), and has a mutex
\* of its own.
TwoFiles     == "a" :> "a" @@ "b" :> "b"
SharedMutex  == "a" :> "m" @@ "b" :> "m"
TwoExtend    == "a" :> {} @@ "b" :> {}
OwnMutexes   == "a" :> "m" @@ "b" :> "m2"
OneExtended  == "a" :> {"b"} @@ "b" :> {}
TwoRequests  == Each({"WRITE", "GET", "RM"}, {"a"}, {}) \cup Each({"WRITE"}, {"b"}, {})

\* Two spellings of the name of one file, such as "d/a" and "d//a", which hash to
\* different mutexes.
Spellings     == "a" :> "a" @@ "/a" :> "a"
TwoMutexes    == "a" :> "m" @@ "/a" :> "m2"
SpelledWrites == Each({"WRITE"}, {"a", "/a"}, {})

GetRequests   == Each({"WRITE", "GET"}, {"a"}, {})
LsRequests    == Each({"WRITE", "LS", "GETVERSION"}, {"a"}, {1, 2, 3})
LiveRequests  == Each({"WRITE", "GET", "GETVERSION", "RM"}, {"a"}, {1})
                   \cup Each({"WRITE"}, {"b"}, {})

\* A size the client got wrong, an empty file and a file of two chunks.
SomeSizes == {-1, 0, 2}

\* Storage as an earlier server process left it: one file.
OneStored == [e \in Entries |-> IF e = Main("a") THEN u1 ELSE None]
\* A file, and one version of it.
Stored ==
  [e \in Entries |-> IF e = Main("a") THEN u1
                     ELSE IF e = Version("a", 1) THEN u2 ELSE None]
=============================================================================
