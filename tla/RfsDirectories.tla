--------------------------- MODULE RfsDirectories ---------------------------
(***************************************************************************)
(* The directory tree below the storage root: WRITE creates directories,   *)
(* RM removes empty ones, WRITE to the name of a directory puts the whole  *)
(* directory aside as a version, and every call finds its file by walking  *)
(* the path anew.  RfsStore has the files of one directory in detail; here *)
(* a file is whole or not, and uploads arrive in one step.                 *)
(*                                                                         *)
(* A path is a sequence of names.  An entry of a directory is a name and a *)
(* stamp, 0 for the name itself, s for its version name.v<s>.              *)
(***************************************************************************)
EXTENDS Integers, SequencesExt

CONSTANTS
  Threads,       \* connection threads
  Stored,        \* files that are in storage when the server starts
  Names,         \* names of files and directories
  Root,          \* STORAGE_ROOT
  OldDirs,       \* directories that are there when the server starts
  InitLink,      \* the tree when the server starts
  Requests,      \* the requests clients may send
  MaxPathDepth,  \* MAX_PATH_DEPTH
  MaxStamp,      \* bound on the backups of a behaviour
  None           \* "no file", "no thread"

Stamps  == 1 .. MaxStamp
Entries == Names \X (0 .. MaxStamp)
Main(n) == <<n, 0>>

\* A thread creates at most one file, and one directory per level of its path; they
\* carry its name.
Levels == UNION {1 .. Len(r.path) - 1 : r \in Requests}
Dirs   == {Root} \cup OldDirs \cup Threads \X Levels
Files  == Stored \cup Threads
Nodes  == Dirs \cup Files

ASSUME DirectoriesAssumption ==
  /\ MaxPathDepth \in Nat /\ MaxStamp \in Nat
  /\ Dirs \cap Files = {} /\ Stored \cap Threads = {} /\ None \notin Nodes \cup Requests
  /\ DOMAIN InitLink \subseteq ({Root} \cup OldDirs) \X Entries
  /\ \A x \in DOMAIN InitLink : InitLink[x] \in OldDirs \cup Stored
  /\ \A x, y \in DOMAIN InitLink : InitLink[x] = InitLink[y] => x = y
  /\ ({Root} \cup OldDirs) \cap (Threads \X Levels) = {} /\ Root \notin OldDirs
  /\ \A r \in Requests : r.op \in {"WRITE", "RM", "LS"} /\ r.path \in Seq(Names) \ {<<>>}

Paths == {r.path : r \in Requests}

VARIABLES
  link,      \* directory and entry -> file or directory, for the entries there are
  whole,     \* the files that hold all of their upload
  dirMutex,  \* who holds dir_mutex
  mutex,     \* [Paths -> Threads + None]: who holds the version mutex of a path
  pc,        \* the next call of each thread
  req,       \* the request each thread serves
  level,     \* the component of the path create_directories has come to
  fd,        \* the file a WRITE has open
  scan,      \* the directory opendir has opened
  seen,      \* the entries readdir has returned from it
  snap,      \* the entries it had at opendir
  clock      \* the last clock reading

tree      == <<link, whole>>
locks     == <<dirMutex, mutex>>
scanVars  == <<scan, seen, snap>>
vars      == <<tree, locks, pc, req, level, fd, scanVars, clock>>

EndPcs == {"rejected", "refused", "saved", "failed", "removed", "listed", "other"}
Pcs    == EndPcs \cup {"idle", "dirlock", "mkdir", "dirunlock", "dirfail", "lock",
                       "backup", "fopen", "recv", "remove", "unlock",
                       "delete", "opendir", "sweep", "stat", "opendir_ls", "readdir"}

Goto(t, from, to) ==
  /\ pc[t] = from
  /\ pc' = [pc EXCEPT ![t] = to]

Path(t)   == req[t].path
Active(t) == pc[t] \notin EndPcs \cup {"idle"}

-----------------------------------------------------------------------------
(* The file system *)

Lookup(d, e) == IF <<d, e>> \in DOMAIN link THEN link[<<d, e>>] ELSE None

\* What a path denotes: the kernel walks it from the root at each call.
Walk[p \in Seq(Names)] ==
  IF p = <<>> THEN Root ELSE Lookup(Walk[Front(p)], Main(Last(p)))

\* The entries of a directory.
Holds(d) == {x[2] : x \in {y \in DOMAIN link : y[1] = d}}

\* The tree without the entry, or with it.
Without(d, e)    == [x \in DOMAIN link \ {<<d, e>>} |-> link[x]]
With(d, e, node) == [x \in DOMAIN link \cup {<<d, e>>} |->
                       IF x = <<d, e>> THEN node ELSE link[x]]

\* rename(d/e, d/f), which replaces an entry f.
Renamed(d, e, f) == [x \in (DOMAIN link \ {<<d, e>>}) \cup {<<d, f>>} |->
                       IF x = <<d, f>> THEN link[<<d, e>>] ELSE link[x]]

\* remove(dir/e): unlink a file, rmdir a directory, which has to be empty.
RemoveEntry(d, e) ==
  LET node == Lookup(d, e)
  IN  link' = IF node \in Dirs /\ Holds(node) # {} THEN link ELSE Without(d, e)

RemovePath(p) == RemoveEntry(Walk[Front(p)], Main(Last(p)))

-----------------------------------------------------------------------------
(* Requests *)

\* Mutant: the depth is compared before the last separator is counted.
ValidPath_OffByOne(p) == Len(p) - 2 <= MaxPathDepth

\* validate_path: as many separators as MAX_PATH_DEPTH, one less than components.
\* (Absolute paths and those with ".." are rejected in the same way.)
ValidPath(p) == Len(p) - 1 <= MaxPathDepth

Request(t) ==
  \E r \in Requests :
    /\ Goto(t, "idle", IF ~ValidPath(r.path) THEN "rejected"
                       ELSE CASE r.op = "WRITE" -> "dirlock"
                              [] r.op = "RM"    -> "lock"
                              [] r.op = "LS"    -> "stat")
    /\ req' = [req EXCEPT ![t] = r]
    /\ UNCHANGED <<tree, locks, level, fd, scanVars, clock>>

-----------------------------------------------------------------------------
(* create_directories_safe *)

LockDirectories(t) ==
  /\ Goto(t, "dirlock", IF Len(Path(t)) = 1 THEN "dirunlock" ELSE "mkdir")
  /\ dirMutex = None
  /\ dirMutex' = t
  /\ level' = [level EXCEPT ![t] = 1]
  /\ UNCHANGED <<tree, mutex, req, fd, scanVars, clock>>

\* Mutant: EEXIST counts as an error.
MkdirResult_Exclusive(d, e) ==
  IF d \in Dirs /\ Lookup(d, e) = None THEN "made" ELSE "error"

\* mkdir(d/e): EEXIST, for a file as well, counts as success.
MkdirResult(d, e) ==
  IF d \notin Dirs THEN "error" ELSE IF Lookup(d, e) = None THEN "made" ELSE "exists"

\* Mutant: the name of the file itself is made a directory as well.
IsLastDirectory_File(t) == level[t] = Len(Path(t))

\* The directory that holds the file has been reached.
IsLastDirectory(t) == level[t] = Len(Path(t)) - 1

\* One mkdir of create_directories, from the outermost directory inwards.
Mkdir(t) ==
  LET k == level[t]
      d == Walk[SubSeq(Path(t), 1, k - 1)]
      e == Main(Path(t)[k])
  IN  /\ Goto(t, "mkdir", IF MkdirResult(d, e) = "error" THEN "dirfail"
                          ELSE IF IsLastDirectory(t) THEN "dirunlock" ELSE "mkdir")
      /\ link' = IF MkdirResult(d, e) = "made"
                 THEN With(d, e, <<t, k>>) ELSE link
      /\ level' = [level EXCEPT ![t] = k + 1]
      /\ UNCHANGED <<whole, locks, req, fd, scanVars, clock>>

\* Mutant: a failed mkdir returns with dir_mutex locked.
UnlockDirectories_OnSuccess(t) ==
  /\ \/ Goto(t, "dirunlock", "lock") /\ dirMutex' = None
     \/ Goto(t, "dirfail", "refused") /\ UNCHANGED dirMutex
  /\ UNCHANGED <<tree, mutex, req, level, fd, scanVars, clock>>

\* A WRITE whose directories could not be created is given up.
UnlockDirectories(t) ==
  /\ Goto(t, "dirunlock", "lock") \/ Goto(t, "dirfail", "refused")
  /\ dirMutex' = None
  /\ UNCHANGED <<tree, mutex, req, level, fd, scanVars, clock>>

-----------------------------------------------------------------------------
(* WRITE and RM below the version mutex *)

LockVersionMutex(t) ==
  /\ Goto(t, "lock", IF req[t].op = "WRITE" THEN "backup" ELSE "delete")
  /\ mutex[Path(t)] = None
  /\ mutex' = [mutex EXCEPT ![Path(t)] = t]
  /\ UNCHANGED <<tree, dirMutex, req, level, fd, scanVars, clock>>

Release(t) == mutex' = [mutex EXCEPT ![Path(t)] = None]

\* Mutant: no backup.
Backup_Skipped(t) ==
  /\ Goto(t, "backup", "fopen")
  /\ UNCHANGED <<tree, locks, req, level, fd, scanVars, clock>>

\* backup_file: what is there, file or directory, is renamed to its version name.
Backup(t) ==
  LET d == Walk[Front(Path(t))]
      n == Last(Path(t))
  IN  /\ Goto(t, "backup", "fopen")
      /\ IF Lookup(d, Main(n)) = None THEN UNCHANGED <<link, clock>>
         ELSE /\ clock < MaxStamp
              /\ clock' = clock + 1
              /\ link' = Renamed(d, Main(n), <<n, clock'>>)
      /\ UNCHANGED <<whole, locks, req, level, fd, scanVars>>

\* fopen(full_path, "wb") creates the file or truncates the one that is there.
Fopen(t) ==
  LET d    == Walk[Front(Path(t))]
      e    == Main(Last(Path(t)))
      file == IF Lookup(d, e) = None THEN t ELSE Lookup(d, e)
  IN  /\ Goto(t, "fopen", "recv")
      /\ d \in Dirs /\ Lookup(d, e) \notin Dirs
      /\ link' = With(d, e, file)
      /\ whole' = whole \ {file}
      /\ fd' = [fd EXCEPT ![t] = file]
      /\ UNCHANGED <<locks, req, level, scanVars, clock>>

\* It fails if the directory is gone, or a directory has the name by now.
FopenFails(t) ==
  /\ Goto(t, "fopen", "refused")
  /\ Walk[Front(Path(t))] \notin Dirs \/ Walk[Path(t)] \in Dirs
  /\ Release(t)
  /\ UNCHANGED <<tree, dirMutex, req, level, fd, scanVars, clock>>

\* recv_file_data, to the end of the upload or not.
ReceiveFile(t) ==
  /\ \/ Goto(t, "recv", "unlock") /\ whole' = whole \cup {fd[t]}
     \/ Goto(t, "recv", "remove") /\ UNCHANGED whole
  /\ UNCHANGED <<link, locks, req, level, fd, scanVars, clock>>

\* Mutant: a failed upload is left where it is.
RemovePartial_Kept(t) ==
  /\ Goto(t, "remove", "unlock")
  /\ UNCHANGED <<tree, locks, req, level, fd, scanVars, clock>>

\* write_error: remove(full_path), whatever the path leads to by now.
RemovePartial(t) ==
  /\ Goto(t, "remove", "unlock")
  /\ RemovePath(Path(t))
  /\ UNCHANGED <<whole, locks, req, level, fd, scanVars, clock>>

\* delete_single_file; a directory is removed if it is empty.
DeleteMain(t) ==
  /\ Goto(t, "delete", "opendir")
  /\ RemovePath(Path(t))
  /\ UNCHANGED <<whole, locks, req, level, fd, scanVars, clock>>

\* The entries delete_file_versions matches, or LS lists.
Matches(t, e) == req[t].op = "LS" \/ (e[1] = Last(Path(t)) /\ e[2] # 0)

\* opendir, of the directory of a file by RM or of the directory itself by LS.
OpenDirectory(t) ==
  LET d == Walk[IF req[t].op = "LS" THEN Path(t) ELSE Front(Path(t))]
  IN  /\ Goto(t, "opendir", "sweep") \/ Goto(t, "opendir_ls", "readdir")
      /\ d \in Dirs
      /\ scan' = [scan EXCEPT ![t] = d]
      /\ snap' = [snap EXCEPT ![t] = {e \in Holds(d) : Matches(t, e)}]
      /\ seen' = [seen EXCEPT ![t] = {}]
      /\ UNCHANGED <<tree, locks, req, level, fd, clock>>

OpenDirectoryFails(t) ==
  LET d == Walk[IF req[t].op = "LS" THEN Path(t) ELSE Front(Path(t))]
  IN  /\ Goto(t, "opendir", "unlock") \/ Goto(t, "opendir_ls", "other")
      /\ d \notin Dirs
      /\ UNCHANGED <<tree, locks, req, level, fd, scanVars, clock>>

\* readdir returns an entry: RM removes it, by its path; LS prints it.
ReadDirectory(t) ==
  /\ pc[t] \in {"sweep", "readdir"}
  /\ \E e \in Holds(scan[t]) \ seen[t] :
       /\ Matches(t, e)
       /\ seen' = [seen EXCEPT ![t] = @ \cup {e}]
       /\ IF req[t].op = "RM" THEN RemoveEntry(Walk[Front(Path(t))], e)
                              ELSE UNCHANGED link
  /\ UNCHANGED <<whole, locks, pc, req, level, fd, scan, snap, clock>>

\* All that was there at opendir, and still is, has been returned; closedir.
DirectoryEnds(t) ==
  /\ Goto(t, "sweep", "unlock") \/ Goto(t, "readdir", "listed")
  /\ snap[t] \cap Holds(scan[t]) \subseteq seen[t]
  /\ scan' = [scan EXCEPT ![t] = Root]
  /\ seen' = [seen EXCEPT ![t] = {}]
  /\ snap' = [snap EXCEPT ![t] = {}]
  /\ UNCHANGED <<tree, locks, req, level, fd, clock>>

UnlockVersionMutex(t) ==
  /\ Goto(t, "unlock", IF req[t].op = "RM" THEN "removed"
                       ELSE IF fd[t] \in whole THEN "saved" ELSE "failed")
  /\ Release(t)
  /\ UNCHANGED <<tree, dirMutex, req, level, fd, scanVars, clock>>

-----------------------------------------------------------------------------
(* LS *)

\* stat: a directory, or something that RfsStore deals with.
Stat(t) ==
  /\ Goto(t, "stat", IF Walk[Path(t)] \in Dirs THEN "opendir_ls" ELSE "other")
  /\ UNCHANGED <<tree, locks, req, level, fd, scanVars, clock>>

-----------------------------------------------------------------------------

Init ==
  /\ link = InitLink
  /\ whole = Stored
  /\ dirMutex = None
  /\ mutex = [p \in Paths |-> None]
  /\ pc = [t \in Threads |-> "idle"]
  /\ req = [t \in Threads |-> None]
  /\ level = [t \in Threads |-> 1]
  /\ fd = [t \in Threads |-> None]
  /\ scan = [t \in Threads |-> Root]
  /\ seen = [t \in Threads |-> {}]
  /\ snap = [t \in Threads |-> {}]
  /\ clock \in 0 .. MaxStamp
  /\ \A x \in DOMAIN InitLink : x[2][2] <= clock
  /\ clock > 0 => \E x \in DOMAIN InitLink : x[2][2] = clock

Serve(t) ==
  \/ LockDirectories(t) \/ Mkdir(t) \/ UnlockDirectories(t)
  \/ LockVersionMutex(t) \/ Backup(t) \/ Fopen(t) \/ FopenFails(t)
  \/ ReceiveFile(t) \/ RemovePartial(t) \/ UnlockVersionMutex(t)
  \/ DeleteMain(t) \/ OpenDirectory(t) \/ OpenDirectoryFails(t)
  \/ ReadDirectory(t) \/ DirectoryEnds(t)
  \/ Stat(t)

Next ==
  \/ \E t \in Threads : Request(t) \/ Serve(t)
  \/ (\A t \in Threads : pc[t] \in EndPcs) /\ UNCHANGED vars

Spec == Init /\ [][Next]_vars

-----------------------------------------------------------------------------

\* What can be reached from the root, at most one level below the deepest directory.
Reached[k \in Nat] ==
  IF k = 0 THEN {Root}
  ELSE LET above == Reached[k - 1]
       IN  above \cup {link[x] : x \in {y \in DOMAIN link : y[1] \in above}}

Reachable == Reached[MaxPathDepth + 1]

\* The directories no WRITE has put aside.
InPlace[k \in Nat] ==
  IF k = 0 THEN {Root}
  ELSE LET above == InPlace[k - 1]
       IN  above \cup ({link[x] : x \in {y \in DOMAIN link : y[1] \in above /\ y[2][2] = 0}}
                       \cap Dirs)

InPlaceDirs == InPlace[MaxPathDepth]

TypeOK ==
  /\ DOMAIN link \subseteq Dirs \X Entries
  /\ \A x \in DOMAIN link : link[x] \in Nodes
  /\ \A x, y \in DOMAIN link : link[x] = link[y] => x = y
  /\ whole \subseteq Files
  /\ dirMutex \in Threads \cup {None}
  /\ mutex \in [Paths -> Threads \cup {None}]
  /\ pc \in [Threads -> Pcs]
  /\ \A t \in Threads : pc[t] # "idle" => req[t] \in Requests
  /\ fd \in [Threads -> Files \cup {None}]
  /\ scan \in [Threads -> Dirs]
  /\ seen \in [Threads -> SUBSET Entries] /\ snap \in [Threads -> SUBSET Entries]
  /\ level \in [Threads -> Nat]
  /\ \A t \in Threads : pc[t] = "mkdir" => level[t] < Len(Path(t)) /\ dirMutex = t
  /\ clock \in 0 .. MaxStamp

\* However directories are created, removed and put aside, what is in storage stays
\* within reach of a client: a directory that has something in it is never lost, and
\* nothing lies deeper than validate_path allows a request to go.
NothingStranded ==
  \A x \in DOMAIN link : link[x] \in Reachable

\* The two kinds of mutex are never held together, and nobody ends with one, on any
\* error path: whoever waits, waits for a thread that waits for nobody, so every
\* request comes to its end.
LocksGivenBack ==
  /\ dirMutex # None => pc[dirMutex] \in {"mkdir", "dirunlock", "dirfail"}
  /\ \A p \in Paths : mutex[p] # None =>
       pc[mutex[p]] \in {"backup", "fopen", "recv", "remove", "unlock",
                         "delete", "opendir", "sweep"}

\* An RM is removing file f: by its name, or as a version of the name.
Removing(f) ==
  \E t \in Threads :
    /\ req[t] # None /\ req[t].op = "RM"
    /\ \/ pc[t] = "delete" /\ Walk[Path(t)] = f
       \/ pc[t] = "sweep" /\ \E s \in Stamps :
            Lookup(Walk[Front(Path(t))], <<Last(Path(t)), s>>) = f

\* A whole file stays in the tree until an RM of that very file: no RM of a directory
\* above it, no WRITE to a name above it, no failed WRITE takes it away.
WholeFilesKept ==
  [][\A f \in whole : f \in Reachable /\ ~Removing(f) =>
       f \in whole' /\ f \in Reachable']_vars

\* A failed WRITE leaves no partial file at its place ("Partial/corrupted file
\* deleted").  It does leave one if a WRITE to the name of one of its directories has
\* put that directory aside meanwhile: remove(full_path) does not find it then.
PartialsOnlyAside ==
  \A x \in DOMAIN link :
    x[1] \in InPlaceDirs /\ link[x] \in Files \ whole =>
      \E t \in Threads : pc[t] \in {"recv", "remove"} /\ fd[t] = link[x]

ProperPrefix(p, q) == Len(p) < Len(q) /\ p = SubSeq(q, 1, Len(p))

\* Request r can take the place away from a WRITE of path p: it puts a file where p
\* has a directory, removes a directory of p, or creates a directory at p.
Conflicts(r, p) ==
  \/ r.op \in {"WRITE", "RM"} /\ ProperPrefix(r.path, p)
  \/ r.op = "WRITE" /\ ProperPrefix(p, r.path)

\* WRITEs do not disturb each other in creating their directories: one that finds
\* its directories uncreated or its file impossible to open has met a request for
\* the name of one of these directories, or for something below its own name.
RefusedOnlyByConflict ==
  \A t \in Threads :
    pc[t] = "refused" =>
      \E u \in Threads \ {t} : req[u] # None /\ Conflicts(req[u], Path(t))
=============================================================================
