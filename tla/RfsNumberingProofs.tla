------------------------- MODULE RfsNumberingProofs -------------------------
(***************************************************************************)
(* Theorems about the numbers GETVERSION and LS give to versions, for any  *)
(* number of threads, files and versions and with every failure, while     *)
(* WRITEs and RMs go on.                                                   *)
(***************************************************************************)
EXTENDS RfsRetentionProofs, FiniteSetTheorems, FunctionTheorems

\* What numbers depend on: no two backups fall into one second, the clock goes on, the
\* array has room for all versions, and no file has a name that begins like a version
\* of another.
Numberable ==
  /\ PerSecond = 1
  /\ "clock" \notin Faults
  /\ MaxStamp < VersionLimit
  /\ \A n \in Names : Extending[n] = {}

-----------------------------------------------------------------------------
(* The inductive invariant. *)

\* The scan of thread t for GETVERSION or LS has begun.
Scanned(t) ==
  \/ pc[t] = "listed"
  \/ pc[t] = "readdir" /\ Op(t) \in {"GETVERSION", "LS"}
  \/ /\ pc[t] \in {"open", "share", "size", "send", "unshare", "sent", "short"}
     /\ Op(t) = "GETVERSION"

\* A number has been resolved to the target of thread t.
Resolved(t) ==
  /\ pc[t] \in {"open", "share", "size", "send", "unshare", "sent", "short"}
  /\ Op(t) = "GETVERSION"

\* e is younger than all versions that were there at opendir.
Younger(t, e) == \A f \in snap[t] : f[2] < e[2]

\* The array is empty before the scan.
ArrayFresh ==
  \A t \in Threads :
    pc[t] \in {"idle", "stat", "exists_ls", "opendir"} => found[t] = {}

\* The scan of thread t.  What was there at opendir had been named by then, and what came
\* later is younger; the array holds versions, those that were there at opendir and have
\* not been deleted, once it is complete, and perhaps younger ones; the target stands
\* where the number points.
ScanOf(t) ==
  /\ Scanned(t) =>
       /\ snap[t] \subseteq Matching(File(t))
       /\ \A e \in snap[t] : e[2] <= clock
       /\ \A e \in Matching(File(t)) \ snap[t] : dir[e] # None => Younger(t, e)
       /\ found[t] \subseteq Matching(File(t))
       /\ \A e \in found[t] \ snap[t] : Younger(t, e)
       /\ pc[t] # "readdir" => \A e \in snap[t] : dir[e] # None => e \in found[t]
  /\ Resolved(t) =>
       target[t] \in found[t] /\ AtIndex(found[t], target[t], VersionIndex(t))

ScanInv == \A t \in Threads : ScanOf(t)

NumberInv == TypeInv /\ Clocked /\ ArrayFresh /\ ScanInv

-----------------------------------------------------------------------------
(* Versions of one file *)

\* The elements of S that are no younger than e.
UpTo(S, e) == {f \in S : f[2] <= e[2]}

\* Without names that extend n, a scan for n matches the versions of n.
LEMMA MatchesAreVersions ==
  ASSUME Numberable, NEW n \in Names
  PROVE  \A e : e \in Matching(n) <=> e \in Entries /\ e[1] = n /\ e[2] \in Stamps
BY StoreAssumption DEF Numberable, Matching, Entries, Stamps

\* There are finitely many of them.
LEMMA VersionsFinite ==
  ASSUME Numberable, NEW n \in Names, NEW S, S \subseteq Matching(n)
  PROVE  IsFiniteSet(S) /\ Cardinality(S) \in Nat /\ Cardinality(S) <= MaxStamp
<1>1. \A e \in S : e[2] \in 1 .. MaxStamp /\ e = <<n, e[2]>>
  BY MatchesAreVersions DEF Entries, Stamps
<1> DEFINE stamp == [e \in S |-> e[2]]
<1>2. stamp \in Injection(S, 1 .. MaxStamp)
  <2>1. stamp \in [S -> 1 .. MaxStamp] /\ \A a, b \in S : stamp[a] = stamp[b] => a = b
    BY <1>1
  <2> QED
    BY <2>1, Fun_IsInj
<1>3. IsFiniteSet(1 .. MaxStamp) /\ Cardinality(1 .. MaxStamp) = MaxStamp
  BY FS_Interval, StoreAssumption
<1>4. IsFiniteSet(S) /\ Cardinality(S) <= MaxStamp
  BY <1>2, <1>3, FS_Injection
<1> QED
  BY <1>4, FS_CardinalityType

\* What stands at index |S| - k is the k-th oldest element of S.
LEMMA RankOfIndex ==
  ASSUME Numberable, NEW n \in Names, NEW S, S \subseteq Matching(n),
         NEW e \in Entries, e[1] = n, NEW k \in Int,
         AtIndex(S, e, Cardinality(S) - k)
  PROVE  e \in S /\ Cardinality(UpTo(S, e)) = k
<1> DEFINE younger == {f \in S : Second(f) > Second(e)}
           others  == {f \in S : Second(f) >= Second(e)}
<1>1. \A f \in S : f \in Entries /\ f[1] = n /\ f[2] \in Int
  BY MatchesAreVersions DEF Stamps
<1>2. e[2] \in Int
  BY StoreAssumption DEF Entries
<1>3. Second(e) = e[2] /\ \A f \in S : Second(f) = f[2]
  BY <1>1, <1>2 DEF Second, Numberable
<1>4. \A f \in S : f[2] = e[2] => f = e
  BY <1>1 DEF Entries
<1>5. /\ IsFiniteSet(S) /\ IsFiniteSet(younger)
      /\ Cardinality(S) \in Nat /\ Cardinality(younger) \in Nat
      /\ IsFiniteSet(UpTo(S, e)) /\ Cardinality(UpTo(S, e)) \in Nat
  BY VersionsFinite DEF UpTo
<1>6. Cardinality(younger) <= Cardinality(S) - k /\ Cardinality(S) - k < Cardinality(others)
  BY DEF AtIndex
<1>7. e \in S
  <2> SUFFICES ASSUME e \notin S PROVE FALSE
    OBVIOUS
  <2>1. others = younger
    BY <1>1, <1>2, <1>3, <1>4
  <2> QED
    BY <1>5, <1>6, <2>1
<1>8. Cardinality(others) = Cardinality(younger) + 1
  <2>1. others = younger \cup {e} /\ e \notin younger
    BY <1>1, <1>2, <1>3, <1>4, <1>7
  <2> QED
    BY <1>5, <2>1, FS_AddElement
<1>9. Cardinality(S) = Cardinality(younger) + Cardinality(UpTo(S, e))
  <2>1. S = younger \cup UpTo(S, e) /\ younger \cap UpTo(S, e) = {}
    BY <1>1, <1>2, <1>3 DEF UpTo
  <2> HIDE DEF younger
  <2>2. Cardinality(S) = Cardinality(younger) + Cardinality(UpTo(S, e)) - Cardinality({})
    BY <1>5, <2>1, FS_Union
  <2> QED
    BY <1>5, <2>2, FS_EmptySet
<1> HIDE DEF younger, others
<1> QED
  BY <1>5, <1>6, <1>7, <1>8, <1>9

\* Two versions are not of one age.
LEMMA RankIsUnique ==
  ASSUME Numberable, NEW n \in Names, NEW S, S \subseteq Matching(n),
         NEW e \in S, NEW f \in S, Cardinality(UpTo(S, e)) = Cardinality(UpTo(S, f))
  PROVE  e = f
<1>1. \A x \in S : x \in Entries /\ x[1] = n /\ x[2] \in Int
  BY MatchesAreVersions DEF Stamps
<1>2. ASSUME NEW x \in S, NEW y \in S, x[2] < y[2],
             Cardinality(UpTo(S, x)) = Cardinality(UpTo(S, y))
      PROVE  FALSE
  <2>1. UpTo(S, x) \subseteq UpTo(S, y)
    BY <1>1, <1>2 DEF UpTo
  <2>2. y \in UpTo(S, y) /\ y \notin UpTo(S, x)
    BY <1>1, <1>2 DEF UpTo
  <2>3. IsFiniteSet(UpTo(S, y))
    BY VersionsFinite DEF UpTo
  <2> QED
    BY <1>2, <2>1, <2>2, <2>3, FS_Subset
<1>3. e[2] = f[2]
  BY <1>1, <1>2
<1> QED
  BY <1>1, <1>3 DEF Entries

-----------------------------------------------------------------------------
(* Steps *)

\* A version that comes to be is younger than all readings of the clock before.
LEMMA NewVersionsAreYoung ==
  ASSUME Numberable, TypeInv, NEW u \in Threads, Step(u)
  PROVE  /\ clock <= clock'
         /\ \A e \in Entries :
              e[2] # 0 /\ dir[e] = None /\ dir'[e] # None => clock < e[2]
<1>a. TypeOK /\ clock \in Int
  BY StoreAssumption DEF TypeInv, TypeOK
<1>1. CASE BackupRename(u)
  <2>1. pc[u] = "rename"
    BY <1>1 DEF BackupRename, Goto
  <2>2. FullPath(u) \in Entries /\ FullPath(u)[2] = 0
    BY <2>1, RequestTyping DEF FullPath, Main
  <2>3. PICK s \in Stamps :
          /\ s = clock + 1 /\ clock' = s
          /\ \/ UNCHANGED dir
             \/ dir' = [dir EXCEPT ![FullPath(u)] = None,
                                   ![Version(File(u), s)] = dir[FullPath(u)]]
    BY <1>1 DEF BackupRename, Readings, Numberable
  <2>4. Version(File(u), s) \in Entries /\ Version(File(u), s)[2] = s
    BY <2>1, RequestTyping, StoreAssumption DEF Version, Entries, Stamps
  <2>5. \A e \in Entries : e # Version(File(u), s) => dir'[e] \in {dir[e], None}
    BY <2>2, <2>3, <2>4, <1>a DEF TypeOK
  <2> QED
    BY <2>3, <2>4, <2>5, <1>a
<1>2. CASE FopenForWrite(u)
  <2>1. pc[u] = "fopen" /\ UNCHANGED clock
    BY <1>2 DEF FopenForWrite, Goto, serverVars
  <2>2. FullPath(u) \in Entries /\ FullPath(u)[2] = 0
    BY <2>1, RequestTyping DEF FullPath, Main
  <2>3. \A e \in Entries : e # FullPath(u) => dir'[e] = dir[e]
    BY <1>2, <1>a DEF FopenForWrite, TypeOK
  <2> QED
    BY <2>1, <2>2, <2>3, <1>a
<1>3. CASE RemovePartial(u) \/ DeleteMain(u) \/ DeleteVersion(u)
  <2>1. \A e \in Entries : dir'[e] # None => dir[e] # None
    BY <1>3, <1>a DEF RemovePartial, RemovePartialFails, DeleteMain, DeleteMainFails,
         DeleteVersion, DeleteVersionFails, TypeOK
  <2>2. UNCHANGED clock
    BY <1>3 DEF RemovePartial, RemovePartialFails, DeleteMain, DeleteMainFails,
         DeleteVersion, DeleteVersionFails, serverVars
  <2> QED
    BY <2>1, <2>2, <1>a
<1>4. CASE UNCHANGED <<dir, clock>>
  BY <1>4, <1>a
<1> QED
  BY <1>1, <1>2, <1>3, <1>4, OnlyTheseWrite

\* What a thread that has begun its scan has done in its last step.
LEMMA ScanGoesOn ==
  ASSUME TypeInv, NEW t \in Threads, Step(t), Scanned(t)'
  PROVE  \/ OpenDirectory(t)
         \/ ListVersion(t)
         \/ ResolveVersion(t)
         \/ DisplayVersions(t)
         \/ /\ Scanned(t) /\ pc[t] # "readdir" /\ pc'[t] # "readdir"
            /\ UNCHANGED <<req, snap, found, target>>
            /\ Resolved(t)' => Resolved(t)
<1> USE DEF Scanned, Resolved, Goto, Op, TypeInv, TypeOK, fsVars, writeVars, scanVars,
            serverVars
<1>1. ~Accept(t) /\ ~Drop(t)
  <2>1. ASSUME Accept(t) PROVE FALSE
    <3>1. PICK r \in Requests :
            /\ pc' = [pc EXCEPT ![t] = CASE r.op \in {"WRITE", "RM"} -> "lock"
                                         [] r.op = "GET"             -> "open"
                                         [] r.op = "GETVERSION"      -> "opendir"
                                         [] r.op = "LS"              -> "stat"]
            /\ req' = [req EXCEPT ![t] = r]
      BY <2>1 DEF Accept
    <3>2. r.op \in Ops
      BY StoreAssumption
    <3>3. pc'[t] \in {"lock", "opendir", "stat"} \/ r.op = "GET"
      BY <3>1, <3>2 DEF Ops
    <3> QED
      BY <3>1, <3>3
  <2>2. ~Drop(t)
    BY DEF Drop
  <2> QED
    BY <2>1, <2>2
<1>2. ~WriteStep(t)
  BY DEF WriteStep, BackupExists, BackupRename, BackupRenameFails, FopenForWrite,
       FopenFails, FlockExclusive, FlockExclusiveFails, RecvFileData, RecvFails, UnlockFile,
       Fclose, RemovePartial, RemovePartialFails
<1>3. /\ ~LockVersionMutex(t) /\ ~UnlockVersionMutex(t) /\ ~OpenDirectoryFails(t)
      /\ ~RmStep(t)
  BY DEF LockVersionMutex, UnlockVersionMutex, OpenDirectoryFails, RmStep, DeleteMain,
       DeleteMainFails, DeleteVersion, DeleteVersionFails, SweepEnds
<1>4. ~LsStat(t) /\ ~LsExists(t) /\ ~NoSuchVersion(t)
  BY DEF LsStat, LsExists, NoSuchVersion
<1>5. CASE ReadStep(t) \/ Sending(t)
  BY <1>5 DEF ReadStep, Sending, FopenForRead, FlockShared, FlockSharedFails, SendFileSize,
       SendFileData, SendFails, CloseRead
<1> QED
  BY <1>1, <1>2, <1>3, <1>4, <1>5 DEF Step, Serve, VersionStep, LsStep

\* Nobody fills the array of a thread before its scan.
LEMMA ArrayFreshStep ==
  ASSUME TypeInv, ArrayFresh, NEW u \in Threads, Step(u)
  PROVE  ArrayFresh'
<1>a. TypeOK
  BY DEF TypeInv
<1>1. ASSUME NEW t \in Threads \ {u}, pc'[t] \in {"idle", "stat", "exists_ls", "opendir"}
      PROVE  found'[t] = {}
  BY <1>a, <1>1, OthersStay DEF ArrayFresh
<1>2. /\ found'[u] = found[u] \/ ListVersion(u)
      /\ pc'[u] \in {"idle", "stat", "exists_ls", "opendir"} =>
           pc[u] \in {"idle", "stat", "exists_ls"} \/ ListVersion(u)
  <2> USE <1>a DEF Goto, TypeOK, fsVars, writeVars, scanVars, serverVars
  <2>1. CASE Accept(u) \/ Drop(u)
    BY <2>1 DEF Accept, Drop
  <2>2. CASE WriteStep(u)
    BY <2>2 DEF WriteStep, BackupExists, BackupRename, BackupRenameFails, FopenForWrite,
         FopenFails, FlockExclusive, FlockExclusiveFails, RecvFileData, RecvFails,
         UnlockFile, Fclose, RemovePartial, RemovePartialFails
  <2>3. CASE LockVersionMutex(u) \/ UnlockVersionMutex(u) \/ OpenDirectory(u)
             \/ OpenDirectoryFails(u) \/ RmStep(u)
    BY <2>3 DEF LockVersionMutex, UnlockVersionMutex, OpenDirectory, OpenDirectoryFails,
         RmStep, DeleteMain, DeleteMainFails, DeleteVersion, DeleteVersionFails, SweepEnds
  <2>4. CASE VersionStep(u) \/ LsStep(u)
    BY <2>4 DEF VersionStep, LsStep, ResolveVersion, NoSuchVersion, LsStat, LsExists,
         DisplayVersions
  <2>5. CASE ReadStep(u) \/ Sending(u)
    BY <2>5 DEF ReadStep, Sending, FopenForRead, FlockShared, FlockSharedFails, SendFileSize,
         SendFileData, SendFails, CloseRead
  <2> QED
    BY <1>a, <2>1, <2>2, <2>3, <2>4, <2>5 DEF Step, Serve
<1>3. ListVersion(u) => pc'[u] = "readdir"
  BY DEF ListVersion
<1>4. pc'[u] \in {"idle", "stat", "exists_ls", "opendir"} => found'[u] = {}
  BY <1>2, <1>3 DEF ArrayFresh
<1> QED
  BY <1>1, <1>4 DEF ArrayFresh

\* The name a thread has been asked for.
LEMMA ScannedFile ==
  ASSUME Numberable, TypeInv, NEW t \in Threads, Scanned(t)
  PROVE  /\ File(t) \in Names
         /\ \A e : e \in Matching(File(t)) <=>
                     e \in Entries /\ e[1] = File(t) /\ e[2] \in Stamps
<1>1. File(t) \in Names
  BY RequestTyping DEF Scanned
<1> QED
  BY <1>1, MatchesAreVersions

\* A step that changes nothing a thread has seen changes nothing for it: what was gone
\* stays gone, and what comes is younger.
LEMMA ScanUndisturbed ==
  ASSUME Numberable, TypeInv, NEW u \in Threads, Step(u), NEW t \in Threads, ScanOf(t),
         UNCHANGED <<snap[t], found[t], target[t], req[t]>>,
         Scanned(t)' => Scanned(t),
         Resolved(t)' => Resolved(t),
         pc[t] = "readdir" => pc'[t] = "readdir"
  PROVE  ScanOf(t)'
<1> SUFFICES ASSUME Scanned(t)' PROVE ScanOf(t)'
  BY DEF ScanOf, Scanned, Resolved
<1>1. Scanned(t) /\ File(t)' = File(t)
  BY DEF File
<1>2. clock \in Int /\ clock' \in Int /\ clock <= clock'
  <2>1. TypeOK /\ TypeOK'
    BY NextTypeInv DEF Next, Step, TypeInv
  <2>2. clock \in Int /\ clock' \in Int
    BY <2>1, StoreAssumption DEF TypeOK
  <2> QED
    BY <2>2, NewVersionsAreYoung
<1>3. \A e \in Matching(File(t)) :
        /\ e[2] \in Int
        /\ dir[e] = None /\ dir'[e] # None => clock < e[2]
  BY <1>1, ScannedFile, NewVersionsAreYoung DEF Stamps
<1>4. \A e \in snap[t] : e[2] <= clock' /\ (dir'[e] # None => dir[e] # None)
  BY <1>1, <1>2, <1>3 DEF ScanOf
<1>5. \A e \in Matching(File(t)) \ snap[t] : dir'[e] # None => Younger(t, e)
  <2> SUFFICES ASSUME NEW e \in Matching(File(t)) \ snap[t], dir'[e] # None, dir[e] = None,
                      NEW f \in snap[t]
               PROVE  f[2] < e[2]
    BY <1>1 DEF ScanOf, Younger
  <2>1. f[2] <= clock /\ clock < e[2] /\ f[2] \in Int /\ e[2] \in Int
    BY <1>1, <1>3 DEF ScanOf
  <2> QED
    BY <1>2, <2>1
<1>6. \A e : Younger(t, e)' <=> Younger(t, e)
  BY DEF Younger
<1>7. Matching(File(t))' = Matching(File(t))
  BY <1>1 DEF Matching
<1>8. Resolved(t)' =>
        (target[t] \in found[t] /\ AtIndex(found[t], target[t], VersionIndex(t)))'
  BY DEF ScanOf, AtIndex, VersionIndex, Second
<1> QED
  BY <1>1, <1>4, <1>5, <1>6, <1>7, <1>8 DEF ScanOf, Scanned

\* The thread itself scans, sorts and opens.
LEMMA ScanStep ==
  ASSUME Numberable, TypeInv, Clocked, ArrayFresh, NEW t \in Threads, Step(t), ScanOf(t)
  PROVE  ScanOf(t)'
<1> SUFFICES ASSUME Scanned(t)' PROVE ScanOf(t)'
  BY DEF ScanOf, Scanned, Resolved
<1>a. TypeOK
  BY DEF TypeInv
<1>1. CASE OpenDirectory(t)
  <2>1. /\ pc[t] = "opendir" /\ pc'[t] = "readdir"
        /\ snap'[t] = {e \in Matching(File(t)) : dir[e] # None}
        /\ UNCHANGED <<dir, req, found, clock>>
    BY <1>1, <1>a DEF OpenDirectory, OpenDirectoryFails, Goto, fsVars, serverVars, Scanned,
         TypeOK
  <2>2. File(t)' = File(t) /\ Matching(File(t))' = Matching(File(t))
    BY <2>1 DEF File, Matching
  <2>3. found'[t] = {}
    BY <2>1 DEF ArrayFresh
  <2>4. ~Resolved(t)'
    BY <2>1 DEF Resolved
  <2>5. \A e \in snap'[t] : e[2] <= clock'
    BY <2>1, <2>2 DEF Clocked, Matching
  <2> QED
    BY <2>1, <2>2, <2>3, <2>4, <2>5 DEF ScanOf
<1>2. CASE ListVersion(t)
  <2>1. /\ pc[t] = "readdir" /\ UNCHANGED <<pc, dir, req, snap, clock>>
        /\ \E e \in Matching(File(t)) : dir[e] # None /\ found'[t] = found[t] \cup {e}
    BY <1>2, <1>a DEF ListVersion, fsVars, serverVars, TypeOK
  <2>2. /\ File(t)' = File(t) /\ Matching(File(t))' = Matching(File(t))
        /\ \A e : Younger(t, e)' <=> Younger(t, e)
    BY <2>1 DEF File, Matching, Younger
  <2>3. Scanned(t) /\ ~Resolved(t)'
    BY <2>1 DEF Scanned, Resolved, Op
  <2> QED
    BY <2>1, <2>2, <2>3 DEF ScanOf
<1>3. CASE ResolveVersion(t) \/ DisplayVersions(t)
  <2>1. /\ pc[t] = "readdir" /\ pc'[t] \in {"open", "listed"} /\ ScanComplete(t)
        /\ Op(t) \in {"GETVERSION", "LS"}
        /\ UNCHANGED <<dir, req, snap, found, clock>>
    BY <1>3, <1>a DEF ResolveVersion, DisplayVersions, Goto, fsVars, scanVars, serverVars,
       TypeOK
  <2>2. /\ File(t)' = File(t) /\ Matching(File(t))' = Matching(File(t))
        /\ \A e : Younger(t, e)' <=> Younger(t, e)
    BY <2>1 DEF File, Matching, Younger
  <2>3. Scanned(t)
    BY <2>1 DEF Scanned, Op
  <2>4. Cardinality(found[t]) # VersionLimit
    <3>1. Cardinality(found[t]) \in Nat /\ Cardinality(found[t]) <= MaxStamp
      BY <2>3, ScannedFile, VersionsFinite DEF ScanOf
    <3> QED
      BY <3>1, StoreAssumption DEF Numberable
  <2>5. \A e \in snap[t] : dir[e] # None => e \in found[t]
    BY <2>1, <2>4 DEF ScanComplete
  <2>6. Resolved(t)' =>
          (target[t] \in found[t] /\ AtIndex(found[t], target[t], VersionIndex(t)))'
    <3>1. CASE DisplayVersions(t)
      BY <3>1, <1>a DEF DisplayVersions, Goto, TypeOK, Resolved
    <3>2. CASE ResolveVersion(t)
      <4>1. PICK e \in found[t] :
              AtIndex(found[t], e, VersionIndex(t)) /\ target' = [target EXCEPT ![t] = e]
        BY <3>2 DEF ResolveVersion
      <4>2. target'[t] = e
        BY <4>1, <1>a DEF TypeOK
      <4> QED
        BY <2>1, <4>1, <4>2 DEF AtIndex, VersionIndex, Second
    <3> QED
      BY <1>3, <3>1, <3>2
  <2> QED
    BY <2>1, <2>2, <2>3, <2>5, <2>6 DEF ScanOf
<1>4. CASE /\ Scanned(t) /\ pc[t] # "readdir" /\ pc'[t] # "readdir"
           /\ UNCHANGED <<req, snap, found, target>>
           /\ Resolved(t)' => Resolved(t)
  BY <1>4, ScanUndisturbed
<1> QED
  BY <1>1, <1>2, <1>3, <1>4, ScanGoesOn

\* At first nobody has scanned anything.
LEMMA InitNumber == Init => NumberInv
<1> SUFFICES ASSUME Init PROVE NumberInv
  OBVIOUS
<1>1. TypeInv /\ Clocked
  BY InitClocked DEF KeepInv
<1>2. ArrayFresh /\ ScanInv
  BY DEF Init, ArrayFresh, ScanInv, ScanOf, Scanned, Resolved
<1> QED
  BY <1>1, <1>2 DEF NumberInv

LEMMA NextNumber ==
  ASSUME Numberable
  PROVE  NumberInv /\ [Next]_vars => NumberInv'
<1> SUFFICES ASSUME NumberInv, [Next]_vars PROVE NumberInv'
  OBVIOUS
<1>1. TypeInv /\ TypeInv'
  BY NextTypeInv DEF NumberInv
<1>2. ASSUME NEW u \in Threads, Step(u) PROVE NumberInv'
  <2>1. Clocked' /\ ArrayFresh'
    BY <1>1, <1>2, ClockedStep, ArrayFreshStep DEF NumberInv, Numberable
  <2>2. ASSUME NEW t \in Threads PROVE ScanOf(t)'
    <3>1. CASE t = u
      BY <1>1, <1>2, <3>1, ScanStep DEF NumberInv, ScanInv
    <3>2. CASE t # u
      <4>1. UNCHANGED <<pc[t], snap[t], found[t], target[t], req[t]>>
        BY <1>1, <1>2, <3>2, OthersStay DEF TypeInv
      <4>2. (Scanned(t)' => Scanned(t)) /\ (Resolved(t)' => Resolved(t))
        BY <4>1 DEF Scanned, Resolved, Op
      <4> QED
        BY <1>1, <1>2, <4>1, <4>2, ScanUndisturbed DEF NumberInv, ScanInv
    <3> QED
      BY <3>1, <3>2
  <2> QED
    BY <1>1, <2>1, <2>2 DEF NumberInv, ScanInv
<1>3. CASE ServerExits
  <2>1. UNCHANGED <<dir, req, target, clock, snap, found>>
    BY <1>3 DEF ServerExits, fsVars, scanVars
  <2>2. /\ \A t \in Threads : pc'[t] \in {pc[t], "killed"}
        /\ \A t \in Threads : pc'[t] = "readdir" => pc[t] = "readdir"
        /\ \A t \in Threads : pc[t] = "readdir" => pc'[t] = "killed"
    BY <1>1, <1>3 DEF ServerExits, Active, EndPcs, TypeInv, TypeOK
  <2>3. Clocked' /\ ArrayFresh'
    BY <2>1, <2>2 DEF NumberInv, Clocked, ArrayFresh
  <2>4. ASSUME NEW t \in Threads PROVE ScanOf(t)'
    <3>1. /\ Scanned(t)' => Scanned(t) /\ pc'[t] = pc[t]
          /\ Resolved(t)' => Resolved(t)
      BY <2>1, <2>2 DEF Scanned, Resolved, Op
    <3>2. UNCHANGED <<File(t), Matching(File(t)), VersionIndex(t)>>
      BY <2>1 DEF File, Matching, VersionIndex
    <3>3. \A e : Younger(t, e)' <=> Younger(t, e)
      BY <2>1 DEF Younger
    <3> QED
      BY <2>1, <3>1, <3>2, <3>3 DEF NumberInv, ScanInv, ScanOf, AtIndex, Second
  <2> QED
    BY <1>1, <2>3, <2>4 DEF NumberInv, ScanInv
<1>4. CASE UNCHANGED vars
  <2>1. UNCHANGED <<dir, req, target, clock, snap, found, pc>>
    BY <1>4 DEF vars
  <2>2. Clocked' /\ ArrayFresh'
    BY <2>1 DEF NumberInv, Clocked, ArrayFresh
  <2>3. ASSUME NEW t \in Threads PROVE ScanOf(t)'
    <3>1. UNCHANGED <<Scanned(t), Resolved(t), File(t), Matching(File(t)), VersionIndex(t)>>
      BY <2>1 DEF Scanned, Resolved, Op, File, Matching, VersionIndex
    <3>2. \A e : Younger(t, e)' <=> Younger(t, e)
      BY <2>1 DEF Younger
    <3> QED
      BY <2>1, <3>1, <3>2 DEF NumberInv, ScanInv, ScanOf, AtIndex, Second
  <2> QED
    BY <1>1, <2>2, <2>3 DEF NumberInv, ScanInv
<1> QED
  BY <1>2, <1>3, <1>4 DEF Next, Step, Terminating

-----------------------------------------------------------------------------
(* Numbers *)

\* The number resolved to a version is its rank in the array.
LEMMA TargetRank ==
  ASSUME Numberable, NumberInv, NEW t \in Threads, Resolved(t)
  PROVE  /\ target[t] \in found[t]
         /\ Cardinality(UpTo(found[t], target[t])) = req[t].num
<1>1. TypeInv /\ Scanned(t) /\ ScanOf(t)
  BY DEF NumberInv, ScanInv, Resolved, Scanned
<1>2. File(t) \in Names /\ found[t] \subseteq Matching(File(t))
  BY <1>1, ScannedFile DEF ScanOf
<1>3. /\ target[t] \in found[t]
      /\ AtIndex(found[t], target[t], Cardinality(found[t]) - req[t].num)
  BY <1>1 DEF ScanOf, VersionIndex
<1>4. target[t] \in Entries /\ target[t][1] = File(t)
  BY <1>1, <1>2, <1>3, ScannedFile
<1>5. req[t].num \in Int
  BY <1>1, RequestTyping, StoreAssumption DEF Scanned
<1> QED
  BY <1>2, <1>3, <1>4, <1>5, RankOfIndex

\* What is listed as number k is the k-th oldest version of the array.
LEMMA DisplayedRank ==
  ASSUME Numberable, NumberInv, NEW l \in Threads, Scanned(l),
         NEW e \in snap[l], NEW k \in Int, DisplayedAs(l, e, k)
  PROVE  e \in found[l] /\ Cardinality(UpTo(found[l], e)) = k
<1>1. ScanOf(l) /\ TypeInv
  BY DEF NumberInv, ScanInv
<1>2. File(l) \in Names /\ found[l] \subseteq Matching(File(l))
  BY <1>1, ScannedFile DEF ScanOf
<1>3. e \in Entries /\ e[1] = File(l)
  BY <1>1, ScannedFile DEF ScanOf
<1> QED
  BY <1>2, <1>3, RankOfIndex DEF DisplayedAs

\* As long as nothing is deleted, the array of a complete scan is what was there at
\* opendir, followed by younger versions.
LEMMA ScanOrder ==
  ASSUME Numberable, NumberInv, NEW t \in Threads, Scanned(t), pc[t] # "readdir",
         \A e \in snap[t] : dir[e] # None
  PROVE  /\ snap[t] \subseteq found[t]
         /\ \A e \in snap[t], f \in found[t] : f[2] <= e[2] => f \in snap[t]
<1>1. ScanOf(t) /\ TypeInv
  BY DEF NumberInv, ScanInv
<1>2. snap[t] \subseteq found[t]
  BY <1>1 DEF ScanOf
<1>3. \A f \in found[t] : f[2] \in Int
  BY <1>1, ScannedFile DEF ScanOf, Stamps
<1>4. \A e \in snap[t], f \in found[t] \ snap[t] : e[2] < f[2]
  BY <1>1 DEF ScanOf, Younger
<1> QED
  BY <1>2, <1>3, <1>4

-----------------------------------------------------------------------------
(* GETVERSION *)

\* The versions of a file up to one of them are as many as their stamps.
LEMMA StampsOfVersions ==
  ASSUME Numberable, NEW n \in Names, NEW S, S \subseteq Matching(n), NEW m \in Stamps,
         \A s \in 1 .. m : Version(n, s) \in S <=> dir[Version(n, s)] # None
  PROVE  Cardinality({f \in S : f[2] <= m})
           = Cardinality({s \in 1 .. m : dir[Version(n, s)] # None})
<1> DEFINE V == {f \in S : f[2] <= m}
           T == {s \in 1 .. m : dir[Version(n, s)] # None}
           stamp == [f \in V |-> f[2]]
<1>1. \A f \in S : f \in Entries /\ f[2] \in Stamps /\ f = Version(n, f[2])
  BY MatchesAreVersions DEF Entries, Version
<1>2. m \in Nat
  BY StoreAssumption DEF Stamps
<1>3. \A f \in V : f[2] \in T
  BY <1>1, <1>2 DEF Stamps
<1>4. \A s \in T : Version(n, s) \in V /\ Version(n, s)[2] = s
  BY <1>2 DEF Version
<1>5. stamp \in Bijection(V, T)
  <2>1. stamp \in [V -> T]
    BY <1>3
  <2>2. \A a, b \in V : stamp[a] = stamp[b] => a = b
    BY <1>1
  <2>3. \A s \in T : \E f \in V : stamp[f] = s
    BY <1>4
  <2> HIDE DEF stamp, V, T
  <2>4. stamp \in Injection(V, T)
    BY <2>1, <2>2, Fun_IsInj
  <2>5. stamp \in Surjection(V, T)
    BY <2>1, <2>3, Fun_IsSurj
  <2> QED
    BY <2>4, <2>5 DEF Bijection
<1>6. IsFiniteSet(V)
  BY VersionsFinite
<1> HIDE DEF V, T, stamp
<1>7. Cardinality(V) = Cardinality(T)
  BY <1>5, <1>6, FS_Bijection DEF ExistsBijection
<1> QED
  BY <1>7 DEF V, T

LEMMA NumberedVersionHolds ==
  ASSUME Numberable
  PROVE  NumberInv => NumberedVersion
<1> SUFFICES ASSUME NumberInv, NEW t \in Threads,
                    pc[t] \in {"open", "share", "size", "send", "unshare"},
                    Op(t) = "GETVERSION",
                    req[t].num <= Cardinality(snap[t]),
                    \A e \in snap[t] : dir[e] # None
             PROVE  Cardinality({s \in 1 .. target[t][2] : dir[Version(File(t), s)] # None})
                      = req[t].num
  BY DEF NumberedVersion
<1> DEFINE e == target[t]
<1>1. TypeInv /\ Resolved(t) /\ Scanned(t) /\ ScanOf(t) /\ pc[t] # "readdir"
  BY DEF NumberInv, ScanInv, Resolved, Scanned
<1>2. File(t) \in Names
  BY <1>1, ScannedFile
<1>3. /\ snap[t] \subseteq found[t]
      /\ \A x \in snap[t], f \in found[t] : f[2] <= x[2] => f \in snap[t]
  BY <1>1, ScanOrder
<1>4. e \in found[t] /\ Cardinality(UpTo(found[t], e)) = req[t].num
  BY <1>1, TargetRank
<1>5. /\ found[t] \subseteq Matching(File(t)) /\ snap[t] \subseteq Matching(File(t))
      /\ \A f \in found[t] : f[2] \in Stamps /\ f[2] \in Int
      /\ \A f \in found[t] \ snap[t], x \in snap[t] : x[2] < f[2]
  BY <1>1, ScannedFile, StoreAssumption DEF ScanOf, Younger, Stamps
<1>6. /\ IsFiniteSet(snap[t]) /\ Cardinality(snap[t]) \in Nat
      /\ IsFiniteSet(UpTo(found[t], e)) /\ Cardinality(UpTo(found[t], e)) \in Nat
  BY <1>2, <1>5, VersionsFinite DEF UpTo
<1>7. e \in snap[t]
  <2> SUFFICES ASSUME e \notin snap[t] PROVE FALSE
    OBVIOUS
  <2>1. snap[t] \subseteq UpTo(found[t], e) /\ e \in UpTo(found[t], e)
    BY <1>3, <1>4, <1>5 DEF UpTo
  <2>2. Cardinality(snap[t]) < Cardinality(UpTo(found[t], e))
    BY <1>6, <2>1, FS_Subset
  <2> QED
    BY <1>4, <1>6, <2>2
<1>8. UpTo(found[t], e) = {f \in snap[t] : f[2] <= e[2]}
  BY <1>3, <1>7 DEF UpTo
<1>9. \A s \in 1 .. e[2] :
        Version(File(t), s) \in snap[t] <=> dir[Version(File(t), s)] # None
  <2> SUFFICES ASSUME NEW s \in 1 .. e[2], dir[Version(File(t), s)] # None,
                      Version(File(t), s) \notin snap[t]
               PROVE  FALSE
    OBVIOUS
  <2>1. s \in Stamps /\ s \in Int /\ e[2] \in Int /\ s <= e[2]
    BY <1>4, <1>5, StoreAssumption DEF Stamps
  <2>2. /\ Version(File(t), s) \in Entries
        /\ Version(File(t), s)[1] = File(t) /\ Version(File(t), s)[2] = s
    BY <1>2, <2>1, StoreAssumption DEF Version, Entries, Stamps
  <2>3. Version(File(t), s) \in Matching(File(t)) \ snap[t]
    BY <1>1, <2>1, <2>2, ScannedFile
  <2>4. Younger(t, Version(File(t), s))
    BY <1>1, <2>3 DEF ScanOf
  <2>5. e[2] < s
    BY <1>7, <2>2, <2>4 DEF Younger
  <2> QED
    BY <2>1, <2>5
<1>10. Cardinality({f \in snap[t] : f[2] <= e[2]})
         = Cardinality({s \in 1 .. e[2] : dir[Version(File(t), s)] # None})
  BY <1>2, <1>4, <1>5, <1>9, StampsOfVersions
<1> QED
  BY <1>4, <1>8, <1>10

\* The number k given to GETVERSION selects the k-th oldest version of the file, among
\* those that were there when the scan began and have not been deleted, whatever WRITEs
\* have added since, for any number of threads and with every failure.
THEOREM StoredNumbersAreAges == Numberable /\ Spec => []NumberedVersion
<1> SUFFICES ASSUME Numberable PROVE Spec => []NumberedVersion
  OBVIOUS
<1>1. Init => NumberInv
  BY InitNumber
<1>2. NumberInv /\ [Next]_vars => NumberInv'
  BY NextNumber
<1>3. NumberInv => NumberedVersion
  BY NumberedVersionHolds
<1> QED
  BY <1>1, <1>2, <1>3, PTL DEF Spec

-----------------------------------------------------------------------------
(* LS, then GETVERSION *)

LEMMA ListingAgreesHolds ==
  ASSUME Numberable
  PROVE  NumberInv => ListingAgrees
<1> SUFFICES ASSUME NumberInv, NEW l \in Threads, NEW t \in Threads,
                    pc[l] = "listed",
                    pc[t] \in {"open", "share", "size", "send", "unshare"},
                    Op(t) = "GETVERSION", File(t) = File(l),
                    found[l] \subseteq snap[t],
                    \A e \in snap[t] : dir[e] # None,
                    NEW e \in snap[l], DisplayedAs(l, e, req[t].num)
             PROVE  target[t] = e
  BY DEF ListingAgrees
<1>1. /\ TypeInv /\ ScanOf(l) /\ ScanOf(t)
      /\ Resolved(t) /\ Scanned(t) /\ pc[t] # "readdir"
  BY DEF NumberInv, ScanInv, Resolved, Scanned
<1>2. Scanned(l)
  BY <1>1 DEF NumberInv, Scanned
<1>3. File(t) \in Names /\ req[t].num \in Int
  BY <1>1, RequestTyping, StoreAssumption DEF Scanned
<1>4. e \in found[l] /\ Cardinality(UpTo(found[l], e)) = req[t].num
  BY <1>2, <1>3, DisplayedRank
<1>5. target[t] \in found[t] /\ Cardinality(UpTo(found[t], target[t])) = req[t].num
  BY <1>1, TargetRank
<1>6. /\ snap[t] \subseteq found[t]
      /\ \A x \in snap[t], f \in found[t] : f[2] <= x[2] => f \in snap[t]
  BY <1>1, ScanOrder
<1>7. UpTo(found[l], e) = UpTo(found[t], e)
  <2>1. UpTo(found[l], e) \subseteq UpTo(found[t], e)
    BY <1>6 DEF UpTo
  <2>2. ASSUME NEW f \in found[t], f[2] <= e[2] PROVE f \in found[l]
    <3>1. f \in snap[t] /\ dir[f] # None
      BY <1>4, <1>6, <2>2
    <3>2. f \in Matching(File(l)) /\ f[2] \in Int /\ e[2] \in Int
      BY <1>1, <1>2, <1>4, <3>1, ScannedFile DEF ScanOf, Stamps
    <3>3. f \in snap[l]
      <4> SUFFICES ASSUME f \notin snap[l] PROVE FALSE
        OBVIOUS
      <4>1. e[2] < f[2]
        BY <1>1, <1>2, <3>1, <3>2 DEF ScanOf, Younger
      <4> QED
        BY <2>2, <3>2, <4>1
    <3> QED
      BY <1>1, <1>2, <3>1, <3>3 DEF ScanOf
  <2> QED
    BY <2>1, <2>2 DEF UpTo
<1>8. e \in found[t] /\ found[t] \subseteq Matching(File(t))
  BY <1>1, <1>4, <1>6 DEF ScanOf
<1> QED
  BY <1>3, <1>4, <1>5, <1>7, <1>8, RankIsUnique

\* A version number read off a listing can be given to GETVERSION: what LS has displayed
\* as number k is what a later GETVERSION resolves k to, whatever WRITEs happen before,
\* between and during the two, as long as nothing is deleted.
THEOREM ListedNumbersResolve == Numberable /\ Spec => []ListingAgrees
<1> SUFFICES ASSUME Numberable PROVE Spec => []ListingAgrees
  OBVIOUS
<1>1. Init => NumberInv
  BY InitNumber
<1>2. NumberInv /\ [Next]_vars => NumberInv'
  BY NextNumber
<1>3. NumberInv => ListingAgrees
  BY ListingAgreesHolds
<1> QED
  BY <1>1, <1>2, <1>3, PTL DEF Spec

=============================================================================
