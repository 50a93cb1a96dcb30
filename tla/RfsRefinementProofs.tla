------------------------ MODULE RfsRefinementProofs ------------------------
(***************************************************************************)
(* The handlers implement the promise of VersionedFiles: a theorem for any *)
(* number of threads, files and versions, whichever calls fail.            *)
(***************************************************************************)
EXTENDS RfsRetentionProofs

\* What the mapping needs of the environment: the spellings of a file share a mutex, the
\* clock goes on, no file name extends another by ".v", and the process does not end (it
\* would end the sessions of all files at once).
Ordinary ==
  /\ Serialized
  /\ "clock" \notin Faults
  /\ \A n \in Names : Extending[n] = {}
  /\ MaxExits = 0

-----------------------------------------------------------------------------
(* The invariant of the mapping *)

\* WRITE and RM get to the mutex, and each to its own calls, ...
OwnCalls ==
  \A t \in Threads :
    /\ pc[t] \in {"lock", "unlock"} => Op(t) \in {"WRITE", "RM"}
    /\ pc[t] \in RmPcs => Op(t) = "RM"

\* ... a WRITE comes to its rename without trouble and with something to put aside, ...
ToPutAside ==
  \A t \in Threads :
    /\ pc[t] \in {"idle", "lock", "exists", "rename"} => Unhindered(t)
    /\ pc[t] = "rename" => dir[FullPath(t)] # None

\* ... once the file is open, its entry holds the new upload or nothing, ...
InPlace ==
  \A t \in Threads :
    Writing(t) \/ (pc[t] = "unlock" /\ Op(t) = "WRITE") => Holds(FullPath(t)) \in {t, None}

\* ... and no other does.
HeldOnce ==
  \A t \in Threads, e \in Entries : Holds(e) = t => dir[e] = fd[t] /\ Op(t) = "WRITE"

MapInv ==
  KeepInv /\ Clocked /\ RmInv /\ OwnCalls /\ ToPutAside /\ InPlace /\ HeldOnce

LEMMA OwnCallsStep ==
  ASSUME TypeInv, OwnCalls, RmInv, NEW u \in Threads, Step(u)
  PROVE  OwnCalls'
<1>a. TypeOK
  BY DEF TypeInv
<1> SUFFICES ASSUME NEW t \in Threads
             PROVE  /\ pc'[t] \in {"lock", "unlock"} => Op(t)' \in {"WRITE", "RM"}
                    /\ pc'[t] \in RmPcs => Op(t)' = "RM"
  BY DEF OwnCalls
<1>1. CASE t # u
  BY <1>1, <1>a, OthersStay DEF OwnCalls, Op
<1>2. CASE t = u /\ Accept(t)
  <2>1. PICK r \in Requests :
          /\ pc' = [pc EXCEPT ![t] = CASE r.op \in {"WRITE", "RM"} -> "lock"
                                       [] r.op = "GET"             -> "open"
                                       [] r.op = "GETVERSION"      -> "opendir"
                                       [] r.op = "LS"              -> "stat"]
          /\ req' = [req EXCEPT ![t] = r]
    BY <1>2 DEF Accept, Goto
  <2>2. r.op \in Ops
    BY StoreAssumption
  <2>3. pc'[t] \in {"lock", "open", "opendir", "stat"} /\ Op(t)' = r.op
          /\ (pc'[t] = "lock" => r.op \in {"WRITE", "RM"})
    BY <2>1, <2>2, <1>a DEF Ops, Op, TypeOK
  <2> QED
    BY <2>3 DEF RmPcs
<1>3. CASE t = u /\ ~Accept(t)
  <2>1. UNCHANGED req \/ pc'[t] = "dropped"
    BY <1>3, <1>a DEF Step, Serve, Drop, LockVersionMutex, UnlockVersionMutex,
         OpenDirectory, OpenDirectoryFails, WriteStep, RmStep, VersionStep, LsStep,
         ReadStep, Sending, BackupExists, BackupRename, BackupRenameFails, FopenForWrite,
         FopenFails, FlockExclusive, FlockExclusiveFails, RecvFileData, RecvFails,
         UnlockFile, Fclose, RemovePartial, RemovePartialFails, DeleteMain, DeleteMainFails,
         DeleteVersion, DeleteVersionFails, SweepEnds, ListVersion, ResolveVersion,
         NoSuchVersion, LsStat, LsExists, DisplayVersions, FopenForRead, FlockShared,
         FlockSharedFails, SendFileSize, SendFileData, SendFails, CloseRead, Goto, TypeOK
  <2>2. CASE LockVersionMutex(t) \/ RmStep(t)
    BY <2>1, <2>2, <1>a DEF LockVersionMutex, RmStep, DeleteMain, DeleteMainFails,
         DeleteVersion, DeleteVersionFails, SweepEnds, Goto, TypeOK, OwnCalls, Op, RmPcs
  <2>3. CASE OpenDirectory(t) \/ OpenDirectoryFails(t)
    BY <2>1, <2>3, <1>a DEF OpenDirectory, OpenDirectoryFails, Goto, TypeOK, OwnCalls, Op,
         RmPcs
  <2>4. CASE WriteStep(t)
    <3>1. pc[t] \in WritePcs /\ pc'[t] \notin RmPcs \cup {"lock", "dropped"}
      BY <2>4, <1>a DEF WriteStep, BackupExists, BackupRename, BackupRenameFails,
           FopenForWrite, FopenFails, FlockExclusive, FlockExclusiveFails, RecvFileData,
           RecvFails, UnlockFile, Fclose, RemovePartial, RemovePartialFails, Goto, TypeOK,
           WritePcs, RmPcs
    <3> QED
      BY <2>1, <3>1 DEF RmInv, Op
  <2>5. CASE Drop(t) \/ UnlockVersionMutex(t) \/ VersionStep(t) \/ LsStep(t)
               \/ ReadStep(t) \/ Sending(t)
    BY <2>5, <1>a DEF Drop, UnlockVersionMutex, VersionStep, LsStep, ReadStep, Sending,
       ListVersion, ResolveVersion, NoSuchVersion, LsStat, LsExists, DisplayVersions,
       FopenForRead, FlockShared, FlockSharedFails, SendFileSize, SendFileData, SendFails,
       CloseRead, Goto, TypeOK, RmPcs
  <2> QED
    BY <1>3, <2>2, <2>3, <2>4, <2>5 DEF Step, Serve
<1> QED
  BY <1>1, <1>2, <1>3

\* A step changes what an entry holds only in the critical section of its file.
LEMMA HoldsMoves ==
  ASSUME Ordinary, KeepInv, NEW u \in Threads, Step(u), NEW e \in Entries,
         Holds(e)' # Holds(e)
  PROVE  Critical(u) /\ e[1] = File(u)
<1>a. TypeInv /\ TypeOK
  BY DEF KeepInv, TypeInv
<1>1. CASE dir'[e] # dir[e]
  <2>1. CASE BackupRename(u)
    <3>1. PICK s \in Stamps :
            dir' = [dir EXCEPT ![FullPath(u)] = None,
                              ![Version(File(u), s)] = dir[FullPath(u)]]
      BY <2>1 DEF BackupRename, Readings
    <3>2. e \in {FullPath(u), Version(File(u), s)}
      BY <1>1, <1>a, <3>1 DEF TypeOK
    <3> QED
      BY <2>1, <3>2 DEF BackupRename, Goto, Critical, WritePcs, FullPath, Main, Version
  <2>2. CASE FopenForWrite(u) \/ RemovePartial(u) \/ DeleteMain(u)
    <3>1. e = FullPath(u)
      BY <1>1, <1>a, <2>2 DEF FopenForWrite, RemovePartial, DeleteMain, TypeOK
    <3> QED
      BY <2>2, <3>1 DEF FopenForWrite, RemovePartial, DeleteMain, Goto, Critical, WritePcs,
         RmPcs, FullPath, Main
  <2>3. CASE DeleteVersion(u)
    <3>1. e \in Matching(File(u))
      BY <1>1, <1>a, <2>3 DEF DeleteVersion, Unswept, TypeOK
    <3>2. pc[u] = "sweep"
      BY <2>3 DEF DeleteVersion
    <3>3. File(u) \in Names
      BY <1>a, <3>2, RequestTyping
    <3> QED
      BY <3>1, <3>2, <3>3 DEF Matching, Ordinary, Critical, RmPcs
  <2> QED
    BY <1>1, <2>1, <2>2, <2>3, OnlyTheseWrite
<1>2. CASE dir'[e] = dir[e]
  <2>1. dir[e] \in Uploads /\ upload'[dir[e]] # upload[dir[e]]
    BY <1>2, <1>a DEF Holds, TypeOK
  <2>2. FopenForWrite(u)
    BY <2>1, OnlyTheseWrite
  <2>3. /\ ~Made(u) /\ Critical(u) /\ FullPath(u) \in Entries
        /\ fd'[u] = IF dir[FullPath(u)] = None THEN u ELSE dir[FullPath(u)]
        /\ upload' = [upload EXCEPT ![fd'[u]] = u]
    BY <1>a, <2>2, OpensFile
  <2>4. dir[e] = fd'[u]
    BY <1>a, <2>1, <2>3 DEF TypeOK
  <2>5. dir[e] # u
    BY <2>3 DEF KeepInv, Unmade
  <2>6. dir[e] = dir[FullPath(u)] /\ dir[e] # None
    BY <2>1, <2>3, <2>4, <2>5, StoreAssumption
  <2>7. e = FullPath(u)
    BY <2>3, <2>6 DEF KeepInv, LinkedOnce
  <2> QED
    BY <2>3, <2>7 DEF FullPath, Main
<1> QED
  BY <1>1, <1>2

\* So while a thread is in the critical section of a file, others leave the file alone.
LEMMA OthersLeave ==
  ASSUME Ordinary, KeepInv, NEW u \in Threads, Step(u),
         NEW t \in Threads \ {u}, Critical(t), NEW e \in Entries, e[1] = File(t)
  PROVE  Holds(e)' = Holds(e)
<1>1. Serialized /\ TypeInv /\ Owners
  BY DEF Ordinary, KeepInv
<1> QED
  BY <1>1, HoldsMoves, Exclusive

LEMMA HoldsNothing ==
  ASSUME TypeOK, NEW e \in Entries
  PROVE  Holds(e) = None <=> dir[e] = None
  BY StoreAssumption DEF Holds, TypeOK, Uploads

LEMMA ToPutAsideStep ==
  ASSUME Ordinary, MapInv, NEW u \in Threads, Step(u), TypeOK'
  PROVE  ToPutAside'
<1>a. TypeInv /\ TypeOK
  BY DEF MapInv, KeepInv, TypeInv
<1> SUFFICES ASSUME NEW t \in Threads
             PROVE  /\ pc'[t] \in {"idle", "lock", "exists", "rename"} => stuck'[t] = {}
                    /\ pc'[t] = "rename" => dir'[FullPath(t)'] # None
  BY DEF ToPutAside, Unhindered
<1>1. CASE t # u
  <2>1. pc'[t] = pc[t] /\ stuck'[t] = stuck[t] /\ FullPath(t)' = FullPath(t)
    BY <1>1, <1>a, OthersStay DEF FullPath, File
  <2>2. ASSUME pc[t] = "rename" PROVE dir'[FullPath(t)] # None
    <3>1. Critical(t) /\ FullPath(t) \in Entries /\ FullPath(t)[1] = File(t)
      BY <1>a, <2>2, RequestTyping DEF Critical, WritePcs, FullPath, Main
    <3>2. \A e \in Entries : e = FullPath(t) => Holds(e)' = Holds(e)
      BY <1>1, <3>1, OthersLeave DEF MapInv
    <3>3. Holds(FullPath(t)) # None
      BY <1>a, <2>2, <3>1, HoldsNothing DEF MapInv, ToPutAside
    <3> QED
      BY <3>1, <3>2, <3>3 DEF Holds
  <2> QED
    BY <2>1, <2>2 DEF MapInv, ToPutAside, Unhindered
<1>2. CASE t = u
  <2> USE DEF Goto, TypeOK
  <2>1. CASE Accept(t) \/ LockVersionMutex(t) \/ BackupExists(t)
    <3>1. pc[t] \in {"idle", "lock", "exists"} /\ UNCHANGED <<dir, stuck>>
      BY <2>1 DEF Accept, LockVersionMutex, BackupExists, fsVars, writeVars
    <3>2. stuck'[t] = {}
      BY <3>1 DEF MapInv, ToPutAside, Unhindered
    <3>3. CASE BackupExists(t)
      BY <3>2, <3>3, <1>a DEF BackupExists, fsVars, FullPath, File
    <3>4. CASE LockVersionMutex(t)
      BY <3>2, <3>4, <1>a DEF LockVersionMutex
    <3>5. CASE Accept(t)
      <4>1. ~Critical(t)'
        BY <1>a, <3>1, <3>5, OnlyTheseLock DEF Step, Critical, WritePcs, RmPcs, Accept,
           LockVersionMutex, UnlockVersionMutex, FopenFails, FlockExclusiveFails
      <4> QED
        BY <3>2, <4>1 DEF Critical, WritePcs
    <3> QED
      BY <2>1, <3>3, <3>4, <3>5
  <2>2. CASE WriteStep(t) /\ ~BackupExists(t)
    <3>1. pc'[t] \notin {"idle", "lock", "exists", "rename"}
      BY <2>2, <1>a DEF WriteStep, BackupRename, BackupRenameFails, FopenForWrite,
         FopenFails, FlockExclusive, FlockExclusiveFails, RecvFileData, RecvFails,
         UnlockFile, Fclose, RemovePartial, RemovePartialFails
    <3> QED
      BY <3>1
  <2>3. CASE Drop(t) \/ UnlockVersionMutex(t) \/ OpenDirectory(t) \/ OpenDirectoryFails(t)
               \/ RmStep(t)
    <3>1. pc'[t] \notin {"idle", "lock", "exists", "rename"}
      BY <2>3, <1>a DEF Drop, UnlockVersionMutex, OpenDirectory, OpenDirectoryFails, RmStep,
         DeleteMain, DeleteMainFails, DeleteVersion, DeleteVersionFails, SweepEnds
    <3> QED
      BY <3>1
  <2>4. CASE VersionStep(t) \/ LsStep(t) \/ ReadStep(t) \/ Sending(t)
    <3>1. pc'[t] \notin {"idle", "lock", "exists", "rename"}
      BY <2>4, <1>a DEF VersionStep, LsStep, ReadStep, Sending, ListVersion, ResolveVersion,
         NoSuchVersion, LsStat, LsExists, DisplayVersions, FopenForRead, FlockShared,
         FlockSharedFails, SendFileSize, SendFileData, SendFails, CloseRead
    <3> QED
      BY <3>1
  <2> QED
    BY <1>2, <2>1, <2>2, <2>3, <2>4 DEF Step, Serve
<1> QED
  BY <1>1, <1>2

LEMMA InPlaceStep ==
  ASSUME Ordinary, MapInv, NEW u \in Threads, Step(u), OwnCalls'
  PROVE  InPlace'
<1>a. TypeInv /\ TypeOK
  BY DEF MapInv, KeepInv, TypeInv
<1> SUFFICES ASSUME NEW t \in Threads,
                    Writing(t)' \/ (pc'[t] = "unlock" /\ Op(t)' = "WRITE")
             PROVE  Holds(FullPath(t))' \in {t, None}
  BY DEF InPlace
<1>1. CASE t # u
  <2>1. pc'[t] = pc[t] /\ Op(t)' = Op(t) /\ FullPath(t)' = FullPath(t)
    BY <1>1, <1>a, OthersStay DEF FullPath, File, Op
  <2>2. Writing(t) \/ (pc[t] = "unlock" /\ Op(t) = "WRITE")
    BY <2>1 DEF Writing
  <2>3. Critical(t) /\ FullPath(t) \in Entries /\ FullPath(t)[1] = File(t)
    BY <1>a, <2>2, RequestTyping DEF Critical, WritePcs, Writing, FullPath, Main
  <2>4. \A e \in Entries : e = FullPath(t) => Holds(e)' = Holds(e)
    BY <1>1, <2>3, OthersLeave DEF MapInv
  <2>5. Holds(FullPath(t))' = Holds(FullPath(t))
    BY <2>1, <2>3, <2>4 DEF Holds
  <2> QED
    BY <2>2, <2>5 DEF MapInv, InPlace
<1>2. CASE t = u /\ Writing(t)'
  <2>1. CASE FopenForWrite(t)
    <3>1. /\ req'[t] = req[t] /\ dir'[FullPath(t)] = fd'[t] /\ fd'[t] \in Uploads
          /\ upload' = [upload EXCEPT ![fd'[t]] = t]
      BY <1>a, <2>1, OpensFile
    <3>2. FullPath(t)' = FullPath(t) /\ upload'[fd'[t]] = t
      BY <3>1, <1>a DEF FullPath, File, TypeOK
    <3> QED
      BY <3>1, <3>2 DEF Holds
  <2>2. CASE Writing(t) /\ req'[t] = req[t] /\ UNCHANGED <<dir, upload>>
    <3>1. Holds(FullPath(t))' = Holds(FullPath(t))
      BY <2>2 DEF Holds, FullPath, File
    <3> QED
      BY <2>2, <3>1 DEF MapInv, InPlace
  <2> QED
    BY <1>2, <1>a, <2>1, <2>2, WritingGoesOn
<1>3. CASE t = u /\ pc'[t] = "unlock" /\ Op(t)' = "WRITE"
  <2>1. Fclose(t) \/ RemovePartial(t) \/ RemovePartialFails(t)
    <3> USE DEF Goto, TypeOK
    <3>1. ~Accept(t)
      BY <1>a, <1>3, OnlyTheseLock DEF Accept, Critical, LockVersionMutex,
         UnlockVersionMutex, FopenFails, FlockExclusiveFails, Step, WritePcs, RmPcs
    <3>2. ASSUME SweepEnds(t) PROVE FALSE
      <4>1. pc[t] = "sweep" /\ UNCHANGED req
        BY <3>2 DEF SweepEnds
      <4>2. Op(t) = "RM" /\ Op(t)' = Op(t)
        BY <4>1 DEF MapInv, OwnCalls, RmPcs, Op
      <4> QED
        BY <1>3, <4>2
    <3>3. CASE WriteStep(t)
      BY <1>3, <1>a, <3>3 DEF WriteStep, BackupExists, BackupRename, BackupRenameFails,
         FopenForWrite, FopenFails, FlockExclusive, FlockExclusiveFails, RecvFileData,
         RecvFails, UnlockFile
    <3>4. CASE Drop(t) \/ LockVersionMutex(t) \/ UnlockVersionMutex(t)
                 \/ OpenDirectory(t) \/ OpenDirectoryFails(t) \/ RmStep(t)
      BY <1>3, <1>a, <3>2, <3>4 DEF Drop, LockVersionMutex, UnlockVersionMutex,
         OpenDirectory, OpenDirectoryFails, RmStep, DeleteMain, DeleteMainFails,
         DeleteVersion, DeleteVersionFails
    <3>5. CASE VersionStep(t) \/ LsStep(t)
      BY <1>3, <1>a, <3>5 DEF VersionStep, LsStep, ListVersion, ResolveVersion,
         NoSuchVersion, LsStat, LsExists, DisplayVersions
    <3>6. CASE ReadStep(t) \/ Sending(t)
      BY <1>3, <1>a, <3>6 DEF ReadStep, Sending, FopenForRead, FlockShared,
         FlockSharedFails, SendFileSize, SendFileData, SendFails, CloseRead
    <3> QED
      BY <1>3, <3>1, <3>3, <3>4, <3>5, <3>6 DEF Step, Serve
  <2>2. Writing(t) /\ UNCHANGED <<req, upload>>
    BY <2>1 DEF Fclose, RemovePartial, RemovePartialFails, Goto, Writing, fsVars
  <2>3. FullPath(t) \in Entries /\ FullPath(t)' = FullPath(t)
    BY <1>a, <2>2, RequestTyping DEF Writing, FullPath, File
  <2>4. dir'[FullPath(t)] \in {dir[FullPath(t)], None}
    BY <1>a, <2>1, <2>3 DEF Fclose, RemovePartial, RemovePartialFails, fsVars, TypeOK
  <2>5. Holds(FullPath(t)) \in {t, None}
    BY <2>2 DEF MapInv, InPlace
  <2> QED
    BY <2>2, <2>3, <2>4, <2>5 DEF Holds
<1> QED
  BY <1>1, <1>2, <1>3

\* A thread keeps its request.
LEMMA RequestStays ==
  ASSUME NEW u \in Threads, Step(u), ~Accept(u)
  PROVE  UNCHANGED req
  BY DEF Step, Serve, Drop, LockVersionMutex, UnlockVersionMutex, OpenDirectory,
     OpenDirectoryFails, WriteStep, RmStep, VersionStep, LsStep, ReadStep, Sending,
     BackupExists, BackupRename, BackupRenameFails, FopenForWrite, FopenFails,
     FlockExclusive, FlockExclusiveFails, RecvFileData, RecvFails, UnlockFile, Fclose,
     RemovePartial, RemovePartialFails, DeleteMain, DeleteMainFails, DeleteVersion,
     DeleteVersionFails, SweepEnds, ListVersion, ResolveVersion, NoSuchVersion, LsStat,
     LsExists, DisplayVersions, FopenForRead, FlockShared, FlockSharedFails, SendFileSize,
     SendFileData, SendFails, CloseRead

\* An upload whose WRITE has not opened its file is nowhere.
LEMMA NotYetHeld ==
  ASSUME TypeOK, Unmade, NEW t \in Threads, ~Made(t), NEW e \in Entries
  PROVE  Holds(e) # t
<1>1. dir[e] \in Uploads => dir[e] # t /\ upload[dir[e]] # t
  BY DEF Unmade
<1> QED
  BY <1>1, StoreAssumption DEF Holds, TypeOK, Uploads

LEMMA HeldOnceStep ==
  ASSUME MapInv, NEW u \in Threads, Step(u)
  PROVE  HeldOnce'
<1>a. TypeInv /\ TypeOK
  BY DEF MapInv, KeepInv, TypeInv
<1> SUFFICES ASSUME NEW t \in Threads, NEW e \in Entries, Holds(e)' = t
             PROVE  dir'[e] = fd'[t] /\ Op(t)' = "WRITE"
  BY DEF HeldOnce
<1>1. dir'[e] # None /\ upload'[dir'[e]] = t
  BY StoreAssumption DEF Holds, Uploads
<1>2. CASE FopenForWrite(u)
  <2>1. /\ ~Made(u) /\ FullPath(u) \in Entries
        /\ fd'[u] \in Uploads /\ dir'[FullPath(u)] = fd'[u]
        /\ upload' = [upload EXCEPT ![fd'[u]] = u]
        /\ req'[u] = req[u] /\ pc[u] = "fopen"
    BY <1>a, <1>2, OpensFile
  <2>2. CASE dir'[e] = fd'[u]
    <3>1. t = u /\ Op(u) = "WRITE"
      BY <1>1, <1>a, <2>1, <2>2 DEF TypeOK, MapInv, RmInv, WritePcs
    <3> QED
      BY <2>1, <2>2, <3>1 DEF Op
  <2>3. CASE dir'[e] # fd'[u]
    <3>1. upload[dir'[e]] = t
      BY <1>1, <1>a, <2>1, <2>3 DEF TypeOK
    <3>2. dir'[e] = dir[e]
      BY <1>1, <1>2, <1>a, <2>1, <2>3, NamesMove DEF BackupRename, FopenForWrite, Goto
    <3>3. Holds(e) = t
      BY <1>1, <3>1, <3>2 DEF Holds
    <3>4. dir[e] = fd[t] /\ Op(t) = "WRITE"
      BY <3>3 DEF MapInv, HeldOnce
    <3>5. t # u
      BY <1>a, <2>1, <3>3, NotYetHeld DEF MapInv, KeepInv
    <3> QED
      BY <1>a, <3>2, <3>4, <3>5, OthersStay DEF Op
  <2> QED
    BY <2>2, <2>3
<1>3. CASE ~FopenForWrite(u)
  <2>1. UNCHANGED upload
    BY <1>3, OnlyTheseWrite
  <2>2. PICK g \in Entries : dir'[e] = dir[g]
    <3>1. dir'[e] = dir[e] \/ (BackupRename(u) /\ dir'[e] = dir[FullPath(u)])
      BY <1>1, <1>3, <1>a, NamesMove
    <3>2. BackupRename(u) => FullPath(u) \in Entries
      BY <1>a, RequestTyping DEF BackupRename, Goto
    <3> QED
      BY <3>1, <3>2
  <2>3. Holds(g) = t
    BY <1>1, <2>1, <2>2 DEF Holds
  <2>4. dir[g] = fd[t] /\ Op(t) = "WRITE"
    BY <2>3 DEF MapInv, HeldOnce
  <2>5. ASSUME FopenForRead(u) \/ Accept(u), t = u PROVE FALSE
    <3>1. ~Made(u)
      BY <2>5 DEF FopenForRead, Accept, Goto, Made, Writing, EndPcs
    <3> QED
      BY <1>a, <2>3, <2>5, <3>1, NotYetHeld DEF MapInv, KeepInv
  <2>6. fd'[t] = fd[t] /\ Op(t)' = Op(t)
    <3>1. CASE t # u
      BY <1>a, <3>1, OthersStay DEF Op
    <3>2. CASE t = u
      BY <1>3, <2>5, <3>2, OnlyTheseOpen, RequestStays DEF Op
    <3> QED
      BY <3>1, <3>2
  <2> QED
    BY <2>2, <2>4, <2>6
<1> QED
  BY <1>2, <1>3

LEMMA InitMapInv == Init => MapInv
<1> SUFFICES ASSUME Init PROVE MapInv
  OBVIOUS
<1>1. \A t \in Threads : pc[t] = "idle" /\ stuck[t] = {} /\ ~Writing(t)
  BY DEF Init, Writing
<1>2. RmInv /\ OwnCalls /\ ToPutAside /\ InPlace
  BY <1>1 DEF RmInv, OwnCalls, ToPutAside, InPlace, Unhindered, WritePcs, RmPcs
<1>3. HeldOnce
  <2> SUFFICES ASSUME NEW t \in Threads, NEW e \in Entries, Holds(e) = t PROVE FALSE
    BY DEF HeldOnce
  <2>1. dir[e] \in Preloaded \cup {None} /\ t # None /\ t \notin Preloaded
    BY StoreAssumption DEF Init, Uploads
  <2> QED
    BY <2>1 DEF Holds, Init, Uploads
<1> QED
  BY <1>2, <1>3, InitClocked DEF MapInv

LEMMA NextMapInv ==
  ASSUME Ordinary
  PROVE  MapInv /\ [Next]_vars => MapInv'
<1> SUFFICES ASSUME MapInv, [Next]_vars PROVE MapInv'
  OBVIOUS
<1>a. Serialized /\ TypeInv /\ TypeOK /\ Owners
  BY DEF Ordinary, MapInv, KeepInv, TypeInv
<1>1. KeepInv' /\ Clocked' /\ TypeOK'
  <2>1. KeepInv' /\ Clocked'
    BY NextClocked DEF MapInv, Ordinary
  <2> QED
    BY <2>1 DEF KeepInv, TypeInv
<1>2. ASSUME NEW u \in Threads, Step(u) PROVE MapInv'
  <2>1. RmInv'
    BY <1>a, <1>2, RmUndisturbed, RmGoesOn DEF MapInv, RmInv
  <2>2. OwnCalls'
    BY <1>a, <1>2, OwnCallsStep DEF MapInv
  <2>3. ToPutAside'
    BY <1>1, <1>2, ToPutAsideStep
  <2>4. InPlace'
    BY <1>2, <2>2, InPlaceStep
  <2>5. HeldOnce'
    BY <1>2, HeldOnceStep
  <2> QED
    BY <1>1, <2>1, <2>2, <2>3, <2>4, <2>5 DEF MapInv
<1>3. ~ServerExits
  BY <1>a DEF ServerExits, Ordinary, TypeOK
<1>4. CASE UNCHANGED vars
  <2>1. UNCHANGED <<dir, upload, pc, req, fd, snap, stuck>>
    BY <1>4 DEF vars
  <2>2. \A t \in Threads : Op(t)' = Op(t) /\ File(t)' = File(t) /\ FullPath(t)' = FullPath(t)
    BY <2>1 DEF Op, FullPath, File
  <2>3. RmInv' /\ OwnCalls' /\ ToPutAside'
    BY <2>1, <2>2 DEF MapInv, RmInv, OwnCalls, ToPutAside, Unhindered
  <2>4. InPlace' /\ HeldOnce'
    BY <2>1, <2>2 DEF MapInv, InPlace, HeldOnce, Holds, Writing
  <2> QED
    BY <1>1, <2>3, <2>4 DEF MapInv
<1> QED
  BY <1>2, <1>3, <1>4 DEF Next, Step, Terminating

-----------------------------------------------------------------------------
(* The mapping *)

\* A function that differs at one place.
LEMMA ExceptAt ==
  ASSUME NEW S, NEW f, NEW g, f = [x \in S |-> f[x]], g = [x \in S |-> g[x]],
         NEW n \in S, \A m \in S \ {n} : g[m] = f[m]
  PROVE  g = [f EXCEPT ![n] = g[n]]
  OBVIOUS

LEMMA AbsFunctions ==
  /\ AbsSession = [n \in Names |-> AbsSession[n]]
  /\ AbsCurrent = [n \in Names |-> AbsCurrent[n]]
  /\ AbsArchive = [n \in Names |-> AbsArchive[n]]
  /\ AbsTrouble = [n \in Names |-> AbsTrouble[n]]
  /\ AbsSession' = [n \in Names |-> AbsSession'[n]]
  /\ AbsCurrent' = [n \in Names |-> AbsCurrent'[n]]
  /\ AbsArchive' = [n \in Names |-> AbsArchive'[n]]
  /\ AbsTrouble' = [n \in Names |-> AbsTrouble'[n]]
  BY DEF AbsSession, AbsCurrent, AbsArchive, AbsTrouble

\* The thread in the session of a file is the only one, and decides what it is.
LEMMA SessionOf ==
  ASSUME NEW u \in Threads, NEW n \in Names, InSession(u, n),
         \A t \in Threads \ {u} : ~InSession(t, n)
  PROVE  /\ AbsSession[n] = IF Op(u) = "WRITE" THEN "write" ELSE "remove"
         /\ AbsCurrent[n] = IF Holds(Main(n)) = u THEN None ELSE Holds(Main(n))
         /\ AbsTrouble[n] <=> stuck[u] # {} \/ pc[u] = "unread"
<1>1. \A t \in Threads : InSession(t, n) <=> t = u
  OBVIOUS
<1> QED
  BY <1>1 DEF AbsSession, AbsCurrent, AbsTrouble

LEMMA SessionOfNext ==
  ASSUME NEW u \in Threads, NEW n \in Names, InSession(u, n)',
         \A t \in Threads \ {u} : ~InSession(t, n)'
  PROVE  /\ AbsSession'[n] = IF Op(u)' = "WRITE" THEN "write" ELSE "remove"
         /\ AbsCurrent'[n] = IF Holds(Main(n))' = u THEN None ELSE Holds(Main(n))'
         /\ AbsTrouble'[n] <=> stuck'[u] # {} \/ pc'[u] = "unread"
<1>1. \A t \in Threads : InSession(t, n)' <=> t = u
  OBVIOUS
<1> QED
  BY <1>1 DEF AbsSession, AbsCurrent, AbsTrouble

\* Without a thread in its session, a file is what its entry holds.
LEMMA NoSession ==
  ASSUME NEW n \in Names, \A t \in Threads : ~InSession(t, n)
  PROVE  /\ AbsSession[n] = "none" /\ AbsCurrent[n] = Holds(Main(n))
         /\ AbsTrouble[n] = FALSE
  BY DEF AbsSession, AbsCurrent, AbsTrouble

LEMMA NoSessionNext ==
  ASSUME NEW n \in Names, \A t \in Threads : ~InSession(t, n)'
  PROVE  /\ AbsSession'[n] = "none" /\ AbsCurrent'[n] = Holds(Main(n))'
         /\ AbsTrouble'[n] = FALSE
  BY DEF AbsSession, AbsCurrent, AbsTrouble

LEMMA EntriesOf ==
  ASSUME NEW n \in Names
  PROVE  /\ Main(n) \in Entries /\ Main(n)[1] = n
         /\ \A s \in Stamps : /\ Version(n, s) \in Entries /\ Version(n, s)[1] = n
                              /\ Version(n, s) # Main(n)
  BY StoreAssumption DEF Main, Version, Entries, Stamps

\* A step of a thread that is not in the session of a file leaves the file as it is.
LEMMA Elsewhere ==
  ASSUME Ordinary, KeepInv, NEW u \in Threads, Step(u), NEW m \in Names,
         ~InSession(u, m), ~InSession(u, m)'
  PROVE  /\ AbsSession'[m] = AbsSession[m] /\ AbsCurrent'[m] = AbsCurrent[m]
         /\ AbsArchive'[m] = AbsArchive[m] /\ AbsTrouble'[m] = AbsTrouble[m]
<1>a. TypeOK
  BY DEF KeepInv, TypeInv
<1>1. \A t \in Threads :
        /\ InSession(t, m)' <=> InSession(t, m)
        /\ InSession(t, m) => Op(t)' = Op(t) /\ stuck'[t] = stuck[t] /\ pc'[t] = pc[t]
  BY <1>a, OthersStay DEF InSession, File, Op
<1>2. \A e \in Entries : e[1] = m => Holds(e)' = Holds(e)
  BY HoldsMoves DEF Critical, InSession
<1>3. Holds(Main(m))' = Holds(Main(m))
        /\ \A s \in Stamps : Holds(Version(m, s))' = Holds(Version(m, s))
  BY <1>2, EntriesOf DEF Main, Version
<1>4. AbsSession'[m] = AbsSession[m]
  BY <1>1 DEF AbsSession
<1>5. AbsCurrent'[m] = AbsCurrent[m]
  BY <1>1, <1>3 DEF AbsCurrent
<1>6. AbsArchive'[m] = AbsArchive[m]
  BY <1>3 DEF AbsArchive
<1>7. (\E t \in Threads : InSession(t, m)' /\ (stuck'[t] # {} \/ pc'[t] = "unread"))
        <=> (\E t \in Threads : InSession(t, m) /\ (stuck[t] # {} \/ pc[t] = "unread"))
  BY <1>1
<1>8. AbsTrouble'[m] = AbsTrouble[m]
  BY <1>7 DEF AbsTrouble
<1> QED
  BY <1>4, <1>5, <1>6, <1>8

\* What a step changes, it changes of the file it works on.
LEMMA OnlyHere ==
  ASSUME Ordinary, KeepInv, NEW u \in Threads, Step(u), NEW n \in Names,
         \A m \in Names \ {n} : ~InSession(u, m) /\ ~InSession(u, m)'
  PROVE  /\ AbsSession' = [AbsSession EXCEPT ![n] = AbsSession'[n]]
         /\ AbsCurrent' = [AbsCurrent EXCEPT ![n] = AbsCurrent'[n]]
         /\ AbsArchive' = [AbsArchive EXCEPT ![n] = AbsArchive'[n]]
         /\ AbsTrouble' = [AbsTrouble EXCEPT ![n] = AbsTrouble'[n]]
  BY Elsewhere, AbsFunctions, ExceptAt

\* A thread outside every critical section is not seen.
LEMMA Unseen ==
  ASSUME Ordinary, KeepInv, NEW u \in Threads, Step(u), ~Critical(u), ~Critical(u)'
  PROVE  UNCHANGED <<AbsCurrent, AbsArchive, AbsSession, AbsTrouble>>
<1>1. \A m \in Names : ~InSession(u, m) /\ ~InSession(u, m)'
  BY DEF InSession, Critical
<1>2. \A m \in Names : /\ AbsSession'[m] = AbsSession[m] /\ AbsCurrent'[m] = AbsCurrent[m]
                       /\ AbsArchive'[m] = AbsArchive[m] /\ AbsTrouble'[m] = AbsTrouble[m]
  BY <1>1, Elsewhere
<1> QED
  BY <1>2, AbsFunctions

-----------------------------------------------------------------------------
(* The steps of a session *)

\* pthread_mutex_lock begins the session of the file.
LEMMA LockBegins ==
  ASSUME Ordinary, MapInv, NEW u \in Threads, LockVersionMutex(u),
         NEW n \in Names, File(u) = n
  PROVE  Abstract!Begin(n)
<1>a. TypeInv /\ TypeOK /\ Owners /\ KeepInv
  BY DEF MapInv, KeepInv, TypeInv
<1>b. Step(u)
  BY DEF Step, Serve
<1>1. /\ pc[u] = "lock" /\ UNCHANGED <<dir, upload, req, stuck>>
      /\ mutex[MutexFor(u)] = None
      /\ pc'[u] = (IF Op(u) = "WRITE" THEN "exists" ELSE "delete")
  BY <1>a DEF LockVersionMutex, Goto, MutexFree, fsVars, writeVars, TypeOK
<1>2. Op(u) \in {"WRITE", "RM"} /\ Op(u)' = Op(u) /\ File(u)' = n
  BY <1>1 DEF MapInv, OwnCalls, Op, File
<1>3. ASSUME NEW t \in Threads PROVE ~InSession(t, n)
  <2> SUFFICES ASSUME InSession(t, n) PROVE FALSE
    OBVIOUS
  <2>1. Critical(t) /\ File(t) = File(u) /\ pc[t] \notin {"idle", "dropped"}
    BY DEF InSession, Critical, WritePcs, RmPcs
  <2>2. req[t].path \in Paths /\ req[u].path \in Paths
    BY <1>a, <1>1, <2>1, RequestTyping, StoreAssumption
  <2>3. MutexFor(t) = MutexFor(u)
    BY <2>1, <2>2 DEF Ordinary, Serialized, File, MutexFor
  <2>4. mutex[MutexFor(t)] = t /\ t # None
    BY <1>a, <2>1, StoreAssumption DEF Owners, Uploads
  <2> QED
    BY <1>1, <2>3, <2>4
<1>4. InSession(u, n)' /\ \A t \in Threads \ {u} : ~InSession(t, n)'
  <2>1. ASSUME NEW t \in Threads \ {u} PROVE ~InSession(t, n)'
    <3>1. pc'[t] = pc[t] /\ req'[t] = req[t]
      BY <1>a, <1>b, OthersStay
    <3> QED
      BY <1>3, <3>1 DEF InSession, File
  <2> QED
    BY <1>1, <1>2, <2>1 DEF InSession, WritePcs, RmPcs
<1>5. \A m \in Names \ {n} : ~InSession(u, m) /\ ~InSession(u, m)'
  BY <1>2 DEF InSession
<1>6. Holds(Main(n)) # u /\ \A e \in Entries : Holds(e)' = Holds(e)
  <2>1. ~Made(u)
    BY <1>1 DEF Made, Writing, EndPcs
  <2> QED
    BY <1>a, <1>1, <2>1, NotYetHeld, EntriesOf DEF KeepInv, Holds
<1>7. Holds(Main(n))' = Holds(Main(n))
        /\ \A s \in Stamps : Holds(Version(n, s))' = Holds(Version(n, s))
  BY <1>1 DEF Holds
<1>8. AbsSession[n] = "none" /\ AbsSession'[n] \in {"write", "remove"}
  BY <1>3, <1>4, NoSession, SessionOfNext
<1>9. AbsCurrent'[n] = AbsCurrent[n] /\ AbsArchive'[n] = AbsArchive[n]
  <2>1. AbsCurrent'[n] = AbsCurrent[n]
    <3>1. AbsCurrent[n] = Holds(Main(n))
      BY <1>3, NoSession
    <3>2. AbsCurrent'[n] = IF Holds(Main(n))' = u THEN None ELSE Holds(Main(n))'
      BY <1>4, SessionOfNext
    <3> QED
      BY <1>6, <1>7, <3>1, <3>2
  <2> QED
    BY <1>7, <2>1 DEF AbsArchive
<1>10. AbsTrouble'[n] = AbsTrouble[n]
  <2>1. stuck'[u] = {} /\ pc'[u] # "unread"
    BY <1>1 DEF MapInv, ToPutAside, Unhindered
  <2>2. ~(\E t \in Threads : InSession(t, n)' /\ (stuck'[t] # {} \/ pc'[t] = "unread"))
    BY <1>4, <2>1
  <2>3. ~(\E t \in Threads : InSession(t, n) /\ (stuck[t] # {} \/ pc[t] = "unread"))
    BY <1>3
  <2> QED
    BY <2>2, <2>3 DEF AbsTrouble
<1>11. AbsSession' = [AbsSession EXCEPT ![n] = AbsSession'[n]]
         /\ UNCHANGED <<AbsCurrent, AbsArchive, AbsTrouble>>
  BY <1>a, <1>b, <1>5, <1>9, <1>10, OnlyHere, AbsFunctions
<1> QED
  BY <1>8, <1>11 DEF Abstract!Begin

\* When the mutex is given back the session is over, and what the entry holds counts.
LEMMA SessionEnds ==
  ASSUME Ordinary, MapInv, NEW u \in Threads,
         UnlockVersionMutex(u) \/ FopenFails(u) \/ FlockExclusiveFails(u),
         NEW n \in Names, File(u) = n
  PROVE  /\ UNCHANGED AbsArchive
         /\ AbsSession[n] = (IF Op(u) = "WRITE" THEN "write" ELSE "remove")
         /\ AbsCurrent[n] = (IF Holds(Main(n)) = u THEN None ELSE Holds(Main(n)))
         /\ AbsTrouble[n] <=> stuck[u] # {} \/ pc[u] = "unread"
         /\ AbsCurrent' = [AbsCurrent EXCEPT ![n] = Holds(Main(n))]
         /\ Abstract!End(n)
<1>a. TypeInv /\ TypeOK /\ Owners /\ Serialized /\ KeepInv
  BY DEF MapInv, KeepInv, TypeInv, Ordinary
<1>b. Step(u)
  BY DEF Step, Serve, WriteStep
<1>1. /\ pc[u] \in {"unlock", "unread", "fopen", "flock"} /\ UNCHANGED <<dir, upload, req>>
      /\ pc'[u] \in {"removed", "saved", "failed"}
  BY <1>a DEF UnlockVersionMutex, FopenFails, FlockExclusiveFails, Goto, fsVars, TypeOK
<1>2. InSession(u, n) /\ File(u)' = n
  BY <1>1 DEF InSession, WritePcs, RmPcs, File
<1>3. ASSUME NEW t \in Threads PROVE ~InSession(t, n)' /\ (t # u => ~InSession(t, n))
  <2>1. CASE t = u
    BY <1>1, <2>1 DEF InSession, WritePcs, RmPcs
  <2>2. CASE t # u
    <3>1. pc'[t] = pc[t] /\ req'[t] = req[t]
      BY <1>a, <1>b, <2>2, OthersStay
    <3>2. InSession(t, n)' <=> InSession(t, n)
      BY <3>1 DEF InSession, File
    <3>3. InSession(t, n) => Critical(t) /\ Critical(u) /\ File(t) = File(u)
      BY <1>2 DEF InSession, Critical
    <3> QED
      BY <1>a, <2>2, <3>2, <3>3, Exclusive
  <2> QED
    BY <2>1, <2>2
<1>4. \A m \in Names \ {n} : ~InSession(u, m) /\ ~InSession(u, m)'
  BY <1>2 DEF InSession
<1>5. Holds(Main(n))' = Holds(Main(n))
        /\ \A m \in Names, s \in Stamps : Holds(Version(m, s))' = Holds(Version(m, s))
  BY <1>1 DEF Holds
<1>6. AbsSession'[n] = "none" /\ AbsCurrent'[n] = Holds(Main(n)) /\ AbsTrouble'[n] = FALSE
  BY <1>3, <1>5, NoSessionNext
<1>7. /\ AbsSession' = [AbsSession EXCEPT ![n] = "none"]
      /\ AbsCurrent' = [AbsCurrent EXCEPT ![n] = Holds(Main(n))]
      /\ AbsTrouble' = [AbsTrouble EXCEPT ![n] = FALSE]
  BY <1>a, <1>b, <1>4, <1>6, OnlyHere
<1>8. UNCHANGED AbsArchive
  BY <1>5 DEF AbsArchive
<1>9. /\ AbsSession[n] = (IF Op(u) = "WRITE" THEN "write" ELSE "remove")
      /\ AbsCurrent[n] = (IF Holds(Main(n)) = u THEN None ELSE Holds(Main(n)))
      /\ AbsTrouble[n] <=> stuck[u] # {} \/ pc[u] = "unread"
  BY <1>2, <1>3, SessionOf
<1> QED
  BY <1>7, <1>8, <1>9 DEF Abstract!End

\* It ends by publishing the upload or giving up, ...
LEMMA WriteEnds ==
  ASSUME Ordinary, MapInv, NEW u \in Threads, Op(u) = "WRITE",
         UnlockVersionMutex(u) \/ FopenFails(u) \/ FlockExclusiveFails(u),
         NEW n \in Names, File(u) = n
  PROVE  Abstract!Publish(n) \/ Abstract!GiveUp(n)
<1>a. TypeInv /\ TypeOK
  BY DEF MapInv, KeepInv, TypeInv
<1>1. /\ UNCHANGED AbsArchive /\ AbsSession[n] = "write" /\ Abstract!End(n)
      /\ AbsCurrent[n] = (IF Holds(Main(n)) = u THEN None ELSE Holds(Main(n)))
      /\ AbsTrouble[n] <=> stuck[u] # {} \/ pc[u] = "unread"
      /\ AbsCurrent' = [AbsCurrent EXCEPT ![n] = Holds(Main(n))]
  BY SessionEnds
<1>2. FullPath(u) = Main(n)
  BY DEF FullPath
<1>3. CASE Holds(Main(n)) = u
  <2>1. ASSUME NEW e \in Entries, Holds(e) = u PROVE e = Main(n)
    <3>1. dir[e] = dir[Main(n)]
      BY <1>3, <2>1, EntriesOf DEF MapInv, HeldOnce
    <3>2. dir[e] # None
      BY <2>1, StoreAssumption DEF Holds, Uploads
    <3> QED
      BY <3>1, <3>2, EntriesOf DEF MapInv, KeepInv, LinkedOnce
  <2>2. ASSUME NEW m \in Names PROVE AbsCurrent[m] # u
    <3>1. AbsCurrent[m] \in {Holds(Main(m)), None} /\ u # None
      BY StoreAssumption DEF AbsCurrent, Uploads
    <3>2. Holds(Main(m)) = u => m = n
      BY <2>1, EntriesOf
    <3> QED
      BY <1>1, <1>3, <3>1, <3>2
  <2>3. ASSUME NEW m \in Names, NEW s \in 1 .. MaxStamp PROVE AbsArchive[m][s] # u
    <3>1. AbsArchive[m][s] = Holds(Version(m, s)) /\ s \in Stamps
      BY DEF AbsArchive, Stamps
    <3>2. Version(m, s) \in Entries /\ (m = n => Version(m, s) # Main(n))
      BY <3>1, EntriesOf
    <3>3. Version(m, s)[1] = m /\ Main(n)[1] = n
      BY DEF Version, Main
    <3> QED
      BY <2>1, <3>1, <3>2, <3>3
  <2>4. u \in Uploads
    BY DEF Uploads
  <2> QED
    BY <1>1, <1>3, <2>2, <2>3, <2>4 DEF Abstract!Publish
<1>4. CASE Holds(Main(n)) # u
  <2>1. UNCHANGED AbsCurrent /\ AbsCurrent[n] = Holds(Main(n))
    BY <1>1, <1>4, AbsFunctions
  <2>2. Holds(Main(n)) = None \/ stuck[u] # {}
    <3>1. CASE FopenFails(u)
      <4>1. pc[u] = "fopen"
        BY <3>1 DEF FopenFails, Goto
      <4> QED
        BY <1>2, <4>1 DEF MapInv, KeepInv, Vacant, Unhindered, Holds
    <3>2. CASE FlockExclusiveFails(u)
      <4>1. Writing(u)
        BY <3>2 DEF FlockExclusiveFails, Goto, Writing
      <4> QED
        BY <1>2, <1>4, <4>1 DEF MapInv, InPlace
    <3>3. CASE UnlockVersionMutex(u)
      <4>1. pc[u] = "unlock"
        BY <3>3 DEF UnlockVersionMutex, Goto, MapInv, OwnCalls, RmPcs
      <4> QED
        BY <1>2, <1>4, <4>1 DEF MapInv, InPlace
    <3> QED
      BY <3>1, <3>2, <3>3
  <2> QED
    BY <1>1, <2>1, <2>2 DEF Abstract!GiveUp
<1> QED
  BY <1>3, <1>4

\* ... and an RM when nothing is left, or with trouble.
LEMMA RmEnds ==
  ASSUME Ordinary, MapInv, NEW u \in Threads, Op(u) = "RM", UnlockVersionMutex(u),
         NEW n \in Names, File(u) = n
  PROVE  Abstract!EndRemove(n)
<1>a. TypeInv /\ TypeOK
  BY DEF MapInv, KeepInv, TypeInv
<1>1. /\ UNCHANGED AbsArchive /\ AbsSession[n] = "remove" /\ Abstract!End(n)
      /\ AbsCurrent[n] = (IF Holds(Main(n)) = u THEN None ELSE Holds(Main(n)))
      /\ AbsTrouble[n] <=> stuck[u] # {} \/ pc[u] = "unread"
      /\ AbsCurrent' = [AbsCurrent EXCEPT ![n] = Holds(Main(n))]
  BY SessionEnds
<1>2. Holds(Main(n)) # u
  BY EntriesOf DEF MapInv, HeldOnce
<1>3. UNCHANGED AbsCurrent
  BY <1>1, <1>2, AbsFunctions
<1>4. CASE pc[u] = "unlock" /\ stuck[u] = {}
  <2>1. \A e \in Entries : e[1] = n => Holds(e) = None
    BY <1>4 DEF MapInv, RmInv, Holds
  <2>2. Holds(Main(n)) = None /\ \A s \in Stamps : Holds(Version(n, s)) = None
    BY <2>1, EntriesOf
  <2>3. \A s \in 1 .. MaxStamp : AbsArchive[n][s] = None
    BY <2>2 DEF AbsArchive, Stamps
  <2> QED
    BY <1>1, <1>2, <1>3, <2>2, <2>3 DEF Abstract!EndRemove
<1>5. CASE stuck[u] # {} \/ pc[u] = "unread"
  BY <1>1, <1>3, <1>5 DEF Abstract!EndRemove
<1> QED
  BY <1>4, <1>5 DEF UnlockVersionMutex, Goto

\* The other steps of a critical section go on with the session, which sees of them what
\* becomes of the entries of the file, and whether there is trouble.
LEMMA WithinSession ==
  ASSUME Ordinary, MapInv, NEW u \in Threads, Step(u), Critical(u), Critical(u)',
         UNCHANGED req, NEW n \in Names, File(u) = n
  PROVE  /\ UNCHANGED AbsSession
         /\ AbsSession[n] = (IF Op(u) = "WRITE" THEN "write" ELSE "remove")
         /\ AbsCurrent[n] = (IF Holds(Main(n)) = u THEN None ELSE Holds(Main(n)))
         /\ AbsCurrent'[n] = (IF Holds(Main(n))' = u THEN None ELSE Holds(Main(n))')
         /\ AbsCurrent' = [AbsCurrent EXCEPT ![n] = AbsCurrent'[n]]
         /\ AbsArchive' = [AbsArchive EXCEPT ![n] = AbsArchive'[n]]
         /\ AbsTrouble[n] <=> stuck[u] # {} \/ pc[u] = "unread"
         /\ stuck'[u] # {} \/ pc'[u] = "unread" =>
              AbsTrouble' = [AbsTrouble EXCEPT ![n] = TRUE]
         /\ (stuck'[u] # {} \/ pc'[u] = "unread" <=> stuck[u] # {} \/ pc[u] = "unread") =>
              UNCHANGED AbsTrouble
<1>a. TypeInv /\ TypeOK /\ Owners /\ Serialized /\ KeepInv
  BY DEF MapInv, KeepInv, TypeInv, Ordinary
<1>1. /\ InSession(u, n) /\ InSession(u, n)' /\ Op(u)' = Op(u)
      /\ \A m \in Names \ {n} : ~InSession(u, m) /\ ~InSession(u, m)'
  BY DEF InSession, Critical, File, Op
<1>2. ASSUME NEW t \in Threads \ {u} PROVE ~InSession(t, n) /\ ~InSession(t, n)'
  <2>1. pc'[t] = pc[t] /\ req'[t] = req[t]
    BY <1>a, OthersStay
  <2>2. InSession(t, n)' <=> InSession(t, n)
    BY <2>1 DEF InSession, File
  <2>3. InSession(t, n) => Critical(t) /\ File(t) = File(u)
    BY DEF InSession, Critical
  <2> QED
    BY <1>a, <2>2, <2>3, Exclusive
<1>3. /\ AbsSession[n] = (IF Op(u) = "WRITE" THEN "write" ELSE "remove")
      /\ AbsCurrent[n] = (IF Holds(Main(n)) = u THEN None ELSE Holds(Main(n)))
      /\ AbsTrouble[n] <=> stuck[u] # {} \/ pc[u] = "unread"
  BY <1>1, <1>2, SessionOf
<1>4. /\ AbsSession'[n] = (IF Op(u)' = "WRITE" THEN "write" ELSE "remove")
      /\ AbsCurrent'[n] = (IF Holds(Main(n))' = u THEN None ELSE Holds(Main(n))')
      /\ AbsTrouble'[n] <=> stuck'[u] # {} \/ pc'[u] = "unread"
  BY <1>1, <1>2, SessionOfNext
<1>5. /\ AbsSession' = [AbsSession EXCEPT ![n] = AbsSession'[n]]
      /\ AbsCurrent' = [AbsCurrent EXCEPT ![n] = AbsCurrent'[n]]
      /\ AbsArchive' = [AbsArchive EXCEPT ![n] = AbsArchive'[n]]
      /\ AbsTrouble' = [AbsTrouble EXCEPT ![n] = AbsTrouble'[n]]
  BY <1>a, <1>1, OnlyHere
<1>6. UNCHANGED AbsSession
  BY <1>1, <1>3, <1>4, <1>5, AbsFunctions
<1>7. AbsTrouble[n] \in BOOLEAN /\ AbsTrouble'[n] \in BOOLEAN
  BY DEF AbsTrouble
<1>8. stuck'[u] # {} \/ pc'[u] = "unread" => AbsTrouble'[n] = TRUE
  BY <1>4, <1>7
<1>9. (stuck'[u] # {} \/ pc'[u] = "unread" <=> stuck[u] # {} \/ pc[u] = "unread") =>
        AbsTrouble'[n] = AbsTrouble[n]
  BY <1>3, <1>4, <1>7
<1> QED
  BY <1>3, <1>4, <1>5, <1>6, <1>8, <1>9, AbsFunctions

\* What thread u leaves alone stays in the archive.
LEMMA ArchiveStays ==
  ASSUME NEW n \in Names, \A s \in Stamps : Holds(Version(n, s))' = Holds(Version(n, s)),
         AbsArchive' = [AbsArchive EXCEPT ![n] = AbsArchive'[n]]
  PROVE  UNCHANGED AbsArchive
<1>1. AbsArchive'[n] = AbsArchive[n]
  BY DEF AbsArchive
<1> QED
  BY <1>1, AbsFunctions

-----------------------------------------------------------------------------
(* Its calls on the directory *)

\* rename archives the current upload under a name younger than all others.
LEMMA BackupMaps ==
  ASSUME Ordinary, MapInv, NEW u \in Threads, BackupRename(u),
         NEW n \in Names, File(u) = n
  PROVE  Abstract!Archive(n)
<1>a. TypeInv /\ TypeOK /\ KeepInv
  BY DEF MapInv, KeepInv, TypeInv
<1>1. /\ pc[u] = "rename" /\ pc'[u] = "fopen" /\ FullPath(u) = Main(n)
      /\ UNCHANGED <<req, upload, stuck>> /\ dir[Main(n)] # None
  BY <1>a DEF BackupRename, Goto, FullPath, writeVars, TypeOK
<1>2. PICK s \in Stamps :
        /\ s = clock + 1
        /\ dir' = [dir EXCEPT ![Main(n)] = None, ![Version(n, s)] = dir[Main(n)]]
  BY <1>1 DEF BackupRename, Readings, Ordinary
<1>3. Step(u) /\ Critical(u) /\ Critical(u)'
  BY <1>1 DEF Step, Serve, WriteStep, Critical, WritePcs
<1>4. \A e \in Entries :
        dir'[e] = IF e = Version(n, s) THEN dir[Main(n)]
                  ELSE IF e = Main(n) THEN None ELSE dir[e]
  BY <1>a, <1>2, EntriesOf DEF TypeOK
<1>5. Op(u) = "WRITE" /\ stuck[u] = {}
  BY <1>1 DEF MapInv, RmInv, ToPutAside, Unhindered, WritePcs
<1>6. Holds(Main(n)) # u /\ Holds(Main(n)) # None
  <2>1. ~Made(u)
    BY <1>1 DEF Made, Writing, EndPcs
  <2> QED
    BY <1>a, <1>1, <2>1, NotYetHeld, HoldsNothing, EntriesOf DEF KeepInv
<1>7. Holds(Main(n))' = None
  BY <1>4, EntriesOf DEF Holds
<1>8. \A r \in Stamps : Holds(Version(n, r))' = IF r = s THEN Holds(Main(n))
                                                ELSE Holds(Version(n, r))
  <2>1. \A r \in Stamps : Version(n, r) = Version(n, s) => r = s
    BY DEF Version
  <2> QED
    BY <1>1, <1>4, <2>1, EntriesOf DEF Holds
<1>9. /\ AbsSession[n] = "write" /\ UNCHANGED <<AbsSession, AbsTrouble>>
      /\ AbsTrouble[n] <=> FALSE
      /\ AbsCurrent[n] = Holds(Main(n))
      /\ AbsCurrent' = [AbsCurrent EXCEPT ![n] = None]
      /\ AbsArchive' = [AbsArchive EXCEPT ![n] = AbsArchive'[n]]
  <2>1. /\ UNCHANGED AbsSession
        /\ AbsSession[n] = (IF Op(u) = "WRITE" THEN "write" ELSE "remove")
        /\ AbsCurrent[n] = (IF Holds(Main(n)) = u THEN None ELSE Holds(Main(n)))
        /\ AbsCurrent'[n] = (IF Holds(Main(n))' = u THEN None ELSE Holds(Main(n))')
        /\ AbsCurrent' = [AbsCurrent EXCEPT ![n] = AbsCurrent'[n]]
        /\ AbsArchive' = [AbsArchive EXCEPT ![n] = AbsArchive'[n]]
        /\ AbsTrouble[n] <=> stuck[u] # {} \/ pc[u] = "unread"
        /\ (stuck'[u] # {} \/ pc'[u] = "unread" <=> stuck[u] # {} \/ pc[u] = "unread") =>
             UNCHANGED AbsTrouble
    BY <1>1, <1>3, WithinSession
  <2>2. AbsCurrent'[n] = None
    BY ONLY <2>1, <1>7
  <2>3. UNCHANGED AbsTrouble
    BY <1>1, <2>1
  <2> QED
    BY <1>1, <1>5, <1>6, <2>1, <2>2, <2>3
<1>10. AbsArchive' = [AbsArchive EXCEPT ![n][s] = AbsCurrent[n]]
  <2>1. AbsArchive'[n] = [AbsArchive[n] EXCEPT ![s] = AbsCurrent[n]]
    BY <1>8, <1>9 DEF AbsArchive
  <2> QED
    BY <1>9, <2>1
<1>11. \A r \in s .. MaxStamp : AbsArchive[n][r] = None
  <2> SUFFICES ASSUME NEW r \in s .. MaxStamp PROVE AbsArchive[n][r] = None
    OBVIOUS
  <2>1. r \in Stamps /\ r > clock /\ clock \in Int
    BY <1>a, <1>2, StoreAssumption DEF Stamps, TypeOK
  <2>2. dir[Version(n, r)] = None
    <3>1. Version(n, r)[2] = r /\ Version(n, r) \in Entries
      BY <2>1, EntriesOf DEF Version
    <3> QED
      BY <2>1, <3>1 DEF MapInv, Clocked
  <2> QED
    BY <2>1, <2>2 DEF AbsArchive, Holds
<1> QED
  BY <1>6, <1>9, <1>10, <1>11 DEF Abstract!Archive, Stamps

\* A call that fails is trouble.
LEMMA FailureMaps ==
  ASSUME Ordinary, MapInv, NEW u \in Threads,
         \/ BackupRenameFails(u) \/ DeleteMainFails(u) \/ DeleteVersionFails(u)
         \/ OpenDirectoryFails(u) /\ pc[u] = "opendir_rm",
         NEW n \in Names, File(u) = n
  PROVE  Abstract!CallFails(n)
<1>a. TypeInv /\ TypeOK /\ KeepInv
  BY DEF MapInv, KeepInv, TypeInv
<1>1. UNCHANGED <<req, dir, upload>> /\ Critical(u) /\ Critical(u)' /\ Step(u)
  BY <1>a DEF BackupRenameFails, DeleteMainFails, DeleteVersionFails, OpenDirectoryFails,
     Goto, fsVars, Step, Serve, WriteStep, RmStep, Critical, WritePcs, RmPcs, TypeOK
<1>2. Faults \cap {"rename", "remove", "opendir"} # {}
  BY DEF BackupRenameFails, DeleteMainFails, DeleteVersionFails, OpenDirectoryFails, Goto,
     MapInv, ToPutAside
<1>3. stuck'[u] # {} \/ pc'[u] = "unread"
  <2>1. stuck[u] \subseteq Entries /\ pc \in [Threads -> Pcs]
        /\ stuck \in [Threads -> SUBSET Entries]
    BY <1>a DEF TypeOK
  <2>2. CASE BackupRenameFails(u)
    <3>1. stuck'[u] = {FullPath(u)}
      BY <2>1, <2>2 DEF BackupRenameFails
    <3> QED
      BY <3>1
  <2>3. CASE DeleteMainFails(u)
    <3>1. stuck'[u] = stuck[u] \cup {FullPath(u)}
      BY <2>1, <2>3 DEF DeleteMainFails
    <3> QED
      BY <3>1
  <2>4. CASE DeleteVersionFails(u)
    <3>1. PICK e \in Unswept(u) : stuck'[u] = stuck[u] \cup {e}
      BY <2>1, <2>4 DEF DeleteVersionFails
    <3> QED
      BY <3>1
  <2>5. CASE OpenDirectoryFails(u) /\ pc[u] = "opendir_rm"
    BY <2>1, <2>5 DEF OpenDirectoryFails, Goto
  <2> QED
    BY <2>2, <2>3, <2>4, <2>5
<1>4. Holds(Main(n))' = Holds(Main(n))
        /\ \A s \in Stamps : Holds(Version(n, s))' = Holds(Version(n, s))
  BY <1>1 DEF Holds
<1>5. /\ UNCHANGED AbsSession /\ AbsSession[n] \in {"write", "remove"}
      /\ AbsCurrent[n] = (IF Holds(Main(n)) = u THEN None ELSE Holds(Main(n)))
      /\ AbsCurrent'[n] = (IF Holds(Main(n))' = u THEN None ELSE Holds(Main(n))')
      /\ AbsCurrent' = [AbsCurrent EXCEPT ![n] = AbsCurrent'[n]]
      /\ AbsArchive' = [AbsArchive EXCEPT ![n] = AbsArchive'[n]]
      /\ AbsTrouble' = [AbsTrouble EXCEPT ![n] = TRUE]
  BY <1>1, <1>3, WithinSession
<1>6. UNCHANGED AbsCurrent
  BY <1>4, <1>5, AbsFunctions
<1>7. UNCHANGED AbsArchive
  BY <1>4, <1>5, ArchiveStays
<1> QED
  BY <1>2, <1>5, <1>6, <1>7 DEF Abstract!CallFails

\* Creating the file is not visible, before its session ends; truncating what could not
\* be put aside is.
LEMMA OpenMaps ==
  ASSUME Ordinary, MapInv, NEW u \in Threads, FopenForWrite(u),
         NEW n \in Names, File(u) = n
  PROVE  \/ UNCHANGED <<AbsCurrent, AbsArchive, AbsSession, AbsTrouble>>
         \/ Abstract!Overwrite(n)
<1>a. TypeInv /\ TypeOK /\ KeepInv
  BY DEF MapInv, KeepInv, TypeInv
<1>1. /\ pc[u] = "fopen" /\ pc'[u] = "flock" /\ FullPath(u) = Main(n)
      /\ UNCHANGED <<req, stuck>>
  BY <1>a DEF FopenForWrite, Goto, FullPath, writeVars, TypeOK
<1>2. Step(u) /\ Critical(u) /\ Critical(u)' /\ Op(u) = "WRITE"
  BY <1>1 DEF Step, Serve, WriteStep, Critical, WritePcs, MapInv, RmInv
<1>3. Holds(Main(n))' = u
  <2>1. /\ fd'[u] \in Uploads /\ dir'[Main(n)] = fd'[u]
        /\ upload' = [upload EXCEPT ![fd'[u]] = u]
    BY <1>a, <1>1, OpensFile
  <2>2. upload'[fd'[u]] = u /\ fd'[u] # None
    BY <1>a, <2>1, StoreAssumption DEF TypeOK
  <2> QED
    BY <2>1, <2>2 DEF Holds
<1>4. ASSUME NEW s \in Stamps PROVE Holds(Version(n, s))' = Holds(Version(n, s))
  <2> DEFINE e == Version(n, s)
  <2>1. e \in Entries /\ e # Main(n)
    BY EntriesOf
  <2>2. dir'[e] = dir[e]
    BY <1>a, <1>1, <2>1 DEF FopenForWrite, TypeOK
  <2>3. /\ ~Made(u) /\ Main(n) \in Entries
        /\ fd'[u] = IF dir[Main(n)] = None THEN u ELSE dir[Main(n)]
        /\ upload' = [upload EXCEPT ![fd'[u]] = u]
    BY <1>a, <1>1, OpensFile
  <2>4. dir[e] # None => dir[e] \in Uploads /\ dir[e] # u /\ dir[e] # dir[Main(n)]
    BY <1>a, <2>1, <2>3 DEF KeepInv, Unmade, LinkedOnce, TypeOK
  <2>5. dir[e] # None => upload'[dir[e]] = upload[dir[e]]
    BY <1>a, <2>3, <2>4 DEF TypeOK
  <2> QED
    BY <2>2, <2>5 DEF Holds
<1>5. /\ UNCHANGED <<AbsSession, AbsTrouble>> /\ AbsSession[n] = "write"
      /\ AbsCurrent[n] = (IF Holds(Main(n)) = u THEN None ELSE Holds(Main(n)))
      /\ AbsCurrent'[n] = (IF Holds(Main(n))' = u THEN None ELSE Holds(Main(n))')
      /\ AbsCurrent' = [AbsCurrent EXCEPT ![n] = AbsCurrent'[n]]
      /\ AbsArchive' = [AbsArchive EXCEPT ![n] = AbsArchive'[n]]
      /\ AbsTrouble[n] <=> stuck[u] # {} \/ pc[u] = "unread"
  BY <1>1, <1>2, WithinSession
<1>6. UNCHANGED AbsArchive
  BY <1>4, <1>5, ArchiveStays
<1>7. AbsCurrent'[n] = None
  BY <1>3, <1>5
<1>8. CASE stuck[u] = {}
  <2>1. Holds(Main(n)) = None
    BY <1>1, <1>8 DEF MapInv, KeepInv, Vacant, Unhindered, Holds
  <2> QED
    BY <1>5, <1>6, <1>7, <2>1, AbsFunctions
<1>9. CASE stuck[u] # {}
  BY <1>5, <1>6, <1>7, <1>9 DEF Abstract!Overwrite
<1> QED
  BY <1>8, <1>9

\* Removing a partial file is not visible either.
LEMMA RemoveMaps ==
  ASSUME Ordinary, MapInv, NEW u \in Threads, RemovePartial(u),
         NEW n \in Names, File(u) = n
  PROVE  UNCHANGED <<AbsCurrent, AbsArchive, AbsSession, AbsTrouble>>
<1>a. TypeInv /\ TypeOK /\ KeepInv
  BY DEF MapInv, KeepInv, TypeInv
<1>1. /\ pc[u] = "remove" /\ pc'[u] = "unlock" /\ FullPath(u) = Main(n)
      /\ UNCHANGED <<req, stuck, upload>> /\ dir' = [dir EXCEPT ![Main(n)] = None]
  BY <1>a DEF RemovePartial, Goto, FullPath, writeVars, TypeOK
<1>2. Step(u) /\ Critical(u) /\ Critical(u)' /\ Op(u) = "WRITE"
  BY <1>1 DEF Step, Serve, WriteStep, Critical, WritePcs, MapInv, RmInv
<1>3. Holds(Main(n))' = None /\ Holds(Main(n)) \in {u, None}
        /\ \A s \in Stamps : Holds(Version(n, s))' = Holds(Version(n, s))
  BY <1>a, <1>1, EntriesOf DEF Holds, TypeOK, MapInv, InPlace, Writing
<1>4. /\ UNCHANGED <<AbsSession, AbsTrouble>>
      /\ AbsCurrent[n] = (IF Holds(Main(n)) = u THEN None ELSE Holds(Main(n)))
      /\ AbsCurrent'[n] = (IF Holds(Main(n))' = u THEN None ELSE Holds(Main(n))')
      /\ AbsCurrent' = [AbsCurrent EXCEPT ![n] = AbsCurrent'[n]]
      /\ AbsArchive' = [AbsArchive EXCEPT ![n] = AbsArchive'[n]]
  BY <1>1, <1>2, WithinSession
<1>5. UNCHANGED AbsArchive
  BY <1>3, <1>4, ArchiveStays
<1> QED
  BY <1>3, <1>4, <1>5, AbsFunctions

\* delete_single_file erases the current upload, ...
LEMMA DeleteMainMaps ==
  ASSUME Ordinary, MapInv, NEW u \in Threads, DeleteMain(u),
         NEW n \in Names, File(u) = n
  PROVE  Abstract!EraseCurrent(n)
<1>a. TypeInv /\ TypeOK /\ KeepInv
  BY DEF MapInv, KeepInv, TypeInv
<1>1. /\ pc[u] = "delete" /\ pc'[u] = "opendir_rm" /\ FullPath(u) = Main(n)
      /\ UNCHANGED <<req, stuck, upload>> /\ dir' = [dir EXCEPT ![Main(n)] = None]
  BY <1>a DEF DeleteMain, Goto, FullPath, TypeOK
<1>2. Step(u) /\ Critical(u) /\ Critical(u)' /\ Op(u) = "RM"
  BY <1>1 DEF Step, Serve, RmStep, Critical, RmPcs, MapInv, OwnCalls
<1>3. Holds(Main(n))' = None
        /\ \A s \in Stamps : Holds(Version(n, s))' = Holds(Version(n, s))
  BY <1>a, <1>1, EntriesOf DEF Holds, TypeOK
<1>4. /\ UNCHANGED <<AbsSession, AbsTrouble>> /\ AbsSession[n] = "remove"
      /\ AbsCurrent'[n] = (IF Holds(Main(n))' = u THEN None ELSE Holds(Main(n))')
      /\ AbsCurrent' = [AbsCurrent EXCEPT ![n] = AbsCurrent'[n]]
      /\ AbsArchive' = [AbsArchive EXCEPT ![n] = AbsArchive'[n]]
  BY <1>1, <1>2, WithinSession
<1>5. UNCHANGED AbsArchive
  BY <1>3, <1>4, ArchiveStays
<1>6. AbsCurrent' = [AbsCurrent EXCEPT ![n] = None]
  BY <1>3, <1>4
<1> QED
  BY <1>4, <1>5, <1>6 DEF Abstract!EraseCurrent

\* ... and delete_file_versions a version of the same file.
LEMMA DeleteVersionMaps ==
  ASSUME Ordinary, MapInv, NEW u \in Threads, DeleteVersion(u),
         NEW n \in Names, File(u) = n
  PROVE  Abstract!EraseArchived(n)
<1>a. TypeInv /\ TypeOK /\ KeepInv
  BY DEF MapInv, KeepInv, TypeInv
<1>1. PICK e \in Unswept(u) : dir' = [dir EXCEPT ![e] = None]
  BY DEF DeleteVersion
<1>2. pc[u] = "sweep" /\ UNCHANGED <<pc, req, stuck, upload>>
  BY DEF DeleteVersion
<1>3. Step(u) /\ Critical(u) /\ Critical(u)' /\ Op(u) = "RM"
  BY <1>2 DEF Step, Serve, RmStep, Critical, RmPcs, MapInv, OwnCalls
<1>4. e[1] = n /\ e[2] # 0 /\ e \in Entries
  BY DEF Unswept, Matching, Ordinary
<1> DEFINE s == e[2]
<1>5. s \in Stamps /\ e = Version(n, s)
  BY <1>4, StoreAssumption DEF Entries, Stamps, Version
<1>6. \A f \in Entries : dir'[f] = IF f = e THEN None ELSE dir[f]
  BY <1>a, <1>1, <1>4 DEF TypeOK
<1>7. Holds(Main(n))' = Holds(Main(n))
  BY <1>2, <1>5, <1>6, EntriesOf DEF Holds
<1>8. \A r \in Stamps : Holds(Version(n, r))' = IF r = s THEN None ELSE Holds(Version(n, r))
  <2>1. \A r \in Stamps : Version(n, r) = e <=> r = s
    BY <1>5 DEF Version
  <2> QED
    BY <1>2, <1>6, <2>1, EntriesOf DEF Holds
<1>9. /\ UNCHANGED <<AbsSession, AbsTrouble>> /\ AbsSession[n] = "remove"
      /\ AbsCurrent[n] = (IF Holds(Main(n)) = u THEN None ELSE Holds(Main(n)))
      /\ AbsCurrent'[n] = (IF Holds(Main(n))' = u THEN None ELSE Holds(Main(n))')
      /\ AbsCurrent' = [AbsCurrent EXCEPT ![n] = AbsCurrent'[n]]
      /\ AbsArchive' = [AbsArchive EXCEPT ![n] = AbsArchive'[n]]
  BY <1>2, <1>3, WithinSession
<1>10. UNCHANGED AbsCurrent
  BY <1>7, <1>9, AbsFunctions
<1>11. AbsArchive' = [AbsArchive EXCEPT ![n][s] = None]
  <2>1. AbsArchive'[n] = [AbsArchive[n] EXCEPT ![s] = None]
    BY <1>8 DEF AbsArchive
  <2> QED
    BY <1>9, <2>1
<1> QED
  BY <1>5, <1>9, <1>10, <1>11 DEF Abstract!EraseArchived, Stamps

-----------------------------------------------------------------------------
(* The theorem *)

\* The steps that leave a critical section.
LEMMA OnlyTheseLeave ==
  ASSUME TypeOK, NEW u \in Threads, Step(u), Critical(u)
  PROVE  \/ UnlockVersionMutex(u) \/ FopenFails(u) \/ FlockExclusiveFails(u)
         \/ Critical(u)' /\ UNCHANGED req
<1> USE DEF Critical, WritePcs, RmPcs, Goto, TypeOK
<1>1. CASE WriteStep(u)
  BY <1>1 DEF WriteStep, BackupExists, BackupRename, BackupRenameFails, FopenForWrite,
       FlockExclusive, RecvFileData, RecvFails, UnlockFile, Fclose, RemovePartial,
       RemovePartialFails
<1>2. CASE OpenDirectory(u) \/ OpenDirectoryFails(u) \/ RmStep(u)
  BY <1>2 DEF OpenDirectory, OpenDirectoryFails, RmStep, DeleteMain, DeleteMainFails,
       DeleteVersion, DeleteVersionFails, SweepEnds
<1>3. CASE Accept(u) \/ Drop(u) \/ LockVersionMutex(u)
  BY <1>3 DEF Accept, Drop, LockVersionMutex
<1>4. CASE VersionStep(u) \/ LsStep(u)
  BY <1>4 DEF VersionStep, LsStep, ListVersion, ResolveVersion, NoSuchVersion, LsStat,
     LsExists, DisplayVersions
<1>5. CASE ReadStep(u) \/ Sending(u)
  BY <1>5 DEF ReadStep, Sending, FopenForRead, FlockShared, FlockSharedFails, SendFileSize,
     SendFileData, SendFails, CloseRead
<1> QED
  BY <1>1, <1>2, <1>3, <1>4, <1>5 DEF Step, Serve

\* The steps that make trouble or end it.
LEMMA OnlyTheseTrouble ==
  ASSUME TypeOK, NEW u \in Threads, Step(u)
  PROVE  /\ \/ UNCHANGED stuck
            \/ BackupRenameFails(u) \/ DeleteMainFails(u) \/ DeleteVersionFails(u)
         /\ pc'[u] = "unread" => OpenDirectoryFails(u) /\ pc[u] = "opendir_rm"
         /\ pc[u] = "unread" => UnlockVersionMutex(u)
<1> USE DEF Goto, writeVars, TypeOK
<1>1. CASE Accept(u) \/ Drop(u)
  <2>1. pc[u] = "idle" /\ UNCHANGED stuck
    BY <1>1 DEF Accept, Drop
  <2>2. pc'[u] # "unread"
    BY <1>1, <2>1, OnlyTheseLock DEF Critical, RmPcs, WritePcs, Step, LockVersionMutex,
       UnlockVersionMutex, FopenFails, FlockExclusiveFails
  <2> QED
    BY <2>1, <2>2
<1>2. CASE WriteStep(u)
  BY <1>2 DEF WriteStep, BackupExists, BackupRename, FopenForWrite, FopenFails,
     FlockExclusive, FlockExclusiveFails, RecvFileData, RecvFails, UnlockFile, Fclose,
     RemovePartial, RemovePartialFails, BackupRenameFails
<1>3. CASE LockVersionMutex(u) \/ UnlockVersionMutex(u) \/ OpenDirectory(u)
             \/ OpenDirectoryFails(u) \/ RmStep(u)
  BY <1>3 DEF LockVersionMutex, UnlockVersionMutex, OpenDirectory, OpenDirectoryFails,
     RmStep, DeleteMain, DeleteMainFails, DeleteVersion, DeleteVersionFails, SweepEnds
<1>4. CASE VersionStep(u) \/ LsStep(u)
  BY <1>4 DEF VersionStep, LsStep, ListVersion, ResolveVersion, NoSuchVersion, LsStat,
     LsExists, DisplayVersions
<1>5. CASE ReadStep(u) \/ Sending(u)
  BY <1>5 DEF ReadStep, Sending, FopenForRead, FlockShared, FlockSharedFails,
     SendFileSize, SendFileData, SendFails, CloseRead
<1> QED
  BY <1>1, <1>2, <1>3, <1>4, <1>5 DEF Step, Serve

\* A step of a critical section that leaves the directory alone is not seen, unless a
\* call fails in it.
LEMMA Unnoticed ==
  ASSUME Ordinary, MapInv, NEW u \in Threads, Step(u), Critical(u), Critical(u)',
         UNCHANGED <<req, dir, upload>>, ~UnlockVersionMutex(u),
         ~BackupRenameFails(u), ~DeleteMainFails(u), ~DeleteVersionFails(u),
         ~(OpenDirectoryFails(u) /\ pc[u] = "opendir_rm"),
         NEW n \in Names, File(u) = n
  PROVE  UNCHANGED <<AbsCurrent, AbsArchive, AbsSession, AbsTrouble>>
<1>a. TypeOK
  BY DEF MapInv, KeepInv, TypeInv
<1>1. UNCHANGED stuck /\ pc[u] # "unread" /\ pc'[u] # "unread"
  BY <1>a, OnlyTheseTrouble
<1>2. Holds(Main(n))' = Holds(Main(n))
        /\ \A s \in Stamps : Holds(Version(n, s))' = Holds(Version(n, s))
  BY DEF Holds
<1>3. /\ UNCHANGED <<AbsSession, AbsTrouble>>
      /\ AbsCurrent[n] = (IF Holds(Main(n)) = u THEN None ELSE Holds(Main(n)))
      /\ AbsCurrent'[n] = (IF Holds(Main(n))' = u THEN None ELSE Holds(Main(n))')
      /\ AbsCurrent' = [AbsCurrent EXCEPT ![n] = AbsCurrent'[n]]
      /\ AbsArchive' = [AbsArchive EXCEPT ![n] = AbsArchive'[n]]
  BY <1>1, WithinSession
<1>4. UNCHANGED AbsArchive
  BY <1>2, <1>3, ArchiveStays
<1> QED
  BY <1>2, <1>3, <1>4, AbsFunctions

\* A step of a thread maps to a step of VersionedFiles or to none.
LEMMA StepMaps ==
  ASSUME Ordinary, MapInv, NEW u \in Threads, Step(u)
  PROVE  \/ \E n \in Names :
              \/ Abstract!Begin(n) \/ Abstract!CallFails(n)
              \/ Abstract!Archive(n) \/ Abstract!Overwrite(n)
              \/ Abstract!Publish(n) \/ Abstract!GiveUp(n)
              \/ Abstract!EraseCurrent(n) \/ Abstract!EraseArchived(n)
              \/ Abstract!EndRemove(n)
         \/ UNCHANGED <<AbsCurrent, AbsArchive, AbsSession, AbsTrouble>>
<1>a. TypeInv /\ TypeOK /\ KeepInv
  BY DEF MapInv, KeepInv, TypeInv
<1>1. CASE LockVersionMutex(u)
  <2>1. File(u) \in Names
    BY <1>a, <1>1, RequestTyping DEF LockVersionMutex, Goto
  <2> QED
    BY <1>1, <2>1, LockBegins
<1>2. CASE UnlockVersionMutex(u) \/ FopenFails(u) \/ FlockExclusiveFails(u)
  <2>1. pc[u] \in {"unlock", "unread", "fopen", "flock"}
    BY <1>2 DEF UnlockVersionMutex, FopenFails, FlockExclusiveFails, Goto
  <2>2. File(u) \in Names
    BY <1>a, <2>1, RequestTyping
  <2>3. Op(u) = "WRITE" \/ (Op(u) = "RM" /\ UnlockVersionMutex(u))
    BY <1>2, <2>1 DEF MapInv, OwnCalls, RmInv, RmPcs, WritePcs, UnlockVersionMutex,
       FopenFails, FlockExclusiveFails, Goto
  <2> QED
    BY <1>2, <2>2, <2>3, WriteEnds, RmEnds
<1>3. CASE /\ ~LockVersionMutex(u) /\ ~UnlockVersionMutex(u)
           /\ ~FopenFails(u) /\ ~FlockExclusiveFails(u)
  <2>1. CASE ~Critical(u)
    BY <1>a, <1>3, <2>1, OnlyTheseLock, Unseen
  <2>2. CASE Critical(u)
    <3>1. Critical(u)' /\ UNCHANGED req
      BY <1>a, <1>3, <2>2, OnlyTheseLeave
    <3>2. File(u) \in Names
      BY <1>a, <2>2, RequestTyping DEF Critical, WritePcs, RmPcs
    <3>3. CASE BackupRename(u)
      BY <3>2, <3>3, BackupMaps
    <3>4. CASE \/ BackupRenameFails(u) \/ DeleteMainFails(u) \/ DeleteVersionFails(u)
               \/ OpenDirectoryFails(u) /\ pc[u] = "opendir_rm"
      BY <3>2, <3>4, FailureMaps
    <3>5. CASE FopenForWrite(u)
      BY <3>2, <3>5, OpenMaps
    <3>6. CASE RemovePartial(u)
      BY <3>2, <3>6, RemoveMaps
    <3>7. CASE DeleteMain(u) \/ DeleteVersion(u)
      BY <3>2, <3>7, DeleteMainMaps, DeleteVersionMaps
    <3>8. CASE UNCHANGED <<dir, upload>>
      BY <1>3, <2>2, <3>1, <3>2, <3>4, <3>8, Unnoticed
    <3> QED
      BY <3>3, <3>4, <3>5, <3>6, <3>7, <3>8, OnlyTheseWrite
  <2> QED
    BY <2>1, <2>2
<1> QED
  BY <1>1, <1>2, <1>3

\* The handlers implement VersionedFiles: for any number of threads, files, versions and
\* requests, the lock, rename, open, receive, close and remove calls of WRITE and the
\* scan of RM, interleaved, amount to one session per file at a time, which archives
\* uploads in time order and never replaces an archived one (handle_write_request,
\* handle_rm_request, backup_file); and only in a session in which rename, remove or
\* opendir has failed is an upload overwritten, or something left by RM.
THEOREM HandlersImplementVersionedFiles ==
  ASSUME Ordinary
  PROVE  Spec => ImplementsVersionedFiles
<1>1. Init => MapInv
  BY InitMapInv
<1>2. MapInv /\ [Next]_vars => MapInv'
  BY NextMapInv
<1>3. Init => Abstract!Init
  <2> SUFFICES ASSUME Init PROVE Abstract!Init
    OBVIOUS
  <2>1. \A n \in Names, t \in Threads : ~InSession(t, n)
    BY DEF Init, InSession, WritePcs, RmPcs
  <2>2. \A e \in Entries : Holds(e) = InitDir[e]
    BY StoreAssumption DEF Init, Holds, Uploads
  <2>3. AbsSession = [n \in Names |-> "none"] /\ AbsCurrent = [n \in Names |-> Holds(Main(n))]
    BY <2>1 DEF AbsSession, AbsCurrent
  <2>4. AbsTrouble = [n \in Names |-> FALSE]
    BY <2>1 DEF AbsTrouble
  <2>5. AbsCurrent = [n \in Names |-> InitDir[Main(n)]]
    BY <2>2, <2>3, EntriesOf
  <2>6. AbsArchive = [n \in Names |-> [s \in Stamps |-> InitDir[Version(n, s)]]]
    BY <2>2, EntriesOf DEF AbsArchive
  <2> QED
    BY <2>3, <2>4, <2>5, <2>6 DEF Abstract!Init
<1>4. MapInv /\ [Next]_vars => [Abstract!Next]_(Abstract!vars)
  <2> SUFFICES ASSUME MapInv, [Next]_vars
               PROVE  \/ Abstract!Next
                      \/ UNCHANGED <<AbsCurrent, AbsArchive, AbsSession, AbsTrouble>>
    BY DEF Abstract!vars
  <2>1. ASSUME NEW u \in Threads, Step(u)
        PROVE  \/ Abstract!Next
               \/ UNCHANGED <<AbsCurrent, AbsArchive, AbsSession, AbsTrouble>>
    BY <2>1, StepMaps DEF Abstract!Next
  <2>2. ~ServerExits
    BY DEF ServerExits, Ordinary, MapInv, KeepInv, TypeInv, TypeOK
  <2>3. CASE UNCHANGED vars
    <3>1. UNCHANGED <<dir, upload, pc, req, stuck>>
      BY <2>3 DEF vars
    <3>2. \A t \in Threads : Op(t)' = Op(t)
      BY <3>1 DEF Op
    <3>3. \A t \in Threads, n \in Names : InSession(t, n)' <=> InSession(t, n)
      BY <3>1 DEF InSession, File
    <3>4. UNCHANGED <<AbsSession, AbsTrouble>>
      BY <3>1, <3>2, <3>3 DEF AbsSession, AbsTrouble
    <3>5. UNCHANGED <<AbsCurrent, AbsArchive>>
      BY <3>1, <3>3 DEF AbsCurrent, AbsArchive, Holds
    <3> QED
      BY <3>4, <3>5
  <2> QED
    BY <2>1, <2>2, <2>3 DEF Next, Step, Terminating
<1> QED
  BY <1>1, <1>2, <1>3, <1>4, PTL DEF Spec, ImplementsVersionedFiles, Abstract!Spec

=============================================================================
