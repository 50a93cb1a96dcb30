------------------------- MODULE RfsRetentionProofs -------------------------
(***************************************************************************)
(* Theorems about what RfsStore keeps, deletes and sends, for any number   *)
(* of threads, files and versions, any sizes and any storage directory to  *)
(* begin with; most of them whichever calls fail and however often the     *)
(* process ends.                                                           *)
(***************************************************************************)
EXTENDS RfsStoreProofs

-----------------------------------------------------------------------------
(* Steps *)

\* A step of thread u.
Step(u) == Accept(u) \/ Drop(u) \/ Serve(u) \/ Sending(u)

\* What a step of one thread leaves to the others.
LEMMA OthersStay ==
  ASSUME TypeOK, NEW u \in Threads, Step(u), NEW t \in Threads \ {u}
  PROVE  /\ pc'[t] = pc[t] /\ req'[t] = req[t] /\ target'[t] = target[t]
         /\ fd'[t] = fd[t]
         /\ count'[t] = count[t] /\ put'[t] = put[t] /\ stuck'[t] = stuck[t]
         /\ out'[t] = out[t] /\ snap'[t] = snap[t] /\ found'[t] = found[t]
<1> USE DEF Goto, fsVars, writeVars, scanVars, serverVars, TypeOK, Uploads
<1>1. CASE Accept(u) \/ Drop(u)
  BY <1>1 DEF Accept, Drop
<1>2. CASE WriteStep(u)
  BY <1>2 DEF WriteStep, BackupExists, BackupRename, BackupRenameFails, FopenForWrite,
       FopenFails, FlockExclusive, FlockExclusiveFails, RecvFileData, RecvFails, UnlockFile,
       Fclose, RemovePartial, RemovePartialFails
<1>3. CASE LockVersionMutex(u) \/ UnlockVersionMutex(u) \/ OpenDirectory(u)
             \/ OpenDirectoryFails(u) \/ RmStep(u)
  BY <1>3 DEF LockVersionMutex, UnlockVersionMutex, OpenDirectory, OpenDirectoryFails,
       RmStep, DeleteMain, DeleteMainFails, DeleteVersion, DeleteVersionFails, SweepEnds
<1>4. CASE VersionStep(u) \/ LsStep(u)
  BY <1>4 DEF VersionStep, LsStep, ListVersion, ResolveVersion, NoSuchVersion, LsStat,
       LsExists, DisplayVersions
<1>5. CASE ReadStep(u) \/ Sending(u)
  BY <1>5 DEF ReadStep, Sending, FopenForRead, FlockShared, FlockSharedFails, SendFileSize,
       SendFileData, SendFails, CloseRead
<1> QED
  BY <1>1, <1>2, <1>3, <1>4, <1>5 DEF Step, Serve

\* The size a thread knows of is its own.
LEMMA SizesStay ==
  ASSUME TypeOK, NEW u \in Threads, Step(u), NEW x \in Uploads \ {u}
  PROVE  size'[x] = size[x]
<1>1. CASE Accept(u) \/ Drop(u)
  BY <1>1 DEF Accept, Drop, TypeOK
<1>2. CASE WriteStep(u)
  BY <1>2 DEF WriteStep, BackupExists, BackupRename, BackupRenameFails, FopenForWrite,
       FopenFails, FlockExclusive, FlockExclusiveFails, RecvFileData, RecvFails, UnlockFile,
       Fclose, RemovePartial, RemovePartialFails
<1>3. CASE LockVersionMutex(u) \/ UnlockVersionMutex(u) \/ OpenDirectory(u)
             \/ OpenDirectoryFails(u) \/ RmStep(u)
  BY <1>3 DEF LockVersionMutex, UnlockVersionMutex, OpenDirectory, OpenDirectoryFails,
       RmStep, DeleteMain, DeleteMainFails, DeleteVersion, DeleteVersionFails, SweepEnds
<1>4. CASE VersionStep(u) \/ LsStep(u)
  BY <1>4 DEF VersionStep, LsStep, ListVersion, ResolveVersion, NoSuchVersion, LsStat,
       LsExists, DisplayVersions, TypeOK
<1>5. CASE ReadStep(u) \/ Sending(u)
  BY <1>5 DEF ReadStep, Sending, FopenForRead, FlockShared, FlockSharedFails, SendFileSize,
       SendFileData, SendFails, CloseRead, TypeOK
<1> QED
  BY <1>1, <1>2, <1>3, <1>4, <1>5 DEF Step, Serve

\* The steps that change the directory, the content of a file, or the clock.
LEMMA OnlyTheseWrite ==
  ASSUME NEW u \in Threads, Step(u)
  PROVE  /\ \/ UNCHANGED dir
            \/ BackupRename(u) \/ FopenForWrite(u) \/ RemovePartial(u)
            \/ DeleteMain(u) \/ DeleteVersion(u)
         /\ \/ UNCHANGED data
            \/ FopenForWrite(u) \/ RecvFileData(u) \/ Fclose(u)
         /\ UNCHANGED upload \/ FopenForWrite(u)
         /\ UNCHANGED clock \/ BackupRename(u)
<1> USE DEF fsVars, serverVars
<1>1. CASE Accept(u) \/ Drop(u)
  BY <1>1 DEF Accept, Drop
<1>2. CASE WriteStep(u)
  BY <1>2 DEF WriteStep, BackupExists, BackupRename, BackupRenameFails, FopenForWrite,
       FopenFails, FlockExclusive, FlockExclusiveFails, RecvFileData, RecvFails, UnlockFile,
       Fclose, RemovePartial, RemovePartialFails
<1>3. CASE LockVersionMutex(u) \/ UnlockVersionMutex(u) \/ OpenDirectory(u)
             \/ OpenDirectoryFails(u) \/ RmStep(u)
  BY <1>3 DEF LockVersionMutex, UnlockVersionMutex, OpenDirectory, OpenDirectoryFails,
       RmStep, DeleteMain, DeleteMainFails, DeleteVersion, DeleteVersionFails, SweepEnds
<1>4. CASE VersionStep(u) \/ LsStep(u)
  BY <1>4 DEF VersionStep, LsStep, ListVersion, ResolveVersion, NoSuchVersion, LsStat,
       LsExists, DisplayVersions
<1>5. CASE ReadStep(u) \/ Sending(u)
  BY <1>5 DEF ReadStep, Sending, FopenForRead, FlockShared, FlockSharedFails, SendFileSize,
       SendFileData, SendFails, CloseRead
<1> QED
  BY <1>1, <1>2, <1>3, <1>4, <1>5 DEF Step, Serve

\* The steps that change a mutex; all others that end in a critical section begin in
\* one, with the request the thread has.
LEMMA OnlyTheseLock ==
  ASSUME TypeOK, NEW u \in Threads, Step(u)
  PROVE  \/ LockVersionMutex(u) \/ UnlockVersionMutex(u)
         \/ FopenFails(u) \/ FlockExclusiveFails(u)
         \/ UNCHANGED mutex /\ (Critical(u)' => Critical(u) /\ UNCHANGED req)
<1> USE DEF Goto, fsVars, writeVars, scanVars, serverVars, TypeOK, Critical, WritePcs, RmPcs
<1>1. CASE Accept(u)
  <2>1. \E r \in Requests :
          pc' = [pc EXCEPT ![u] = CASE r.op \in {"WRITE", "RM"} -> "lock"
                                    [] r.op = "GET"             -> "open"
                                    [] r.op = "GETVERSION"      -> "opendir"
                                    [] r.op = "LS"              -> "stat"]
    BY <1>1 DEF Accept
  <2>2. pc'[u] \in {"lock", "open", "opendir", "stat"}
    BY <2>1, StoreAssumption DEF Ops
  <2> QED
    BY <1>1, <2>2 DEF Accept
<1>2. CASE Drop(u)
  BY <1>2 DEF Drop
<1>3. CASE WriteStep(u)
  BY <1>3 DEF WriteStep, BackupExists, BackupRename, BackupRenameFails, FopenForWrite,
       FlockExclusive, RecvFileData, RecvFails, UnlockFile, Fclose, RemovePartial,
       RemovePartialFails
<1>4. CASE LockVersionMutex(u) \/ UnlockVersionMutex(u) \/ OpenDirectory(u)
             \/ OpenDirectoryFails(u) \/ RmStep(u)
  BY <1>4 DEF OpenDirectory, OpenDirectoryFails, RmStep, DeleteMain, DeleteMainFails,
       DeleteVersion, DeleteVersionFails, SweepEnds
<1>5. CASE VersionStep(u) \/ LsStep(u)
  BY <1>5 DEF VersionStep, LsStep, ListVersion, ResolveVersion, NoSuchVersion, LsStat,
       LsExists, DisplayVersions
<1>6. CASE ReadStep(u) \/ Sending(u)
  BY <1>6 DEF ReadStep, Sending, FopenForRead, FlockShared, FlockSharedFails, SendFileSize,
       SendFileData, SendFails, CloseRead
<1> QED
  BY <1>1, <1>2, <1>3, <1>4, <1>5, <1>6 DEF Step, Serve

-----------------------------------------------------------------------------
(* The mutexes, whatever fails *)

\* A thread in a critical section holds its mutex, with every fault and process end:
\* nobody takes it away, and nobody else gives it back.
LEMMA OwnersStep == TypeInv /\ Owners /\ [Next]_vars => Owners'
<1> SUFFICES ASSUME TypeInv, Owners, [Next]_vars PROVE Owners'
  OBVIOUS
<1>a. TypeOK
  BY DEF TypeInv
<1>1. ASSUME NEW u \in Threads, Step(u) PROVE Owners'
  <2> SUFFICES ASSUME NEW t \in Threads, Critical(t)' PROVE mutex'[MutexFor(t)'] = t
    BY DEF Owners
  <2>1. CASE t # u
    <3>1. pc'[t] = pc[t] /\ req'[t] = req[t]
      BY <1>a, <1>1, <2>1, OthersStay
    <3>2. mutex[MutexFor(t)] = t /\ MutexFor(t)' = MutexFor(t) /\ Critical(t)
      BY <3>1 DEF Owners, Critical, MutexFor
    <3>3. pc[t] \notin {"idle", "dropped"} /\ t # None
      BY <3>2, StoreAssumption DEF Critical, WritePcs, RmPcs, Uploads
    <3>4. MutexFor(t) \in Mutexes
      BY <3>3, RequestTyping
    <3>5. CASE LockVersionMutex(u)
      <4>1. mutex[MutexFor(u)] = None /\ mutex' = [mutex EXCEPT ![MutexFor(u)] = u]
        BY <3>5 DEF LockVersionMutex, MutexFree
      <4> QED
        BY <3>2, <3>3, <3>4, <4>1, <1>a DEF TypeOK
    <3>6. CASE UnlockVersionMutex(u) \/ FopenFails(u) \/ FlockExclusiveFails(u)
      <4>1. Critical(u) /\ mutex' = [mutex EXCEPT ![MutexFor(u)] = None]
        BY <3>6 DEF UnlockVersionMutex, FopenFails, FlockExclusiveFails, Release, Goto,
             Critical, WritePcs, RmPcs
      <4>2. mutex[MutexFor(u)] = u
        BY <4>1 DEF Owners
      <4> QED
        BY <2>1, <3>2, <3>4, <4>1, <4>2, <1>a DEF TypeOK
    <3> QED
      BY <1>a, <1>1, <3>2, <3>5, <3>6, OnlyTheseLock
  <2>2. CASE t = u
    <3>1. CASE LockVersionMutex(u)
      <4>1. mutex' = [mutex EXCEPT ![MutexFor(u)] = u] /\ UNCHANGED req /\ pc[u] = "lock"
        BY <3>1 DEF LockVersionMutex, Goto
      <4>2. MutexFor(u) \in Mutexes
        BY <4>1, RequestTyping
      <4> QED
        BY <2>2, <4>1, <4>2, <1>a DEF TypeOK, MutexFor
    <3>2. CASE UnlockVersionMutex(u) \/ FopenFails(u) \/ FlockExclusiveFails(u)
      BY <2>2, <3>2, <1>a DEF UnlockVersionMutex, FopenFails, FlockExclusiveFails, Goto,
           TypeOK, Critical, WritePcs, RmPcs
    <3>3. CASE UNCHANGED mutex /\ (Critical(u)' => Critical(u) /\ UNCHANGED req)
      BY <2>2, <3>3 DEF Owners, MutexFor
    <3> QED
      BY <1>a, <1>1, <3>1, <3>2, <3>3, OnlyTheseLock
  <2> QED
    BY <2>1, <2>2
<1>2. CASE ServerExits
  BY <1>2, <1>a DEF ServerExits, Owners, Critical, Active, EndPcs, WritePcs, RmPcs, TypeOK
<1>3. CASE UNCHANGED vars
  BY <1>3 DEF vars, Owners, Critical, MutexFor
<1> QED
  BY <1>1, <1>2, <1>3 DEF Next, Step, Terminating

\* While a thread is in a critical section, other threads at most remove entries of
\* its file.
LEMMA OthersOnlyRemove ==
  ASSUME Serialized, TypeInv, Owners, NEW u \in Threads, Step(u),
         NEW t \in Threads \ {u}, Critical(t), NEW e \in Entries, e[1] = File(t)
  PROVE  dir'[e] \in {dir[e], None}
<1>a. TypeOK
  BY DEF TypeInv
<1>1. CASE BackupRename(u) \/ FopenForWrite(u)
  <2>1. pc[u] \in {"rename", "fopen"} /\ Critical(u)
    BY <1>1 DEF BackupRename, FopenForWrite, Goto, Critical, WritePcs
  <2>2. File(u) # File(t)
    BY <2>1, Exclusive
  <2>3. e # FullPath(u) /\ \A s \in Stamps : e # Version(File(u), s)
    BY <2>2 DEF FullPath, Main, Version
  <2>4. CASE BackupRename(u)
    <3>1. PICK s \in Stamps :
            dir' = [dir EXCEPT ![FullPath(u)] = None,
                              ![Version(File(u), s)] = dir[FullPath(u)]]
      BY <2>4 DEF BackupRename, Readings
    <3> QED
      BY <2>3, <3>1, <1>a DEF TypeOK
  <2>5. CASE FopenForWrite(u)
    BY <2>3, <2>5, <1>a DEF FopenForWrite, TypeOK
  <2> QED
    BY <1>1, <2>4, <2>5
<1>2. CASE RemovePartial(u) \/ DeleteMain(u) \/ DeleteVersion(u)
  BY <1>2, <1>a DEF RemovePartial, RemovePartialFails, DeleteMain, DeleteMainFails,
       DeleteVersion, DeleteVersionFails, TypeOK
<1> QED
  BY <1>1, <1>2, OnlyTheseWrite

-----------------------------------------------------------------------------
(* RM *)

\* How far the RM of thread t has come: the file is gone, then no version is left
\* but those the scan is sure to meet, then none at all; but for what it has failed to
\* remove.  A WRITE is no RM.
RmInv ==
  \A t \in Threads :
    /\ pc[t] \in WritePcs => Op(t) = "WRITE"
    /\ pc[t] \in {"opendir_rm", "sweep"} =>
         dir[FullPath(t)] = None \/ FullPath(t) \in stuck[t]
    /\ pc[t] = "sweep" =>
         \A e \in Entries :
           e[1] = File(t) /\ dir[e] # None => e \in snap[t] \/ e \in stuck[t]
    /\ pc[t] = "unlock" /\ Op(t) = "RM" =>
         \A e \in Entries : e[1] = File(t) /\ dir[e] # None => e \in stuck[t]

\* A step of another thread leaves it so, as it adds no entry of the file.
LEMMA RmUndisturbed ==
  ASSUME Serialized, TypeInv, Owners, RmInv, NEW u \in Threads, Step(u),
         NEW t \in Threads \ {u}
  PROVE  /\ pc'[t] \in WritePcs => Op(t)' = "WRITE"
         /\ pc'[t] \in {"opendir_rm", "sweep"} =>
              dir'[FullPath(t)'] = None \/ FullPath(t)' \in stuck'[t]
         /\ pc'[t] = "sweep" =>
              \A e \in Entries :
                e[1] = File(t)' /\ dir'[e] # None => e \in snap'[t] \/ e \in stuck'[t]
         /\ pc'[t] = "unlock" /\ Op(t)' = "RM" =>
              \A e \in Entries : e[1] = File(t)' /\ dir'[e] # None => e \in stuck'[t]
<1>1. /\ pc'[t] = pc[t] /\ snap'[t] = snap[t] /\ stuck'[t] = stuck[t]
      /\ Op(t)' = Op(t) /\ File(t)' = File(t) /\ FullPath(t)' = FullPath(t)
  BY OthersStay DEF TypeInv, Op, File, FullPath
<1>2. ASSUME pc[t] \in {"opendir_rm", "sweep", "unlock"}
      PROVE  \A e \in Entries : e[1] = File(t) /\ dir[e] = None => dir'[e] = None
  <2>1. Critical(t)
    BY <1>2 DEF Critical, RmPcs
  <2> QED
    BY <2>1, OthersOnlyRemove
<1>3. ASSUME pc[t] \in {"opendir_rm", "sweep"}
      PROVE  FullPath(t) \in Entries /\ FullPath(t)[1] = File(t)
  BY <1>3, RequestTyping DEF FullPath, Main
<1> QED
  BY <1>1, <1>2, <1>3 DEF RmInv

\* A step of the thread itself.
LEMMA RmGoesOn ==
  ASSUME Serialized, TypeInv, Owners, RmInv, NEW t \in Threads, Step(t)
  PROVE  /\ pc'[t] \in WritePcs => Op(t)' = "WRITE"
         /\ pc'[t] \in {"opendir_rm", "sweep"} =>
              dir'[FullPath(t)'] = None \/ FullPath(t)' \in stuck'[t]
         /\ pc'[t] = "sweep" =>
              \A e \in Entries :
                e[1] = File(t)' /\ dir'[e] # None => e \in snap'[t] \/ e \in stuck'[t]
         /\ pc'[t] = "unlock" /\ Op(t)' = "RM" =>
              \A e \in Entries : e[1] = File(t)' /\ dir'[e] # None => e \in stuck'[t]
<1>a. TypeOK
  BY DEF TypeInv
<1>1. ASSUME UNCHANGED req
      PROVE  Op(t)' = Op(t) /\ File(t)' = File(t) /\ FullPath(t)' = FullPath(t)
  BY <1>1 DEF Op, File, FullPath
<1>2. CASE DeleteMain(t)
  <2>1. pc'[t] = "opendir_rm" /\ UNCHANGED req /\ dir' = [dir EXCEPT ![FullPath(t)] = None]
    BY <1>2, <1>a DEF DeleteMain, Goto, TypeOK
  <2>2. pc[t] = "delete"
    BY <1>2 DEF DeleteMain, Goto
  <2>3. FullPath(t) \in Entries
    BY <2>2, RequestTyping
  <2> QED
    BY <2>1, <2>3, <1>1, <1>a DEF WritePcs, TypeOK
<1>2a. CASE DeleteMainFails(t)
  <2>1. pc'[t] = "opendir_rm" /\ UNCHANGED req /\ pc[t] = "delete"
    BY <1>2a, <1>a DEF DeleteMainFails, Goto, TypeOK
  <2>2. FullPath(t) \in stuck'[t]
    BY <1>2a, <1>a DEF DeleteMainFails, TypeOK
  <2> QED
    BY <2>1, <2>2, <1>1 DEF WritePcs
<1>3. CASE OpenDirectory(t)
  <2>1. UNCHANGED <<dir, req, stuck>> /\ pc[t] \in {"opendir_rm", "opendir"}
    BY <1>3 DEF OpenDirectory, Goto, fsVars, writeVars
  <2>2. CASE pc[t] = "opendir"
    BY <1>3, <2>2, <1>a DEF OpenDirectory, Goto, TypeOK, WritePcs
  <2>3. CASE pc[t] = "opendir_rm"
    <3>1. pc'[t] = "sweep" /\ snap'[t] = {e \in Matching(File(t)) : dir[e] # None}
      BY <1>3, <2>3, <1>a DEF OpenDirectory, Goto, TypeOK
    <3>2. dir[FullPath(t)] = None \/ FullPath(t) \in stuck[t]
      BY <2>3 DEF RmInv
    <3>3. \A e \in Entries : e[1] = File(t) /\ e # FullPath(t) => e \in Matching(File(t))
      BY DEF Matching, FullPath, Main, Entries
    <3> QED
      BY <1>1, <2>1, <3>1, <3>2, <3>3 DEF WritePcs
  <2> QED
    BY <2>1, <2>2, <2>3
<1>3a. CASE OpenDirectoryFails(t)
  BY <1>3a, <1>a DEF OpenDirectoryFails, Goto, TypeOK, WritePcs
<1>4. CASE DeleteVersion(t) \/ DeleteVersionFails(t)
  <2>1. UNCHANGED <<pc, req, snap>> /\ pc[t] = "sweep"
    BY <1>4 DEF DeleteVersion, DeleteVersionFails, scanVars
  <2>2. \A e \in Entries : dir[e] = None => dir'[e] = None
    BY <1>4, <1>a DEF DeleteVersion, DeleteVersionFails, TypeOK, fsVars
  <2>3. stuck[t] \subseteq stuck'[t]
    BY <1>4, <1>a DEF DeleteVersion, DeleteVersionFails, TypeOK
  <2>4. FullPath(t) \in Entries
    BY <2>1, RequestTyping
  <2> QED
    BY <1>1, <2>1, <2>2, <2>3, <2>4 DEF RmInv, WritePcs
<1>5. CASE SweepEnds(t)
  <2>1. UNCHANGED <<dir, req, stuck>> /\ pc[t] = "sweep" /\ pc'[t] = "unlock"
    BY <1>5, <1>a DEF SweepEnds, Goto, fsVars, writeVars, TypeOK
  <2>2. \A e \in snap[t] : dir[e] # None => e \in stuck[t]
    BY <1>5 DEF SweepEnds
  <2> QED
    BY <1>1, <2>1, <2>2 DEF RmInv, WritePcs
<1>6. CASE WriteStep(t)
  <2>1. pc[t] \in WritePcs /\ UNCHANGED req
    BY <1>6 DEF WriteStep, BackupExists, BackupRename, BackupRenameFails, FopenForWrite,
         FopenFails, FlockExclusive, FlockExclusiveFails, RecvFileData, RecvFails,
         UnlockFile, Fclose, RemovePartial, RemovePartialFails, Goto, WritePcs
  <2>2. pc'[t] \in WritePcs \cup {"unlock", "failed"}
    BY <1>6, <1>a DEF WriteStep, BackupExists, BackupRename, BackupRenameFails,
         FopenForWrite, FopenFails, FlockExclusive, FlockExclusiveFails, RecvFileData,
         RecvFails, UnlockFile, Fclose, RemovePartial, RemovePartialFails, Goto, WritePcs,
         TypeOK
  <2>3. Op(t)' = "WRITE"
    BY <1>1, <2>1 DEF RmInv
  <2> QED
    BY <2>2, <2>3 DEF WritePcs
<1>7. CASE LockVersionMutex(t)
  BY <1>1, <1>7, <1>a DEF LockVersionMutex, Goto, WritePcs, TypeOK
<1>8. CASE UnlockVersionMutex(t)
  BY <1>8, <1>a DEF UnlockVersionMutex, Goto, WritePcs, TypeOK
<1>9. CASE Accept(t) \/ Drop(t) \/ VersionStep(t) \/ LsStep(t) \/ ReadStep(t) \/ Sending(t)
  <2>1. ~Critical(t)'
    <3>1. ~Critical(t)
      BY <1>9 DEF Accept, Drop, VersionStep, LsStep, ReadStep, Sending, ListVersion,
           ResolveVersion, NoSuchVersion, LsStat, LsExists, DisplayVersions, FopenForRead,
           FlockShared, FlockSharedFails, SendFileSize, SendFileData, SendFails, CloseRead,
           Goto, Critical, WritePcs, RmPcs
    <3>2. ~ (LockVersionMutex(t) \/ UnlockVersionMutex(t) \/ FopenFails(t)
               \/ FlockExclusiveFails(t))
      BY <1>9 DEF Accept, Drop, VersionStep, LsStep, ReadStep, Sending, ListVersion,
           ResolveVersion, NoSuchVersion, LsStat, LsExists, DisplayVersions, FopenForRead,
           FlockShared, FlockSharedFails, SendFileSize, SendFileData, SendFails, CloseRead,
           Goto, LockVersionMutex, UnlockVersionMutex, FopenFails, FlockExclusiveFails
    <3> QED
      BY <3>1, <3>2, <1>a, OnlyTheseLock
  <2> QED
    BY <2>1 DEF Critical, RmPcs
<1> QED
  BY <1>2, <1>2a, <1>3, <1>3a, <1>4, <1>5, <1>6, <1>7, <1>8, <1>9 DEF Step, Serve, RmStep

\* When an RM that could read the directory releases its mutex, what is left of the file,
\* be it the file or a version, is what it failed to remove, which it reports to the client
\* (handle_rm_request, delete_file_versions): although the directory is read entry by
\* entry, and whatever calls fail, its own and those of other requests, and however often
\* the process ends.  All it takes is that the spellings of a file share a mutex.
THEOREM OnlyTheReportedIsLeft ==
  ASSUME Serialized
  PROVE  Spec => []RmReportsTheRest
<1> DEFINE I == TypeInv /\ Owners /\ RmInv
<1>1. Init => I
  <2> SUFFICES ASSUME Init PROVE I
    OBVIOUS
  <2>1. \A t \in Threads : pc[t] = "idle"
    BY DEF Init
  <2> QED
    BY <2>1, InitTypeInv DEF Owners, RmInv, Critical, WritePcs, RmPcs
<1>2. I /\ [Next]_vars => I'
  <2> SUFFICES ASSUME TypeInv, Owners, RmInv, [Next]_vars PROVE RmInv'
    BY NextTypeInv, OwnersStep
  <2>1. ASSUME NEW u \in Threads, Step(u) PROVE RmInv'
    BY <2>1, RmUndisturbed, RmGoesOn DEF RmInv
  <2>2. CASE ServerExits
    <3>1. \A t \in Threads : pc'[t] \in EndPcs \cup {"idle"}
      BY <2>2 DEF ServerExits, Active, EndPcs
    <3> QED
      BY <3>1 DEF RmInv, EndPcs, WritePcs
  <2>3. CASE UNCHANGED vars
    BY <2>3 DEF vars, RmInv, Op, File, FullPath
  <2> QED
    BY <2>1, <2>2, <2>3 DEF Next, Step, Terminating
<1>3. I => RmReportsTheRest
  <2> SUFFICES ASSUME I, NEW t \in Threads, pc[t] = "unlock", Op(t) = "RM",
                      NEW s \in 0 .. MaxStamp, dir[<<File(t), s>>] # None
               PROVE  <<File(t), s>> \in stuck[t]
    BY DEF RmReportsTheRest
  <2>1. File(t) \in Names
    BY RequestTyping
  <2> QED
    BY <2>1 DEF RmInv, Entries
<1> QED
  BY <1>1, <1>2, <1>3, PTL DEF Spec

-----------------------------------------------------------------------------
(* Files, whatever fails *)

\* The steps that end with the file of the WRITE open.
LEMMA OnlyTheseKeepWriting ==
  ASSUME TypeOK, NEW u \in Threads, Step(u), Writing(u)'
  PROVE  \/ FopenForWrite(u) \/ FlockExclusive(u) \/ RecvFileData(u)
         \/ RecvFails(u) \/ UnlockFile(u) \/ Fclose(u)
<1> USE DEF Writing, Goto, TypeOK
<1>1. CASE Accept(u)
  BY <1>1, OnlyTheseLock, StoreAssumption DEF Critical, WritePcs, Step, Accept,
     LockVersionMutex, UnlockVersionMutex, FopenFails, FlockExclusiveFails, RmPcs
<1>2. CASE Drop(u)
  BY <1>2 DEF Drop
<1>3. CASE WriteStep(u)
  BY <1>3 DEF WriteStep, BackupExists, BackupRename, BackupRenameFails, FopenFails,
       FlockExclusiveFails, RemovePartial, RemovePartialFails
<1>4. CASE LockVersionMutex(u) \/ UnlockVersionMutex(u) \/ OpenDirectory(u)
             \/ OpenDirectoryFails(u) \/ RmStep(u)
  BY <1>4 DEF LockVersionMutex, UnlockVersionMutex, OpenDirectory, OpenDirectoryFails,
       RmStep, DeleteMain, DeleteMainFails, DeleteVersion, DeleteVersionFails, SweepEnds
<1>5. CASE VersionStep(u) \/ LsStep(u)
  BY <1>5 DEF VersionStep, LsStep, ListVersion, ResolveVersion, NoSuchVersion, LsStat,
       LsExists, DisplayVersions
<1>6. CASE ReadStep(u) \/ Sending(u)
  BY <1>6 DEF ReadStep, Sending, FopenForRead, FlockShared, FlockSharedFails, SendFileSize,
       SendFileData, SendFails, CloseRead
<1> QED
  BY <1>1, <1>2, <1>3, <1>4, <1>5, <1>6 DEF Step, Serve

\* No call of thread t has failed that would have put the file aside or removed it.
Unhindered(t) == stuck[t] = {}

\* Thread t may have created its file.
Made(t) == Writing(t) \/ pc[t] \in EndPcs \cup {"unlock"}

\* A file that has not been created is nowhere, and no other is of that upload, ...
Unmade ==
  \A t \in Threads : ~Made(t) =>
    /\ \A e \in Entries : dir[e] # t
    /\ \A w \in Threads : Writing(w) => fd[w] # t
    /\ \A f \in Uploads : upload[f] = t => f = t

\* ... a file that is being written has the name it was opened by or none, ...
OpenedByName ==
  \A t \in Threads : Writing(t) =>
    fd[t] \in Uploads /\ \A e \in Entries : dir[e] = fd[t] => e = FullPath(t)

\* ... and nobody else writes to it.
WrittenByOne == \A t, w \in Threads : Writing(t) /\ Writing(w) /\ fd[t] = fd[w] => t = w

\* It was last opened for this upload, and is as long as stdio has passed on.
Extended == \A t \in Threads : Writing(t) => upload[fd[t]] = t /\ Len(data[fd[t]]) = put[t]

\* A WRITE whose rename has not failed comes to fopen with its entry free, ...
Vacant == \A t \in Threads : pc[t] = "fopen" /\ Unhindered(t) => dir[FullPath(t)] = None

\* ... and from then on writes to a file of its own, which its entry links unless it has
\* been removed.
Placed ==
  \A t \in Threads : Writing(t) /\ Unhindered(t) =>
    fd[t] = t /\ dir[FullPath(t)] \in {t, None}

\* An upload never receives more than was announced, ...
Bounded == \A t \in Threads : Writing(t) => count[t] <= size[t] \/ count[t] = 0

\* ... and is removed only if it has received less.
CutShort == \A t \in Threads : pc[t] = "remove" => count[t] # size[t]

KeepInv ==
  /\ TypeInv /\ Owners
  /\ Unmade /\ LinkedOnce /\ OpenedByName /\ WrittenByOne /\ Extended
  /\ Vacant /\ Placed
  /\ Bounded /\ CutShort

\* A thread that has its file open either has just opened it, or had it open before and
\* has left the directory alone.
LEMMA WritingGoesOn ==
  ASSUME TypeOK, NEW u \in Threads, Step(u), Writing(u)'
  PROVE  \/ FopenForWrite(u)
         \/ /\ Writing(u) /\ fd'[u] = fd[u] /\ req'[u] = req[u]
            /\ UNCHANGED <<dir, upload, stuck>>
<1>1. CASE FlockExclusive(u) \/ RecvFileData(u) \/ RecvFails(u) \/ UnlockFile(u) \/ Fclose(u)
  BY <1>1 DEF FlockExclusive, RecvFileData, RecvFails, UnlockFile, Fclose, Goto, Writing,
     fsVars, writeVars
<1> QED
  BY <1>1, OnlyTheseKeepWriting

\* A file that may have been created may have been ever since.
LEMMA MadeStaysMade ==
  ASSUME TypeOK, NEW u \in Threads, Step(u), NEW t \in Threads, Made(t)
  PROVE  Made(t)'
<1> USE DEF Goto, TypeOK, Made, Writing, EndPcs
<1>1. CASE t # u
  BY <1>1, OthersStay
<1>2. CASE t = u /\ (Accept(u) \/ Drop(u))
  BY <1>2 DEF Accept, Drop
<1>3. CASE t = u /\ WriteStep(u)
  BY <1>3 DEF WriteStep, BackupExists, BackupRename, BackupRenameFails, FopenForWrite,
       FopenFails, FlockExclusive, FlockExclusiveFails, RecvFileData, RecvFails, UnlockFile,
       Fclose, RemovePartial, RemovePartialFails
<1>4. CASE t = u /\ (LockVersionMutex(u) \/ UnlockVersionMutex(u) \/ OpenDirectory(u)
                       \/ OpenDirectoryFails(u) \/ RmStep(u))
  BY <1>4 DEF LockVersionMutex, UnlockVersionMutex, OpenDirectory, OpenDirectoryFails,
       RmStep, DeleteMain, DeleteMainFails, DeleteVersion, DeleteVersionFails, SweepEnds
<1>5. CASE t = u /\ (VersionStep(u) \/ LsStep(u))
  BY <1>5 DEF VersionStep, LsStep, ListVersion, ResolveVersion, NoSuchVersion, LsStat,
       LsExists, DisplayVersions
<1>6. CASE t = u /\ (ReadStep(u) \/ Sending(u))
  BY <1>6 DEF ReadStep, Sending, FopenForRead, FlockShared, FlockSharedFails, SendFileSize,
       SendFileData, SendFails, CloseRead
<1> QED
  BY <1>1, <1>2, <1>3, <1>4, <1>5, <1>6 DEF Step, Serve

\* What an entry links after a step: what it linked before, the file an fopen has just
\* created, or the file a rename has taken from its name.
LEMMA NamesMove ==
  ASSUME TypeInv, NEW u \in Threads, Step(u), NEW e \in Entries, dir'[e] # None
  PROVE  \/ dir'[e] = dir[e]
         \/ /\ FopenForWrite(u) /\ e = FullPath(u)
            /\ dir[e] = None /\ dir'[e] = u
         \/ /\ BackupRename(u) /\ e[1] = File(u) /\ e[2] = clock'
            /\ clock' \in Readings /\ e # FullPath(u)
            /\ dir'[e] = dir[FullPath(u)] /\ dir'[FullPath(u)] = None
<1>a. TypeOK
  BY DEF TypeInv
<1>1. CASE BackupRename(u)
  <2>1. pc[u] = "rename"
    BY <1>1 DEF BackupRename, Goto
  <2>2. FullPath(u) \in Entries /\ File(u) \in Names
    BY <2>1, RequestTyping
  <2>3. PICK s \in Readings :
          /\ clock' = s
          /\ dir' = [dir EXCEPT ![FullPath(u)] = None,
                               ![Version(File(u), s)] = dir[FullPath(u)]]
    BY <1>1 DEF BackupRename
  <2>4. s \in Stamps /\ Version(File(u), s) \in Entries /\ FullPath(u) # Version(File(u), s)
    BY <2>2, <2>3, StoreAssumption DEF Readings, Version, Entries, Stamps, FullPath, Main
  <2>5. dir'[FullPath(u)] = None /\ dir'[Version(File(u), s)] = dir[FullPath(u)]
    BY <2>2, <2>3, <2>4, <1>a DEF TypeOK
  <2>6. e # Version(File(u), s) => dir'[e] = dir[e]
    BY <2>2, <2>3, <2>4, <2>5, <1>a DEF TypeOK
  <2> QED
    BY <1>1, <2>3, <2>4, <2>5, <2>6 DEF Version
<1>2. CASE FopenForWrite(u)
  <2>1. pc[u] = "fopen"
    BY <1>2 DEF FopenForWrite, Goto
  <2>2. FullPath(u) \in Entries
    BY <2>1, RequestTyping
  <2>3. dir' = [dir EXCEPT ![FullPath(u)] = IF dir[FullPath(u)] = None THEN u
                                           ELSE dir[FullPath(u)]]
    BY <1>2 DEF FopenForWrite
  <2> QED
    BY <1>2, <2>2, <2>3, <1>a DEF TypeOK
<1>3. CASE RemovePartial(u) \/ DeleteMain(u) \/ DeleteVersion(u)
  <2>1. dir'[e] \in {dir[e], None}
    BY <1>3, <1>a DEF RemovePartial, RemovePartialFails, DeleteMain, DeleteMainFails,
         DeleteVersion, DeleteVersionFails, TypeOK
  <2> QED
    BY <2>1
<1> QED
  BY <1>1, <1>2, <1>3, OnlyTheseWrite

\* The file an fopen of a WRITE opens: its own, which is new, or the one that has the name.
LEMMA OpensFile ==
  ASSUME TypeInv, NEW u \in Threads, FopenForWrite(u)
  PROVE  /\ pc[u] = "fopen" /\ ~Made(u) /\ Critical(u) /\ FullPath(u) \in Entries
         /\ req'[u] = req[u] /\ UNCHANGED <<count, put, size, stuck>>
         /\ fd'[u] \in Uploads /\ dir'[FullPath(u)] = fd'[u]
         /\ fd'[u] = IF dir[FullPath(u)] = None THEN u ELSE dir[FullPath(u)]
         /\ data' = [data EXCEPT ![fd'[u]] = <<>>]
         /\ upload' = [upload EXCEPT ![fd'[u]] = u]
<1>a. TypeOK
  BY DEF TypeInv
<1>1. pc[u] = "fopen"
  BY DEF FopenForWrite, Goto
<1>2. FullPath(u) \in Entries /\ ~Made(u) /\ Critical(u)
  BY <1>1, RequestTyping DEF Made, Writing, EndPcs, Critical, WritePcs
<1> DEFINE file == IF dir[FullPath(u)] = None THEN u ELSE dir[FullPath(u)]
<1>3. file \in Uploads
  BY <1>2, <1>a DEF TypeOK, Uploads
<1>4. /\ dir' = [dir EXCEPT ![FullPath(u)] = file]
      /\ data' = [data EXCEPT ![file] = <<>>]
      /\ upload' = [upload EXCEPT ![file] = u]
      /\ fd' = [fd EXCEPT ![u] = file]
      /\ UNCHANGED <<req, count, put, size, stuck>>
  BY DEF FopenForWrite, writeVars
<1>5. fd'[u] = file /\ dir'[FullPath(u)] = file
  <2> HIDE DEF file
  <2> QED
    BY <1>2, <1>3, <1>4, <1>a DEF TypeOK
<1> QED
  BY <1>1, <1>2, <1>3, <1>4, <1>5

\* A receive and a close change the file the thread has open, at its own offset.
LEMMA PassesOn ==
  ASSUME TypeInv, NEW u \in Threads, RecvFileData(u) \/ Fclose(u)
  PROVE  /\ Writing(u) /\ fd[u] \in Uploads
         /\ UNCHANGED <<dir, upload, fd, req, size>>
         /\ put[u] \in Nat /\ put'[u] \in Nat /\ put[u] <= put'[u]
         /\ data' = [data EXCEPT ![fd[u]] = WriteAt(@, put[u], put'[u], u)]
<1>a. TypeOK
  BY DEF TypeInv
<1>1. pc[u] \in {"recv", "fclose"} /\ UNCHANGED <<dir, upload, fd, req, size>>
  BY DEF RecvFileData, Fclose, Goto
<1>2. Writing(u) /\ fd[u] \in Uploads
  BY <1>1 DEF Writing, TypeInv, Opened
<1>3. put[u] \in Nat /\ count[u] \in Nat /\ put[u] <= count[u]
  BY <1>a DEF TypeOK
<1>4. PICK p \in put[u] .. count[u] + 1 :
        /\ put' = [put EXCEPT ![u] = p]
        /\ data' = [data EXCEPT ![fd[u]] = WriteAt(@, put[u], p, u)]
  <2>1. CASE RecvFileData(u)
    BY <2>1 DEF RecvFileData
  <2>2. CASE Fclose(u)
    <3>1. (IF "flush" \in Faults THEN put[u] .. count[u] ELSE {count[u]})
             \subseteq put[u] .. count[u] + 1
      BY <1>3
    <3> QED
      BY <2>2, <3>1 DEF Fclose
  <2> QED
    BY <2>1, <2>2
<1>5. put'[u] = p /\ p \in Nat /\ put[u] <= p
  BY <1>3, <1>4, <1>a DEF TypeOK
<1>6. data' = [data EXCEPT ![fd[u]] = WriteAt(@, put[u], put'[u], u)]
  BY ONLY <1>4, <1>5, Zenon
<1> QED
  BY <1>1, <1>2, <1>3, <1>5, <1>6

\* A file comes into being by the fopen of its own thread.
LEMMA UnmadeStep ==
  ASSUME TypeInv, Unmade, NEW u \in Threads, Step(u)
  PROVE  Unmade'
<1>a. TypeOK
  BY DEF TypeInv
<1> SUFFICES ASSUME NEW t \in Threads, ~Made(t)'
             PROVE  /\ \A e \in Entries : dir'[e] # t
                    /\ \A w \in Threads : Writing(w)' => fd'[w] # t
                    /\ \A f \in Uploads : upload'[f] = t => f = t
  BY DEF Unmade
<1>1. ~Made(t)
  BY <1>a, MadeStaysMade
<1>2. t # None
  BY StoreAssumption DEF Uploads
<1>3. FopenForWrite(u) => t # u
  BY <1>a DEF FopenForWrite, Goto, Made, Writing, TypeOK
<1>4. ASSUME NEW e \in Entries PROVE dir'[e] # t
  <2>1. CASE dir'[e] = None
    BY <2>1, <1>2
  <2>2. CASE dir'[e] = dir[e]
    BY <2>2, <1>1 DEF Unmade
  <2>3. CASE FopenForWrite(u) /\ dir'[e] = u
    BY <2>3, <1>3
  <2>4. CASE BackupRename(u) /\ dir'[e] = dir[FullPath(u)]
    <3>1. FullPath(u) \in Entries
      BY <2>4, RequestTyping DEF BackupRename, Goto
    <3> QED
      BY <2>4, <3>1, <1>1 DEF Unmade
  <2> QED
    BY <2>1, <2>2, <2>3, <2>4, NamesMove
<1>5. ASSUME NEW w \in Threads, Writing(w)' PROVE fd'[w] # t
  <2>1. CASE w # u
    BY <2>1, <1>1, <1>5, <1>a, OthersStay DEF Unmade, Writing
  <2>2. CASE w = u /\ FopenForWrite(u)
    BY <2>2, <1>1, <1>3, OpensFile DEF Unmade
  <2>3. CASE w = u /\ Writing(u) /\ fd'[u] = fd[u]
    BY <2>3, <1>1 DEF Unmade
  <2> QED
    BY <1>5, <1>a, <2>1, <2>2, <2>3, WritingGoesOn
<1>6. ASSUME NEW f \in Uploads, upload'[f] = t PROVE f = t
  <2>1. CASE UNCHANGED upload
    BY <1>1, <1>6, <2>1 DEF Unmade
  <2>2. CASE FopenForWrite(u)
    <3>1. upload' = [upload EXCEPT ![fd'[u]] = u] /\ t # u
      BY <2>2, <1>3, OpensFile
    <3>2. upload[f] = t
      BY <1>6, <3>1, <1>a DEF TypeOK
    <3> QED
      BY <1>1, <3>2 DEF Unmade
  <2> QED
    BY <2>1, <2>2, OnlyTheseWrite
<1> QED
  BY <1>4, <1>5, <1>6

\* fopen gives a name to a file that has none, rename takes the old name from the file it
\* gives a new one.
LEMMA LinkedOnceStep ==
  ASSUME TypeInv, Unmade, LinkedOnce, NEW u \in Threads, Step(u)
  PROVE  LinkedOnce'
<1>1. ASSUME NEW e \in Entries, NEW f \in Entries, dir'[e] = dir'[f], dir'[e] # None,
             dir'[e] = dir[e]
      PROVE  e = f
  <2>1. CASE dir'[f] = dir[f]
    BY <1>1, <2>1 DEF LinkedOnce
  <2>2. CASE FopenForWrite(u) /\ dir'[f] = u
    <3>1. \A g \in Entries : dir[g] # u
      BY <2>2, OpensFile DEF Unmade
    <3> QED
      BY ONLY <1>1, <2>2, <3>1
  <2>3. CASE BackupRename(u) /\ dir'[f] = dir[FullPath(u)] /\ dir'[FullPath(u)] = None
    <3>1. FullPath(u) \in Entries
      BY <2>3, RequestTyping DEF BackupRename, Goto
    <3>2. e = FullPath(u)
      BY <1>1, <2>3, <3>1 DEF LinkedOnce
    <3> QED
      BY <1>1, <2>3, <3>2
  <2> QED
    BY <1>1, <2>1, <2>2, <2>3, NamesMove
<1>2. ASSUME NEW e \in Entries, NEW f \in Entries, dir'[e] = dir'[f], dir'[e] # None,
             dir'[e] # dir[e], dir'[f] # dir[f]
      PROVE  e = f
  <2>1. CASE FopenForWrite(u)
    <3>1. ~BackupRename(u)
      BY <2>1 DEF FopenForWrite, BackupRename, Goto
    <3> QED
      BY <1>2, <2>1, <3>1, NamesMove
  <2>2. CASE ~FopenForWrite(u)
    <3>1. e[1] = File(u) /\ e[2] = clock' /\ f[1] = File(u) /\ f[2] = clock'
      BY <1>2, <2>2, NamesMove
    <3> QED
      BY <3>1 DEF Entries
  <2> QED
    BY <2>1, <2>2
<1> QED
  BY <1>1, <1>2 DEF LinkedOnce

\* Two threads with the same name below their mutexes are one.
LEMMA OneAtAName ==
  ASSUME Serialized, TypeInv, Owners, NEW t \in Threads, NEW u \in Threads,
         Writing(t), Critical(u), FullPath(t) = FullPath(u)
  PROVE  t = u
<1>1. Critical(t)
  BY DEF Writing, Critical, WritePcs
<1>2. File(t) = File(u)
  BY DEF FullPath, Main
<1> QED
  BY <1>1, <1>2, Exclusive

\* Nobody but its writer gives a name to a file that is being written.
LEMMA OpenedByNameStep ==
  ASSUME Serialized, TypeInv, Owners, Unmade, LinkedOnce, OpenedByName,
         NEW u \in Threads, Step(u)
  PROVE  OpenedByName'
<1>a. TypeOK
  BY DEF TypeInv
<1> SUFFICES ASSUME NEW t \in Threads, Writing(t)'
             PROVE  /\ fd'[t] \in Uploads
                    /\ \A e \in Entries : dir'[e] = fd'[t] => e = FullPath(t)'
  BY DEF OpenedByName
<1>1. CASE t = u /\ FopenForWrite(u)
  <2>1. /\ fd'[u] \in Uploads /\ FullPath(u)' = FullPath(u) /\ ~Made(u)
        /\ FullPath(u) \in Entries
        /\ fd'[u] = IF dir[FullPath(u)] = None THEN u ELSE dir[FullPath(u)]
    BY <1>1, OpensFile DEF FullPath, File
  <2>2. ASSUME NEW e \in Entries, dir'[e] = fd'[u], e # FullPath(u) PROVE FALSE
    <3>1. dir'[e] # None
      BY <2>1, <2>2, StoreAssumption
    <3>2. ~BackupRename(u)
      BY <1>1 DEF FopenForWrite, BackupRename, Goto
    <3>3. dir[e] = fd'[u]
      BY <2>2, <3>1, <3>2, NamesMove
    <3> QED
      BY <2>1, <2>2, <3>1, <3>3 DEF Unmade, LinkedOnce
  <2> QED
    BY <1>1, <2>1, <2>2
<1>2. CASE Writing(t) /\ fd'[t] = fd[t] /\ req'[t] = req[t] /\ (t = u => UNCHANGED dir)
  <2>1. /\ fd[t] \in Uploads /\ FullPath(t)' = FullPath(t)
        /\ \A e \in Entries : dir[e] = fd[t] => e = FullPath(t)
    BY <1>2 DEF OpenedByName, FullPath, File
  <2>2. ASSUME NEW e \in Entries, dir'[e] = fd[t], t # u PROVE e = FullPath(t)
    <3>1. dir'[e] # None
      BY <2>1, <2>2, StoreAssumption
    <3>2. CASE dir'[e] = dir[e]
      BY <2>1, <2>2, <3>2
    <3>3. CASE FopenForWrite(u) /\ dir'[e] = u
      BY <1>2, <2>2, <3>3, OpensFile DEF Unmade
    <3>4. CASE BackupRename(u) /\ dir'[e] = dir[FullPath(u)]
      <4>1. FullPath(u) \in Entries /\ Critical(u)
        BY <3>4, RequestTyping DEF BackupRename, Goto, Critical, WritePcs
      <4>2. FullPath(u) = FullPath(t)
        BY <2>1, <2>2, <3>4, <4>1
      <4> QED
        BY <1>2, <2>2, <4>1, <4>2, OneAtAName
    <3> QED
      BY <3>1, <3>2, <3>3, <3>4, NamesMove
  <2> QED
    BY <1>2, <2>1, <2>2
<1>3. t # u => Writing(t) /\ fd'[t] = fd[t] /\ req'[t] = req[t]
  BY <1>a, OthersStay DEF Writing
<1> QED
  BY <1>1, <1>2, <1>3, <1>a, WritingGoesOn

\* fopen opens a file that has not been there, or one that has the name, which nobody else
\* has open for writing.
LEMMA WrittenByOneStep ==
  ASSUME Serialized, TypeInv, Owners, Unmade, OpenedByName, WrittenByOne,
         NEW u \in Threads, Step(u)
  PROVE  WrittenByOne'
<1>a. TypeOK
  BY DEF TypeInv
<1>1. ASSUME NEW t \in Threads, Writing(t)', ~(t = u /\ FopenForWrite(u))
      PROVE  Writing(t) /\ fd'[t] = fd[t]
  BY <1>1, <1>a, OthersStay, WritingGoesOn DEF Writing
<1>2. ASSUME FopenForWrite(u), NEW t \in Threads \ {u}, Writing(t)', fd'[t] = fd'[u]
      PROVE  FALSE
  <2>1. Writing(t) /\ fd[t] = fd'[u]
    BY <1>1, <1>2
  <2>2. fd[t] # u
    BY <1>2, <2>1, OpensFile DEF Unmade
  <2>3. FullPath(u) \in Entries /\ Critical(u) /\ dir[FullPath(u)] = fd[t]
    BY <1>2, <2>1, <2>2, OpensFile
  <2>4. FullPath(t) = FullPath(u)
    BY <2>1, <2>3 DEF OpenedByName
  <2> QED
    BY <2>1, <2>3, <2>4, OneAtAName
<1> SUFFICES ASSUME NEW t \in Threads, NEW w \in Threads,
                    Writing(t)', Writing(w)', fd'[t] = fd'[w]
             PROVE  t = w
  BY DEF WrittenByOne
<1> QED
  BY <1>1, <1>2 DEF WrittenByOne

\* The steps that lead to fopen leave its entry free, unless rename fails.
LEMMA VacantStep ==
  ASSUME Serialized, TypeInv, Owners, Vacant, NEW u \in Threads, Step(u)
  PROVE  Vacant'
<1>a. TypeOK
  BY DEF TypeInv
<1> SUFFICES ASSUME NEW t \in Threads, pc'[t] = "fopen", Unhindered(t)'
             PROVE  dir'[FullPath(t)'] = None
  BY DEF Vacant
<1>1. CASE t # u
  <2>1. pc[t] = "fopen" /\ File(t)' = File(t) /\ Unhindered(t)
    BY <1>1, <1>a, OthersStay DEF File, Unhindered
  <2>2. Critical(t) /\ FullPath(t) \in Entries /\ FullPath(t)[1] = File(t)
    BY <2>1, RequestTyping DEF Critical, WritePcs, FullPath, Main
  <2>3. dir'[FullPath(t)] \in {dir[FullPath(t)], None}
    BY <1>1, <2>2, OthersOnlyRemove
  <2> QED
    BY <2>1, <2>3 DEF Vacant, FullPath
<1>2. CASE t = u
  <2>1. BackupExists(u) \/ BackupRename(u) \/ BackupRenameFails(u)
    <3> USE DEF Goto, TypeOK
    <3>1. ~Accept(u) /\ ~Drop(u)
      <4>1. ASSUME Accept(u) PROVE FALSE
        <5>1. Critical(u)' /\ pc[u] = "idle"
          BY <1>2, <4>1 DEF Critical, WritePcs, Accept
        <5> QED
          BY <4>1, <5>1, <1>a, OnlyTheseLock
             DEF Critical, WritePcs, RmPcs, LockVersionMutex, UnlockVersionMutex, FopenFails,
                 FlockExclusiveFails, Step
      <4> QED
        BY <4>1, <1>2, <1>a DEF Drop
    <3>2. ~LockVersionMutex(u) /\ ~UnlockVersionMutex(u) /\ ~OpenDirectory(u)
            /\ ~OpenDirectoryFails(u) /\ ~RmStep(u)
      BY <1>2, <1>a DEF LockVersionMutex, UnlockVersionMutex, OpenDirectory,
           OpenDirectoryFails, RmStep, DeleteMain, DeleteMainFails, DeleteVersion,
           DeleteVersionFails, SweepEnds
    <3>3. ~VersionStep(u) /\ ~LsStep(u)
      BY <1>2, <1>a DEF VersionStep, LsStep, ListVersion, ResolveVersion, NoSuchVersion,
         LsStat, LsExists, DisplayVersions
    <3>4. ~ReadStep(u) /\ ~Sending(u)
      BY <1>2, <1>a DEF ReadStep, Sending, FopenForRead, FlockShared, FlockSharedFails,
         SendFileSize, SendFileData, SendFails, CloseRead
    <3>5. WriteStep(u)
      BY <3>1, <3>2, <3>3, <3>4 DEF Step, Serve
    <3> QED
      BY <1>2, <1>a, <3>5 DEF WriteStep, FopenForWrite, FopenFails, FlockExclusive,
           FlockExclusiveFails, RecvFileData, RecvFails, UnlockFile, Fclose, RemovePartial,
           RemovePartialFails
  <2>2. pc[u] \in {"exists", "rename"} /\ req'[u] = req[u]
    BY <2>1 DEF BackupExists, BackupRename, BackupRenameFails, Goto
  <2>3. FullPath(u)' = FullPath(u) /\ FullPath(u) \in Entries
    BY <2>2, RequestTyping DEF FullPath, File
  <2>4. CASE BackupExists(u)
    BY <1>2, <1>a, <2>3, <2>4 DEF BackupExists, Goto, TypeOK, fsVars
  <2>5. CASE BackupRename(u)
    <3>1. PICK s \in Stamps :
            dir' = [dir EXCEPT ![FullPath(u)] = None,
                              ![Version(File(u), s)] = dir[FullPath(u)]]
      BY <2>5 DEF BackupRename, Readings
    <3>2. FullPath(u) # Version(File(u), s)
      BY StoreAssumption DEF Stamps, FullPath, Main, Version
    <3> QED
      BY <1>2, <1>a, <2>3, <3>1, <3>2 DEF TypeOK
  <2>6. CASE BackupRenameFails(u)
    BY <1>2, <1>a, <2>6 DEF BackupRenameFails, Unhindered, TypeOK
  <2> QED
    BY <2>1, <2>4, <2>5, <2>6
<1> QED
  BY <1>1, <1>2

\* Chunks that are added at the end of a file extend it.
LEMMA WriteAtEnd ==
  ASSUME NEW s \in Seq(Uploads \cup {None}), NEW u \in Uploads, NEW p \in Nat, Len(s) <= p
  PROVE  /\ Len(WriteAt(s, Len(s), p, u)) = p
         /\ (\A k \in 1 .. Len(s) : s[k] = u) =>
              \A k \in 1 .. p : WriteAt(s, Len(s), p, u)[k] = u
<1>1. CASE Len(s) = p
  BY <1>1 DEF WriteAt
<1>2. CASE Len(s) < p
  <2> DEFINE w == [k \in 1 .. p |-> IF Len(s) < k THEN u ELSE s[k]]
  <2>1. WriteAt(s, Len(s), p, u) = w
    BY <1>2 DEF WriteAt
  <2>2. w \in Seq(Uploads \cup {None}) /\ Len(w) = p
    OBVIOUS
  <2>3. (\A k \in 1 .. Len(s) : s[k] = u) => \A k \in 1 .. p : w[k] = u
    OBVIOUS
  <2> QED
    BY <2>1, <2>2, <2>3
<1> QED
  BY <1>1, <1>2

\* Nobody else writes to the file of a WRITE.
LEMMA ExtendedStep ==
  ASSUME Serialized, KeepInv, NEW u \in Threads, Step(u), WrittenByOne'
  PROVE  Extended'
<1>a. TypeInv /\ TypeOK
  BY DEF KeepInv, TypeInv
<1> SUFFICES ASSUME NEW t \in Threads, Writing(t)'
             PROVE  upload'[fd'[t]] = t /\ Len(data'[fd'[t]]) = put'[t]
  BY DEF Extended
<1>1. CASE t # u
  <2>1. pc'[t] = pc[t] /\ fd'[t] = fd[t] /\ put'[t] = put[t]
    BY <1>1, <1>a, OthersStay
  <2>2. Writing(t) /\ fd[t] \in Uploads
    BY <2>1 DEF Writing, KeepInv, OpenedByName
  <2>3. upload[fd[t]] = t /\ Len(data[fd[t]]) = put[t]
    BY <2>2 DEF KeepInv, Extended
  <2>4. data'[fd[t]] = data[fd[t]] /\ upload'[fd[t]] = upload[fd[t]]
    <3>1. CASE FopenForWrite(u)
      <4>1. /\ fd'[u] \in Uploads
            /\ data' = [data EXCEPT ![fd'[u]] = <<>>]
            /\ upload' = [upload EXCEPT ![fd'[u]] = u]
        BY <1>a, <3>1, OpensFile
      <4>2. Writing(u)'
        BY <1>a, <3>1 DEF FopenForWrite, Goto, Writing, TypeOK
      <4>3. fd'[u] # fd[t]
        BY <1>1, <2>1, <4>2 DEF WrittenByOne
      <4> QED
        BY <1>a, <2>2, <4>1, <4>3 DEF TypeOK
    <3>2. CASE RecvFileData(u) \/ Fclose(u)
      <4>1. /\ Writing(u) /\ UNCHANGED upload
            /\ data' = [data EXCEPT ![fd[u]] = WriteAt(@, put[u], put'[u], u)]
        BY <1>a, <3>2, PassesOn
      <4>2. fd[u] # fd[t]
        BY <1>1, <2>2, <4>1 DEF KeepInv, WrittenByOne
      <4> QED
        BY <1>a, <2>2, <4>1, <4>2 DEF TypeOK
    <3> QED
      BY <3>1, <3>2, OnlyTheseWrite
  <2> QED
    BY <2>1, <2>3, <2>4
<1>2. CASE t = u /\ FopenForWrite(u)
  <2>1. /\ pc[u] = "fopen" /\ UNCHANGED put /\ fd'[u] \in Uploads
        /\ data' = [data EXCEPT ![fd'[u]] = <<>>]
        /\ upload' = [upload EXCEPT ![fd'[u]] = u]
    BY <1>a, <1>2, OpensFile
  <2>2. put[u] = 0
    BY <1>a, <2>1 DEF TypeInv, Fresh
  <2>3. data'[fd'[u]] = <<>> /\ upload'[fd'[u]] = u
    BY <1>a, <2>1 DEF TypeOK
  <2> QED
    BY <1>2, <2>1, <2>2, <2>3
<1>3. CASE t = u /\ Writing(u) /\ fd'[u] = fd[u] /\ UNCHANGED upload
  <2>1. fd[u] \in Uploads /\ upload[fd[u]] = u /\ Len(data[fd[u]]) = put[u]
    BY <1>3 DEF KeepInv, OpenedByName, Extended
  <2>2. Len(data'[fd[u]]) = put'[u]
    <3>1. CASE RecvFileData(u) \/ Fclose(u)
      <4>1. /\ put[u] \in Nat /\ put'[u] \in Nat /\ put[u] <= put'[u]
            /\ data' = [data EXCEPT ![fd[u]] = WriteAt(@, put[u], put'[u], u)]
        BY <1>a, <3>1, PassesOn
      <4>2. data'[fd[u]] = WriteAt(data[fd[u]], Len(data[fd[u]]), put'[u], u)
        BY <1>a, <2>1, <4>1 DEF TypeOK
      <4>3. data[fd[u]] \in Seq(Uploads \cup {None}) /\ u \in Uploads
        BY <1>a, <2>1 DEF TypeOK, Uploads
      <4> QED
        BY <2>1, <4>1, <4>2, <4>3, WriteAtEnd
    <3>2. CASE FlockExclusive(u) \/ RecvFails(u) \/ UnlockFile(u)
      <4>1. UNCHANGED <<data, put>>
        BY <3>2 DEF FlockExclusive, RecvFails, UnlockFile, fsVars, writeVars
      <4> QED
        BY <2>1, <4>1
    <3>3. CASE FopenForWrite(u)
      BY <1>3, <3>3 DEF FopenForWrite, Goto, Writing
    <3> QED
      BY <1>a, <1>3, <3>1, <3>2, <3>3, OnlyTheseKeepWriting
  <2> QED
    BY <1>3, <2>1, <2>2
<1> QED
  BY <1>1, <1>2, <1>3, <1>a, WritingGoesOn

\* Nobody else does more to the entry of a WRITE than remove it.
LEMMA PlacedStep ==
  ASSUME Serialized, KeepInv, NEW u \in Threads, Step(u)
  PROVE  Placed'
<1>a. TypeInv /\ TypeOK /\ Owners
  BY DEF KeepInv, TypeInv
<1> SUFFICES ASSUME NEW t \in Threads, Writing(t)', Unhindered(t)'
             PROVE  fd'[t] = t /\ dir'[FullPath(t)'] \in {t, None}
  BY DEF Placed
<1>1. CASE t # u
  <2>1. /\ pc'[t] = pc[t] /\ fd'[t] = fd[t] /\ stuck'[t] = stuck[t]
        /\ File(t)' = File(t) /\ FullPath(t)' = FullPath(t)
    BY <1>1, <1>a, OthersStay DEF File, FullPath
  <2>2. Writing(t) /\ Unhindered(t) /\ Critical(t)
    BY <2>1 DEF Writing, Unhindered, Critical, WritePcs
  <2>3. FullPath(t) \in Entries /\ FullPath(t)[1] = File(t)
    BY <1>a, <2>2, RequestTyping DEF Writing, FullPath, Main
  <2>4. fd[t] = t /\ dir[FullPath(t)] \in {t, None}
    BY <2>2 DEF KeepInv, Placed
  <2>5. dir'[FullPath(t)] \in {dir[FullPath(t)], None}
    BY <1>1, <1>a, <2>2, <2>3, OthersOnlyRemove
  <2> QED
    BY <2>1, <2>4, <2>5
<1>2. CASE t = u /\ FopenForWrite(u)
  <2>1. pc[u] = "fopen" /\ req'[u] = req[u] /\ stuck'[u] = stuck[u]
    BY <1>a, <1>2, OpensFile
  <2>2. FullPath(u)' = FullPath(u) /\ Unhindered(u)
    BY <1>2, <2>1 DEF FullPath, Unhindered, File
  <2>3. dir[FullPath(u)] = None
    BY <2>1, <2>2 DEF KeepInv, Vacant
  <2>4. fd'[u] = u /\ dir'[FullPath(u)] = u
    BY <1>a, <1>2, <2>3, OpensFile
  <2> QED
    BY <1>2, <2>2, <2>4
<1>3. CASE /\ t = u /\ Writing(u) /\ fd'[u] = fd[u] /\ req'[u] = req[u]
           /\ UNCHANGED <<dir, stuck>>
  <2>1. FullPath(u)' = FullPath(u) /\ Unhindered(u)
    BY <1>3 DEF FullPath, Unhindered, File
  <2> QED
    BY <1>3, <2>1 DEF KeepInv, Placed
<1> QED
  BY <1>1, <1>2, <1>3, <1>a, WritingGoesOn

\* An upload receives a chunk only while some are missing; it is removed only if some
\* still are.
LEMMA BoundedStep ==
  ASSUME TypeInv, Bounded, CutShort, NEW u \in Threads, Step(u)
  PROVE  Bounded' /\ CutShort'
<1>a. TypeOK
  BY DEF TypeInv
<1>1. ASSUME NEW t \in Threads \ {u}
      PROVE  /\ Writing(t)' => count'[t] <= size'[t] \/ count'[t] = 0
             /\ pc'[t] = "remove" => count'[t] # size'[t]
  <2>1. pc'[t] = pc[t] /\ count'[t] = count[t]
    BY <1>a, OthersStay
  <2>2. size'[t] = size[t]
    BY <1>a, SizesStay DEF Uploads
  <2> QED
    BY <2>1, <2>2 DEF Bounded, CutShort, Writing
<1>2. ASSUME Writing(u)'
      PROVE  /\ count'[u] <= size'[u] \/ count'[u] = 0
             /\ pc'[u] = "remove" => count'[u] # size'[u]
  <2>1. CASE FopenForWrite(u)
    <3>1. pc[u] = "fopen" /\ pc'[u] = "flock" /\ UNCHANGED count
      BY <2>1, <1>a DEF FopenForWrite, Goto, writeVars, TypeOK
    <3> QED
      BY <3>1 DEF TypeInv, Fresh
  <2>2. CASE FlockExclusive(u) \/ RecvFails(u) \/ UnlockFile(u)
    <3>1. Writing(u) /\ pc'[u] # "remove" /\ UNCHANGED <<count, size>>
      BY <2>2, <1>a
         DEF FlockExclusive, RecvFails, UnlockFile, Goto, Writing, writeVars, TypeOK
    <3> QED
      BY <3>1 DEF Bounded
  <2>3. CASE RecvFileData(u)
    <3>1. pc[u] = "recv" /\ pc'[u] # "remove" /\ UNCHANGED size
            /\ count'[u] = count[u] + 1
      BY <2>3, <1>a DEF RecvFileData, Goto, TypeOK
    <3>2. count[u] < size[u] /\ count[u] \in Int /\ size[u] \in Int
      BY <3>1, <1>a DEF TypeOK, Uploads
    <3> QED
      BY <3>1, <3>2
  <2>4. CASE Fclose(u)
    <3>1. Writing(u) /\ UNCHANGED <<count, size>>
      BY <2>4 DEF Fclose, Goto, Writing
    <3>2. count[u] # size[u]
      BY <2>4, <1>2, <1>a DEF Fclose, Goto, Writing, Received, TypeOK
    <3> QED
      BY <3>1, <3>2 DEF Bounded
  <2> QED
    BY <1>2, <1>a, <2>1, <2>2, <2>3, <2>4, OnlyTheseKeepWriting
<1> QED
  BY <1>1, <1>2 DEF Bounded, CutShort, Writing

\* Nothing is being written when the server starts, and no file has two names.
LEMMA InitKeep == Init => KeepInv
<1> SUFFICES ASSUME Init PROVE KeepInv
  OBVIOUS
<1>1. \A t \in Threads : pc[t] = "idle" /\ ~Writing(t) /\ ~Critical(t)
  BY DEF Init, Writing, Critical, WritePcs, RmPcs
<1>2. Unmade
  BY <1>1, StoreAssumption DEF Init, Unmade, Uploads
<1>3. LinkedOnce
  BY StoreAssumption DEF Init, LinkedOnce
<1> QED
  BY <1>1, <1>2, <1>3, InitTypeInv
     DEF KeepInv, Owners, OpenedByName, WrittenByOne, Extended, Vacant, Placed, Bounded,
         CutShort

\* All this survives every failure, and the end of the process: what threads had open is
\* then open no longer.
LEMMA NextKeep ==
  ASSUME Serialized
  PROVE  KeepInv /\ [Next]_vars => KeepInv'
<1> SUFFICES ASSUME KeepInv, [Next]_vars PROVE KeepInv'
  OBVIOUS
<1>a. TypeInv /\ TypeOK /\ Owners /\ TypeInv' /\ Owners'
  BY NextTypeInv, OwnersStep DEF KeepInv, TypeInv
<1>1. ASSUME NEW u \in Threads, Step(u) PROVE KeepInv'
  BY <1>1, <1>a, UnmadeStep, LinkedOnceStep, OpenedByNameStep, WrittenByOneStep,
     ExtendedStep, VacantStep, PlacedStep, BoundedStep DEF KeepInv
<1>2. CASE ServerExits
  <2>1. UNCHANGED <<dir, upload, data, fd, req, size>>
    BY <1>2 DEF ServerExits, fsVars
  <2>2. \A t \in Threads : pc'[t] \in EndPcs \cup {"idle"} /\ ~Writing(t)'
    BY <1>2 DEF ServerExits, Active, EndPcs, Writing
  <2>3. \A t \in Threads : ~Made(t)' => ~Made(t)
    BY <1>2, <2>2, <1>a DEF ServerExits, Active, EndPcs, Made, Writing, TypeOK
  <2>4. Unmade' /\ LinkedOnce'
    BY <2>1, <2>2, <2>3 DEF KeepInv, Unmade, LinkedOnce
  <2>5. /\ OpenedByName' /\ WrittenByOne' /\ Extended' /\ Vacant' /\ Placed'
        /\ Bounded' /\ CutShort'
    BY <2>2 DEF OpenedByName, WrittenByOne, Extended, Vacant, Placed, Bounded, CutShort,
       EndPcs
  <2> QED
    BY <1>a, <2>4, <2>5 DEF KeepInv
<1>3. CASE UNCHANGED vars
  <2>1. UNCHANGED <<dir, upload, data, pc, req, fd, size, count, put, stuck>>
    BY <1>3 DEF vars
  <2>2. \A t \in Threads : /\ Writing(t)' <=> Writing(t)
                           /\ Made(t)' <=> Made(t)
                           /\ Unhindered(t)' <=> Unhindered(t)
                           /\ FullPath(t)' = FullPath(t)
    BY <2>1 DEF Writing, Made, Unhindered, FullPath, File
  <2>3. Unmade' /\ LinkedOnce' /\ OpenedByName' /\ WrittenByOne' /\ Extended'
    BY <2>1, <2>2 DEF KeepInv, Unmade, LinkedOnce, OpenedByName, WrittenByOne, Extended
  <2>4. Vacant' /\ Placed' /\ Bounded' /\ CutShort'
    BY <2>1, <2>2 DEF KeepInv, Vacant, Placed, Bounded, CutShort
  <2> QED
    BY <1>a, <2>3, <2>4 DEF KeepInv
<1> QED
  BY <1>1, <1>2, <1>3 DEF Next, Step, Terminating

-----------------------------------------------------------------------------
(* What a WRITE does to what is stored *)

\* No version is younger than the last clock reading.
Clocked == \A e \in Entries : dir[e] # None => e[2] <= clock

\* The clock goes on, and only it names new versions.
LEMMA ClockedStep ==
  ASSUME "clock" \notin Faults, TypeInv, Clocked, NEW u \in Threads, Step(u)
  PROVE  Clocked'
<1>a. TypeOK
  BY DEF TypeInv
<1>1. CASE BackupRename(u)
  <2>1. pc[u] = "rename"
    BY <1>1 DEF BackupRename, Goto
  <2>2. FullPath(u) \in Entries /\ FullPath(u)[2] = 0
    BY <2>1, RequestTyping DEF FullPath, Main
  <2>3. PICK s \in Stamps :
          /\ s = clock + 1 /\ clock' = s
          /\ dir' = [dir EXCEPT ![FullPath(u)] = None,
                               ![Version(File(u), s)] = dir[FullPath(u)]]
    BY <1>1 DEF BackupRename, Readings
  <2>4. Version(File(u), s) \in Entries /\ Version(File(u), s)[2] = s
    BY <2>1, RequestTyping, StoreAssumption DEF Version, Entries, Stamps
  <2> SUFFICES ASSUME NEW e \in Entries, dir'[e] # None PROVE e[2] <= clock'
    BY DEF Clocked
  <2>5. clock \in Int /\ s \in Int /\ clock <= s
    BY <2>3, <1>a, StoreAssumption DEF TypeOK, Stamps
  <2>6. CASE e = Version(File(u), s)
    BY <2>3, <2>4, <2>5, <2>6
  <2>7. CASE e # Version(File(u), s)
    <3>1. dir[e] # None
      BY <2>2, <2>3, <2>4, <2>7, <1>a DEF TypeOK
    <3>2. e[2] <= clock /\ e[2] \in Int
      BY <3>1, StoreAssumption DEF Clocked, Entries
    <3> QED
      BY <2>3, <2>5, <3>2
  <2> QED
    BY <2>6, <2>7
<1>2. CASE FopenForWrite(u)
  <2>1. pc[u] = "fopen" /\ UNCHANGED clock
    BY <1>2 DEF FopenForWrite, Goto, serverVars
  <2>2. FullPath(u) \in Entries /\ FullPath(u)[2] = 0
    BY <2>1, RequestTyping DEF FullPath, Main
  <2>3. \A e \in Entries : e # FullPath(u) => dir'[e] = dir[e]
    BY <1>2, <1>a DEF FopenForWrite, TypeOK
  <2> QED
    BY <2>1, <2>2, <2>3, <1>a, StoreAssumption DEF Clocked, TypeOK
<1>3. CASE RemovePartial(u) \/ DeleteMain(u) \/ DeleteVersion(u)
  <2>1. \A e \in Entries : dir'[e] # None => dir[e] # None
    BY <1>3, <1>a DEF RemovePartial, RemovePartialFails, DeleteMain, DeleteMainFails,
         DeleteVersion, DeleteVersionFails, TypeOK
  <2>2. UNCHANGED clock
    BY <1>3 DEF RemovePartial, RemovePartialFails, DeleteMain, DeleteMainFails,
         DeleteVersion, DeleteVersionFails, serverVars
  <2> QED
    BY <2>1, <2>2 DEF Clocked
<1>4. CASE UNCHANGED <<dir, clock>>
  BY <1>4 DEF Clocked
<1> QED
  BY <1>1, <1>2, <1>3, <1>4, OnlyTheseWrite


\* A WRITE that has its file open, or is about to open it, and is not overwriting.
LEMMA NotOverwriting ==
  ASSUME KeepInv, NEW w \in Threads, pc[w] = "fopen" \/ Writing(w), ~Overwriting(File(w))
  PROVE  Unhindered(w)
  BY DEF Overwriting, Unhindered

\* A step that changes a file has it open, by the only name it has.
LEMMA ContentStays ==
  ASSUME KeepInv, NEW w \in Threads, Step(w),
         NEW e \in Entries, dir[e] # None,
         e[2] # 0 \/ (~Overwriting(e[1]) /\ Whole(dir[e]))
  PROVE  data'[dir[e]] = data[dir[e]] /\ upload'[dir[e]] = upload[dir[e]]
<1>a. TypeInv /\ TypeOK
  BY DEF KeepInv, TypeInv
<1> DEFINE f == dir[e]
<1>f. f \in Uploads
  BY <1>a DEF TypeOK
<1>1. ASSUME e = FullPath(w), pc[w] = "fopen" \/ Writing(w)
      PROVE  Unhindered(w) /\ Whole(f)
  BY <1>1, NotOverwriting DEF FullPath, Main
<1>2. CASE FopenForWrite(w)
  <2>1. /\ pc[w] = "fopen" /\ ~Made(w) /\ FullPath(w) \in Entries /\ fd'[w] \in Uploads
        /\ fd'[w] = (IF dir[FullPath(w)] = None THEN w ELSE dir[FullPath(w)])
        /\ data' = [data EXCEPT ![fd'[w]] = <<>>]
        /\ upload' = [upload EXCEPT ![fd'[w]] = w]
    BY <1>a, <1>2, OpensFile
  <2>2. f # w
    BY <2>1 DEF KeepInv, Unmade
  <2>3. f # dir[FullPath(w)]
    <3> SUFFICES ASSUME f = dir[FullPath(w)] PROVE FALSE
      OBVIOUS
    <3>1. e = FullPath(w)
      BY <2>1 DEF KeepInv, LinkedOnce
    <3> QED
      BY <1>1, <2>1, <3>1 DEF KeepInv, Vacant
  <2>4. fd'[w] # f
    BY <2>1, <2>2, <2>3
  <2> QED
    BY <1>a, <1>f, <2>1, <2>4 DEF TypeOK
<1>3. CASE RecvFileData(w) \/ Fclose(w)
  <2>1. /\ Writing(w) /\ fd[w] \in Uploads /\ UNCHANGED upload
        /\ put[w] \in Nat /\ put'[w] \in Nat /\ put[w] <= put'[w]
        /\ data' = [data EXCEPT ![fd[w]] = WriteAt(@, put[w], put'[w], w)]
    BY <1>a, <1>3, PassesOn
  <2>2. CASE fd[w] # f
    BY <1>a, <1>f, <2>1, <2>2 DEF TypeOK
  <2>3. CASE fd[w] = f
    <3>1. Whole(f)
      BY <1>1, <2>1, <2>3 DEF KeepInv, OpenedByName
    <3>2. upload[f] = w /\ Len(data[f]) = put[w]
      BY <2>1, <2>3 DEF KeepInv, Extended
    <3>3. put[w] = size[w]
      BY <1>a, <3>1, <3>2 DEF Whole, Full, TypeOK, Uploads
    <3>4. count[w] \in Nat /\ put[w] <= count[w] /\ (pc[w] = "recv" => count[w] < size[w])
            /\ (count[w] <= size[w] \/ count[w] = 0)
      BY <1>a, <2>1 DEF TypeOK, KeepInv, Bounded
    <3>5. Fclose(w) /\ count[w] = put[w]
      BY <1>3, <2>1, <3>3, <3>4 DEF RecvFileData, Goto
    <3>6. put'[w] = put[w]
      BY <1>a, <3>5 DEF Fclose, TypeOK
    <3>7. WriteAt(data[f], put[w], put'[w], w) = data[f]
      BY <3>6 DEF WriteAt
    <3> QED
      BY <1>a, <1>f, <2>1, <2>3, <3>7 DEF TypeOK
  <2> QED
    BY <2>2, <2>3
<1> QED
  BY <1>2, <1>3, OnlyTheseWrite DEF FopenForWrite

\* What a step does to the entry e, unless an RM is at it.  It leaves a version alone; it
\* at most puts a whole file aside under a new name.
LEMMA NameStays ==
  ASSUME "clock" \notin Faults, KeepInv, Clocked, NEW w \in Threads, Step(w),
         NEW e \in Entries, dir[e] # None, ~Removing(e[1]),
         e[2] # 0 \/ (~Overwriting(e[1]) /\ Whole(dir[e]))
  PROVE  \/ dir'[e] = dir[e]
         \/ e[2] = 0 /\ \E s \in Stamps : dir'[Version(e[1], s)] = dir[e]
<1>a. TypeInv /\ TypeOK
  BY DEF KeepInv, TypeInv
<1> DEFINE f == dir[e]
<1>1. ASSUME e = FullPath(w), pc[w] = "fopen" \/ Writing(w)
      PROVE  Unhindered(w) /\ Whole(f)
  BY <1>1, NotOverwriting DEF FullPath, Main
<1>2. CASE BackupRename(w)
  <2>1. pc[w] = "rename" /\ File(w) \in Names /\ FullPath(w) \in Entries
    BY <1>a, <1>2, RequestTyping DEF BackupRename, Goto
  <2>2. PICK s \in Stamps :
          /\ s = clock + 1
          /\ dir' = [dir EXCEPT ![FullPath(w)] = None,
                               ![Version(File(w), s)] = dir[FullPath(w)]]
    BY <1>2 DEF BackupRename, Readings
  <2>3. Version(File(w), s) \in Entries /\ Version(File(w), s)[2] = s
    BY <2>1, StoreAssumption DEF Version, Entries, Stamps
  <2>4. e[2] <= clock /\ clock \in Int /\ e[2] \in Int
    BY <1>a, StoreAssumption DEF Clocked, TypeOK, Entries
  <2>5. e # Version(File(w), s)
    BY <2>2, <2>3, <2>4
  <2>6. FullPath(w) = <<File(w), 0>>
    BY DEF FullPath, Main
  <2>7. CASE e = FullPath(w)
    <3>1. e[1] = File(w) /\ e[2] = 0
      BY <2>6, <2>7
    <3>2. dir'[e] = f \/ dir'[Version(File(w), s)] = f
      BY <1>a, <2>1, <2>2, <2>3, <2>5, <2>7 DEF TypeOK
    <3> QED
      BY <3>1, <3>2
  <2>8. CASE e # FullPath(w)
    BY <1>a, <2>1, <2>2, <2>3, <2>5, <2>8 DEF TypeOK
  <2> QED
    BY <2>7, <2>8
<1>3. CASE FopenForWrite(w)
  <2>1. pc[w] = "fopen"
    BY <1>3 DEF FopenForWrite, Goto
  <2>2. e # FullPath(w)
    BY <1>1, <2>1 DEF KeepInv, Vacant
  <2> QED
    BY <1>a, <1>3, <2>2 DEF FopenForWrite, TypeOK
<1>4. CASE RemovePartial(w)
  <2>1. pc[w] = "remove" /\ Writing(w)
    BY <1>4 DEF RemovePartial, Goto, Writing
  <2>2. CASE e = FullPath(w)
    <3>1. f = w /\ Whole(w) /\ fd[w] = w
      BY <1>1, <2>1, <2>2 DEF KeepInv, Placed
    <3>2. upload[w] = w /\ Len(data[w]) = put[w]
      BY <2>1, <3>1 DEF KeepInv, Extended
    <3>3. put[w] = size[w]
      BY <1>a, <3>1, <3>2 DEF Whole, Full, TypeOK, Uploads
    <3>4. count[w] \in Nat /\ put[w] \in Nat /\ put[w] <= count[w]
            /\ (count[w] <= size[w] \/ count[w] = 0) /\ count[w] # size[w]
      BY <1>a, <2>1 DEF TypeOK, KeepInv, Bounded, CutShort
    <3>5. size[w] >= 0
      BY <3>1, <3>2 DEF Whole
    <3> QED
      BY <3>3, <3>4, <3>5
  <2>3. CASE e # FullPath(w)
    BY <1>a, <1>4, <2>3 DEF RemovePartial, TypeOK
  <2> QED
    BY <2>2, <2>3
<1>5. CASE DeleteMain(w)
  <2>1. pc[w] = "delete" /\ dir' = [dir EXCEPT ![FullPath(w)] = None]
    BY <1>5 DEF DeleteMain, Goto
  <2>2. e # FullPath(w)
    BY <2>1 DEF Removing, FullPath, Main
  <2> QED
    BY <1>a, <2>1, <2>2 DEF TypeOK
<1>6. CASE DeleteVersion(w)
  <2>1. PICK g \in Matching(File(w)) :
          pc[w] = "sweep" /\ dir' = [dir EXCEPT ![g] = None]
    BY <1>6 DEF DeleteVersion, Unswept
  <2>2. g[1] = File(w) \/ g[1] \in Extending[File(w)]
    BY DEF Matching
  <2>3. e # g
    BY <2>1, <2>2 DEF Removing
  <2> QED
    BY <1>a, <2>1, <2>3 DEF TypeOK
<1> QED
  BY <1>2, <1>3, <1>4, <1>5, <1>6, OnlyTheseWrite

\* The clock and the files, together.
LEMMA InitClocked == Init => KeepInv /\ Clocked
BY InitKeep DEF Init, Clocked

LEMMA NextClocked ==
  ASSUME Serialized, "clock" \notin Faults
  PROVE  KeepInv /\ Clocked /\ [Next]_vars => KeepInv' /\ Clocked'
<1> SUFFICES ASSUME KeepInv, Clocked, [Next]_vars PROVE Clocked'
  BY NextKeep
<1>1. ASSUME NEW u \in Threads, Step(u) PROVE Clocked'
  BY <1>1, ClockedStep DEF KeepInv
<1>2. CASE ServerExits \/ UNCHANGED vars
  BY <1>2 DEF ServerExits, vars, fsVars, Clocked
<1> QED
  BY <1>1, <1>2 DEF Next, Step, Terminating

\* A version keeps its name and its content until an RM that matches it (backup_file,
\* handle_write_request): no WRITE renames another file over it, opens it or removes it,
\* whichever calls fail, rename included, and however often the process ends in the middle
\* of one.  What it takes is that the spellings of a file share a mutex, and that the clock
\* is never set back nor reads the same twice.
THEOREM VersionsStay ==
  ASSUME Serialized, "clock" \notin Faults
  PROVE  Spec => VersionsImmutable
<1>1. Init => KeepInv /\ Clocked
  BY InitClocked
<1>2. KeepInv /\ Clocked /\ [Next]_vars => KeepInv' /\ Clocked'
  BY NextClocked
<1>3. KeepInv /\ Clocked /\ [Next]_vars =>
        [\A n \in Names : \A s \in Stamps :
           LET u == dir[Version(n, s)]
           IN  u # None /\ ~Removing(n) =>
                 /\ dir'[Version(n, s)] = u
                 /\ upload'[u] = upload[u] /\ data'[u] = data[u]]_vars
  <2> SUFFICES ASSUME KeepInv, Clocked, Next, NEW n \in Names, NEW s \in Stamps,
                      dir[Version(n, s)] # None, ~Removing(n)
               PROVE  /\ dir'[Version(n, s)] = dir[Version(n, s)]
                      /\ upload'[dir[Version(n, s)]] = upload[dir[Version(n, s)]]
                      /\ data'[dir[Version(n, s)]] = data[dir[Version(n, s)]]
    OBVIOUS
  <2>1. Version(n, s) \in Entries /\ Version(n, s)[1] = n /\ Version(n, s)[2] # 0
    BY StoreAssumption DEF Version, Entries, Stamps
  <2>2. ASSUME NEW w \in Threads, Step(w)
        PROVE  /\ dir'[Version(n, s)] = dir[Version(n, s)]
               /\ upload'[dir[Version(n, s)]] = upload[dir[Version(n, s)]]
               /\ data'[dir[Version(n, s)]] = data[dir[Version(n, s)]]
    BY <2>1, <2>2, ContentStays, NameStays
  <2>3. CASE ServerExits \/ Terminating
    BY <2>3 DEF ServerExits, Terminating, fsVars, vars
  <2> QED
    BY <2>2, <2>3 DEF Next, Step
<1> QED
  BY <1>1, <1>2, <1>3, PTL DEF Spec, VersionsImmutable

\* A whole upload stays in storage, as the file or as a version of it, until an RM that
\* matches it, unless it is the current file of a WRITE that has reported a failed rename
\* (backup_file): no other WRITE, whether it succeeds, is cut short, cannot open, lock,
\* flush or remove its file or ends with the process, loses it.  Same assumptions as
\* VersionsStay.
THEOREM UploadsStay ==
  ASSUME Serialized, "clock" \notin Faults
  PROVE  Spec => NothingLostUnnoticed
<1>1. Init => KeepInv /\ Clocked
  BY InitClocked
<1>2. KeepInv /\ Clocked /\ [Next]_vars => KeepInv' /\ Clocked'
  BY NextClocked
<1>3. KeepInv /\ Clocked /\ [Next]_vars =>
        [\A n \in Names : \A s \in 0 .. MaxStamp :
           Removing(n) \/ (s = 0 /\ Overwriting(n)) \/ Kept(<<n, s>>)]_vars
  <2> SUFFICES ASSUME KeepInv, Clocked, Next, NEW n \in Names, NEW s \in 0 .. MaxStamp,
                      ~Removing(n), ~(s = 0 /\ Overwriting(n))
               PROVE  Kept(<<n, s>>)
    OBVIOUS
  <2> DEFINE e == <<n, s>>
  <2>1. e \in Entries /\ e[1] = n /\ e[2] = s
    BY DEF Entries
  <2> SUFFICES ASSUME dir[e] # None, Whole(dir[e])
               PROVE  /\ upload'[dir[e]] = upload[dir[e]] /\ data'[dir[e]] = data[dir[e]]
                      /\ \E r \in 0 .. MaxStamp : dir'[<<n, r>>] = dir[e]
    BY <2>1 DEF Kept
  <2>2. ASSUME NEW w \in Threads, Step(w)
        PROVE  /\ upload'[dir[e]] = upload[dir[e]] /\ data'[dir[e]] = data[dir[e]]
               /\ \E r \in 0 .. MaxStamp : dir'[<<n, r>>] = dir[e]
    <3>1. data'[dir[e]] = data[dir[e]] /\ upload'[dir[e]] = upload[dir[e]]
      BY <2>1, <2>2, ContentStays
    <3>2. \/ dir'[e] = dir[e]
          \/ e[2] = 0 /\ \E r \in Stamps : dir'[Version(e[1], r)] = dir[e]
      BY <2>1, <2>2, NameStays
    <3>3. \A r \in Stamps : Version(e[1], r) = <<n, r>> /\ r \in 0 .. MaxStamp
      BY <2>1, StoreAssumption DEF Version, Stamps
    <3> QED
      BY <3>1, <3>2, <3>3
  <2>3. CASE ServerExits \/ Terminating
    BY <2>3 DEF ServerExits, Terminating, fsVars, vars
  <2> QED
    BY <2>2, <2>3 DEF Next, Step
<1> QED
  BY <1>1, <1>2, <1>3, PTL DEF Spec, NothingLostUnnoticed

-----------------------------------------------------------------------------
(* Replies *)

\* A file holds chunks of the upload it was last opened for and of no other.
Pure == \A f \in Uploads : \A k \in 1 .. Len(data[f]) : data[f][k] = upload[f]

\* A WRITE adds its own chunks, at the end of a file it has truncated.
LEMMA PureStep ==
  ASSUME KeepInv, Pure, NEW w \in Threads, Step(w)
  PROVE  Pure'
<1>a. TypeInv /\ TypeOK
  BY DEF KeepInv, TypeInv
<1>1. CASE FopenForWrite(w)
  <2>1. /\ fd'[w] \in Uploads /\ data' = [data EXCEPT ![fd'[w]] = <<>>]
        /\ upload' = [upload EXCEPT ![fd'[w]] = w]
    BY <1>a, <1>1, OpensFile
  <2> SUFFICES ASSUME NEW f \in Uploads, NEW k \in 1 .. Len(data'[f])
               PROVE  data'[f][k] = upload'[f]
    BY DEF Pure
  <2>2. CASE f = fd'[w]
    <3>1. data'[f] = <<>>
      BY <1>a, <2>1, <2>2 DEF TypeOK
    <3> QED
      BY <3>1
  <2>3. CASE f # fd'[w]
    <3>1. data'[f] = data[f] /\ upload'[f] = upload[f]
      BY <1>a, <2>1, <2>3 DEF TypeOK
    <3> QED
      BY <3>1 DEF Pure
  <2> QED
    BY <2>2, <2>3
<1>2. CASE RecvFileData(w) \/ Fclose(w)
  <2> DEFINE f == fd[w]
  <2>1. /\ Writing(w) /\ f \in Uploads /\ UNCHANGED upload
        /\ put[w] \in Nat /\ put'[w] \in Nat /\ put[w] <= put'[w]
        /\ data' = [data EXCEPT ![f] = WriteAt(@, put[w], put'[w], w)]
    BY <1>a, <1>2, PassesOn
  <2>2. upload[f] = w /\ Len(data[f]) = put[w]
    BY <2>1 DEF KeepInv, Extended
  <2>3. data'[f] = WriteAt(data[f], Len(data[f]), put'[w], w)
    BY <1>a, <2>1, <2>2 DEF TypeOK
  <2>4. data[f] \in Seq(Uploads \cup {None}) /\ w \in Uploads
    BY <1>a, <2>1 DEF TypeOK, Uploads
  <2>5. \A k \in 1 .. Len(data[f]) : data[f][k] = w
    BY <2>1, <2>2 DEF Pure
  <2>6. \A k \in 1 .. Len(data'[f]) : data'[f][k] = w
    <3>1. Len(data[f]) <= put'[w]
      BY <2>1, <2>2
    <3>2. ASSUME NEW s \in Seq(Uploads \cup {None}), NEW p \in Nat, Len(s) <= p,
                 \A k \in 1 .. Len(s) : s[k] = w
          PROVE  \A k \in 1 .. Len(WriteAt(s, Len(s), p, w)) : WriteAt(s, Len(s), p, w)[k] = w
      BY <2>4, <3>2, WriteAtEnd
    <3> HIDE DEF f
    <3> QED
      BY ONLY <2>1, <2>3, <2>4, <2>5, <3>1, <3>2
  <2>7. \A g \in Uploads \ {f} : data'[g] = data[g]
    BY <1>a, <2>1 DEF TypeOK
  <2> QED
    BY <2>1, <2>2, <2>6, <2>7 DEF Pure
<1>3. CASE UNCHANGED <<upload, data>>
  BY <1>3 DEF Pure
<1> QED
  BY <1>1, <1>2, <1>3, OnlyTheseWrite DEF RecvFileData, Fclose

\* The flock a thread holds is that of its place in the handler, ...
LockAt(p) == IF p \in {"recv", "unflock"} THEN "ex"
             ELSE IF p \in {"size", "send", "unshare"} THEN "sh" ELSE "none"

Locks == \A t \in Threads : lk[t] = LockAt(pc[t])

\* ... and an exclusive one excludes all others of the file.
Exclusion ==
  \A t, u \in Threads : t # u /\ fd[t] = fd[u] /\ lk[t] = "ex" => lk[u] = "none"

\* A thread has sent nothing before it gets to send_file_data.
Sent(t) == pc[t] \in EndPcs \cup {"send", "unshare"}

Silent == \A t \in Threads : ~Sent(t) => out[t] = <<>>

\* The steps that change a flock, a descriptor or a reply.
LEMMA OnlyTheseOpen ==
  ASSUME NEW u \in Threads, Step(u)
  PROVE  /\ UNCHANGED fd \/ FopenForWrite(u) \/ FopenForRead(u)
         /\ \/ UNCHANGED lk
            \/ FlockExclusive(u) \/ UnlockFile(u) \/ FlockShared(u) \/ CloseRead(u)
         /\ UNCHANGED out \/ SendFileData(u)
<1>1. CASE Accept(u) \/ Drop(u)
  BY <1>1 DEF Accept, Drop
<1>2. CASE WriteStep(u)
  BY <1>2 DEF WriteStep, BackupExists, BackupRename, BackupRenameFails, FopenForWrite,
       FopenFails, FlockExclusive, FlockExclusiveFails, RecvFileData, RecvFails, UnlockFile,
       Fclose, RemovePartial, RemovePartialFails
<1>3. CASE LockVersionMutex(u) \/ UnlockVersionMutex(u) \/ OpenDirectory(u)
             \/ OpenDirectoryFails(u) \/ RmStep(u)
  BY <1>3 DEF LockVersionMutex, UnlockVersionMutex, OpenDirectory, OpenDirectoryFails,
       RmStep, DeleteMain, DeleteMainFails, DeleteVersion, DeleteVersionFails, SweepEnds
<1>4. CASE VersionStep(u) \/ LsStep(u)
  BY <1>4 DEF VersionStep, LsStep, ListVersion, ResolveVersion, NoSuchVersion, LsStat,
       LsExists, DisplayVersions
<1>5. CASE ReadStep(u) \/ Sending(u)
  BY <1>5 DEF ReadStep, Sending, FopenForRead, FlockShared, FlockSharedFails, SendFileSize,
       SendFileData, SendFails, CloseRead
<1> QED
  BY <1>1, <1>2, <1>3, <1>4, <1>5 DEF Step, Serve

\* A flock is taken and given back with the step of the handler that says so.
LEMMA LocksStep ==
  ASSUME TypeOK, Locks, NEW u \in Threads, Step(u)
  PROVE  Locks'
<1> SUFFICES ASSUME NEW t \in Threads PROVE lk'[t] = LockAt(pc'[t])
  BY DEF Locks
<1>1. CASE t # u
  <2>1. lk'[t] = lk[t]
    <3>1. \A v \in {"none", "sh", "ex"} : [lk EXCEPT ![u] = v][t] = lk[t]
      BY <1>1 DEF TypeOK
    <3> QED
      BY <3>1, OnlyTheseOpen DEF FlockExclusive, UnlockFile, FlockShared, CloseRead
  <2> QED
    BY <1>1, <2>1, OthersStay DEF Locks
<1>2. CASE t = u
  <2> USE DEF Goto, TypeOK, LockAt, EndPcs
  <2>0. lk[u] = LockAt(pc[u])
    BY DEF Locks
  <2>1. CASE FlockExclusive(u) \/ UnlockFile(u) \/ FlockShared(u) \/ CloseRead(u)
    BY <1>2, <2>1 DEF FlockExclusive, UnlockFile, FlockShared, CloseRead
  <2>2. CASE UNCHANGED lk
    <3>1. CASE Accept(u)
      <4>1. pc[u] = "idle" /\ pc'[u] \in {"lock", "open", "opendir", "stat"}
        <5>1. PICK r \in Requests :
                pc' = [pc EXCEPT ![u] = CASE r.op \in {"WRITE", "RM"} -> "lock"
                                          [] r.op = "GET"             -> "open"
                                          [] r.op = "GETVERSION"      -> "opendir"
                                          [] r.op = "LS"              -> "stat"]
          BY <3>1 DEF Accept
        <5>2. r.op \in Ops
          BY StoreAssumption
        <5> QED
          BY <3>1, <5>1, <5>2 DEF Accept, Ops
      <4> QED
        BY <1>2, <2>0, <2>2, <4>1
    <3>2. CASE Drop(u) \/ LockVersionMutex(u) \/ UnlockVersionMutex(u) \/ OpenDirectory(u)
                 \/ OpenDirectoryFails(u) \/ RmStep(u)
      BY <1>2, <2>0, <2>2, <3>2 DEF Drop, LockVersionMutex, UnlockVersionMutex, OpenDirectory,
           OpenDirectoryFails, RmStep, DeleteMain, DeleteMainFails, DeleteVersion,
           DeleteVersionFails, SweepEnds
    <3>3. CASE WriteStep(u)
      <4>1. UnlockFile(u) => pc[u] = "unflock" /\ lk'[u] = "none"
        BY DEF UnlockFile
      <4>2. ~FlockExclusive(u)
        <5> SUFFICES ASSUME FlockExclusive(u) PROVE FALSE
          OBVIOUS
        <5>1. lk'[u] = "ex" /\ pc[u] = "flock"
          BY DEF FlockExclusive
        <5> QED
          BY <2>0, <2>2, <5>1
      <4>3. ~UnlockFile(u)
        BY <2>0, <2>2, <4>1
      <4> QED
        BY <1>2, <2>0, <2>2, <3>3, <4>2, <4>3 DEF WriteStep, BackupExists, BackupRename,
             BackupRenameFails, FopenForWrite, FopenFails, FlockExclusiveFails, RecvFileData,
             RecvFails, Fclose, RemovePartial, RemovePartialFails
    <3>4. CASE VersionStep(u) \/ LsStep(u)
      BY <1>2, <2>0, <2>2, <3>4 DEF VersionStep, LsStep, ListVersion, ResolveVersion,
           NoSuchVersion, LsStat, LsExists, DisplayVersions
    <3>5. CASE ReadStep(u) \/ Sending(u)
      <4>1. ~FlockShared(u) /\ ~CloseRead(u)
        <5>1. FlockShared(u) => lk'[u] = "sh" /\ pc[u] = "share"
          BY DEF FlockShared
        <5>2. CloseRead(u) => lk'[u] = "none" /\ pc[u] = "unshare"
          BY DEF CloseRead
        <5> QED
          BY <2>0, <2>2, <5>1, <5>2
      <4> QED
        BY <1>2, <2>0, <2>2, <3>5, <4>1 DEF ReadStep, Sending, FopenForRead,
             FlockSharedFails, SendFileSize, SendFileData, SendFails
    <3> QED
      BY <3>1, <3>2, <3>3, <3>4, <3>5 DEF Step, Serve
  <2> QED
    BY <2>1, <2>2, OnlyTheseOpen
<1> QED
  BY <1>1, <1>2

\* flock waits for the others.
LEMMA ExclusionStep ==
  ASSUME TypeOK, Locks, Exclusion, NEW u \in Threads, Step(u)
  PROVE  Exclusion'
<1>1. CASE FopenForWrite(u) \/ FopenForRead(u)
  <2>1. /\ pc[u] \in {"open", "fopen"} /\ UNCHANGED lk
        /\ \A t \in Threads \ {u} : fd'[t] = fd[t]
    BY <1>1 DEF FopenForWrite, FopenForRead, Goto, TypeOK
  <2>2. lk[u] = "none"
    BY <2>1 DEF Locks, LockAt
  <2> QED
    BY <2>1, <2>2 DEF Exclusion
<1>2. CASE UNCHANGED fd /\ FlockExclusive(u)
  BY <1>2 DEF FlockExclusive, CanLockExclusive, Exclusion, TypeOK
<1>3. CASE UNCHANGED fd /\ FlockShared(u)
  BY <1>3 DEF FlockShared, CanLockShared, Exclusion, TypeOK
<1>4. CASE UNCHANGED fd /\ (UnlockFile(u) \/ CloseRead(u))
  BY <1>4 DEF UnlockFile, CloseRead, Exclusion, TypeOK
<1>5. CASE UNCHANGED <<fd, lk>>
  BY <1>5 DEF Exclusion
<1> QED
  BY <1>1, <1>2, <1>3, <1>4, <1>5, OnlyTheseOpen

\* A thread that has sent something goes on to the end of its request.
LEMMA SentStaysSent ==
  ASSUME TypeOK, [Next]_vars
  PROVE  \A t \in Threads : Sent(t) => Sent(t)'
<1> USE DEF Sent, EndPcs
<1>1. ASSUME NEW u \in Threads, Accept(u) \/ Drop(u)
      PROVE  \A t \in Threads : Sent(t) => Sent(t)'
  BY <1>1 DEF TypeOK, Accept, Drop, Goto
<1>2. ASSUME NEW u \in Threads, WriteStep(u)
      PROVE  \A t \in Threads : Sent(t) => Sent(t)'
  BY <1>2 DEF TypeOK, WriteStep, BackupExists, BackupRename, BackupRenameFails,
       FopenForWrite, FopenFails, FlockExclusive, FlockExclusiveFails, RecvFileData,
       RecvFails, UnlockFile, Fclose, RemovePartial, RemovePartialFails, Goto
<1>3. ASSUME NEW u \in Threads,
             LockVersionMutex(u) \/ UnlockVersionMutex(u) \/ OpenDirectory(u)
             \/ OpenDirectoryFails(u) \/ RmStep(u)
      PROVE  \A t \in Threads : Sent(t) => Sent(t)'
  BY <1>3 DEF TypeOK, LockVersionMutex, UnlockVersionMutex, OpenDirectory,
       OpenDirectoryFails, RmStep, DeleteMain, DeleteMainFails, DeleteVersion,
       DeleteVersionFails, SweepEnds, Goto
<1>4. ASSUME NEW u \in Threads, VersionStep(u) \/ LsStep(u)
      PROVE  \A t \in Threads : Sent(t) => Sent(t)'
  BY <1>4 DEF TypeOK, VersionStep, LsStep, ListVersion, ResolveVersion, NoSuchVersion,
       LsStat, LsExists, DisplayVersions, Goto
<1>5. ASSUME NEW u \in Threads, ReadStep(u) \/ Sending(u)
      PROVE  \A t \in Threads : Sent(t) => Sent(t)'
  BY <1>5 DEF TypeOK, ReadStep, Sending, FopenForRead, FlockShared, FlockSharedFails,
       SendFileSize, SendFileData, SendFails, CloseRead, Goto
<1>6. CASE ServerExits
  BY <1>6 DEF ServerExits
<1>7. CASE UNCHANGED vars
  BY <1>7 DEF vars
<1> QED
  BY <1>1, <1>2, <1>3, <1>4, <1>5, <1>6, <1>7 DEF Next, Serve, Terminating

\* Nothing is sent before send_file_data.
LEMMA SilentStep ==
  ASSUME TypeOK, Silent, [Next]_vars
  PROVE  Silent'
<1>1. \A t \in Threads : Sent(t) => Sent(t)'
  BY SentStaysSent
<1>2. CASE UNCHANGED out
  BY <1>1, <1>2 DEF Silent
<1>3. ASSUME NEW u \in Threads, SendFileData(u) PROVE Silent'
  <2>1. Sent(u) /\ \A t \in Threads \ {u} : out'[t] = out[t]
    BY <1>3 DEF SendFileData, Goto, Sent, TypeOK
  <2> QED
    BY <1>1, <2>1 DEF Silent
<1>4. CASE ServerExits \/ UNCHANGED vars
  BY <1>2, <1>4 DEF ServerExits, vars
<1> QED
  BY <1>2, <1>3, <1>4, OnlyTheseOpen DEF Next, Step, Terminating

\* The file has been truncated, and no WRITE that has it open holds its flock.
Truncated(f) ==
  data[f] = <<>> /\ \A w \in Threads : Writing(w) /\ fd[w] = f => pc[w] = "flock"

\* What has been sent is of upload u; and as long as thread t is sending, either its file
\* still is of that upload, or no more is to be read from it.
SentOf(t, u) ==
  /\ \A k \in 1 .. Len(out[t]) : out[t][k] = u
  /\ pc[t] = "send" /\ out[t] # <<>> => upload[fd[t]] = u \/ Truncated(fd[t])

ReplyInv == \A t \in Threads : \E u \in Uploads : SentOf(t, u)

\* An fopen truncates the file.
LEMMA FopenTruncates ==
  ASSUME KeepInv, WrittenByOne', NEW w \in Threads, FopenForWrite(w)
  PROVE  /\ data'[fd'[w]] = <<>>
         /\ \A v \in Threads : Writing(v)' /\ fd'[v] = fd'[w] => pc'[v] = "flock"
<1>a. TypeInv /\ TypeOK
  BY DEF KeepInv, TypeInv
<1>1. fd'[w] \in Uploads /\ data' = [data EXCEPT ![fd'[w]] = <<>>]
  BY <1>a, OpensFile
<1>2. pc'[w] = "flock" /\ Writing(w)'
  BY <1>a DEF FopenForWrite, Goto, Writing, TypeOK
<1>3. data'[fd'[w]] = <<>>
  BY <1>a, <1>1 DEF TypeOK
<1>4. \A v \in Threads : Writing(v)' /\ fd'[v] = fd'[w] => v = w
  BY <1>2 DEF WrittenByOne
<1> QED
  BY <1>2, <1>3, <1>4

\* While thread t is sending a file, it stays truncated.
LEMMA StaysTruncated ==
  ASSUME KeepInv, Locks, WrittenByOne', NEW w \in Threads, Step(w),
         NEW t \in Threads \ {w}, pc[t] = "send", Truncated(fd[t])
  PROVE  Truncated(fd[t])'
<1>a. TypeInv /\ TypeOK
  BY DEF KeepInv, TypeInv
<1> DEFINE f == fd[t]
<1>f. f \in Uploads /\ fd'[t] = f /\ lk[t] = "sh"
  BY <1>a, OthersStay DEF TypeInv, Opened, Locks, LockAt
<1>1. CASE FopenForWrite(w) /\ fd'[w] = f
  BY <1>1, <1>f, FopenTruncates DEF Truncated
<1>2. CASE ~(FopenForWrite(w) /\ fd'[w] = f)
  <2>1. ASSUME Writing(w)', fd'[w] = f PROVE FALSE
    <3>1. Writing(w) /\ fd[w] = f
      BY <1>2, <1>a, <2>1, WritingGoesOn
    <3>2. pc[w] = "flock"
      BY <3>1 DEF Truncated
    <3>3. FlockExclusive(w)
      BY <1>2, <1>a, <2>1, <3>2, OnlyTheseKeepWriting
         DEF RecvFileData, RecvFails, UnlockFile, Fclose, Goto
    <3>4. lk[t] = "none"
      BY <3>1, <3>3 DEF FlockExclusive, CanLockExclusive
    <3> QED
      BY <1>f, <3>4
  <2>2. data'[f] = data[f]
    <3>1. CASE FopenForWrite(w)
      <4>1. fd'[w] \in Uploads /\ data' = [data EXCEPT ![fd'[w]] = <<>>]
        BY <1>a, <3>1, OpensFile
      <4> QED
        BY <1>2, <1>a, <1>f, <3>1, <4>1 DEF TypeOK
    <3>2. CASE RecvFileData(w) \/ Fclose(w)
      <4>1. /\ Writing(w) /\ pc[w] # "flock"
            /\ data' = [data EXCEPT ![fd[w]] = WriteAt(@, put[w], put'[w], w)]
        BY <1>a, <3>2, PassesOn DEF RecvFileData, Fclose, Goto
      <4>2. fd[w] # f
        BY <4>1 DEF Truncated
      <4> QED
        BY <1>a, <1>f, <4>1, <4>2 DEF TypeOK
    <3> QED
      BY <3>1, <3>2, OnlyTheseWrite
  <2>3. \A v \in Threads \ {w} : pc'[v] = pc[v] /\ fd'[v] = fd[v] /\ (Writing(v)' <=> Writing(v))
    BY <1>a, OthersStay DEF Writing
  <2> QED
    BY <1>f, <2>1, <2>2, <2>3 DEF Truncated
<1> QED
  BY <1>1, <1>2

\* A reply is of one upload, and remains so whatever other threads do to the file, ...
LEMMA ReplyUndisturbed ==
  ASSUME KeepInv, Locks, WrittenByOne', NEW w \in Threads, Step(w),
         NEW t \in Threads \ {w}, NEW u \in Uploads, SentOf(t, u)
  PROVE  SentOf(t, u)'
<1>a. TypeInv /\ TypeOK
  BY DEF KeepInv, TypeInv
<1>1. pc'[t] = pc[t] /\ fd'[t] = fd[t] /\ out'[t] = out[t]
  BY <1>a, OthersStay
<1> SUFFICES ASSUME pc[t] = "send", out[t] # <<>>
             PROVE  upload'[fd[t]] = u \/ Truncated(fd[t])'
  BY <1>1 DEF SentOf, Truncated
<1>2. fd[t] \in Uploads
  BY <1>a DEF TypeInv, Opened
<1>3. CASE Truncated(fd[t])
  BY <1>3, StaysTruncated
<1>4. CASE upload[fd[t]] = u /\ FopenForWrite(w)
  <2>1. fd'[w] \in Uploads /\ upload' = [upload EXCEPT ![fd'[w]] = w]
    BY <1>a, <1>4, OpensFile
  <2>2. CASE fd'[w] = fd[t]
    BY <1>1, <1>4, <2>2, FopenTruncates DEF Truncated
  <2>3. CASE fd'[w] # fd[t]
    BY <1>a, <1>2, <1>4, <2>1, <2>3 DEF TypeOK
  <2> QED
    BY <2>2, <2>3
<1>5. CASE upload[fd[t]] = u /\ UNCHANGED upload
  BY <1>5
<1> QED
  BY <1>3, <1>4, <1>5, OnlyTheseWrite DEF SentOf

\* ... and what the thread itself adds.
LEMMA ReplyGoesOn ==
  ASSUME KeepInv, Pure, Silent, NEW t \in Threads, Step(t),
         NEW u \in Uploads, SentOf(t, u)
  PROVE  \E v \in Uploads : SentOf(t, v)'
<1>a. TypeInv /\ TypeOK
  BY DEF KeepInv, TypeInv
<1>1. CASE SendFileData(t)
  <2> DEFINE f    == fd[t]
             next == Len(out[t]) + 1
  <2>1. pc[t] = "send" /\ f \in Uploads /\ UNCHANGED <<fd, upload, data>>
    BY <1>1, <1>a DEF SendFileData, Goto, TypeInv, Opened, fsVars
  <2>2. data[f] \in Seq(Uploads \cup {None}) /\ out[t] \in Seq(Uploads \cup {None})
          /\ upload[f] \in Uploads
    BY <1>a, <2>1 DEF TypeOK
  <2>3. CASE next > Len(data[f])
    <3>1. pc'[t] = "unshare" /\ out' = out
      BY <1>1, <1>a, <2>3 DEF SendFileData, Goto, TypeOK
    <3> QED
      BY <3>1 DEF SentOf
  <2>4. CASE ~(next > Len(data[f]))
    <3>1. next \in 1 .. Len(data[f])
      BY <2>2, <2>4
    <3>2. data[f][next] = upload[f]
      BY <2>1, <3>1 DEF Pure
    <3>3. out'[t] = Append(out[t], upload[f])
      BY <1>1, <1>a, <2>4, <3>2 DEF SendFileData, TypeOK
    <3>4. \A k \in 1 .. Len(out[t]) : out[t][k] = upload[f]
      <4>1. CASE out[t] = <<>>
        BY <4>1
      <4>2. CASE out[t] # <<>>
        <5>1. ~Truncated(f)
          BY <3>1 DEF Truncated
        <5>2. upload[f] = u
          BY <2>1, <4>2, <5>1 DEF SentOf
        <5> QED
          BY <5>2 DEF SentOf
      <4> QED
        BY <4>1, <4>2
    <3>5. \A k \in 1 .. Len(out'[t]) : out'[t][k] = upload[f]
      BY <2>2, <3>3, <3>4
    <3> QED
      BY <2>1, <2>2, <3>5 DEF SentOf
  <2> QED
    BY <2>3, <2>4
<1>2. CASE ~SendFileData(t)
  <2>1. UNCHANGED out
    BY <1>2, OnlyTheseOpen
  <2>2. ASSUME pc'[t] = "send" PROVE ~Sent(t)
    <3>1. SendFileSize(t)
      <4> USE DEF Goto, TypeOK
      <4>1. ~Accept(t)
        <5> SUFFICES ASSUME Accept(t) PROVE FALSE
          OBVIOUS
        <5>1. PICK r \in Requests :
                pc' = [pc EXCEPT ![t] = CASE r.op \in {"WRITE", "RM"} -> "lock"
                                          [] r.op = "GET"             -> "open"
                                          [] r.op = "GETVERSION"      -> "opendir"
                                          [] r.op = "LS"              -> "stat"]
          BY DEF Accept
        <5>2. r.op \in Ops
          BY StoreAssumption
        <5>3. pc'[t] \in {"lock", "open", "opendir", "stat"}
          BY <1>a, <5>1, <5>2 DEF Ops
        <5> QED
          BY <2>2, <5>3
      <4>2. ~Drop(t) /\ ~LockVersionMutex(t) /\ ~UnlockVersionMutex(t) /\ ~OpenDirectory(t)
              /\ ~OpenDirectoryFails(t) /\ ~RmStep(t)
        BY <1>a, <2>2 DEF Drop, LockVersionMutex, UnlockVersionMutex, OpenDirectory,
             OpenDirectoryFails, RmStep, DeleteMain, DeleteMainFails, DeleteVersion,
             DeleteVersionFails, SweepEnds
      <4>3. ~WriteStep(t)
        BY <1>a, <2>2 DEF WriteStep, BackupExists, BackupRename, BackupRenameFails,
             FopenForWrite, FopenFails, FlockExclusive, FlockExclusiveFails, RecvFileData,
             RecvFails, UnlockFile, Fclose, RemovePartial, RemovePartialFails
      <4>4. ~VersionStep(t) /\ ~LsStep(t)
        BY <1>a, <2>2 DEF VersionStep, LsStep, ListVersion, ResolveVersion, NoSuchVersion,
             LsStat, LsExists, DisplayVersions
      <4>5. ReadStep(t) \/ Sending(t)
        BY <4>1, <4>2, <4>3, <4>4 DEF Step, Serve
      <4> QED
        BY <1>2, <1>a, <2>2, <4>5 DEF ReadStep, Sending, FopenForRead, FlockShared,
             FlockSharedFails, SendFails, CloseRead
    <3> QED
      BY <3>1 DEF SendFileSize, Goto, Sent, EndPcs
  <2>3. pc'[t] = "send" => out'[t] = <<>>
    BY <2>1, <2>2 DEF Silent
  <2> QED
    BY <2>1, <2>3 DEF SentOf
<1> QED
  BY <1>1, <1>2

\* The bytes of a reply are all of one upload, although other WRITEs may put the file aside,
\* and RMs delete it, at any time between fopen and the last send (send_file_with_lock), and
\* whichever calls fail: a WRITE whose rename has failed truncates the very file that is
\* being sent, but cannot write to it before the reader has given back its flock.  All it
\* takes is that the spellings of a file share a mutex.
THEOREM RepliesAreUnmixed ==
  ASSUME Serialized
  PROVE  Spec => []ReplyUnmixed
<1> DEFINE I == KeepInv /\ Pure /\ Locks /\ Exclusion /\ Silent /\ ReplyInv
<1>1. Init => I
  <2> SUFFICES ASSUME Init PROVE Pure /\ Locks /\ Exclusion /\ Silent /\ ReplyInv
    BY InitKeep
  <2>1. Pure
    BY DEF Init, Pure
  <2>2. Locks /\ Exclusion
    BY DEF Init, Locks, LockAt, Exclusion
  <2>3. Silent
    BY DEF Init, Silent
  <2>4. ReplyInv
    BY DEF Init, ReplyInv, SentOf, Uploads
  <2> QED
    BY <2>1, <2>2, <2>3, <2>4
<1>2. I /\ [Next]_vars => I'
  <2> SUFFICES ASSUME I, [Next]_vars PROVE I'
    OBVIOUS
  <2>a. TypeOK /\ KeepInv' /\ WrittenByOne' /\ Silent'
    BY NextKeep, SilentStep DEF KeepInv, TypeInv
  <2>1. ASSUME NEW w \in Threads, Step(w) PROVE I'
    <3>1. Pure' /\ Locks' /\ Exclusion'
      BY <2>a, <2>1, PureStep, LocksStep, ExclusionStep
    <3>2. ASSUME NEW t \in Threads PROVE \E u \in Uploads : SentOf(t, u)'
      <4>1. PICK u \in Uploads : SentOf(t, u)
        BY DEF ReplyInv
      <4> QED
        BY <2>a, <2>1, <4>1, ReplyUndisturbed, ReplyGoesOn
    <3> QED
      BY <2>a, <3>1, <3>2 DEF ReplyInv
  <2>2. CASE ServerExits
    <3>1. UNCHANGED <<upload, data, out>> /\ \A t \in Threads : lk'[t] = "none"
      BY <2>2 DEF ServerExits, fsVars
    <3>2. \A t \in Threads : pc'[t] \in EndPcs \cup {"idle"}
      BY <2>2 DEF ServerExits, Active, EndPcs
    <3>3. Pure' /\ Locks' /\ Exclusion'
      BY <3>1, <3>2 DEF Pure, Locks, LockAt, Exclusion, EndPcs
    <3>4. ReplyInv'
      BY <3>1, <3>2 DEF ReplyInv, SentOf, EndPcs
    <3> QED
      BY <2>a, <3>3, <3>4
  <2>3. CASE UNCHANGED vars
    <3>1. UNCHANGED <<upload, data, out, pc, fd, lk>>
      BY <2>3 DEF vars
    <3>2. Pure' /\ Locks' /\ Exclusion'
      BY <3>1 DEF Pure, Locks, LockAt, Exclusion
    <3>3. ReplyInv'
      BY <3>1 DEF ReplyInv, SentOf, Truncated, Writing
    <3> QED
      BY <2>a, <3>2, <3>3
  <2> QED
    BY <2>1, <2>2, <2>3 DEF Next, Step, Terminating
<1>3. I => ReplyUnmixed
  BY DEF ReplyInv, SentOf, ReplyUnmixed
<1> QED
  BY <1>1, <1>2, <1>3, PTL DEF Spec

-----------------------------------------------------------------------------
(* Uploads that are stored *)

\* File f holds an upload that is complete, and whose WRITE is done with it.
Settled(f) ==
  \/ upload[f] \in Preloaded
  \/ \E t \in Threads : /\ upload[f] = t /\ fd[t] = f
                        /\ pc[t] \in EndPcs \cup {"unlock"} /\ put[t] = size[t]

\* What is linked and not being written is settled, ...
LEMMA LinkedSettled ==
  ASSUME Inv, NEW e \in Entries, dir[e] # None,
         \A t \in Threads : ~(Writing(t) /\ e = FullPath(t))
  PROVE  dir[e] \in Uploads /\ Settled(dir[e])
<1>1. dir[e] \in Uploads /\ upload[dir[e]] \in Uploads
  BY DEF Inv, TypeInv, TypeOK
<1> QED
  BY <1>1 DEF Inv, Linked, Settled, Uploads

\* ... what is settled is whole, ...
LEMMA SettledIsWhole ==
  ASSUME Inv, NEW f \in Uploads, Settled(f)
  PROVE  /\ upload[f] \in Uploads /\ size[upload[f]] \in Nat
         /\ data[f] = Full(upload[f]) /\ Len(data[f]) = size[upload[f]]
<1>a. upload[f] \in Uploads /\ size[upload[f]] \in Int
  BY DEF Inv, TypeInv, TypeOK
<1>1. CASE upload[f] \in Preloaded
  <2>1. Whole(f)
    BY <1>1 DEF Inv, Preserved
  <2>2. size[upload[f]] \in Nat /\ data[f] = [k \in 1 .. size[upload[f]] |-> upload[f]]
    BY <1>a, <2>1 DEF Whole, Full
  <2> QED
    BY <1>a, <2>2 DEF Full
<1>2. CASE ~(upload[f] \in Preloaded)
  <2>1. PICK t \in Threads : /\ upload[f] = t /\ fd[t] = f
                             /\ pc[t] \in EndPcs \cup {"unlock"} /\ put[t] = size[t]
    BY <1>2 DEF Settled
  <2>2. size[t] \in Nat
    BY <2>1 DEF Inv, TypeInv, TypeOK
  <2>3. data[f] \in Seq(Uploads \cup {None}) /\ Len(data[f]) = size[t]
    BY <2>1 DEF Inv, Contents, TypeInv, TypeOK
  <2>4. \A k \in 1 .. size[t] : data[f][k] = t
    BY <2>1 DEF Inv, Contents
  <2>5. data[f] = [k \in 1 .. size[t] |-> t]
    BY <2>2, <2>3, <2>4, UniformSequence
  <2> QED
    BY <1>a, <2>1, <2>2, <2>3, <2>5 DEF Full
<1> QED
  BY <1>1, <1>2

\* File f is not the file that a name stands for: nobody will open it for writing.
PutAside(f) == \A e \in Entries : dir[e] = f => e[2] # 0

\* ... and a settled file that has been put aside stays as it is.
LEMMA SettledStays ==
  ASSUME Inv, NEW w \in Threads, Step(w), NEW f \in Uploads, Settled(f), PutAside(f)
  PROVE  /\ Settled(f)' /\ PutAside(f)'
         /\ upload'[f] = upload[f] /\ data'[f] = data[f]
         /\ size'[upload[f]] = size[upload[f]]
<1>a. TypeInv /\ TypeOK
  BY DEF Inv, TypeInv
<1>1. CASE upload[f] = w
  <2>1. fd[w] = f /\ pc[w] \in EndPcs \cup {"unlock"} /\ put[w] = size[w]
    BY <1>1, StoreAssumption DEF Settled
  <2>2. UnlockVersionMutex(w)
    BY <2>1 DEF Step, Serve, Accept, Drop, LockVersionMutex, OpenDirectory,
         OpenDirectoryFails, WriteStep, RmStep, VersionStep, LsStep, ReadStep, Sending,
         BackupExists, BackupRename, BackupRenameFails, FopenForWrite, FopenFails,
         FlockExclusive, FlockExclusiveFails, RecvFileData, RecvFails, UnlockFile, Fclose,
         RemovePartial, RemovePartialFails, DeleteMain, DeleteMainFails, DeleteVersion,
         DeleteVersionFails, SweepEnds, ListVersion, ResolveVersion, NoSuchVersion, LsStat,
         LsExists, DisplayVersions, FopenForRead, FlockShared, FlockSharedFails,
         SendFileSize, SendFileData, SendFails, CloseRead, Goto, EndPcs
  <2>3. /\ UNCHANGED <<dir, upload, data, fd, put, size>>
        /\ pc'[w] \in EndPcs
    BY <2>2, <1>a DEF UnlockVersionMutex, Goto, EndPcs, TypeOK, fsVars, writeVars
  <2> QED
    BY <1>1, <2>1, <2>3 DEF Settled, PutAside
<1>2. CASE upload[f] # w
  <2>1. upload[f] \in Uploads
    BY <1>a DEF TypeOK
  <2>2. size'[upload[f]] = size[upload[f]]
    BY <1>2, <1>a, <2>1, SizesStay
  <2>3. ASSUME FopenForWrite(w)
        PROVE  /\ FullPath(w) \in Entries /\ fd'[w] \in Uploads /\ fd'[w] # f
               /\ dir'[FullPath(w)] = fd'[w]
               /\ data' = [data EXCEPT ![fd'[w]] = <<>>]
               /\ upload' = [upload EXCEPT ![fd'[w]] = w]
    <3>1. /\ pc[w] = "fopen" /\ FullPath(w) \in Entries /\ fd'[w] \in Uploads
          /\ fd'[w] = (IF dir[FullPath(w)] = None THEN w ELSE dir[FullPath(w)])
          /\ dir'[FullPath(w)] = fd'[w]
          /\ data' = [data EXCEPT ![fd'[w]] = <<>>]
          /\ upload' = [upload EXCEPT ![fd'[w]] = w]
      BY <1>a, <2>3, OpensFile
    <3>2. f # w
      BY <1>2, <3>1 DEF Inv, Unopened
    <3>3. FullPath(w)[2] = 0
      BY DEF FullPath, Main
    <3> QED
      BY <3>1, <3>2, <3>3 DEF PutAside
  <2>4. data'[f] = data[f] /\ upload'[f] = upload[f]
    <3>1. CASE FopenForWrite(w)
      BY <1>a, <2>3, <3>1 DEF TypeOK
    <3>2. CASE RecvFileData(w) \/ Fclose(w)
      <4>1. /\ Writing(w) /\ UNCHANGED upload
            /\ data' = [data EXCEPT ![fd[w]] = WriteAt(@, put[w], put'[w], w)]
        BY <1>a, <3>2, PassesOn
      <4>2. fd[w] # f
        BY <1>2, <4>1 DEF Inv, OwnFile
      <4> QED
        BY <1>a, <4>1, <4>2 DEF TypeOK
    <3> QED
      BY <3>1, <3>2, OnlyTheseWrite
  <2>5. \A t \in Threads \ {w} : pc'[t] = pc[t] /\ put'[t] = put[t] /\ fd'[t] = fd[t]
    BY <1>a, OthersStay
  <2>6. Settled(f)'
    BY <1>2, <2>1, <2>2, <2>4, <2>5 DEF Settled, Uploads
  <2>7. PutAside(f)'
    <3> SUFFICES ASSUME NEW e \in Entries, dir'[e] = f PROVE e[2] # 0
      BY DEF PutAside
    <3>1. dir'[e] # None
      BY StoreAssumption
    <3>2. CASE dir'[e] = dir[e]
      BY <3>2 DEF PutAside
    <3>3. CASE FopenForWrite(w) /\ e = FullPath(w)
      BY <2>3, <3>3
    <3>4. CASE BackupRename(w) /\ e[2] = clock' /\ clock' \in Readings
      BY <3>4 DEF Readings, Stamps
    <3> QED
      BY <1>a, <3>1, <3>2, <3>3, <3>4, NamesMove
  <2> QED
    BY <2>2, <2>4, <2>6, <2>7
<1> QED
  BY <1>1, <1>2

\* A file that no WRITE is busy with is a whole upload: a WRITE that is cut short leaves
\* nothing partial behind ("Partial/corrupted file deleted").
THEOREM SettledFilesAreWhole ==
  ASSUME Undisturbed
  PROVE  Spec => []SettledWhole
<1>1. Spec => [](VersionsWhole /\ SettledWhole)
  BY VersionsAreWhole
<1> QED
  BY <1>1, PTL

-----------------------------------------------------------------------------
(* Versions that are sent *)

\* A GETVERSION that has chosen a version sends a settled upload, ...
Fetching(t) == pc[t] \in {"share", "size", "send", "unshare", "sent"} /\ Op(t) = "GETVERSION"

\* ... which has been put aside for good, and whose size it knows, once it has asked.
FetchInv ==
  \A t \in Threads :
    /\ \A e \in found[t] : e[2] # 0
    /\ pc[t] = "open" /\ Op(t) = "GETVERSION" => target[t][2] # 0
    /\ Fetching(t) =>
         /\ fd[t] \in Uploads /\ Settled(fd[t]) /\ PutAside(fd[t])
         /\ \A k \in 1 .. Len(out[t]) : out[t][k] = upload[fd[t]]
    /\ Fetching(t) /\ pc[t] \in {"send", "unshare", "sent"} => size[t] = size[upload[fd[t]]]
    /\ pc[t] = "sent" => Len(out[t]) = size[t]

\* Steps of other threads leave this as it is.
LEMMA FetchUndisturbed ==
  ASSUME Inv, FetchInv, NEW w \in Threads, Step(w), NEW t \in Threads \ {w}
  PROVE  /\ \A e \in found'[t] : e[2] # 0
         /\ pc'[t] = "open" /\ Op(t)' = "GETVERSION" => target'[t][2] # 0
         /\ Fetching(t)' =>
              /\ fd'[t] \in Uploads /\ Settled(fd[t])' /\ PutAside(fd[t])'
              /\ \A k \in 1 .. Len(out'[t]) : out'[t][k] = upload'[fd'[t]]
         /\ Fetching(t)' /\ pc'[t] \in {"send", "unshare", "sent"} =>
              size'[t] = size'[upload'[fd'[t]]]
         /\ pc'[t] = "sent" => Len(out'[t]) = size'[t]
<1>1. /\ pc'[t] = pc[t] /\ req'[t] = req[t] /\ target'[t] = target[t] /\ fd'[t] = fd[t]
      /\ out'[t] = out[t] /\ found'[t] = found[t]
  BY OthersStay DEF Inv, TypeInv
<1>2. size'[t] = size[t]
  BY SizesStay DEF Inv, TypeInv, Uploads
<1>3. Op(t)' = Op(t) /\ (Fetching(t)' <=> Fetching(t))
  BY <1>1 DEF Op, Fetching
<1>4. ASSUME Fetching(t)
      PROVE  /\ fd[t] \in Uploads /\ Settled(fd[t])' /\ PutAside(fd[t])'
             /\ upload'[fd[t]] = upload[fd[t]]
             /\ size'[upload[fd[t]]] = size[upload[fd[t]]]
  <2>1. fd[t] \in Uploads /\ Settled(fd[t]) /\ PutAside(fd[t])
    BY <1>4 DEF FetchInv
  <2>2. \A f \in Uploads : Settled(f) /\ PutAside(f) =>
          /\ Settled(f)' /\ PutAside(f)' /\ upload'[f] = upload[f]
          /\ size'[upload[f]] = size[upload[f]]
    BY SettledStays
  <2> QED
    BY <1>1, <2>1, <2>2 DEF Settled, PutAside
<1> QED
  BY <1>1, <1>2, <1>3, <1>4 DEF FetchInv

\* The thread itself gets from a version to its entry, from there to a settled file, and
\* to its size.
LEMMA FetchGoesOn ==
  ASSUME \A n \in Names : Extending[n] = {},
         Inv, Silent, FetchInv, NEW t \in Threads, Step(t)
  PROVE  /\ \A e \in found'[t] : e[2] # 0
         /\ pc'[t] = "open" /\ Op(t)' = "GETVERSION" => target'[t][2] # 0
         /\ Fetching(t)' =>
              /\ fd'[t] \in Uploads /\ Settled(fd[t])' /\ PutAside(fd[t])'
              /\ \A k \in 1 .. Len(out'[t]) : out'[t][k] = upload'[fd'[t]]
         /\ Fetching(t)' /\ pc'[t] \in {"send", "unshare", "sent"} =>
              size'[t] = size'[upload'[fd'[t]]]
         /\ pc'[t] = "sent" => Len(out'[t]) = size'[t]
<1>a. TypeInv /\ TypeOK
  BY DEF Inv, TypeInv
<1>s. ASSUME NEW f \in Uploads, Settled(f), PutAside(f), fd'[t] = f
      PROVE  /\ Settled(fd[t])' /\ PutAside(fd[t])' /\ upload'[f] = upload[f]
             /\ size'[upload[f]] = size[upload[f]]
  <2>1. /\ Settled(f)' /\ PutAside(f)' /\ upload'[f] = upload[f]
        /\ size'[upload[f]] = size[upload[f]]
    BY <1>s, SettledStays
  <2> QED
    BY <1>s, <2>1 DEF Settled, PutAside
<1>1. CASE Accept(t)
  <2>1. PICK r \in Requests :
          /\ pc' = [pc EXCEPT ![t] = CASE r.op \in {"WRITE", "RM"} -> "lock"
                                       [] r.op = "GET"             -> "open"
                                       [] r.op = "GETVERSION"      -> "opendir"
                                       [] r.op = "LS"              -> "stat"]
          /\ req' = [req EXCEPT ![t] = r]
    BY <1>1 DEF Accept, Goto
  <2>2. r.op \in Ops
    BY StoreAssumption
  <2>3. pc'[t] \in {"lock", "open", "opendir", "stat"} /\ Op(t)' = r.op
    BY <2>1, <2>2, <1>a DEF Ops, Op, TypeOK
  <2>4. r.op = "GETVERSION" => pc'[t] = "opendir"
    BY <2>1, <1>a DEF TypeOK
  <2>5. UNCHANGED found
    BY <1>1 DEF Accept, scanVars
  <2> QED
    BY <2>3, <2>4, <2>5 DEF FetchInv, Fetching
<1>2. ASSUME UNCHANGED found,
             pc'[t] \notin {"open", "share", "size", "send", "unshare", "sent"}
      PROVE  /\ \A e \in found'[t] : e[2] # 0
             /\ pc'[t] # "open" /\ pc'[t] # "sent" /\ ~Fetching(t)'
  BY <1>2 DEF FetchInv, Fetching
<1>3. CASE Drop(t) \/ LockVersionMutex(t) \/ UnlockVersionMutex(t) \/ OpenDirectory(t)
             \/ OpenDirectoryFails(t) \/ RmStep(t)
  <2>1. UNCHANGED found
    BY <1>3 DEF Drop, LockVersionMutex, UnlockVersionMutex, OpenDirectory,
         OpenDirectoryFails, RmStep, DeleteMain, DeleteMainFails, DeleteVersion,
         DeleteVersionFails, SweepEnds, scanVars
  <2>2. pc'[t] \notin {"open", "share", "size", "send", "unshare", "sent"}
    BY <1>3, <1>a DEF Drop, LockVersionMutex, UnlockVersionMutex, OpenDirectory,
         OpenDirectoryFails, RmStep, DeleteMain, DeleteMainFails, DeleteVersion,
         DeleteVersionFails, SweepEnds, Goto, TypeOK
  <2> QED
    BY <1>2, <2>1, <2>2
<1>4. CASE WriteStep(t)
  <2>1. UNCHANGED found
    BY <1>4 DEF WriteStep, BackupExists, BackupRename, BackupRenameFails, FopenForWrite,
         FopenFails, FlockExclusive, FlockExclusiveFails, RecvFileData, RecvFails,
         UnlockFile, Fclose, RemovePartial, RemovePartialFails, scanVars
  <2>2. pc'[t] \notin {"open", "share", "size", "send", "unshare", "sent"}
    BY <1>4, <1>a DEF WriteStep, BackupExists, BackupRename, BackupRenameFails,
         FopenForWrite, FopenFails, FlockExclusive, FlockExclusiveFails, RecvFileData,
         RecvFails, UnlockFile, Fclose, RemovePartial, RemovePartialFails, Goto, TypeOK
  <2> QED
    BY <1>2, <2>1, <2>2
<1>5. CASE NoSuchVersion(t) \/ LsStep(t) \/ FlockSharedFails(t)
  <2>1. UNCHANGED found
    BY <1>5 DEF NoSuchVersion, LsStep, LsStat, LsExists, DisplayVersions, FlockSharedFails,
       scanVars
  <2>2. pc'[t] \notin {"open", "share", "size", "send", "unshare", "sent"}
    BY <1>5, <1>a DEF NoSuchVersion, LsStep, LsStat, LsExists, DisplayVersions,
       FlockSharedFails, Goto, TypeOK
  <2> QED
    BY <1>2, <2>1, <2>2
<1>6. CASE ListVersion(t)
  <2>1. PICK e \in Matching(File(t)) : found' = [found EXCEPT ![t] = @ \cup {e}]
    BY <1>6 DEF ListVersion
  <2>2. pc[t] = "readdir" /\ pc'[t] = "readdir"
    BY <1>6 DEF ListVersion
  <2>3. File(t) \in Names
    BY <2>2, <1>a, RequestTyping
  <2>4. e[2] # 0
    BY <2>3 DEF Matching
  <2> QED
    BY <2>1, <2>2, <2>4, <1>a DEF FetchInv, Fetching, TypeOK
<1>7. CASE ResolveVersion(t)
  <2>1. pc'[t] = "open" /\ UNCHANGED found
    BY <1>7, <1>a DEF ResolveVersion, Goto, scanVars, TypeOK
  <2>2. target'[t] \in found[t]
    BY <1>7, <1>a DEF ResolveVersion, TypeOK
  <2> QED
    BY <2>1, <2>2 DEF FetchInv, Fetching
<1>8. CASE FopenForRead(t)
  <2>1. UNCHANGED <<found, req, data, dir>> /\ pc[t] = "open" /\ fd'[t] = dir[target[t]]
    BY <1>8, <1>a DEF FopenForRead, Goto, scanVars, fsVars, TypeOK
  <2>2. pc'[t] \in {"absent", "share"} /\ (pc'[t] = "share" => dir[target[t]] # None)
    BY <1>8, <1>a DEF FopenForRead, Goto, TypeOK
  <2>3. ASSUME Fetching(t)'
        PROVE  /\ fd'[t] \in Uploads /\ Settled(fd[t])' /\ PutAside(fd[t])'
               /\ out'[t] = <<>>
    <3>1. Op(t) = "GETVERSION" /\ pc'[t] = "share"
      BY <2>1, <2>2, <2>3 DEF Fetching, Op
    <3>2. target[t] \in Entries /\ target[t][2] # 0
      BY <2>1, <3>1, <1>a, RequestTyping DEF FetchInv
    <3>3. dir[target[t]] \in Uploads /\ Settled(dir[target[t]])
      BY <2>2, <3>1, <3>2, LinkedSettled DEF FullPath, Main
    <3>4. PutAside(dir[target[t]])
      BY <3>2, <3>3, StoreAssumption DEF PutAside, Inv, LinkedOnce
    <3>5. out'[t] = <<>>
      BY <1>8, <2>1 DEF FopenForRead, Silent, Sent, EndPcs
    <3> QED
      BY <2>1, <3>3, <3>4, <3>5, <1>s
  <2> QED
    BY <2>1, <2>2, <2>3 DEF FetchInv
<1>9. CASE FlockShared(t) \/ SendFileSize(t) \/ Sending(t) \/ CloseRead(t)
  <2>1. /\ UNCHANGED <<found, req, fd, upload, data>>
        /\ pc[t] \in {"share", "size", "send", "unshare"}
        /\ pc'[t] \in {"size", "send", "unshare", "sent", "short"}
    BY <1>9, <1>a DEF FlockShared, SendFileSize, Sending, SendFileData, SendFails,
       CloseRead, Goto, scanVars, fsVars, TypeOK
  <2>2. Fetching(t)' => Fetching(t)
    BY <2>1 DEF Fetching, Op
  <2>3. ASSUME Fetching(t)
        PROVE  /\ fd[t] \in Uploads /\ Settled(fd[t])
               /\ Settled(fd[t])' /\ PutAside(fd[t])'
               /\ size'[upload[fd[t]]] = size[upload[fd[t]]]
               /\ \A k \in 1 .. Len(out[t]) : out[t][k] = upload[fd[t]]
    <3>1. /\ fd[t] \in Uploads /\ Settled(fd[t]) /\ PutAside(fd[t])
          /\ \A k \in 1 .. Len(out[t]) : out[t][k] = upload[fd[t]]
      BY <2>3 DEF FetchInv
    <3> QED
      BY <2>1, <3>1, <1>s
  <2>4. CASE SendFileSize(t)
    <3>1. size'[t] = Len(data[fd[t]]) /\ pc'[t] # "sent" /\ UNCHANGED out
      BY <2>4, <1>a DEF SendFileSize, Goto, TypeOK, Uploads
    <3>2. Fetching(t) => Len(data[fd[t]]) = size[upload[fd[t]]]
      BY <2>3, SettledIsWhole
    <3> QED
      BY <2>1, <2>2, <2>3, <3>1, <3>2 DEF FetchInv
  <2>5. CASE FlockShared(t)
    <3>1. pc'[t] = "size" /\ UNCHANGED out
      BY <2>5, <1>a DEF FlockShared, Goto, TypeOK
    <3> QED
      BY <2>1, <2>2, <2>3, <3>1 DEF FetchInv
  <2>6. CASE SendFails(t) \/ CloseRead(t)
    <3>1. UNCHANGED <<size, out>> /\ pc[t] \in {"send", "unshare"}
      BY <2>6 DEF SendFails, CloseRead, Goto
    <3>2. pc'[t] = "sent" => Len(out'[t]) = size'[t]
      BY <2>6, <1>a DEF SendFails, CloseRead, Goto, TypeOK
    <3> QED
      BY <2>1, <2>2, <2>3, <3>1, <3>2 DEF FetchInv
  <2>7. CASE SendFileData(t)
    <3> DEFINE next == Len(out[t]) + 1
               f    == fd[t]
    <3>1. UNCHANGED size /\ pc[t] = "send" /\ pc'[t] \in {"send", "unshare"}
      BY <2>7, <1>a DEF SendFileData, Goto, TypeOK
    <3>2. ASSUME Fetching(t)
          PROVE  \A k \in 1 .. Len(out'[t]) : out'[t][k] = upload[f]
      <4>1. CASE out' = out
        BY <2>3, <3>2, <4>1
      <4>2. CASE out' # out
        <5>1. ~(next > Len(data[f])) /\ out'[t] = Append(out[t], data[f][next])
          BY <2>7, <4>2, <1>a DEF SendFileData, TypeOK
        <5>2. /\ data[f] = Full(upload[f]) /\ Len(data[f]) = size[upload[f]]
              /\ size[upload[f]] \in Nat
          BY <2>3, <3>2, SettledIsWhole
        <5>3. out[t] \in Seq(Uploads \cup {None}) /\ next \in 1 .. size[upload[f]]
          BY <1>a, <5>1, <5>2 DEF TypeOK
        <5>4. data[f][next] = upload[f]
          BY <5>2, <5>3 DEF Full
        <5> QED
          BY <2>3, <3>2, <5>1, <5>3, <5>4
      <4> QED
        BY <4>1, <4>2
    <3> QED
      BY <2>1, <2>2, <2>3, <3>1, <3>2 DEF FetchInv
  <2> QED
    BY <1>9, <2>4, <2>5, <2>6, <2>7 DEF Sending
<1> QED
  BY <1>1, <1>2, <1>3, <1>4, <1>5, <1>6, <1>7, <1>8, <1>9
     DEF Step, Serve, VersionStep, ReadStep

\* What a GETVERSION client accepts is the whole version (handle_getversion_request,
\* send_file_with_lock), although between resolving the number and opening the file, and
\* all the time while it is sent, no mutex is held: a version is never written to again,
\* and if an RM deletes it the file lives on until it is closed.  Under the assumptions
\* of VersionsAreWhole, and that no file name extends another by ".v" (the scan would
\* take that file for a version).
THEOREM VersionsSentWhole ==
  ASSUME Undisturbed, \A n \in Names : Extending[n] = {}
  PROVE  Spec => []GetVersionWhole
<1> DEFINE I == Inv /\ Silent /\ FetchInv
<1>1. Init => I
  BY InitInv DEF Init, Silent, FetchInv, Fetching
<1>2. I /\ [Next]_vars => I'
  <2> SUFFICES ASSUME Inv, Silent, FetchInv, [Next]_vars PROVE Silent' /\ FetchInv'
    BY NextInv
  <2>1. ASSUME NEW w \in Threads, Step(w) PROVE FetchInv'
    BY <2>1, FetchUndisturbed, FetchGoesOn DEF FetchInv
  <2>2. ~ServerExits
    BY DEF ServerExits, Undisturbed, Inv, TypeInv, TypeOK
  <2>3. ASSUME UNCHANGED vars PROVE FetchInv'
    <3>1. UNCHANGED <<dir, upload, pc, req, target, fd, size, put, out, found>>
      BY <2>3 DEF vars
    <3>2. \A t \in Threads : /\ Fetching(t)' <=> Fetching(t)
                             /\ (Op(t) = "GETVERSION")' <=> Op(t) = "GETVERSION"
      BY <3>1 DEF Fetching, Op
    <3>3. \A f \in Uploads : (Settled(f)' <=> Settled(f)) /\ (PutAside(f)' <=> PutAside(f))
      BY <3>1 DEF Settled, PutAside
    <3> QED
      BY <3>1, <3>2, <3>3 DEF FetchInv
  <2>4. Silent'
    BY SilentStep DEF Inv, TypeInv
  <2> QED
    BY <2>1, <2>2, <2>3, <2>4 DEF Next, Step, Terminating
<1>3. I => GetVersionWhole
  <2> SUFFICES ASSUME I, NEW t \in Threads, pc[t] = "sent", Op(t) = "GETVERSION"
               PROVE  out[t] = Full(upload[fd[t]])
    BY DEF GetVersionWhole
  <2> DEFINE u == upload[fd[t]]
  <2>1. /\ fd[t] \in Uploads /\ Settled(fd[t])
        /\ size[t] = size[u] /\ Len(out[t]) = size[t]
        /\ \A k \in 1 .. Len(out[t]) : out[t][k] = u
    BY DEF FetchInv, Fetching
  <2>2. u \in Uploads /\ size[u] \in Nat
    BY <2>1, SettledIsWhole
  <2>3. out[t] \in Seq(Uploads \cup {None})
    BY DEF Inv, TypeInv, TypeOK
  <2>4. out[t] = [k \in 1 .. size[u] |-> u]
    BY <2>1, <2>2, <2>3, UniformSequence
  <2> QED
    BY <2>4 DEF Full
<1> QED
  BY <1>1, <1>2, <1>3, PTL DEF Spec

=============================================================================
