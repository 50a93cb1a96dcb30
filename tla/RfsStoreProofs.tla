--------------------------- MODULE RfsStoreProofs ---------------------------
(***************************************************************************)
(* Theorems about RfsStore, for any number of threads, files and versions, *)
(* any sizes and any storage directory to begin with.                      *)
(***************************************************************************)
EXTENDS RfsStore, SequenceTheorems, TLAPS

-----------------------------------------------------------------------------
(* The inductive strengthening of TypeOK. *)

\* From the moment a thread has received its request, it knows what to work on.
Requested ==
  \A t \in Threads :
    pc[t] \notin {"idle", "dropped"} => req[t] \in Requests /\ target[t] \in Entries

\* A thread that works on an open file has opened one.
Opened ==
  \A t \in Threads :
    pc[t] \in {"flock", "recv", "unflock", "fclose", "remove", "share", "size", "send"} =>
      fd[t] \in Uploads

\* Nothing has been received before the receive loop, or counted before RM counts.
Fresh ==
  \A t \in Threads :
    pc[t] \in {"idle", "lock", "exists", "rename", "fopen", "flock", "delete"} =>
      count[t] = 0 /\ put[t] = 0

TypeInv == TypeOK /\ Requested /\ Opened /\ Fresh

-----------------------------------------------------------------------------
(* The inductive strengthening of VersionsWhole and SettledWhole. *)

\* All spellings of a file hash to the same mutex.
Serialized == \A p, q \in Paths : FileOf[p] = FileOf[q] => MutexOf[p] = MutexOf[q]

\* What the two invariants need of the environment.
Undisturbed ==
  /\ Serialized
  /\ Faults \cap {"flock", "flush", "remove"} = {}
  /\ MaxExits = 0

\* Thread t is between the lock and the unlock of its mutex.
Critical(t) == pc[t] \in WritePcs \cup RmPcs \cup {"unlock"}

\* It then holds the mutex.
Owners == \A t \in Threads : Critical(t) => mutex[MutexFor(t)] = t

\* A file is linked by one entry.
LinkedOnce == \A e, f \in Entries : dir[e] = dir[f] /\ dir[e] # None => e = f

\* The file of thread t exists at the earliest when t has opened it.
Unopened ==
  \A t \in Threads :
    pc[t] \in {"idle", "lock", "exists", "rename", "fopen"} => upload[t] = t

\* A WRITE writes to a file that was last opened for it, ...
OwnFile == \A t \in Threads : Writing(t) => upload[fd[t]] = t

\* ... which holds what has been received and nothing else.
Contents ==
  \A f \in Uploads, t \in Threads :
    upload[f] = t /\ fd[t] = f =>
      Len(data[f]) = put[t] /\ \A k \in 1 .. put[t] : data[f][k] = t

\* Where that file can be, and when.
Linked ==
  \A e \in Entries, t \in Threads :
    dir[e] # None /\ upload[dir[e]] = t =>
      /\ fd[t] = dir[e]
      /\ \/ Writing(t) /\ e = FullPath(t)
         \/ pc[t] \in EndPcs \cup {"unlock"} /\ put[t] = size[t]

\* Files of earlier days keep their content until they are opened for another upload.
Preserved == \A f \in Uploads : upload[f] \in Preloaded => Whole(f)

Inv ==
  /\ TypeInv
  /\ Owners
  /\ LinkedOnce
  /\ Unopened
  /\ OwnFile
  /\ Contents
  /\ Linked
  /\ Preserved

-----------------------------------------------------------------------------
(* Type correctness *)

\* Where a thread's requests live: the operators on its request are well typed.
LEMMA RequestTyping ==
  ASSUME TypeInv, NEW t \in Threads, pc[t] \notin {"idle", "dropped"}
  PROVE  /\ req[t] \in Requests
         /\ target[t] \in Entries
         /\ File(t) \in Names
         /\ FullPath(t) \in Entries
         /\ MutexFor(t) \in Mutexes
  BY StoreAssumption DEF TypeInv, Requested, File, FullPath, MutexFor, Main, Entries

\* A file that chunks are written to remains a sequence of chunks.
LEMMA WriteAtTyping ==
  ASSUME NEW S, NEW s \in Seq(S), NEW u \in S, None \in S,
         NEW from \in Nat, NEW to \in Nat, from <= to
  PROVE  WriteAt(s, from, to, u) \in Seq(S)
<1> DEFINE n == IF Len(s) > to THEN Len(s) ELSE to
           e == [k \in 1 .. n |-> IF from < k /\ k <= to THEN u
                                 ELSE IF k <= Len(s) THEN s[k] ELSE None]
<1>1. n \in Nat
  OBVIOUS
<1>2. \A k \in 1 .. n : e[k] \in S
  OBVIOUS
<1>3. e \in Seq(S)
  <2> HIDE DEF n
  <2> QED BY <1>1, <1>2
<1> QED
  BY <1>3 DEF WriteAt

\* Every storage directory the server may start with is well typed.
LEMMA InitTypeInv == Init => TypeInv
<1> SUFFICES ASSUME Init PROVE TypeInv
  OBVIOUS
<1>1. data \in [Uploads -> Seq(Uploads \cup {None})]
  <2>1. \A u \in Uploads : <<u>> \in Seq(Uploads \cup {None})
    OBVIOUS
  <2>2. <<>> \in Seq(Uploads \cup {None})
    OBVIOUS
  <2> QED
    BY <2>1, <2>2 DEF Init
<1>2. dir \in [Entries -> Uploads \cup {None}]
  BY StoreAssumption DEF Init, Uploads
<1>3. pc \in [Threads -> Pcs]
  BY DEF Init, Pcs
<1>4. size \in [Uploads -> Int] /\ out \in [Threads -> Seq(Uploads \cup {None})]
  BY DEF Init
<1>5. exits \in 0 .. MaxExits
  BY StoreAssumption DEF Init
<1> QED
  BY <1>1, <1>2, <1>3, <1>4, <1>5 DEF Init, TypeInv, TypeOK, Requested, Opened, Fresh

\* One step per action; a step says where it leaves the next call of the thread,
\* what it writes to storage, and that the rest keeps its type.
LEMMA NextTypeInv == TypeInv /\ [Next]_vars => TypeInv'
<1> SUFFICES ASSUME TypeInv, [Next]_vars PROVE TypeInv'
  OBVIOUS
<1> USE StoreAssumption DEF TypeInv, TypeOK, Requested, Opened, Fresh, Goto, Pcs,
        WritePcs, RmPcs, ReadPcs, EndPcs, Uploads, fsVars, writeVars, scanVars,
        serverVars
<1>1. ASSUME NEW t \in Threads, Accept(t) PROVE TypeInv'
  <2>1. PICK r \in Requests :
          /\ pc' = [pc EXCEPT ![t] = CASE r.op \in {"WRITE", "RM"} -> "lock"
                                       [] r.op = "GET"             -> "open"
                                       [] r.op = "GETVERSION"      -> "opendir"
                                       [] r.op = "LS"              -> "stat"]
          /\ req' = [req EXCEPT ![t] = r]
          /\ target' = [target EXCEPT ![t] = Main(FileOf[r.path])]
    BY <1>1 DEF Accept
  <2>2. r.op \in Ops /\ Main(FileOf[r.path]) \in Entries
    BY DEF Main, Entries
  <2>3. pc'[t] \in {"lock", "open", "opendir", "stat"} /\ pc' \in [Threads -> Pcs]
    BY <2>1, <2>2 DEF Ops
  <2>4. size' \in [Uploads -> Int]
    <3>1. size' = size \/ \E z \in Sizes : size' = [size EXCEPT ![t] = z]
      BY <1>1 DEF Accept
    <3>2. size \in [Uploads -> Int]
      OBVIOUS
    <3>3. \A z \in Sizes : z \in Int
      OBVIOUS
    <3>4. ASSUME NEW z \in Int PROVE [size EXCEPT ![t] = z] \in [Uploads -> Int]
      BY ONLY <3>2
    <3> QED
      BY ONLY <3>1, <3>2, <3>3, <3>4
  <2>5. \A u \in Threads \ {t} : pc'[u] = pc[u] /\ size'[u] = size[u]
    BY SMTT(30), <1>1 DEF Accept
  <2>6. /\ pc[t] = "idle"
        /\ UNCHANGED <<dir, upload, data, mutex, fd, lk, count, put, stuck, out, snap,
                       found, clock, exits>>
    BY <1>1 DEF Accept
  <2>7. TypeOK'
    <3>1. req' \in [Threads -> Requests \cup {None}] /\ target' \in [Threads -> Entries \cup {None}]
      BY <2>1, <2>2
    <3> QED
      BY <2>3, <2>4, <2>5, <2>6, <3>1
  <2>8. Requested' /\ Opened' /\ Fresh'
    BY <2>1, <2>2, <2>3, <2>5, <2>6
  <2> QED
    BY <2>7, <2>8
<1>2. ASSUME NEW t \in Threads, Drop(t) PROVE TypeInv'
  BY <1>2, RequestTyping DEF Drop
<1>3. ASSUME NEW t \in Threads, LockVersionMutex(t) PROVE TypeInv'
  BY <1>3, RequestTyping DEF LockVersionMutex
<1>4. ASSUME NEW t \in Threads, UnlockVersionMutex(t) PROVE TypeInv'
  <2>1. pc[t] \in {"unlock", "unread"} /\ pc'[t] \in {"removed", "saved", "failed"}
    BY <1>4 DEF UnlockVersionMutex
  <2>2. pc' \in [Threads -> Pcs] /\ \A u \in Threads \ {t} : pc'[u] = pc[u]
    BY <1>4 DEF UnlockVersionMutex
  <2>3. mutex' \in [Mutexes -> Threads \cup {None}]
    BY <1>4 DEF UnlockVersionMutex, Release
  <2>4. UNCHANGED <<dir, upload, data, req, target, fd, lk, size, count, put, stuck, out,
                    snap, found, clock, exits>>
    BY <1>4 DEF UnlockVersionMutex
  <2> QED
    BY <2>1, <2>2, <2>3, <2>4
<1>5. ASSUME NEW t \in Threads, BackupExists(t) PROVE TypeInv'
  BY <1>5, RequestTyping DEF BackupExists
<1>6. ASSUME NEW t \in Threads, BackupRename(t) PROVE TypeInv'
  <2>1. FullPath(t) \in Entries
    BY <1>6, RequestTyping DEF BackupRename
  <2>2. PICK s \in Readings :
          /\ clock' = s
          /\ dir' = [dir EXCEPT ![FullPath(t)] = None,
                               ![Version(File(t), s)] = dir[FullPath(t)]]
    BY <1>6 DEF BackupRename
  <2>3. dir' \in [Entries -> Uploads \cup {None}]
    BY <2>1, <2>2
  <2>4. clock' \in 0 .. MaxStamp
    BY <2>2 DEF Readings, Stamps
  <2> QED
    BY ZenonT(60), <1>6, <2>3, <2>4 DEF BackupRename
<1>6a. ASSUME NEW t \in Threads, BackupRenameFails(t) PROVE TypeInv'
  <2>1. FullPath(t) \in Entries
    BY <1>6a, RequestTyping DEF BackupRenameFails
  <2>2. stuck' \in [Threads -> SUBSET Entries]
    BY <1>6a, <2>1 DEF BackupRenameFails
  <2> QED
    BY <1>6a, <2>2 DEF BackupRenameFails
<1>7. ASSUME NEW t \in Threads, FopenForWrite(t) PROVE TypeInv'
  <2> DEFINE file == IF dir[FullPath(t)] = None THEN t ELSE dir[FullPath(t)]
  <2>1. file \in Uploads
    BY <1>7, RequestTyping DEF FopenForWrite
  <2>2. /\ dir' = [dir EXCEPT ![FullPath(t)] = file]
        /\ upload' = [upload EXCEPT ![file] = t]
        /\ data' = [data EXCEPT ![file] = <<>>]
        /\ fd' = [fd EXCEPT ![t] = file]
    BY <1>7 DEF FopenForWrite
  <2> HIDE DEF file
  <2>3. dir' \in [Entries -> Uploads \cup {None}]
    BY <2>1, <2>2
  <2>4. data' \in [Uploads -> Seq(Uploads \cup {None})]
    BY SMTT(30), <2>1, <2>2
  <2>5. fd' \in [Threads -> Uploads \cup {None}] /\ fd'[t] \in Uploads
    BY <2>1, <2>2
  <2>6. upload' \in [Uploads -> Uploads]
    BY <2>1, <2>2
  <2> QED
    BY SMTT(30), <1>7, <2>2, <2>3, <2>4, <2>5, <2>6 DEF FopenForWrite
<1>8. ASSUME NEW t \in Threads, FopenFails(t) PROVE TypeInv'
  BY <1>8, RequestTyping DEF FopenFails, Release
<1>9. ASSUME NEW t \in Threads, FlockExclusive(t) PROVE TypeInv'
  BY SMTT(30), <1>9, RequestTyping DEF FlockExclusive
<1>10. ASSUME NEW t \in Threads, FlockExclusiveFails(t) PROVE TypeInv'
  BY <1>10, RequestTyping DEF FlockExclusiveFails, Release
<1>11. ASSUME NEW t \in Threads, RecvFileData(t) PROVE TypeInv'
  <2>1. /\ count' \in [Threads -> Nat] /\ count[t] <= count'[t]
        /\ \A u \in Threads \ {t} : count'[u] = count[u]
    BY SMTT(30), <1>11 DEF RecvFileData
  <2>2. PICK p \in put[t] .. count'[t] :
          /\ put' = [put EXCEPT ![t] = p]
          /\ data' = [data EXCEPT ![fd[t]] = WriteAt(data[fd[t]], put[t], p, t)]
    BY <1>11 DEF RecvFileData
  <2>3. p \in Nat /\ put[t] <= p /\ p <= count'[t]
    BY <2>1, <2>2
  <2>4. fd[t] \in Uploads
    BY <1>11 DEF RecvFileData
  <2>5. WriteAt(data[fd[t]], put[t], p, t) \in Seq(Uploads \cup {None})
    BY <2>3, <2>4, WriteAtTyping
  <2>6. data' \in [Uploads -> Seq(Uploads \cup {None})]
    BY <2>2, <2>5
  <2>7. /\ put' \in [Threads -> Nat]
        /\ \A u \in Threads : put'[u] <= count'[u]
        /\ \A u \in Threads \ {t} : put'[u] = put[u]
    BY <2>1, <2>2, <2>3
  <2>8. pc' \in [Threads -> Pcs] /\ \A u \in Threads \ {t} : pc'[u] = pc[u]
    BY <1>11 DEF RecvFileData
  <2>9. pc'[t] = "unflock" \/ (pc'[t] = "recv" /\ count'[t] < size[t])
    BY <1>11 DEF RecvFileData, LastChunk
  <2>10. UNCHANGED <<dir, upload, mutex, req, target, fd, lk, size, stuck, out, snap, found, clock,
                     exits>>
    BY <1>11 DEF RecvFileData
  <2>11. pc[t] \notin {"idle", "dropped"}
    BY <1>11 DEF RecvFileData
  <2> QED
    BY <2>1, <2>4, <2>6, <2>7, <2>8, <2>9, <2>10, <2>11
<1>12. ASSUME NEW t \in Threads, RecvFails(t) PROVE TypeInv'
  BY <1>12, RequestTyping DEF RecvFails
<1>13. ASSUME NEW t \in Threads, UnlockFile(t) PROVE TypeInv'
  BY <1>13, RequestTyping DEF UnlockFile
<1>14. ASSUME NEW t \in Threads, Fclose(t) PROVE TypeInv'
  <2>1. /\ count' \in [Threads -> Nat] /\ count[t] <= count'[t]
        /\ \A u \in Threads \ {t} : count'[u] = count[u]
    BY <1>14 DEF Fclose
  <2>2. PICK p \in put[t] .. count'[t] :
          /\ put' = [put EXCEPT ![t] = p]
          /\ data' = [data EXCEPT ![fd[t]] = WriteAt(data[fd[t]], put[t], p, t)]
    <3>1. count[t] \in put[t] .. count[t] /\ count'[t] = count[t]
      BY <1>14 DEF Fclose
    <3>2. \E p \in put[t] .. count[t] :
            /\ put' = [put EXCEPT ![t] = p]
            /\ data' = [data EXCEPT ![fd[t]] = WriteAt(data[fd[t]], put[t], p, t)]
      BY <1>14, <3>1 DEF Fclose
    <3> QED
      BY <3>1, <3>2
  <2>3. p \in Nat /\ put[t] <= p /\ p <= count'[t]
    BY <2>1, <2>2
  <2>4. fd[t] \in Uploads
    BY <1>14 DEF Fclose
  <2>5. WriteAt(data[fd[t]], put[t], p, t) \in Seq(Uploads \cup {None})
    BY <2>3, <2>4, WriteAtTyping
  <2>6. data' \in [Uploads -> Seq(Uploads \cup {None})]
    BY <2>2, <2>5
  <2>7. /\ put' \in [Threads -> Nat]
        /\ \A u \in Threads : put'[u] <= count'[u]
        /\ \A u \in Threads \ {t} : put'[u] = put[u]
    BY <2>1, <2>2, <2>3
  <2>8. pc' \in [Threads -> Pcs] /\ \A u \in Threads \ {t} : pc'[u] = pc[u]
    BY <1>14 DEF Fclose
  <2>9. pc'[t] \in {"unlock", "remove"}
    BY <1>14 DEF Fclose
  <2>10. UNCHANGED <<dir, upload, mutex, req, target, fd, lk, size, stuck, out, snap, found, clock,
                     exits>>
    BY <1>14 DEF Fclose
  <2>11. pc[t] \notin {"idle", "dropped"}
    BY <1>14 DEF Fclose
  <2> QED
    BY <2>1, <2>4, <2>6, <2>7, <2>8, <2>9, <2>10, <2>11
<1>15. ASSUME NEW t \in Threads, RemovePartial(t) PROVE TypeInv'
  BY <1>15, RequestTyping DEF RemovePartial
<1>15a. ASSUME NEW t \in Threads, RemovePartialFails(t) PROVE TypeInv'
  BY <1>15a, RequestTyping DEF RemovePartialFails
<1>16. ASSUME NEW t \in Threads, DeleteMain(t) PROVE TypeInv'
  <2>1. count'[t] \in Nat /\ count' \in [Threads -> Nat] /\ put[t] = 0
    BY <1>16 DEF DeleteMain
  <2>2. dir' \in [Entries -> Uploads \cup {None}]
    BY <1>16 DEF DeleteMain
  <2> QED
    BY <1>16, <2>1, <2>2 DEF DeleteMain
<1>16a. ASSUME NEW t \in Threads, DeleteMainFails(t) PROVE TypeInv'
  <2>1. FullPath(t) \in Entries
    BY <1>16a, RequestTyping DEF DeleteMainFails
  <2>2. stuck' \in [Threads -> SUBSET Entries]
    BY <1>16a, <2>1 DEF DeleteMainFails
  <2> QED
    BY <1>16a, <2>2 DEF DeleteMainFails
<1>17. ASSUME NEW t \in Threads, OpenDirectory(t) PROVE TypeInv'
  <2>1. snap' \in [Threads -> SUBSET Entries]
    BY <1>17 DEF OpenDirectory, Matching
  <2>2. pc' \in [Threads -> Pcs] /\ pc'[t] \in {"sweep", "readdir"}
    BY <1>17 DEF OpenDirectory
  <2>3. \A u \in Threads \ {t} : pc'[u] = pc[u]
    BY <1>17 DEF OpenDirectory
  <2>4. pc[t] \notin {"idle", "dropped"}
    BY <1>17 DEF OpenDirectory
  <2>5. UNCHANGED <<dir, upload, data, mutex, req, target, fd, lk, size, count, put, stuck, out,
                    found, clock, exits>>
    BY <1>17 DEF OpenDirectory
  <2> QED
    BY <2>1, <2>2, <2>3, <2>4, <2>5
<1>17a. ASSUME NEW t \in Threads, OpenDirectoryFails(t) PROVE TypeInv'
  <2>1. pc[t] \in {"opendir_rm", "opendir"}
    BY <1>17a DEF OpenDirectoryFails
  <2>2. pc' \in [Threads -> Pcs] /\ pc'[t] \in {"unread", "short", "absent"}
    BY <1>17a DEF OpenDirectoryFails
  <2>3. \A u \in Threads \ {t} : pc'[u] = pc[u]
    BY <1>17a DEF OpenDirectoryFails
  <2>4. UNCHANGED <<dir, upload, data, mutex, req, target, fd, lk, size, count, put, stuck,
                    out, snap, found, clock, exits>>
    BY <1>17a DEF OpenDirectoryFails
  <2> QED
    BY <2>1, <2>2, <2>3, <2>4
<1>18. ASSUME NEW t \in Threads, DeleteVersion(t) PROVE TypeInv'
  <2>1. dir' \in [Entries -> Uploads \cup {None}]
    BY <1>18 DEF DeleteVersion, Unswept
  <2>2. count' \in [Threads -> Nat] /\ count[t] <= count'[t]
    BY <1>18 DEF DeleteVersion
  <2>3. \A u \in Threads \ {t} : count'[u] = count[u]
    BY <1>18 DEF DeleteVersion
  <2>4. UNCHANGED <<upload, data, mutex, pc, req, target, fd, lk, size, put, stuck, out, snap, found,
                    clock, exits>>
    BY <1>18 DEF DeleteVersion
  <2> QED
    BY SMTT(30), <1>18, <2>1, <2>2, <2>3, <2>4 DEF DeleteVersion
<1>18a. ASSUME NEW t \in Threads, DeleteVersionFails(t) PROVE TypeInv'
  <2>1. stuck' \in [Threads -> SUBSET Entries]
    BY <1>18a DEF DeleteVersionFails, Unswept, Matching
  <2> QED
    BY <1>18a, <2>1 DEF DeleteVersionFails
<1>19. ASSUME NEW t \in Threads, SweepEnds(t) PROVE TypeInv'
  BY <1>19, RequestTyping DEF SweepEnds
<1>20. ASSUME NEW t \in Threads, ListVersion(t) PROVE TypeInv'
  BY SMTT(30), <1>20, RequestTyping DEF ListVersion, Matching
<1>21. ASSUME NEW t \in Threads, ResolveVersion(t) PROVE TypeInv'
  <2>1. PICK e \in Entries : target' = [target EXCEPT ![t] = e]
    BY <1>21 DEF ResolveVersion
  <2> QED
    BY <1>21, <2>1, RequestTyping DEF ResolveVersion
<1>22. ASSUME NEW t \in Threads, NoSuchVersion(t) PROVE TypeInv'
  BY <1>22, RequestTyping DEF NoSuchVersion
<1>23. ASSUME NEW t \in Threads, LsStat(t) PROVE TypeInv'
  <2>1. FullPath(t) \in Entries
    BY <1>23, RequestTyping DEF LsStat
  <2>2. \A u \in Uploads : Len(data[u]) \in Int
    OBVIOUS
  <2>3. size' \in [Uploads -> Int] /\ \A u \in Threads \ {t} : size'[u] = size[u]
    BY <1>23, <2>1, <2>2 DEF LsStat, Unread
  <2>4. UNCHANGED <<dir, upload, data, mutex, req, target, fd, lk, count, put, stuck, out, snap, found,
                    clock, exits>>
    BY <1>23 DEF LsStat
  <2>5. pc' = [pc EXCEPT ![t] = "exists_ls"] /\ pc[t] = "stat"
    BY <1>23 DEF LsStat
  <2> QED
    BY SMTT(30), <2>3, <2>4, <2>5
<1>24. ASSUME NEW t \in Threads, LsExists(t) PROVE TypeInv'
  BY <1>24, RequestTyping DEF LsExists
<1>25. ASSUME NEW t \in Threads, DisplayVersions(t) PROVE TypeInv'
  BY <1>25, RequestTyping DEF DisplayVersions
<1>26. ASSUME NEW t \in Threads, FopenForRead(t) PROVE TypeInv'
  BY ZenonT(60), <1>26, RequestTyping DEF FopenForRead
<1>27. ASSUME NEW t \in Threads, FlockShared(t) PROVE TypeInv'
  BY <1>27, RequestTyping DEF FlockShared
<1>28. ASSUME NEW t \in Threads, FlockSharedFails(t) PROVE TypeInv'
  BY <1>28, RequestTyping DEF FlockSharedFails
<1>29. ASSUME NEW t \in Threads, SendFileSize(t) PROVE TypeInv'
  <2>1. fd[t] \in Uploads /\ Len(data[fd[t]]) \in Nat
    BY <1>29 DEF SendFileSize
  <2>2. size' \in [Uploads -> Int] /\ \A u \in Threads \ {t} : size'[u] = size[u]
    BY <1>29, <2>1 DEF SendFileSize
  <2>3. pc' \in [Threads -> Pcs] /\ pc'[t] \in {"send", "unshare"} /\ pc[t] = "size"
    BY <1>29 DEF SendFileSize
  <2>4. \A u \in Threads \ {t} : pc'[u] = pc[u]
    BY <1>29 DEF SendFileSize
  <2>5. UNCHANGED <<dir, upload, data, mutex, req, target, fd, lk, count, put, stuck, out, snap, found,
                    clock, exits>>
    BY <1>29 DEF SendFileSize
  <2> QED
    BY <2>1, <2>2, <2>3, <2>4, <2>5
<1>30. ASSUME NEW t \in Threads, SendFileData(t) PROVE TypeInv'
  <2>1. fd[t] \in Uploads /\ data[fd[t]] \in Seq(Uploads \cup {None})
    BY <1>30 DEF SendFileData
  <2>2. ASSUME Len(out[t]) + 1 <= Len(data[fd[t]])
        PROVE  Append(out[t], data[fd[t]][Len(out[t]) + 1]) \in Seq(Uploads \cup {None})
    BY <2>1, <2>2
  <2>3. out' \in [Threads -> Seq(Uploads \cup {None})]
    BY SMTT(30), <1>30, <2>1, <2>2 DEF SendFileData
  <2> QED
    BY ZenonT(60), <1>30, <2>3 DEF SendFileData
<1>31. ASSUME NEW t \in Threads, SendFails(t) PROVE TypeInv'
  BY <1>31, RequestTyping DEF SendFails
<1>32. ASSUME NEW t \in Threads, CloseRead(t) PROVE TypeInv'
  BY <1>32, RequestTyping DEF CloseRead
<1>33. CASE ServerExits
  <2>1. pc' \in [Threads -> Pcs]
    BY <1>33 DEF ServerExits
  <2>2. \A t \in Threads : pc'[t] = pc[t] \/ (pc'[t] = "killed" /\ pc[t] \notin {"idle", "dropped"})
    BY <1>33 DEF ServerExits, Active
  <2>3. exits' \in 0 .. MaxExits
    BY <1>33 DEF ServerExits
  <2>4. mutex' \in [Mutexes -> Threads \cup {None}] /\ lk' \in [Threads -> {"none", "sh", "ex"}]
    BY <1>33 DEF ServerExits
  <2>5. UNCHANGED <<dir, upload, data, req, target, fd, size, count, put, stuck, out, snap, found, clock>>
    BY <1>33 DEF ServerExits
  <2> QED
    BY <2>1, <2>2, <2>3, <2>4, <2>5
<1>34. CASE UNCHANGED vars
  BY <1>34 DEF vars
<1> QED
  BY <1>1, <1>2, <1>3, <1>4, <1>5, <1>6, <1>6a, <1>7, <1>8, <1>9, <1>10, <1>11, <1>12,
     <1>13, <1>14, <1>15, <1>15a, <1>16, <1>16a, <1>17, <1>17a, <1>18, <1>18a, <1>19, <1>20, <1>21, <1>22, <1>23, <1>24,
     <1>25, <1>26, <1>27, <1>28, <1>29, <1>30, <1>31, <1>32, <1>33, <1>34
     DEF Next, Serve, WriteStep, RmStep, VersionStep, LsStep, ReadStep, Sending,
         Terminating

\* Every variable keeps its type, no more reaches a file than was received, and the
\* receive loop never takes more than the announced size.
THEOREM TypeCorrect == Spec => []TypeOK
<1>1. Init => TypeInv
  BY InitTypeInv
<1>2. TypeInv /\ [Next]_vars => TypeInv'
  BY NextTypeInv
<1>3. TypeInv => TypeOK
  BY DEF TypeInv
<1> QED
  BY <1>1, <1>2, <1>3, PTL DEF Spec

-----------------------------------------------------------------------------
(* Whole files *)

\* A sequence of n equal chunks is the function Full speaks of.
LEMMA UniformSequence ==
  ASSUME NEW S, NEW s \in Seq(S), NEW u, NEW n \in Nat, Len(s) = n,
         \A k \in 1 .. n : s[k] = u
  PROVE  s = [k \in 1 .. n |-> u]
  OBVIOUS

\* Chunks added at the end of a file that has only chunks of u leave it so.
LEMMA WriteAtOwn ==
  ASSUME NEW S, NEW s \in Seq(S), NEW u \in S, NEW p \in Nat, Len(s) <= p,
         \A k \in 1 .. Len(s) : s[k] = u
  PROVE  /\ Len(WriteAt(s, Len(s), p, u)) = p
         /\ \A k \in 1 .. p : WriteAt(s, Len(s), p, u)[k] = u
<1>1. CASE Len(s) = p
  BY <1>1 DEF WriteAt
<1>2. CASE Len(s) < p
  <2> DEFINE e == [k \in 1 .. p |-> u]
  <2>1. WriteAt(s, Len(s), p, u) = e
    BY <1>2 DEF WriteAt
  <2>2. e \in Seq(S) /\ Len(e) = p
    OBVIOUS
  <2> QED
    BY <2>1, <2>2
<1> QED
  BY <1>1, <1>2

\* The mutex is exclusive: two threads between its lock and its unlock do not work
\* on the same file, if all spellings of a file hash to the same mutex.
LEMMA Exclusive ==
  ASSUME Serialized, TypeInv, Owners,
         NEW t \in Threads, NEW u \in Threads, Critical(t), Critical(u),
         File(t) = File(u)
  PROVE  t = u
<1>1. pc[t] \notin {"idle", "dropped"} /\ pc[u] \notin {"idle", "dropped"}
  BY DEF Critical, WritePcs, RmPcs
<1>2. req[t].path \in Paths /\ req[u].path \in Paths
  BY <1>1, RequestTyping, StoreAssumption
<1>3. MutexFor(t) = MutexFor(u)
  BY <1>2 DEF Serialized, File, MutexFor
<1> QED
  BY <1>3 DEF Owners

\* A step of a thread that neither holds a mutex nor has written a file, and leaves
\* storage alone.
LEMMA QuietStep ==
  ASSUME Inv, TypeInv', NEW t \in Threads,
         pc[t] \notin WritePcs \cup RmPcs \cup {"unlock"} \cup EndPcs,
         pc'[t] \notin WritePcs \cup RmPcs \cup {"unlock"},
         pc'[t] \in {"idle", "lock"} => pc[t] = "idle",
         UNCHANGED <<dir, upload, data, put, mutex>>,
         \A u \in Threads \ {t} : pc'[u] = pc[u] /\ req'[u] = req[u] /\ fd'[u] = fd[u],
         fd'[t] = fd[t] \/ \E e \in Entries : fd'[t] = dir[e],
         \A u \in Uploads \ {t} : size'[u] = size[u]
  PROVE  Inv'
<1> USE DEF Inv, Critical, Writing, File, MutexFor, FullPath
<1>1. Owners'
  BY DEF Owners
<1>2. LinkedOnce'
  BY DEF LinkedOnce
<1>3. Unopened' /\ OwnFile'
  BY DEF Unopened, OwnFile, WritePcs
<1>4. Contents'
  <2> SUFFICES ASSUME NEW f \in Uploads, NEW u \in Threads, upload[f] = u, fd'[u] = f
               PROVE  Len(data[f]) = put[u] /\ \A k \in 1 .. put[u] : data[f][k] = u
    BY DEF Contents
  <2>1. fd[u] = f
    BY StoreAssumption DEF Linked, WritePcs, Uploads
  <2> QED
    BY <2>1 DEF Contents
<1>5. Linked'
  BY DEF Linked, WritePcs, Uploads
<1>6. Preserved'
  BY StoreAssumption DEF Preserved, Whole, Full, Uploads
<1> QED
  BY <1>1, <1>2, <1>3, <1>4, <1>5, <1>6

\* A step of a thread that holds a mutex and keeps it, and that at most removes
\* entries from the directory.
LEMMA CalmStep ==
  ASSUME Inv, TypeInv', NEW t \in Threads,
         Critical(t), Critical(t)', pc[t] # "unlock",
         Writing(t) <=> Writing(t)',
         pc'[t] \in {"idle", "lock", "exists", "rename", "fopen"} =>
           pc[t] \in {"idle", "lock", "exists", "rename", "fopen"},
         \A u \in Threads \ {t} : pc'[u] = pc[u],
         \A e \in Entries : dir'[e] \in {dir[e], None},
         UNCHANGED <<upload, data, put, mutex, req, size, fd>>
  PROVE  Inv'
<1> USE DEF Inv, File, MutexFor, FullPath
<1>1. Owners'
  BY DEF Owners, Critical
<1>2. LinkedOnce'
  BY DEF LinkedOnce
<1>3. Unopened' /\ OwnFile'
  BY DEF Unopened, OwnFile, Writing
<1>4. Contents'
  BY DEF Contents
<1>5. Linked'
  <2> SUFFICES ASSUME NEW e \in Entries, NEW u \in Threads, dir'[e] # None, upload[dir'[e]] = u
               PROVE  /\ fd[u] = dir'[e]
                      /\ \/ Writing(u)' /\ e = FullPath(u)
                         \/ pc'[u] \in EndPcs \cup {"unlock"} /\ put[u] = size[u]
    BY DEF Linked
  <2>1. dir'[e] = dir[e]
    OBVIOUS
  <2>2. /\ fd[u] = dir[e]
        /\ \/ Writing(u) /\ e = FullPath(u)
           \/ pc[u] \in EndPcs \cup {"unlock"} /\ put[u] = size[u]
    BY <2>1 DEF Linked
  <2>3. CASE u = t
    BY <2>1, <2>2, <2>3 DEF Critical, WritePcs, RmPcs, EndPcs
  <2>4. CASE u # t
    BY <2>1, <2>2, <2>4 DEF Writing
  <2> QED
    BY <2>3, <2>4
<1>6. Preserved'
  BY DEF Preserved, Whole, Full
<1> QED
  BY <1>1, <1>2, <1>3, <1>4, <1>5, <1>6

\* A step that changes neither storage nor what the threads have opened and written
\* keeps what is known of the files, if nobody begins or stops writing.
LEMMA FilesKept ==
  ASSUME Inv, NEW t \in Threads,
         ~Writing(t), ~Writing(t)',
         pc'[t] \in {"idle", "lock", "exists", "rename", "fopen"} =>
           pc[t] \in {"idle", "lock", "exists", "rename", "fopen"},
         pc[t] \in EndPcs \cup {"unlock"} => pc'[t] \in EndPcs \cup {"unlock"},
         \A u \in Threads \ {t} : pc'[u] = pc[u],
         UNCHANGED <<dir, upload, data, put, req, size, fd>>
  PROVE  LinkedOnce' /\ Unopened' /\ OwnFile' /\ Contents' /\ Linked' /\ Preserved'
<1> USE DEF Inv, File, FullPath
<1>1. LinkedOnce' /\ Contents' /\ Preserved'
  BY DEF LinkedOnce, Contents, Preserved, Whole, Full
<1>2. Unopened' /\ OwnFile'
  BY DEF Unopened, OwnFile, Writing
<1>3. Linked'
  BY DEF Linked, Writing
<1> QED
  BY <1>1, <1>2, <1>3

\* Chunks reach the file of a thread that writes.
LEMMA WriteStepKeeps ==
  ASSUME Inv, TypeInv', NEW t \in Threads, Writing(t), NEW p \in Nat, put[t] <= p,
         put' = [put EXCEPT ![t] = p],
         data' = [data EXCEPT ![fd[t]] = WriteAt(@, put[t], p, t)],
         fd[t] \in Uploads,
         \/ Writing(t)'
         \/ pc'[t] = "unlock" /\ p = size[t],
         \A u \in Threads \ {t} : pc'[u] = pc[u],
         UNCHANGED <<dir, upload, mutex, req, size, fd>>
  PROVE  Inv'
<1> DEFINE f == fd[t]
<1> USE DEF Inv, TypeInv
<1>1. upload[f] = t /\ t \in Uploads
  BY DEF OwnFile, Uploads
<1>2. /\ data[f] \in Seq(Uploads \cup {None})
      /\ Len(data[f]) = put[t] /\ \A k \in 1 .. put[t] : data[f][k] = t
  BY <1>1 DEF TypeOK, Contents
<1>3. /\ data'[f] = WriteAt(data[f], Len(data[f]), p, t)
      /\ \A g \in Uploads \ {f} : data'[g] = data[g]
  BY <1>2 DEF TypeOK
<1>4. Len(data'[f]) = p /\ \A k \in 1 .. p : data'[f][k] = t
  BY <1>1, <1>2, <1>3, WriteAtOwn
<1>5. put'[t] = p /\ \A u \in Threads \ {t} : put'[u] = put[u]
  BY DEF TypeOK
<1>6. Owners' /\ LinkedOnce' /\ Unopened' /\ OwnFile'
  BY DEF Owners, LinkedOnce, Unopened, OwnFile, MutexFor, Critical, Writing, WritePcs
<1>7. Contents'
  <2> SUFFICES ASSUME NEW g \in Uploads, NEW u \in Threads, upload[g] = u, fd[u] = g
               PROVE  Len(data'[g]) = put'[u] /\ \A k \in 1 .. put'[u] : data'[g][k] = u
    BY DEF Contents
  <2>1. CASE g = f
    BY <2>1, <1>1, <1>4, <1>5
  <2>2. CASE g # f
    BY <2>2, <1>1, <1>3, <1>5 DEF Contents
  <2> QED
    BY <2>1, <2>2
<1>8. Linked'
  <2> SUFFICES ASSUME NEW e \in Entries, NEW u \in Threads, dir[e] # None, upload[dir[e]] = u
               PROVE  /\ fd[u] = dir[e]
                      /\ \/ Writing(u)' /\ e = FullPath(u)
                         \/ pc'[u] \in EndPcs \cup {"unlock"} /\ put'[u] = size[u]
    BY DEF Linked, FullPath, File
  <2>1. /\ fd[u] = dir[e]
        /\ \/ Writing(u) /\ e = FullPath(u)
           \/ pc[u] \in EndPcs \cup {"unlock"} /\ put[u] = size[u]
    BY DEF Linked
  <2>2. CASE u = t
    BY <2>1, <2>2, <1>5 DEF Writing, EndPcs
  <2>3. CASE u # t
    BY <2>1, <2>3, <1>5 DEF Writing
  <2> QED
    BY <2>2, <2>3
<1>9. Preserved'
  <2>1. \A g \in Uploads : upload[g] \in Preloaded => data'[g] = data[g]
    BY <1>1, <1>3, StoreAssumption
  <2> QED
    BY <2>1 DEF Preserved, Whole, Full
<1> QED
  BY <1>6, <1>7, <1>8, <1>9

\* Nothing is being written when the server starts.
LEMMA InitInv == Init => Inv
<1> SUFFICES ASSUME Init PROVE Inv
  OBVIOUS
<1>1. TypeInv
  BY InitTypeInv
<1>2. Owners /\ Unopened /\ OwnFile
  BY DEF Init, Owners, Unopened, OwnFile, Critical, Writing, WritePcs, RmPcs, Uploads
<1>3. LinkedOnce /\ Linked
  BY StoreAssumption DEF Init, LinkedOnce, Linked, Uploads
<1>4. Contents
  BY StoreAssumption DEF Init, Contents, Uploads
<1>5. Preserved
  <2>1. ASSUME NEW f \in Uploads, upload[f] \in Preloaded PROVE Whole(f)
    <3>1. f \in Preloaded /\ upload[f] = f /\ size[f] = 1 /\ data[f] = <<f>>
      BY <2>1 DEF Init, Uploads
    <3>2. <<f>> \in Seq({f}) /\ Len(<<f>>) = 1 /\ \A k \in 1 .. 1 : <<f>>[k] = f
      OBVIOUS
    <3>3. <<f>> = [k \in 1 .. 1 |-> f]
      BY <3>2, UniformSequence
    <3> QED
      BY <3>1, <3>3 DEF Whole, Full
  <2> QED
    BY <2>1 DEF Preserved
<1> QED
  BY <1>1, <1>2, <1>3, <1>4, <1>5 DEF Inv

\* One step per action.
LEMMA NextInv == Undisturbed /\ Inv /\ [Next]_vars => Inv'
<1> SUFFICES ASSUME Undisturbed, Inv, [Next]_vars PROVE Inv'
  OBVIOUS
<1> USE StoreAssumption DEF Goto, fsVars, writeVars, scanVars, serverVars, Critical,
        Writing, WritePcs, RmPcs
<1>0. TypeInv'
  BY NextTypeInv DEF Inv
<1>a. TypeOK
  BY DEF Inv, TypeInv
<1>1. ASSUME NEW t \in Threads, Accept(t) PROVE Inv'
  <2>1. /\ pc[t] \notin WritePcs \cup RmPcs \cup {"unlock"} \cup EndPcs
        /\ pc'[t] \notin WritePcs \cup RmPcs \cup {"unlock"}
        /\ pc[t] = "idle"
        /\ \A u \in Threads \ {t} : pc'[u] = pc[u]
    <3>1. \E r \in Requests :
            pc' = [pc EXCEPT ![t] = CASE r.op \in {"WRITE", "RM"} -> "lock"
                                      [] r.op = "GET"             -> "open"
                                      [] r.op = "GETVERSION"      -> "opendir"
                                      [] r.op = "LS"              -> "stat"]
      BY <1>1 DEF Accept
    <3>2. pc'[t] \in {"lock", "open", "opendir", "stat"}
      BY <3>1, <1>a DEF TypeOK, Ops
    <3>3. pc[t] = "idle" /\ \A u \in Threads \ {t} : pc'[u] = pc[u]
      BY <1>1, <1>a DEF Accept, TypeOK
    <3> QED
      BY <3>2, <3>3 DEF EndPcs
  <2>2. \A u \in Threads \ {t} : req'[u] = req[u] /\ fd'[u] = fd[u]
    BY <1>1, <1>a DEF Accept, TypeOK
  <2>3. \A u \in Uploads \ {t} : size'[u] = size[u]
    BY <1>1, <1>a DEF Accept, TypeOK
  <2>4. fd'[t] = fd[t] /\ UNCHANGED <<dir, upload, data, put, mutex>>
    BY <1>1 DEF Accept
  <2> QED
    BY <2>1, <2>2, <2>3, <2>4, <1>0, QuietStep
<1>2. ASSUME NEW t \in Threads, Drop(t) PROVE Inv'
  <2>1. /\ pc[t] \notin WritePcs \cup RmPcs \cup {"unlock"} \cup EndPcs
        /\ pc'[t] \notin WritePcs \cup RmPcs \cup {"unlock", "lock", "idle"}
        /\ \A u \in Threads \ {t} : pc'[u] = pc[u]
    BY <1>2, <1>a DEF Drop, TypeOK, EndPcs
  <2>2. \A u \in Threads \ {t} : req'[u] = req[u] /\ fd'[u] = fd[u]
    BY <1>2, <1>a DEF Drop, TypeOK
  <2>3. \A u \in Uploads \ {t} : size'[u] = size[u]
    BY <1>2, <1>a DEF Drop, TypeOK
  <2>4. fd'[t] = fd[t]
    BY <1>2 DEF Drop
  <2> QED
    BY <1>2, <2>1, <2>2, <2>3, <2>4, <1>0, QuietStep DEF Drop
<1>3. ASSUME NEW t \in Threads, LockVersionMutex(t) PROVE Inv'
  <2>1. pc[t] = "lock" /\ pc'[t] \in {"exists", "delete"}
    BY <1>3, <1>a DEF LockVersionMutex, TypeOK
  <2>2. \A u \in Threads \ {t} : pc'[u] = pc[u]
    BY <1>3, <1>a DEF LockVersionMutex, TypeOK
  <2>3. MutexFor(t) \in Mutexes /\ mutex[MutexFor(t)] = None
    BY <1>3, <2>1, RequestTyping DEF LockVersionMutex, MutexFree, Inv
  <2>4. mutex' = [mutex EXCEPT ![MutexFor(t)] = t]
    BY <1>3 DEF LockVersionMutex
  <2>5. UNCHANGED <<dir, upload, data, req, size, fd, put>>
    BY <1>3 DEF LockVersionMutex
  <2>6. Owners'
    <3> SUFFICES ASSUME NEW u \in Threads, Critical(u)' PROVE mutex'[MutexFor(u)] = u
      BY <2>5 DEF Owners, MutexFor
    <3>1. CASE u = t
      BY <3>1, <2>3, <2>4, <1>a DEF TypeOK
    <3>2. CASE u # t
      <4>1. mutex[MutexFor(u)] = u
        BY <3>2, <2>2 DEF Inv, Owners
      <4>2. u # None
        BY DEF Uploads
      <4> QED
        BY <4>1, <4>2, <2>3, <2>4, <1>a DEF TypeOK
    <3> QED
      BY <3>1, <3>2
  <2>7. ~Writing(t) /\ ~Writing(t)' /\ pc[t] \notin EndPcs \cup {"unlock"}
    BY <2>1 DEF EndPcs
  <2> QED
    BY <1>0, <2>1, <2>2, <2>5, <2>6, <2>7, FilesKept DEF Inv
<1>4. ASSUME NEW t \in Threads, UnlockVersionMutex(t) PROVE Inv'
  <2>1. pc[t] \in {"unlock", "unread"} /\ pc'[t] \in EndPcs \ {"idle"}
    BY <1>4, <1>a DEF UnlockVersionMutex, TypeOK, EndPcs
  <2>2. \A u \in Threads \ {t} : pc'[u] = pc[u]
    BY <1>4, <1>a DEF UnlockVersionMutex, TypeOK
  <2>3. mutex' = [mutex EXCEPT ![MutexFor(t)] = None] /\ mutex[MutexFor(t)] = t
    BY <1>4, <2>1 DEF UnlockVersionMutex, Release, Inv, Owners
  <2>4. UNCHANGED <<dir, upload, data, req, size, fd, put>>
    BY <1>4 DEF UnlockVersionMutex
  <2>5. Owners'
    <3> SUFFICES ASSUME NEW u \in Threads, Critical(u)' PROVE mutex'[MutexFor(u)] = u
      BY <2>4 DEF Owners, MutexFor
    <3>1. u # t /\ mutex[MutexFor(u)] = u
      BY <2>1, <2>2 DEF Inv, Owners, EndPcs
    <3>2. pc[u] \notin {"idle", "dropped"}
      BY <3>1, <2>2
    <3> QED
      BY <3>1, <3>2, <2>3, <1>a, RequestTyping DEF TypeOK, Inv
  <2>6. /\ ~Writing(t) /\ ~Writing(t)'
        /\ pc'[t] \notin {"idle", "lock", "exists", "rename", "fopen"}
        /\ pc'[t] \in EndPcs \cup {"unlock"}
    BY <2>1 DEF EndPcs
  <2> QED
    BY <1>0, <2>2, <2>4, <2>5, <2>6, FilesKept DEF Inv
<1>5. ASSUME NEW t \in Threads, BackupExists(t) PROVE Inv'
  <2>1. /\ Critical(t) /\ Critical(t)' /\ pc[t] # "unlock"
        /\ Writing(t) <=> Writing(t)'
        /\ pc'[t] \in {"idle", "lock", "exists", "rename", "fopen"} =>
             pc[t] \in {"idle", "lock", "exists", "rename", "fopen"}
        /\ \A u \in Threads \ {t} : pc'[u] = pc[u]
    BY <1>5, <1>a DEF BackupExists, TypeOK
  <2>2. \A e \in Entries : dir'[e] \in {dir[e], None}
    BY <1>5, <1>a DEF BackupExists, TypeOK
  <2> QED
    BY <1>5, <2>1, <2>2, <1>0, CalmStep DEF BackupExists
<1>6. ASSUME NEW t \in Threads, BackupRename(t) PROVE Inv'
  <2> DEFINE old == FullPath(t)
  <2>1. pc[t] = "rename" /\ pc' = [pc EXCEPT ![t] = "fopen"]
    BY <1>6 DEF BackupRename
  <2>2. \A u \in Threads \ {t} : pc'[u] = pc[u]
    BY <2>1, <1>a DEF TypeOK
  <2>3. old \in Entries /\ File(t) \in Names
    BY <2>1, RequestTyping DEF Inv
  <2>4. PICK s \in Stamps :
          dir' = [dir EXCEPT ![old] = None, ![Version(File(t), s)] = dir[old]]
    BY <1>6 DEF BackupRename, Readings
  <2> DEFINE new == Version(File(t), s)
  <2>5. new \in Entries /\ new # old
    BY <2>3 DEF Version, Main, Entries, Stamps, FullPath
  <2>6. UNCHANGED <<upload, data, mutex, req, size, fd, put>>
    BY <1>6 DEF BackupRename
  <2>7. dir'[old] = None /\ dir'[new] = dir[old]
    BY <2>3, <2>4, <2>5, <1>a DEF TypeOK
  <2>8. \A e \in Entries \ {old, new} : dir'[e] = dir[e]
    BY <2>3, <2>4, <2>5, <1>a DEF TypeOK
  <2>9. ASSUME NEW u \in Threads, u # t, Critical(u) PROVE FullPath(u) # old
    BY <2>1, <2>9, Exclusive DEF FullPath, Main, Inv, Undisturbed
  <2>10. Owners' /\ OwnFile' /\ Unopened'
    BY <2>1, <2>2, <2>6, <1>a DEF Inv, Owners, OwnFile, Unopened, MutexFor, TypeOK
  <2>11. LinkedOnce'
    BY <2>3, <2>5, <2>7, <2>8 DEF Inv, LinkedOnce
  <2>12. Contents' /\ Preserved'
    BY <2>6 DEF Inv, Contents, Preserved, Whole, Full
  <2>13. Linked'
    <3> SUFFICES ASSUME NEW e \in Entries, NEW u \in Threads,
                        dir'[e] # None, upload[dir'[e]] = u
                 PROVE  /\ fd[u] = dir'[e]
                        /\ \/ Writing(u)' /\ e = FullPath(u)
                           \/ pc'[u] \in EndPcs \cup {"unlock"} /\ put[u] = size[u]
      BY <2>6 DEF Linked, FullPath, File
    <3>1. CASE dir'[e] = dir[e]
      BY <3>1, <2>1, <2>2 DEF Inv, Linked, EndPcs
    <3>2. CASE e = new
      <4>1. /\ dir[old] # None /\ upload[dir[old]] = u /\ fd[u] = dir[old]
            /\ \/ Writing(u) /\ old = FullPath(u)
               \/ pc[u] \in EndPcs \cup {"unlock"} /\ put[u] = size[u]
        BY <3>2, <2>3, <2>7 DEF Inv, Linked
      <4>2. pc[u] \in EndPcs \cup {"unlock"} /\ put[u] = size[u]
        BY <4>1, <2>1, <2>9
      <4> QED
        BY <3>2, <4>1, <4>2, <2>1, <2>2, <2>7 DEF EndPcs
    <3> QED
      BY <3>1, <3>2, <2>7, <2>8
  <2> QED
    BY <1>0, <2>10, <2>11, <2>12, <2>13 DEF Inv
<1>6a. ASSUME NEW t \in Threads, BackupRenameFails(t) PROVE Inv'
  <2>1. /\ Critical(t) /\ Critical(t)' /\ pc[t] # "unlock"
        /\ Writing(t) <=> Writing(t)'
        /\ pc'[t] \in {"idle", "lock", "exists", "rename", "fopen"} =>
             pc[t] \in {"idle", "lock", "exists", "rename", "fopen"}
        /\ \A u \in Threads \ {t} : pc'[u] = pc[u]
    BY <1>6a, <1>a DEF BackupRenameFails, TypeOK
  <2>2. \A e \in Entries : dir'[e] \in {dir[e], None}
    BY <1>6a, <1>a DEF BackupRenameFails, TypeOK
  <2> QED
    BY <1>6a, <2>1, <2>2, <1>0, CalmStep DEF BackupRenameFails
<1>7. ASSUME NEW t \in Threads, FopenForWrite(t) PROVE Inv'
  <2> DEFINE main == FullPath(t)
             file == IF dir[main] = None THEN t ELSE dir[main]
  <2>1. pc[t] = "fopen" /\ pc' = [pc EXCEPT ![t] = "flock"] /\ pc'[t] = "flock"
    BY <1>7, <1>a DEF FopenForWrite, TypeOK
  <2>2. \A u \in Threads \ {t} : pc'[u] = pc[u]
    BY <2>1, <1>a DEF TypeOK
  <2>3. main \in Entries /\ file \in Uploads
    BY <2>1, <1>a, RequestTyping DEF Inv, TypeOK, Uploads
  <2>4. /\ dir' = [dir EXCEPT ![main] = file]
        /\ upload' = [upload EXCEPT ![file] = t]
        /\ data' = [data EXCEPT ![file] = <<>>]
        /\ fd' = [fd EXCEPT ![t] = file]
    BY <1>7 DEF FopenForWrite
  <2>5. UNCHANGED <<mutex, req, size, put>>
    BY <1>7 DEF FopenForWrite
  <2>6. upload[t] = t /\ \A e \in Entries : dir[e] # None => dir[e] # t /\ upload[dir[e]] # t
    <3>1. upload[t] = t
      BY <2>1 DEF Inv, Unopened
    <3>2. ASSUME NEW e \in Entries, dir[e] # None PROVE upload[dir[e]] # t
      BY <3>2, <2>1 DEF Inv, Linked, EndPcs
    <3> QED
      BY <3>1, <3>2
  <2>7. ASSUME NEW e \in Entries, dir[e] = file, file # None PROVE e = main
    <3>1. file # t
      BY <2>6, <2>7
    <3> QED
      BY <3>1, <2>3, <2>7 DEF Inv, LinkedOnce
  <2>8. ASSUME NEW u \in Threads \ {t}, Writing(u) PROVE fd[u] # file
    <3>1. upload[fd[u]] = u
      BY <2>8 DEF Inv, OwnFile
    <3>2. CASE file = t
      BY <2>6, <3>1, <3>2
    <3>3. CASE file # t
      <4> SUFFICES ASSUME fd[u] = file PROVE FALSE
        OBVIOUS
      <4>1. dir[main] = file /\ dir[main] # None /\ upload[dir[main]] = u
        BY <3>1, <3>3
      <4>2. main = FullPath(u)
        BY <4>1, <2>3, <2>8 DEF Inv, Linked, EndPcs
      <4> QED
        BY <4>2, <2>1, <2>8, Exclusive DEF FullPath, Main, Inv, Undisturbed
    <3> QED
      BY <3>2, <3>3
  <2> HIDE DEF file
  <2>9. /\ dir'[main] = file /\ \A e \in Entries \ {main} : dir'[e] = dir[e]
        /\ upload'[file] = t /\ \A g \in Uploads \ {file} : upload'[g] = upload[g]
        /\ data'[file] = <<>> /\ \A g \in Uploads \ {file} : data'[g] = data[g]
        /\ fd'[t] = file /\ \A u \in Threads \ {t} : fd'[u] = fd[u]
    BY <2>3, <2>4, <1>a DEF TypeOK
  <2>10. Owners'
    BY <2>1, <2>2, <2>5 DEF Inv, Owners, MutexFor
  <2>11. LinkedOnce'
    BY <2>3, <2>7, <2>9 DEF Inv, LinkedOnce
  <2>12. Unopened'
    <3> SUFFICES ASSUME NEW u \in Threads,
                        pc'[u] \in {"idle", "lock", "exists", "rename", "fopen"}
                 PROVE  upload'[u] = u
      BY DEF Unopened
    <3>1. u # t /\ pc[u] \in {"idle", "lock", "exists", "rename", "fopen"} /\ u \in Uploads
      BY <2>1, <2>2 DEF Uploads
    <3>2. upload[u] = u
      BY <3>1 DEF Inv, Unopened
    <3>3. file # u
      <4> SUFFICES ASSUME file = u PROVE FALSE
        OBVIOUS
      <4>1. dir[main] = u /\ dir[main] # None
        BY <3>1 DEF file
      <4> QED
        BY <4>1, <3>1, <3>2, <2>3 DEF Inv, Linked, EndPcs
    <3> QED
      BY <3>1, <3>2, <3>3, <2>9
  <2>13. OwnFile'
    <3> SUFFICES ASSUME NEW u \in Threads, Writing(u)' PROVE upload'[fd'[u]] = u
      BY DEF OwnFile
    <3>1. CASE u = t
      BY <3>1, <2>9
    <3>2. CASE u # t
      <4>1. Writing(u) /\ upload[fd[u]] = u /\ fd[u] # file
        BY <3>2, <2>2, <2>8 DEF Inv, OwnFile
      <4>2. fd[u] \in Uploads
        BY <4>1 DEF Inv, TypeInv, Opened
      <4> QED
        BY <3>2, <4>1, <4>2, <2>9
    <3> QED
      BY <3>1, <3>2
  <2>14. Contents'
    <3> SUFFICES ASSUME NEW g \in Uploads, NEW u \in Threads, upload'[g] = u, fd'[u] = g
                 PROVE  Len(data'[g]) = put[u] /\ \A k \in 1 .. put[u] : data'[g][k] = u
      BY <2>5 DEF Contents
    <3>1. CASE g = file
      <4>1. put[t] = 0
        BY <2>1 DEF Inv, TypeInv, Fresh
      <4> QED
        BY <3>1, <4>1, <2>9
    <3>2. CASE g # file
      BY <3>2, <2>9 DEF Inv, Contents
    <3> QED
      BY <3>1, <3>2
  <2>15. Linked'
    <3> SUFFICES ASSUME NEW e \in Entries, NEW u \in Threads,
                        dir'[e] # None, upload'[dir'[e]] = u
                 PROVE  /\ fd'[u] = dir'[e]
                        /\ \/ Writing(u)' /\ e = FullPath(u)
                           \/ pc'[u] \in EndPcs \cup {"unlock"} /\ put[u] = size[u]
      BY <2>5 DEF Linked, FullPath, File
    <3>1. CASE e = main
      BY <3>1, <2>1, <2>9
    <3>2. CASE e # main
      <4>1. dir'[e] = dir[e] /\ dir[e] # file /\ dir[e] \in Uploads
        BY <3>2, <2>3, <2>7, <2>9, <1>a DEF TypeOK
      <4>2. upload[dir[e]] = u /\ u # t
        BY <4>1, <2>6, <2>9
      <4> QED
        BY <4>1, <4>2, <2>2, <2>9 DEF Inv, Linked
    <3> QED
      BY <3>1, <3>2
  <2>16. Preserved'
    <3>1. t \notin Preloaded
      OBVIOUS
    <3>2. \A g \in Uploads : upload'[g] \in Preloaded => upload'[g] = upload[g] /\ data'[g] = data[g]
      BY <3>1, <2>9
    <3> QED
      BY <3>2, <2>5 DEF Inv, Preserved, Whole, Full
  <2> QED
    BY <1>0, <2>10, <2>11, <2>12, <2>13, <2>14, <2>15, <2>16 DEF Inv
<1>8. ASSUME NEW t \in Threads, FopenFails(t) PROVE Inv'
  <2>1. pc[t] \in {"fopen"} /\ pc'[t] \in EndPcs \ {"idle"}
    BY <1>8, <1>a DEF FopenFails, TypeOK, EndPcs
  <2>2. \A u \in Threads \ {t} : pc'[u] = pc[u]
    BY <1>8, <1>a DEF FopenFails, TypeOK
  <2>3. mutex' = [mutex EXCEPT ![MutexFor(t)] = None] /\ mutex[MutexFor(t)] = t
    BY <1>8, <2>1 DEF FopenFails, Release, Inv, Owners
  <2>4. UNCHANGED <<dir, upload, data, req, size, fd, put>>
    BY <1>8 DEF FopenFails
  <2>5. Owners'
    <3> SUFFICES ASSUME NEW u \in Threads, Critical(u)' PROVE mutex'[MutexFor(u)] = u
      BY <2>4 DEF Owners, MutexFor
    <3>1. u # t /\ mutex[MutexFor(u)] = u
      BY <2>1, <2>2 DEF Inv, Owners, EndPcs
    <3>2. pc[u] \notin {"idle", "dropped"}
      BY <3>1, <2>2
    <3> QED
      BY <3>1, <3>2, <2>3, <1>a, RequestTyping DEF TypeOK, Inv
  <2>6. /\ ~Writing(t) /\ ~Writing(t)'
        /\ pc'[t] \notin {"idle", "lock", "exists", "rename", "fopen"}
        /\ pc'[t] \in EndPcs \cup {"unlock"}
    BY <2>1 DEF EndPcs
  <2> QED
    BY <1>0, <2>2, <2>4, <2>5, <2>6, FilesKept DEF Inv
<1>9. ASSUME NEW t \in Threads, FlockExclusive(t) PROVE Inv'
  <2>1. /\ Critical(t) /\ Critical(t)' /\ pc[t] # "unlock"
        /\ Writing(t) <=> Writing(t)'
        /\ pc'[t] \in {"idle", "lock", "exists", "rename", "fopen"} =>
             pc[t] \in {"idle", "lock", "exists", "rename", "fopen"}
        /\ \A u \in Threads \ {t} : pc'[u] = pc[u]
    BY <1>9, <1>a DEF FlockExclusive, TypeOK
  <2>2. \A e \in Entries : dir'[e] \in {dir[e], None}
    BY <1>9, <1>a DEF FlockExclusive, TypeOK
  <2> QED
    BY <1>9, <2>1, <2>2, <1>0, CalmStep DEF FlockExclusive
<1>10. ASSUME NEW t \in Threads, FlockExclusiveFails(t) PROVE Inv'
  BY <1>10 DEF FlockExclusiveFails, Undisturbed
<1>11. ASSUME NEW t \in Threads, RecvFileData(t) PROVE Inv'
  <2>1. Writing(t) /\ Writing(t)'
    BY <1>11, <1>a DEF RecvFileData, TypeOK
  <2>2. \A u \in Threads \ {t} : pc'[u] = pc[u]
    BY <1>11, <1>a DEF RecvFileData, TypeOK
  <2>3. fd[t] \in Uploads /\ UNCHANGED <<dir, upload, mutex, req, size, fd>>
    BY <1>11 DEF RecvFileData, Inv, TypeInv, Opened
  <2>4. PICK p \in put[t] .. count[t] + 1 :
          /\ put' = [put EXCEPT ![t] = p]
          /\ data' = [data EXCEPT ![fd[t]] = WriteAt(@, put[t], p, t)]
    BY <1>11 DEF RecvFileData
  <2>5. p \in Nat /\ put[t] <= p
    BY <1>a DEF TypeOK
  <2> QED
    BY <1>0, <2>1, <2>2, <2>3, <2>4, <2>5, WriteStepKeeps
<1>12. ASSUME NEW t \in Threads, RecvFails(t) PROVE Inv'
  <2>1. /\ Critical(t) /\ Critical(t)' /\ pc[t] # "unlock"
        /\ Writing(t) <=> Writing(t)'
        /\ pc'[t] \in {"idle", "lock", "exists", "rename", "fopen"} =>
             pc[t] \in {"idle", "lock", "exists", "rename", "fopen"}
        /\ \A u \in Threads \ {t} : pc'[u] = pc[u]
    BY <1>12, <1>a DEF RecvFails, TypeOK
  <2>2. \A e \in Entries : dir'[e] \in {dir[e], None}
    BY <1>12, <1>a DEF RecvFails, TypeOK
  <2> QED
    BY <1>12, <2>1, <2>2, <1>0, CalmStep DEF RecvFails
<1>13. ASSUME NEW t \in Threads, UnlockFile(t) PROVE Inv'
  <2>1. /\ Critical(t) /\ Critical(t)' /\ pc[t] # "unlock"
        /\ Writing(t) <=> Writing(t)'
        /\ pc'[t] \in {"idle", "lock", "exists", "rename", "fopen"} =>
             pc[t] \in {"idle", "lock", "exists", "rename", "fopen"}
        /\ \A u \in Threads \ {t} : pc'[u] = pc[u]
    BY <1>13, <1>a DEF UnlockFile, TypeOK
  <2>2. \A e \in Entries : dir'[e] \in {dir[e], None}
    BY <1>13, <1>a DEF UnlockFile, TypeOK
  <2> QED
    BY <1>13, <2>1, <2>2, <1>0, CalmStep DEF UnlockFile
<1>14. ASSUME NEW t \in Threads, Fclose(t) PROVE Inv'
  <2>1. Writing(t) /\ (Writing(t)' \/ (pc'[t] = "unlock" /\ count[t] = size[t]))
    BY <1>14, <1>a DEF Fclose, TypeOK, Received
  <2>2. \A u \in Threads \ {t} : pc'[u] = pc[u]
    BY <1>14, <1>a DEF Fclose, TypeOK
  <2>3. fd[t] \in Uploads /\ UNCHANGED <<dir, upload, mutex, req, size, fd>>
    BY <1>14 DEF Fclose, Inv, TypeInv, Opened
  <2>4. /\ put' = [put EXCEPT ![t] = count[t]]
        /\ data' = [data EXCEPT ![fd[t]] = WriteAt(@, put[t], count[t], t)]
    BY <1>14 DEF Fclose, Undisturbed
  <2>5. count[t] \in Nat /\ put[t] <= count[t]
    BY <1>a DEF TypeOK
  <2> QED
    BY <1>0, <2>1, <2>2, <2>3, <2>4, <2>5, WriteStepKeeps
<1>15. ASSUME NEW t \in Threads, RemovePartial(t) PROVE Inv'
  <2> DEFINE main == FullPath(t)
  <2>1. pc[t] = "remove" /\ pc' = [pc EXCEPT ![t] = "unlock"]
    BY <1>15 DEF RemovePartial
  <2>2. pc'[t] = "unlock" /\ \A u \in Threads \ {t} : pc'[u] = pc[u]
    BY <2>1, <1>a DEF TypeOK
  <2>3. main \in Entries
    BY <2>1, RequestTyping DEF Inv
  <2>4. dir'[main] = None /\ \A e \in Entries \ {main} : dir'[e] = dir[e]
    BY <1>15, <2>3, <1>a DEF RemovePartial, TypeOK
  <2>5. UNCHANGED <<upload, data, mutex, req, size, fd, put>>
    BY <1>15 DEF RemovePartial
  <2>6. Owners' /\ OwnFile' /\ Unopened'
    BY <2>1, <2>2, <2>5, <1>a DEF Inv, Owners, OwnFile, Unopened, MutexFor, TypeOK
  <2>7. LinkedOnce'
    BY <2>3, <2>4 DEF Inv, LinkedOnce
  <2>8. Contents' /\ Preserved'
    BY <2>5 DEF Inv, Contents, Preserved, Whole, Full
  <2>9. Linked'
    <3> SUFFICES ASSUME NEW e \in Entries, NEW u \in Threads,
                        dir'[e] # None, upload[dir'[e]] = u
                 PROVE  /\ fd[u] = dir'[e]
                        /\ \/ Writing(u)' /\ e = FullPath(u)
                           \/ pc'[u] \in EndPcs \cup {"unlock"} /\ put[u] = size[u]
      BY <2>5 DEF Linked, FullPath, File
    <3>1. e # main /\ dir'[e] = dir[e]
      BY <2>3, <2>4
    <3>2. CASE u = t
      BY <3>1, <3>2, <2>1 DEF Inv, Linked, EndPcs
    <3>3. CASE u # t
      BY <3>1, <3>3, <2>2 DEF Inv, Linked
    <3> QED
      BY <3>2, <3>3
  <2> QED
    BY <1>0, <2>6, <2>7, <2>8, <2>9 DEF Inv
<1>15a. ASSUME NEW t \in Threads, RemovePartialFails(t) PROVE Inv'
  BY <1>15a DEF RemovePartialFails, Undisturbed
<1>16. ASSUME NEW t \in Threads, DeleteMain(t) PROVE Inv'
  <2>1. /\ Critical(t) /\ Critical(t)' /\ pc[t] # "unlock"
        /\ Writing(t) <=> Writing(t)'
        /\ pc'[t] \in {"idle", "lock", "exists", "rename", "fopen"} =>
             pc[t] \in {"idle", "lock", "exists", "rename", "fopen"}
        /\ \A u \in Threads \ {t} : pc'[u] = pc[u]
    BY <1>16, <1>a DEF DeleteMain, TypeOK
  <2>2. \A e \in Entries : dir'[e] \in {dir[e], None}
    BY <1>16, <1>a DEF DeleteMain, TypeOK
  <2> QED
    BY <1>16, <2>1, <2>2, <1>0, CalmStep DEF DeleteMain
<1>16a. ASSUME NEW t \in Threads, DeleteMainFails(t) PROVE Inv'
  <2>1. /\ Critical(t) /\ Critical(t)' /\ pc[t] # "unlock"
        /\ Writing(t) <=> Writing(t)'
        /\ pc'[t] \in {"idle", "lock", "exists", "rename", "fopen"} =>
             pc[t] \in {"idle", "lock", "exists", "rename", "fopen"}
        /\ \A u \in Threads \ {t} : pc'[u] = pc[u]
    BY <1>16a, <1>a DEF DeleteMainFails, TypeOK
  <2>2. \A e \in Entries : dir'[e] \in {dir[e], None}
    BY <1>16a, <1>a DEF DeleteMainFails, TypeOK
  <2> QED
    BY <1>16a, <2>1, <2>2, <1>0, CalmStep DEF DeleteMainFails
<1>17. ASSUME NEW t \in Threads, OpenDirectory(t) \/ OpenDirectoryFails(t) PROVE Inv'
  <2>1. \A u \in Threads \ {t} : pc'[u] = pc[u]
    BY <1>17, <1>a DEF OpenDirectory, OpenDirectoryFails, TypeOK
  <2>2. UNCHANGED <<dir, upload, data, put, mutex, req, size, fd>>
    BY <1>17 DEF OpenDirectory, OpenDirectoryFails
  <2>3. CASE pc[t] = "opendir"
    <3>1. pc'[t] \in {"readdir", "short", "absent"}
      BY <1>17, <2>3, <1>a DEF OpenDirectory, OpenDirectoryFails, TypeOK
    <3> QED
      BY <2>1, <2>2, <2>3, <3>1, <1>0, QuietStep DEF EndPcs
  <2>4. CASE pc[t] = "opendir_rm"
    <3>1. pc'[t] \in {"sweep", "unread"}
      BY <1>17, <2>4, <1>a DEF OpenDirectory, OpenDirectoryFails, TypeOK
    <3> QED
      BY <2>1, <2>2, <2>4, <3>1, <1>0, CalmStep
  <2> QED
    BY <1>17, <2>3, <2>4 DEF OpenDirectory, OpenDirectoryFails
<1>18. ASSUME NEW t \in Threads, DeleteVersion(t) PROVE Inv'
  <2>1. /\ Critical(t) /\ Critical(t)' /\ pc[t] # "unlock"
        /\ Writing(t) <=> Writing(t)'
        /\ pc'[t] \in {"idle", "lock", "exists", "rename", "fopen"} =>
             pc[t] \in {"idle", "lock", "exists", "rename", "fopen"}
        /\ \A u \in Threads \ {t} : pc'[u] = pc[u]
    BY <1>18, <1>a DEF DeleteVersion, TypeOK
  <2>2. \A e \in Entries : dir'[e] \in {dir[e], None}
    BY <1>18, <1>a DEF DeleteVersion, TypeOK
  <2> QED
    BY <1>18, <2>1, <2>2, <1>0, CalmStep DEF DeleteVersion
<1>18a. ASSUME NEW t \in Threads, DeleteVersionFails(t) PROVE Inv'
  <2>1. /\ Critical(t) /\ Critical(t)' /\ pc[t] # "unlock"
        /\ Writing(t) <=> Writing(t)'
        /\ pc'[t] \in {"idle", "lock", "exists", "rename", "fopen"} =>
             pc[t] \in {"idle", "lock", "exists", "rename", "fopen"}
        /\ \A u \in Threads \ {t} : pc'[u] = pc[u]
    BY <1>18a, <1>a DEF DeleteVersionFails, TypeOK
  <2>2. \A e \in Entries : dir'[e] \in {dir[e], None}
    BY <1>18a, <1>a DEF DeleteVersionFails, TypeOK
  <2> QED
    BY <1>18a, <2>1, <2>2, <1>0, CalmStep DEF DeleteVersionFails
<1>19. ASSUME NEW t \in Threads, SweepEnds(t) PROVE Inv'
  <2>1. /\ Critical(t) /\ Critical(t)' /\ pc[t] # "unlock"
        /\ Writing(t) <=> Writing(t)'
        /\ pc'[t] \in {"idle", "lock", "exists", "rename", "fopen"} =>
             pc[t] \in {"idle", "lock", "exists", "rename", "fopen"}
        /\ \A u \in Threads \ {t} : pc'[u] = pc[u]
    BY <1>19, <1>a DEF SweepEnds, TypeOK
  <2>2. \A e \in Entries : dir'[e] \in {dir[e], None}
    BY <1>19, <1>a DEF SweepEnds, TypeOK
  <2> QED
    BY <1>19, <2>1, <2>2, <1>0, CalmStep DEF SweepEnds
<1>20. ASSUME NEW t \in Threads, ListVersion(t) PROVE Inv'
  <2>1. /\ pc[t] \notin WritePcs \cup RmPcs \cup {"unlock"} \cup EndPcs
        /\ pc'[t] \notin WritePcs \cup RmPcs \cup {"unlock", "lock", "idle"}
        /\ \A u \in Threads \ {t} : pc'[u] = pc[u]
    BY <1>20, <1>a DEF ListVersion, TypeOK, EndPcs
  <2>2. \A u \in Threads \ {t} : req'[u] = req[u] /\ fd'[u] = fd[u]
    BY <1>20, <1>a DEF ListVersion, TypeOK
  <2>3. \A u \in Uploads \ {t} : size'[u] = size[u]
    BY <1>20, <1>a DEF ListVersion, TypeOK
  <2>4. fd'[t] = fd[t]
    BY <1>20 DEF ListVersion
  <2> QED
    BY <1>20, <2>1, <2>2, <2>3, <2>4, <1>0, QuietStep DEF ListVersion
<1>21. ASSUME NEW t \in Threads, ResolveVersion(t) PROVE Inv'
  <2>1. /\ pc[t] \notin WritePcs \cup RmPcs \cup {"unlock"} \cup EndPcs
        /\ pc'[t] \notin WritePcs \cup RmPcs \cup {"unlock", "lock", "idle"}
        /\ \A u \in Threads \ {t} : pc'[u] = pc[u]
    BY <1>21, <1>a DEF ResolveVersion, TypeOK, EndPcs
  <2>2. \A u \in Threads \ {t} : req'[u] = req[u] /\ fd'[u] = fd[u]
    BY <1>21, <1>a DEF ResolveVersion, TypeOK
  <2>3. \A u \in Uploads \ {t} : size'[u] = size[u]
    BY <1>21, <1>a DEF ResolveVersion, TypeOK
  <2>4. fd'[t] = fd[t]
    BY <1>21 DEF ResolveVersion
  <2> QED
    BY <1>21, <2>1, <2>2, <2>3, <2>4, <1>0, QuietStep DEF ResolveVersion
<1>22. ASSUME NEW t \in Threads, NoSuchVersion(t) PROVE Inv'
  <2>1. /\ pc[t] \notin WritePcs \cup RmPcs \cup {"unlock"} \cup EndPcs
        /\ pc'[t] \notin WritePcs \cup RmPcs \cup {"unlock", "lock", "idle"}
        /\ \A u \in Threads \ {t} : pc'[u] = pc[u]
    BY <1>22, <1>a DEF NoSuchVersion, TypeOK, EndPcs
  <2>2. \A u \in Threads \ {t} : req'[u] = req[u] /\ fd'[u] = fd[u]
    BY <1>22, <1>a DEF NoSuchVersion, TypeOK
  <2>3. \A u \in Uploads \ {t} : size'[u] = size[u]
    BY <1>22, <1>a DEF NoSuchVersion, TypeOK
  <2>4. fd'[t] = fd[t]
    BY <1>22 DEF NoSuchVersion
  <2> QED
    BY <1>22, <2>1, <2>2, <2>3, <2>4, <1>0, QuietStep DEF NoSuchVersion
<1>23. ASSUME NEW t \in Threads, LsStat(t) PROVE Inv'
  <2>1. /\ pc[t] \notin WritePcs \cup RmPcs \cup {"unlock"} \cup EndPcs
        /\ pc'[t] \notin WritePcs \cup RmPcs \cup {"unlock", "lock", "idle"}
        /\ \A u \in Threads \ {t} : pc'[u] = pc[u]
    BY <1>23, <1>a DEF LsStat, TypeOK, EndPcs
  <2>2. \A u \in Threads \ {t} : req'[u] = req[u] /\ fd'[u] = fd[u]
    BY <1>23, <1>a DEF LsStat, TypeOK
  <2>3. \A u \in Uploads \ {t} : size'[u] = size[u]
    BY <1>23, <1>a DEF LsStat, TypeOK
  <2>4. fd'[t] = fd[t]
    BY <1>23 DEF LsStat
  <2> QED
    BY <1>23, <2>1, <2>2, <2>3, <2>4, <1>0, QuietStep DEF LsStat
<1>24. ASSUME NEW t \in Threads, LsExists(t) PROVE Inv'
  <2>1. /\ pc[t] \notin WritePcs \cup RmPcs \cup {"unlock"} \cup EndPcs
        /\ pc'[t] \notin WritePcs \cup RmPcs \cup {"unlock", "lock", "idle"}
        /\ \A u \in Threads \ {t} : pc'[u] = pc[u]
    BY <1>24, <1>a DEF LsExists, TypeOK, EndPcs
  <2>2. \A u \in Threads \ {t} : req'[u] = req[u] /\ fd'[u] = fd[u]
    BY <1>24, <1>a DEF LsExists, TypeOK
  <2>3. \A u \in Uploads \ {t} : size'[u] = size[u]
    BY <1>24, <1>a DEF LsExists, TypeOK
  <2>4. fd'[t] = fd[t]
    BY <1>24 DEF LsExists
  <2> QED
    BY <1>24, <2>1, <2>2, <2>3, <2>4, <1>0, QuietStep DEF LsExists
<1>25. ASSUME NEW t \in Threads, DisplayVersions(t) PROVE Inv'
  <2>1. /\ pc[t] \notin WritePcs \cup RmPcs \cup {"unlock"} \cup EndPcs
        /\ pc'[t] \notin WritePcs \cup RmPcs \cup {"unlock", "lock", "idle"}
        /\ \A u \in Threads \ {t} : pc'[u] = pc[u]
    BY <1>25, <1>a DEF DisplayVersions, TypeOK, EndPcs
  <2>2. \A u \in Threads \ {t} : req'[u] = req[u] /\ fd'[u] = fd[u]
    BY <1>25, <1>a DEF DisplayVersions, TypeOK
  <2>3. \A u \in Uploads \ {t} : size'[u] = size[u]
    BY <1>25, <1>a DEF DisplayVersions, TypeOK
  <2>4. fd'[t] = fd[t]
    BY <1>25 DEF DisplayVersions
  <2> QED
    BY <1>25, <2>1, <2>2, <2>3, <2>4, <1>0, QuietStep DEF DisplayVersions
<1>26. ASSUME NEW t \in Threads, FopenForRead(t) PROVE Inv'
  <2>1. /\ pc[t] \notin WritePcs \cup RmPcs \cup {"unlock"} \cup EndPcs
        /\ pc'[t] \notin WritePcs \cup RmPcs \cup {"unlock", "lock", "idle"}
        /\ \A u \in Threads \ {t} : pc'[u] = pc[u]
    BY <1>26, <1>a DEF FopenForRead, TypeOK, EndPcs
  <2>2. \A u \in Threads \ {t} : req'[u] = req[u] /\ fd'[u] = fd[u]
    BY <1>26, <1>a DEF FopenForRead, TypeOK
  <2>3. \A u \in Uploads \ {t} : size'[u] = size[u]
    BY <1>26, <1>a DEF FopenForRead, TypeOK
  <2>4. \E e \in Entries : fd'[t] = dir[e]
    <3>1. target[t] \in Entries
      BY <1>26, <2>1, RequestTyping DEF FopenForRead, Inv, EndPcs
    <3> QED
      BY <1>26, <3>1, <1>a DEF FopenForRead, TypeOK
  <2> QED
    BY <1>26, <2>1, <2>2, <2>3, <2>4, <1>0, QuietStep DEF FopenForRead
<1>27. ASSUME NEW t \in Threads, FlockShared(t) PROVE Inv'
  <2>1. /\ pc[t] \notin WritePcs \cup RmPcs \cup {"unlock"} \cup EndPcs
        /\ pc'[t] \notin WritePcs \cup RmPcs \cup {"unlock", "lock", "idle"}
        /\ \A u \in Threads \ {t} : pc'[u] = pc[u]
    BY <1>27, <1>a DEF FlockShared, TypeOK, EndPcs
  <2>2. \A u \in Threads \ {t} : req'[u] = req[u] /\ fd'[u] = fd[u]
    BY <1>27, <1>a DEF FlockShared, TypeOK
  <2>3. \A u \in Uploads \ {t} : size'[u] = size[u]
    BY <1>27, <1>a DEF FlockShared, TypeOK
  <2>4. fd'[t] = fd[t]
    BY <1>27 DEF FlockShared
  <2> QED
    BY <1>27, <2>1, <2>2, <2>3, <2>4, <1>0, QuietStep DEF FlockShared
<1>28. ASSUME NEW t \in Threads, FlockSharedFails(t) PROVE Inv'
  <2>1. /\ pc[t] \notin WritePcs \cup RmPcs \cup {"unlock"} \cup EndPcs
        /\ pc'[t] \notin WritePcs \cup RmPcs \cup {"unlock", "lock", "idle"}
        /\ \A u \in Threads \ {t} : pc'[u] = pc[u]
    BY <1>28, <1>a DEF FlockSharedFails, TypeOK, EndPcs
  <2>2. \A u \in Threads \ {t} : req'[u] = req[u] /\ fd'[u] = fd[u]
    BY <1>28, <1>a DEF FlockSharedFails, TypeOK
  <2>3. \A u \in Uploads \ {t} : size'[u] = size[u]
    BY <1>28, <1>a DEF FlockSharedFails, TypeOK
  <2>4. fd'[t] = fd[t]
    BY <1>28 DEF FlockSharedFails
  <2> QED
    BY <1>28, <2>1, <2>2, <2>3, <2>4, <1>0, QuietStep DEF FlockSharedFails
<1>29. ASSUME NEW t \in Threads, SendFileSize(t) PROVE Inv'
  <2>1. /\ pc[t] \notin WritePcs \cup RmPcs \cup {"unlock"} \cup EndPcs
        /\ pc'[t] \notin WritePcs \cup RmPcs \cup {"unlock", "lock", "idle"}
        /\ \A u \in Threads \ {t} : pc'[u] = pc[u]
    BY <1>29, <1>a DEF SendFileSize, TypeOK, EndPcs
  <2>2. \A u \in Threads \ {t} : req'[u] = req[u] /\ fd'[u] = fd[u]
    BY <1>29, <1>a DEF SendFileSize, TypeOK
  <2>3. \A u \in Uploads \ {t} : size'[u] = size[u]
    BY <1>29, <1>a DEF SendFileSize, TypeOK
  <2>4. fd'[t] = fd[t]
    BY <1>29 DEF SendFileSize
  <2> QED
    BY <1>29, <2>1, <2>2, <2>3, <2>4, <1>0, QuietStep DEF SendFileSize
<1>30. ASSUME NEW t \in Threads, SendFileData(t) PROVE Inv'
  <2>1. /\ pc[t] \notin WritePcs \cup RmPcs \cup {"unlock"} \cup EndPcs
        /\ pc'[t] \notin WritePcs \cup RmPcs \cup {"unlock", "lock", "idle"}
        /\ \A u \in Threads \ {t} : pc'[u] = pc[u]
    BY <1>30, <1>a DEF SendFileData, TypeOK, EndPcs
  <2>2. \A u \in Threads \ {t} : req'[u] = req[u] /\ fd'[u] = fd[u]
    BY <1>30, <1>a DEF SendFileData, TypeOK
  <2>3. \A u \in Uploads \ {t} : size'[u] = size[u]
    BY <1>30, <1>a DEF SendFileData, TypeOK
  <2>4. fd'[t] = fd[t]
    BY <1>30 DEF SendFileData
  <2> QED
    BY <1>30, <2>1, <2>2, <2>3, <2>4, <1>0, QuietStep DEF SendFileData
<1>31. ASSUME NEW t \in Threads, SendFails(t) PROVE Inv'
  <2>1. /\ pc[t] \notin WritePcs \cup RmPcs \cup {"unlock"} \cup EndPcs
        /\ pc'[t] \notin WritePcs \cup RmPcs \cup {"unlock", "lock", "idle"}
        /\ \A u \in Threads \ {t} : pc'[u] = pc[u]
    BY <1>31, <1>a DEF SendFails, TypeOK, EndPcs
  <2>2. \A u \in Threads \ {t} : req'[u] = req[u] /\ fd'[u] = fd[u]
    BY <1>31, <1>a DEF SendFails, TypeOK
  <2>3. \A u \in Uploads \ {t} : size'[u] = size[u]
    BY <1>31, <1>a DEF SendFails, TypeOK
  <2>4. fd'[t] = fd[t]
    BY <1>31 DEF SendFails
  <2> QED
    BY <1>31, <2>1, <2>2, <2>3, <2>4, <1>0, QuietStep DEF SendFails
<1>32. ASSUME NEW t \in Threads, CloseRead(t) PROVE Inv'
  <2>1. /\ pc[t] \notin WritePcs \cup RmPcs \cup {"unlock"} \cup EndPcs
        /\ pc'[t] \notin WritePcs \cup RmPcs \cup {"unlock", "lock", "idle"}
        /\ \A u \in Threads \ {t} : pc'[u] = pc[u]
    BY <1>32, <1>a DEF CloseRead, TypeOK, EndPcs
  <2>2. \A u \in Threads \ {t} : req'[u] = req[u] /\ fd'[u] = fd[u]
    BY <1>32, <1>a DEF CloseRead, TypeOK
  <2>3. \A u \in Uploads \ {t} : size'[u] = size[u]
    BY <1>32, <1>a DEF CloseRead, TypeOK
  <2>4. fd'[t] = fd[t]
    BY <1>32 DEF CloseRead
  <2> QED
    BY <1>32, <2>1, <2>2, <2>3, <2>4, <1>0, QuietStep DEF CloseRead
<1>33. CASE ServerExits
  BY <1>33, <1>a DEF ServerExits, Undisturbed, TypeOK
<1>34. CASE UNCHANGED vars
  BY <1>34 DEF vars, Inv, TypeInv, TypeOK, Requested, Opened, Fresh, Owners, LinkedOnce,
       Unopened, OwnFile, Contents, Linked, Preserved, Whole, Full, MutexFor, FullPath, File
<1> QED
  BY <1>1, <1>2, <1>3, <1>4, <1>5, <1>6, <1>6a, <1>7, <1>8, <1>9, <1>10, <1>11, <1>12,
     <1>13, <1>14, <1>15, <1>15a, <1>16, <1>16a, <1>17, <1>18, <1>18a, <1>19, <1>20, <1>21,
     <1>22, <1>23, <1>24, <1>25, <1>26, <1>27, <1>28, <1>29, <1>30, <1>31, <1>32, <1>33,
     <1>34
     DEF Next, Serve, WriteStep, RmStep, VersionStep, LsStep, ReadStep, Sending,
         Terminating

\* A file that is linked and not being written is a whole upload.
LEMMA LinkedWhole ==
  ASSUME Inv, NEW e \in Entries, dir[e] # None,
         \A t \in Threads : ~(Writing(t) /\ e = FullPath(t))
  PROVE  Whole(dir[e])
<1> DEFINE f == dir[e]
           t == upload[f]
<1>a. f \in Uploads /\ t \in Uploads
  BY DEF Inv, TypeInv, TypeOK
<1>1. CASE t \in Preloaded
  BY <1>1, <1>a DEF Inv, Preserved
<1>2. CASE t \in Threads
  <2>1. fd[t] = f /\ put[t] = size[t] /\ size[t] \in Nat
    BY <1>2 DEF Inv, Linked, TypeInv, TypeOK
  <2>2. data[f] \in Seq(Uploads \cup {None}) /\ Len(data[f]) = size[t]
    BY <1>2, <1>a, <2>1 DEF Inv, Contents, TypeInv, TypeOK
  <2>3. \A k \in 1 .. size[t] : data[f][k] = t
    BY <1>2, <1>a, <2>1 DEF Inv, Contents
  <2>4. data[f] = [k \in 1 .. size[t] |-> t]
    BY <2>1, <2>2, <2>3, UniformSequence
  <2> QED
    BY <2>1, <2>4 DEF Whole, Full
<1> QED
  BY <1>a, <1>1, <1>2 DEF Uploads

\* No half-written file ever becomes a version, and a file that no WRITE is busy
\* with is a whole upload, for any number of writers, readers and removers, however
\* receives, opens and backups fail and connections break: provided all spellings of a
\* file hash to the same mutex, no flock is interrupted by a signal, no fclose and no
\* remove fails, and the server process goes on.
THEOREM VersionsAreWhole ==
  ASSUME Undisturbed
  PROVE  Spec => [](VersionsWhole /\ SettledWhole)
<1>1. Init => Inv
  BY InitInv
<1>2. Inv /\ [Next]_vars => Inv'
  BY NextInv
<1>3. Inv => VersionsWhole
  <2> SUFFICES ASSUME Inv, NEW n \in Names, NEW s \in Stamps, dir[Version(n, s)] # None
               PROVE  Whole(dir[Version(n, s)])
    BY DEF VersionsWhole
  <2>1. Version(n, s) \in Entries /\ \A t \in Threads : Version(n, s) # FullPath(t)
    BY StoreAssumption DEF Version, Entries, Stamps, FullPath, Main
  <2> QED
    BY <2>1, LinkedWhole
<1>4. Inv => SettledWhole
  <2> SUFFICES ASSUME Inv, NEW n \in Names, dir[Main(n)] # None,
                      ~ \E t \in Threads : Writing(t) /\ File(t) = n
               PROVE  Whole(dir[Main(n)])
    BY DEF SettledWhole
  <2>1. Main(n) \in Entries /\ \A t \in Threads : ~(Writing(t) /\ Main(n) = FullPath(t))
    BY StoreAssumption DEF Entries, FullPath, Main
  <2> QED
    BY <2>1, LinkedWhole
<1> QED
  BY <1>1, <1>2, <1>3, <1>4, PTL DEF Spec

=============================================================================
