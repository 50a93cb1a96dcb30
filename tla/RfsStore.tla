------------------------------ MODULE RfsStore ------------------------------
(***************************************************************************)
(* The storage engine of the remote file system server: the threads that   *)
(* serve WRITE, GET, GETVERSION, RM and LS requests, concurrently over one *)
(* storage directory.  A step is one call that other threads can observe   *)
(* (a lock, a rename, an open, a write reaching the file, ...).            *)
(*                                                                         *)
(* Files.  "dir" is the storage directory: it maps a directory entry to    *)
(* the file (inode) it links.  A thread creates at most one file, so the   *)
(* file a thread creates, and the upload it receives, carry the name of    *)
(* the thread.  A later upload may be written into a file that is there:   *)
(* "upload" is the one a file was last opened for.  "data" is what has     *)
(* reached each file: a sequence of chunks, each named after the upload it *)
(* comes from (position k holds the k-th chunk of that upload).  What      *)
(* stdio still buffers is the difference between count (passed to fwrite)  *)
(* and put (in the file).                                                  *)
(***************************************************************************)
EXTENDS Integers, Sequences, FiniteSets

CONSTANTS
  Threads,       \* connection threads; each serves one request (handle_client)
  Preloaded,     \* uploads that are in storage when the server starts
  Names,         \* the files clients use, by name below the storage root
  Paths,         \* the spellings of these names that clients send
  FileOf,        \* [Paths -> Names]: the file a spelling denotes
  Mutexes,       \* version_mutexes
  MutexOf,       \* [Paths -> Mutexes]: hash_string of the path as spelled
  Extending,     \* [Names -> SUBSET Names]: the names that begin with n".v"
  MaxStamp,      \* bound on the clock readings of a behaviour
  PerSecond,     \* clock readings in a second (10^6 in the code)
  Sizes,         \* file sizes clients announce, in chunks
  VersionLimit,  \* length of the versions array (100 in the code)
  Requests,      \* the requests clients may send
  Faults,        \* the calls that may fail in this instance
  MaxExits,      \* bound on the number of times the server process ends
  InitDir,       \* the storage directory when the server starts
  None           \* "no file", "no thread"

Ops == {"WRITE", "GET", "GETVERSION", "RM", "LS"}

FaultKinds == {"recv",    \* a receive fails, or fwrite finds the disk full
               "send",    \* a send fails
               "fopen",   \* fopen(full_path, "wb") fails
               "flock",   \* flock is interrupted by a signal
               "flush",   \* the flush inside fclose fails
               "rename",  \* rename fails (no space, quota, name too long, ...)
               "remove",  \* remove fails
               "opendir", \* opendir fails
               "clock"}   \* the wall clock is set back, or reads the same twice

Stamps  == 1 .. MaxStamp
Entries == Names \X (0 .. MaxStamp)
Uploads == Threads \cup Preloaded

Main(n)       == <<n, 0>>
Version(n, s) == <<n, s>>

ASSUME StoreAssumption ==
  /\ None \notin Uploads \cup Mutexes
  /\ Threads \cap Preloaded = {}
  /\ FileOf \in [Paths -> Names]
  /\ MutexOf \in [Paths -> Mutexes]
  /\ Extending \in [Names -> SUBSET Names]
  /\ MaxStamp \in Nat
  /\ PerSecond \in Nat \ {0}
  /\ VersionLimit \in Nat \ {0}
  /\ MaxExits \in Nat
  /\ Sizes \subseteq Int
  /\ Requests \subseteq [op : Ops, path : Paths, num : Int]
  /\ Faults \subseteq FaultKinds
  /\ InitDir \in [Entries -> Preloaded \cup {None}]
  /\ \A e, f \in Entries : InitDir[e] = InitDir[f] /\ InitDir[e] # None => e = f

VARIABLES
  dir,      \* [Entries -> Uploads + None]: the storage directory
  upload,   \* [Uploads -> Uploads]: the upload each file was last opened for
  data,     \* [Uploads -> Seq]: the chunks in each file
  mutex,    \* [Mutexes -> Threads + None]: who holds each version mutex
  pc,       \* the next call of each thread
  req,      \* the request each thread serves
  target,   \* the entry full_path or version_path denotes
  fd,       \* the file each thread opened (it opens at most one)
  lk,       \* the flock each thread holds on its file
  size,     \* file_size, st.st_size of LS
  count,    \* total_received of WRITE, deleted_count of RM
  put,      \* how much of total_received has reached the file
  stuck,    \* the entries a WRITE failed to rename or an RM to remove; the
            \* failed_count of RM is their number
  out,      \* the chunks sent to a GET or GETVERSION client
  snap,     \* the matching entries that existed at opendir
  found,    \* the versions array
  clock,    \* the last clock reading
  exits     \* how often the server process has ended

fsVars     == <<dir, upload, data>>
writeVars  == <<count, put, stuck>>
scanVars   == <<snap, found>>
serverVars == <<clock, exits>>
vars == <<dir, upload, data, mutex, pc, req, target, fd, lk, size, count, put, stuck,
          out, snap, found, clock, exits>>

-----------------------------------------------------------------------------
(* Program counters, by handler. *)

WritePcs == {"exists", "rename", "fopen", "flock", "recv", "unflock",
             "fclose", "remove"}
RmPcs    == {"delete", "opendir_rm", "sweep", "unread"}
ReadPcs  == {"stat", "exists_ls", "opendir", "readdir", "open", "share", "size",
             "send", "unshare"}
EndPcs   == {"dropped", "saved", "failed", "removed", "absent", "listed",
             "sent", "short", "killed"}
Pcs      == {"idle", "lock", "unlock"} \cup WritePcs \cup RmPcs \cup ReadPcs
            \cup EndPcs

Goto(t, from, to) ==
  /\ pc[t] = from
  /\ pc' = [pc EXCEPT ![t] = to]

Op(t)      == req[t].op
File(t)    == FileOf[req[t].path]
MutexFor(t) == MutexOf[req[t].path]
FullPath(t) == Main(File(t))
Active(t)  == pc[t] \notin EndPcs \cup {"idle"}

-----------------------------------------------------------------------------
(* Helpers of the handlers. *)

\* The chunks of s once chunks from+1 .. to of upload u are written at offset
\* "from"; a gap left by a truncation reads as zeroes.
WriteAt(s, from, to, u) ==
  IF from = to THEN s
  ELSE [k \in 1 .. (IF Len(s) > to THEN Len(s) ELSE to) |->
          IF from < k /\ k <= to THEN u
          ELSE IF k <= Len(s) THEN s[k] ELSE None]

\* Everything that upload u is meant to be.
Full(u) == [k \in 1 .. size[u] |-> u]

\* File f holds exactly the upload it was last opened for.
Whole(f) == size[upload[f]] >= 0 /\ data[f] = Full(upload[f])

\* The entries a directory scan for full_path".v" matches by prefix.
Matching(n) ==
  {e \in Entries : (e[1] = n /\ e[2] # 0) \/ e[1] \in Extending[n]}

\* extract_version_timestamp: the first ten digits are the seconds.  The main file
\* of an extending name carries no timestamp; atol makes a smaller number of it than
\* of any clock reading.
Second(e) == e[2] \div PerSecond

\* e may stand at index i of the array S once it is sorted by seconds, newest
\* first: readdir order decides between entries of the same second.
AtIndex(S, e, i) ==
  /\ Cardinality({f \in S : Second(f) > Second(e)}) <= i
  /\ i < Cardinality({f \in S : Second(f) >= Second(e)})

\* Mutant: the version suffix has the seconds only, so that two backups can choose
\* the same name.
Readings_Coarse == Stamps \cap {clock, clock + 1}

\* gettimeofday as backup_file sees it.
Readings == IF "clock" \in Faults THEN Stamps ELSE Stamps \cap {clock + 1}

\* Mutant: flock(fd, LOCK_EX) is left out.
CanLockExclusive_Ignored(t) == TRUE

\* flock(fd, LOCK_EX) succeeds without waiting.
CanLockExclusive(t) == \A u \in Threads \ {t} : fd[u] = fd[t] => lk[u] = "none"

\* flock(fd, LOCK_SH) does.
CanLockShared(t) == \A u \in Threads \ {t} : fd[u] = fd[t] => lk[u] # "ex"

\* Mutant: pthread_mutex_lock is left out.
MutexFree_Ignored(t) == TRUE

\* The mutex the path hashes to is free.
MutexFree(t) == mutex[MutexFor(t)] = None

Release(t) == mutex' = [mutex EXCEPT ![MutexFor(t)] = None]

-----------------------------------------------------------------------------
(* The life of a connection thread up to its handler. *)

\* A thread receives a request: operation, name and, for WRITE, the file size.
\* The name is valid and its directory exists.
Accept(t) ==
  \E r \in Requests :
    /\ Goto(t, "idle", CASE r.op \in {"WRITE", "RM"} -> "lock"
                         [] r.op = "GET"             -> "open"
                         [] r.op = "GETVERSION"      -> "opendir"
                         [] r.op = "LS"              -> "stat")
    /\ req' = [req EXCEPT ![t] = r]
    /\ target' = [target EXCEPT ![t] = Main(FileOf[r.path])]
    /\ \/ r.op = "WRITE" /\ \E z \in Sizes : size' = [size EXCEPT ![t] = z]
       \/ r.op # "WRITE" /\ UNCHANGED size
    /\ UNCHANGED <<fsVars, mutex, fd, lk, writeVars, out, scanVars, serverVars>>

\* The request does not arrive whole, is refused by validate_path, or its
\* directory cannot be created: the handler returns before it touches a file.
Drop(t) ==
  /\ Goto(t, "idle", "dropped")
  /\ UNCHANGED <<fsVars, mutex, req, target, fd, lk, size, writeVars, out,
                 scanVars, serverVars>>

\* pthread_mutex_lock(&version_mutexes[hash]) of WRITE and RM.
LockVersionMutex(t) ==
  /\ Goto(t, "lock", IF Op(t) = "WRITE" THEN "exists" ELSE "delete")
  /\ MutexFree(t)
  /\ mutex' = [mutex EXCEPT ![MutexFor(t)] = t]
  /\ UNCHANGED <<fsVars, req, target, fd, lk, size, writeVars, out, scanVars,
                 serverVars>>

UnlockVersionMutex(t) ==
  /\ \/ Goto(t, "unlock", IF Op(t) = "RM" THEN "removed"
                          ELSE IF count[t] = size[t] THEN "saved" ELSE "failed")
     \/ Goto(t, "unread", "removed")
  /\ Release(t)
  /\ UNCHANGED <<fsVars, req, target, fd, lk, size, writeVars, out, scanVars,
                 serverVars>>

-----------------------------------------------------------------------------
(* handle_write_request *)

\* Mutant: no backup, the file is overwritten in place.
BackupExists_Skipped(t) ==
  /\ Goto(t, "exists", "fopen")
  /\ UNCHANGED <<fsVars, mutex, req, target, fd, lk, size, writeVars, out,
                 scanVars, serverVars>>

\* backup_file: if (!file_exists(filename)) return.
BackupExists(t) ==
  /\ Goto(t, "exists", IF dir[FullPath(t)] = None THEN "fopen" ELSE "rename")
  /\ UNCHANGED <<fsVars, mutex, req, target, fd, lk, size, writeVars, out,
                 scanVars, serverVars>>

\* backup_file: read the clock and rename the file to its version name, whose
\* entry rename replaces if there is one.
BackupRename(t) ==
  /\ Goto(t, "rename", "fopen")
  /\ dir[FullPath(t)] # None
  /\ \E s \in Readings :
       /\ clock' = s
       /\ dir' = [dir EXCEPT ![FullPath(t)] = None,
                            ![Version(File(t), s)] = dir[FullPath(t)]]
  /\ UNCHANGED <<upload, data, mutex, req, target, fd, lk, size, writeVars, out,
                 scanVars, exits>>

\* rename fails, or the file has gone meanwhile: backup_file only reports it, and the
\* WRITE goes on.  The clock reading names nothing.
BackupRenameFails(t) ==
  /\ Goto(t, "rename", "fopen")
  /\ "rename" \in Faults \/ dir[FullPath(t)] = None
  /\ stuck' = [stuck EXCEPT ![t] = {FullPath(t)}]
  /\ UNCHANGED <<fsVars, mutex, req, target, fd, lk, size, count, put, out, scanVars,
                 serverVars>>

\* fopen(full_path, "wb"): creates the file, or truncates the one that is there.
FopenForWrite(t) ==
  LET file == IF dir[FullPath(t)] = None THEN t ELSE dir[FullPath(t)]
  IN  /\ Goto(t, "fopen", "flock")
      /\ dir' = [dir EXCEPT ![FullPath(t)] = file]
      /\ upload' = [upload EXCEPT ![file] = t]
      /\ data' = [data EXCEPT ![file] = <<>>]
      /\ fd' = [fd EXCEPT ![t] = file]
      /\ UNCHANGED <<mutex, req, target, lk, size, writeVars, out, scanVars,
                     serverVars>>

\* Mutant: the early return forgets to unlock the mutex.
FopenFails_Locked(t) ==
  /\ "fopen" \in Faults
  /\ Goto(t, "fopen", "failed")
  /\ UNCHANGED <<fsVars, mutex, req, target, fd, lk, size, writeVars, out,
                 scanVars, serverVars>>

\* fopen fails: the handler unlocks the mutex and returns.
FopenFails(t) ==
  /\ "fopen" \in Faults
  /\ Goto(t, "fopen", "failed")
  /\ Release(t)
  /\ UNCHANGED <<fsVars, req, target, fd, lk, size, writeVars, out, scanVars,
                 serverVars>>

FlockExclusive(t) ==
  /\ Goto(t, "flock", IF size[t] > 0 THEN "recv" ELSE "unflock")
  /\ CanLockExclusive(t)
  /\ lk' = [lk EXCEPT ![t] = "ex"]
  /\ UNCHANGED <<fsVars, mutex, req, target, fd, size, writeVars, out, scanVars,
                 serverVars>>

\* flock fails: the handler closes the file (nothing is buffered), unlocks the
\* mutex and returns; the empty file stays.
FlockExclusiveFails(t) ==
  /\ "flock" \in Faults
  /\ Goto(t, "flock", "failed")
  /\ Release(t)
  /\ UNCHANGED <<fsVars, req, target, fd, lk, size, writeVars, out, scanVars,
                 serverVars>>

\* Mutant: total_received <= file_size.
LastChunk_OffByOne(t) == count[t] = size[t]

\* The loop condition of recv_file_data, total_received < file_size, fails after
\* the chunk being received.
LastChunk(t) == count[t] + 1 = size[t]

\* One turn of recv_file_data: recv and fwrite of a chunk; stdio passes on to the
\* file as much of what it buffers as it likes.
RecvFileData(t) ==
  /\ Goto(t, "recv", IF LastChunk(t) THEN "unflock" ELSE "recv")
  /\ count' = [count EXCEPT ![t] = @ + 1]
  /\ \E p \in put[t] .. count[t] + 1 :
       /\ put' = [put EXCEPT ![t] = p]
       /\ data' = [data EXCEPT ![fd[t]] = WriteAt(@, put[t], p, t)]
  /\ UNCHANGED <<dir, upload, mutex, req, target, fd, lk, size, stuck, out, scanVars,
                 serverVars>>

\* recv ends the loop early (peer gone, timeout, signal), or fwrite does (disk
\* full): write_error, as total_received is not file_size.
RecvFails(t) ==
  /\ "recv" \in Faults
  /\ Goto(t, "recv", "unflock")
  /\ UNCHANGED <<fsVars, mutex, req, target, fd, lk, size, writeVars, out,
                 scanVars, serverVars>>

\* flock(fd, LOCK_UN), before fclose.
UnlockFile(t) ==
  /\ Goto(t, "unflock", "fclose")
  /\ lk' = [lk EXCEPT ![t] = "none"]
  /\ UNCHANGED <<fsVars, mutex, req, target, fd, size, writeVars, out, scanVars,
                 serverVars>>

\* Mutant: the comparison with file_size is left out.
Received_Anything(t) == TRUE

\* No write_error: total_received = file_size.
Received(t) == count[t] = size[t]

\* fclose flushes what stdio still buffers; nobody looks at its result.
Fclose(t) ==
  /\ Goto(t, "fclose", IF Received(t) THEN "unlock" ELSE "remove")
  /\ \E p \in IF "flush" \in Faults THEN put[t] .. count[t] ELSE {count[t]} :
       /\ put' = [put EXCEPT ![t] = p]
       /\ data' = [data EXCEPT ![fd[t]] = WriteAt(@, put[t], p, t)]
  /\ UNCHANGED <<dir, upload, mutex, req, target, fd, lk, size, count, stuck, out,
                 scanVars, serverVars>>

\* write_error: remove(full_path), whatever it links by now.
RemovePartial(t) ==
  /\ Goto(t, "remove", "unlock")
  /\ dir' = [dir EXCEPT ![FullPath(t)] = None]
  /\ UNCHANGED <<upload, data, mutex, req, target, fd, lk, size, writeVars, out,
                 scanVars, serverVars>>

\* Its result is ignored: the partial file may stay.
RemovePartialFails(t) ==
  /\ "remove" \in Faults
  /\ Goto(t, "remove", "unlock")
  /\ UNCHANGED <<fsVars, mutex, req, target, fd, lk, size, writeVars, out, scanVars,
                 serverVars>>

-----------------------------------------------------------------------------
(* handle_rm_request *)

\* Mutant: a missing main file ends the request, its versions stay.
DeleteMain_Returns(t) ==
  /\ Goto(t, "delete", IF dir[FullPath(t)] = None THEN "unlock" ELSE "opendir_rm")
  /\ dir' = [dir EXCEPT ![FullPath(t)] = None]
  /\ UNCHANGED <<upload, data, mutex, req, target, fd, lk, size, writeVars, out,
                 scanVars, serverVars>>

\* delete_single_file(full_path).
DeleteMain(t) ==
  /\ Goto(t, "delete", "opendir_rm")
  /\ dir' = [dir EXCEPT ![FullPath(t)] = None]
  /\ count' = [count EXCEPT ![t] = IF dir[FullPath(t)] = None THEN 0 ELSE 1]
  /\ UNCHANGED <<upload, data, mutex, req, target, fd, lk, size, put, stuck, out,
                 scanVars, serverVars>>

\* remove fails: it is counted, and RM goes on with the versions.
DeleteMainFails(t) ==
  /\ "remove" \in Faults
  /\ Goto(t, "delete", "opendir_rm")
  /\ dir[FullPath(t)] # None
  /\ stuck' = [stuck EXCEPT ![t] = @ \cup {FullPath(t)}]
  /\ UNCHANGED <<fsVars, mutex, req, target, fd, lk, size, count, put, out, scanVars,
                 serverVars>>

\* opendir(dir_path), of delete_file_versions and of the scans for versions.  What
\* is there now and stays is sure to be read; an entry that comes or goes while
\* the directory is being read may be read or not.
OpenDirectory(t) ==
  /\ \/ Goto(t, "opendir_rm", "sweep")
     \/ Goto(t, "opendir", "readdir")
  /\ snap' = [snap EXCEPT ![t] = {e \in Matching(File(t)) : dir[e] # None}]
  /\ UNCHANGED <<fsVars, mutex, req, target, fd, lk, size, writeVars, out, found,
                 serverVars>>

\* opendir fails: delete_file_versions returns 0, which RM ignores;
\* resolve_version_path returns -1, which is sent; LS ends after the current file.
OpenDirectoryFails(t) ==
  /\ "opendir" \in Faults
  /\ \/ Goto(t, "opendir_rm", "unread")
     \/ Goto(t, "opendir", IF Op(t) = "LS" THEN "short" ELSE "absent")
  /\ UNCHANGED <<fsVars, mutex, req, target, fd, lk, size, writeVars, out, scanVars,
                 serverVars>>

\* The matching entries readdir may still return: what could not be removed, it
\* does not return twice.
Unswept(t) == {e \in Matching(File(t)) \ stuck[t] : dir[e] # None}

\* delete_file_versions: readdir returns a matching entry, which is removed.
DeleteVersion(t) ==
  /\ pc[t] = "sweep"
  /\ \E e \in Unswept(t) : dir' = [dir EXCEPT ![e] = None]
  /\ count' = [count EXCEPT ![t] = @ + 1]
  /\ UNCHANGED <<upload, data, mutex, pc, req, target, fd, lk, size, put, stuck, out,
                 scanVars, serverVars>>

\* remove fails: it is counted, and the loop goes on.
DeleteVersionFails(t) ==
  /\ "remove" \in Faults
  /\ pc[t] = "sweep"
  /\ \E e \in Unswept(t) : stuck' = [stuck EXCEPT ![t] = @ \cup {e}]
  /\ UNCHANGED <<fsVars, mutex, pc, req, target, fd, lk, size, count, put, out,
                 scanVars, serverVars>>

\* Mutant: the scan ends after the first match.
SweepEnds_Early(t) ==
  /\ Goto(t, "sweep", "unlock")
  /\ snap[t] = {} \/ \E e \in snap[t] : dir[e] = None
  /\ UNCHANGED <<fsVars, mutex, req, target, fd, lk, size, writeVars, out,
                 scanVars, serverVars>>

\* readdir has returned every entry.
SweepEnds(t) ==
  /\ Goto(t, "sweep", "unlock")
  /\ \A e \in snap[t] : dir[e] # None => e \in stuck[t]
  /\ UNCHANGED <<fsVars, mutex, req, target, fd, lk, size, writeVars, out,
                 scanVars, serverVars>>

-----------------------------------------------------------------------------
(* The scan for versions, of handle_getversion_request and handle_ls_request *)

\* readdir returns a matching entry, which goes into the versions array.
ListVersion(t) ==
  /\ pc[t] = "readdir"
  /\ Cardinality(found[t]) < VersionLimit
  /\ \E e \in Matching(File(t)) \ found[t] :
       /\ dir[e] # None
       /\ found' = [found EXCEPT ![t] = @ \cup {e}]
  /\ UNCHANGED <<fsVars, mutex, pc, req, target, fd, lk, size, writeVars, out,
                 snap, serverVars>>

\* Every entry is read, or the array is full.
ScanComplete(t) ==
  \/ Cardinality(found[t]) = VersionLimit
  \/ \A e \in snap[t] : dir[e] # None => e \in found[t]

-----------------------------------------------------------------------------
(* handle_getversion_request *)

\* Mutant: the number is taken for an index from 0.
VersionIndex_ZeroBased(t) == Cardinality(found[t]) - req[t].num - 1

\* The array is sorted by seconds, newest first, and indexed from its end: version 1
\* is the oldest, although the comment here, and version_manager.h, say newest.
VersionIndex(t) == Cardinality(found[t]) - req[t].num

ResolveVersion(t) ==
  /\ Goto(t, "readdir", "open")
  /\ Op(t) = "GETVERSION"
  /\ ScanComplete(t)
  /\ \E e \in found[t] :
       /\ AtIndex(found[t], e, VersionIndex(t))
       /\ target' = [target EXCEPT ![t] = e]
  /\ UNCHANGED <<fsVars, mutex, req, fd, lk, size, writeVars, out, scanVars,
                 serverVars>>

\* No versions, or no such version number: -1 is sent.
NoSuchVersion(t) ==
  /\ Goto(t, "readdir", "absent")
  /\ Op(t) = "GETVERSION"
  /\ ScanComplete(t)
  /\ VersionIndex(t) \notin 0 .. Cardinality(found[t]) - 1
  /\ UNCHANGED <<fsVars, mutex, req, target, fd, lk, size, writeVars, out,
                 scanVars, serverVars>>

-----------------------------------------------------------------------------
(* handle_ls_request, for the name of a file *)

\* st.st_size as long as no stat has filled st.
Unread == -1

\* stat(full_path, &st), which asks whether the name is a directory.
LsStat(t) ==
  LET file == dir[FullPath(t)]
  IN  /\ Goto(t, "stat", "exists_ls")
      /\ size' = [size EXCEPT ![t] = IF file = None THEN Unread ELSE Len(data[file])]
      /\ UNCHANGED <<fsVars, mutex, req, target, fd, lk, writeVars, out, scanVars,
                     serverVars>>

\* file_exists(full_path): a second stat; st keeps what the first one left there.
LsExists(t) ==
  /\ Goto(t, "exists_ls", IF dir[FullPath(t)] = None THEN "absent" ELSE "opendir")
  /\ UNCHANGED <<fsVars, mutex, req, target, fd, lk, size, writeVars, out,
                 scanVars, serverVars>>

\* The versions are sorted and displayed.
DisplayVersions(t) ==
  /\ Goto(t, "readdir", "listed")
  /\ Op(t) = "LS"
  /\ ScanComplete(t)
  /\ UNCHANGED <<fsVars, mutex, req, target, fd, lk, size, writeVars, out,
                 scanVars, serverVars>>

\* Mutant: the number displayed is the index i + 1 of the array.
DisplayedAs_NewestFirst(t, e, k) == AtIndex(found[t], e, k - 1)

\* e may be displayed as "[VERSION k]", with k = version_count - i.
DisplayedAs(t, e, k) == AtIndex(found[t], e, Cardinality(found[t]) - k)

-----------------------------------------------------------------------------
(* send_file_with_lock, of GET and GETVERSION *)

\* fopen(filepath, "rb"); if it fails -1 is sent.
FopenForRead(t) ==
  LET file == dir[target[t]]
  IN  /\ Goto(t, "open", IF file = None THEN "absent" ELSE "share")
      /\ fd' = [fd EXCEPT ![t] = file]
      /\ UNCHANGED <<fsVars, mutex, req, target, lk, size, writeVars, out,
                     scanVars, serverVars>>

FlockShared(t) ==
  /\ Goto(t, "share", "size")
  /\ CanLockShared(t)
  /\ lk' = [lk EXCEPT ![t] = "sh"]
  /\ UNCHANGED <<fsVars, mutex, req, target, fd, size, writeVars, out, scanVars,
                 serverVars>>

\* flock fails: the file is closed and -1 is sent.
FlockSharedFails(t) ==
  /\ "flock" \in Faults
  /\ Goto(t, "share", "absent")
  /\ UNCHANGED <<fsVars, mutex, req, target, fd, lk, size, writeVars, out,
                 scanVars, serverVars>>

\* fseek and ftell; the size is sent.
SendFileSize(t) ==
  LET length == Len(data[fd[t]])
  IN  /\ Goto(t, "size", IF length > 0 THEN "send" ELSE "unshare")
      /\ size' = [size EXCEPT ![t] = length]
      /\ UNCHANGED <<fsVars, mutex, req, target, fd, lk, writeVars, out, scanVars,
                     serverVars>>

\* One turn of send_file_data: the next chunk is read and sent; the loop ends at
\* file_size bytes, or where the file ends by now.
SendFileData(t) ==
  LET next == Len(out[t]) + 1
      file == data[fd[t]]
  IN  /\ Goto(t, "send", IF next = size[t] \/ next > Len(file)
                         THEN "unshare" ELSE "send")
      /\ out' = IF next > Len(file) THEN out
                ELSE [out EXCEPT ![t] = Append(@, file[next])]
      /\ UNCHANGED <<fsVars, mutex, req, target, fd, lk, size, writeVars, scanVars,
                     serverVars>>

SendFails(t) ==
  /\ "send" \in Faults
  /\ Goto(t, "send", "unshare")
  /\ UNCHANGED <<fsVars, mutex, req, target, fd, lk, size, writeVars, out,
                 scanVars, serverVars>>

\* flock(fd, LOCK_UN) and fclose.  A client accepts what it received if it is
\* file_size bytes (receive_file).
CloseRead(t) ==
  /\ Goto(t, "unshare", IF Len(out[t]) = size[t] THEN "sent" ELSE "short")
  /\ lk' = [lk EXCEPT ![t] = "none"]
  /\ UNCHANGED <<fsVars, mutex, req, target, fd, size, writeVars, out, scanVars,
                 serverVars>>

-----------------------------------------------------------------------------
(* The server process *)

\* The process ends with its detached threads: main returns after STOP or a
\* signal, or a send to a closed connection raises SIGPIPE.  Locks go with it and
\* the directory stays for the next server process.  What exit may still flush is
\* covered by what RecvFileData may have passed on before.
ServerExits ==
  /\ exits < MaxExits
  /\ \E t \in Threads : Active(t)
  /\ exits' = exits + 1
  /\ pc' = [t \in Threads |-> IF Active(t) THEN "killed" ELSE pc[t]]
  /\ mutex' = [m \in Mutexes |-> None]
  /\ lk' = [t \in Threads |-> "none"]
  /\ UNCHANGED <<fsVars, req, target, fd, size, writeVars, out, scanVars, clock>>

-----------------------------------------------------------------------------

Init ==
  /\ dir = InitDir
  /\ size = [u \in Uploads |-> IF u \in Preloaded THEN 1 ELSE 0]
  /\ upload = [f \in Uploads |-> f]
  /\ data = [u \in Uploads |-> IF u \in Preloaded THEN <<u>> ELSE <<>>]
  /\ mutex = [m \in Mutexes |-> None]
  /\ pc = [t \in Threads |-> "idle"]
  /\ req = [t \in Threads |-> None]
  /\ target = [t \in Threads |-> None]
  /\ fd = [t \in Threads |-> None]
  /\ lk = [t \in Threads |-> "none"]
  /\ count = [t \in Threads |-> 0]
  /\ put = [t \in Threads |-> 0]
  /\ stuck = [t \in Threads |-> {}]
  /\ out = [t \in Threads |-> <<>>]
  /\ snap = [t \in Threads |-> {}]
  /\ found = [t \in Threads |-> {}]
  /\ exits = 0
  /\ clock \in 0 .. MaxStamp
  /\ \A e \in Entries : InitDir[e] # None => e[2] <= clock
  /\ clock > 0 => \E n \in Names : InitDir[Version(n, clock)] # None

Sending(t) == SendFileData(t) \/ SendFails(t)

WriteStep(t) ==
  \/ BackupExists(t) \/ BackupRename(t) \/ BackupRenameFails(t)
  \/ FopenForWrite(t) \/ FopenFails(t)
  \/ FlockExclusive(t) \/ FlockExclusiveFails(t)
  \/ RecvFileData(t) \/ RecvFails(t)
  \/ UnlockFile(t) \/ Fclose(t) \/ RemovePartial(t) \/ RemovePartialFails(t)

RmStep(t) ==
  \/ DeleteMain(t) \/ DeleteMainFails(t)
  \/ DeleteVersion(t) \/ DeleteVersionFails(t) \/ SweepEnds(t)

VersionStep(t) == ListVersion(t) \/ ResolveVersion(t) \/ NoSuchVersion(t)

LsStep(t) == LsStat(t) \/ LsExists(t) \/ DisplayVersions(t)

ReadStep(t) ==
  \/ FopenForRead(t) \/ FlockShared(t) \/ FlockSharedFails(t)
  \/ SendFileSize(t) \/ CloseRead(t)

\* What the server does for a request by itself; sending data also takes a client
\* that receives them.
Serve(t) ==
  \/ LockVersionMutex(t) \/ UnlockVersionMutex(t)
  \/ OpenDirectory(t) \/ OpenDirectoryFails(t)
  \/ WriteStep(t) \/ RmStep(t) \/ VersionStep(t) \/ LsStep(t) \/ ReadStep(t)

\* Every connection has been served.
Terminating ==
  /\ \A t \in Threads : pc[t] \in EndPcs
  /\ UNCHANGED vars

Next ==
  \/ \E t \in Threads : Accept(t) \/ Drop(t) \/ Serve(t) \/ Sending(t)
  \/ ServerExits
  \/ Terminating

Spec == Init /\ [][Next]_vars

\* Every connection thread is scheduled.  No fairness is needed of the clients: a
\* download whose client stops reading may stay in send_file_data for ever, and
\* recv of an upload returns at the latest after the receive timeout that the
\* accepted socket inherits from the listening one.
FairSpec == Spec /\ \A t \in Threads : WF_vars(Serve(t))

-----------------------------------------------------------------------------
(* Types *)

TypeOK ==
  /\ dir \in [Entries -> Uploads \cup {None}]
  /\ upload \in [Uploads -> Uploads]
  /\ data \in [Uploads -> Seq(Uploads \cup {None})]
  /\ mutex \in [Mutexes -> Threads \cup {None}]
  /\ pc \in [Threads -> Pcs]
  /\ req \in [Threads -> Requests \cup {None}]
  /\ target \in [Threads -> Entries \cup {None}]
  /\ fd \in [Threads -> Uploads \cup {None}]
  /\ lk \in [Threads -> {"none", "sh", "ex"}]
  /\ size \in [Uploads -> Int]
  /\ count \in [Threads -> Nat]
  /\ put \in [Threads -> Nat]
  /\ stuck \in [Threads -> SUBSET Entries]
  /\ out \in [Threads -> Seq(Uploads \cup {None})]
  /\ snap \in [Threads -> SUBSET Entries]
  /\ found \in [Threads -> SUBSET Entries]
  /\ clock \in 0 .. MaxStamp
  /\ exits \in 0 .. MaxExits
  /\ \A t \in Threads : put[t] <= count[t]
  /\ \A t \in Threads : pc[t] = "recv" => count[t] < size[t]

-----------------------------------------------------------------------------
(* Safety *)

\* Thread t has a file open for writing that its entry links.
Writing(t) == pc[t] \in {"flock", "recv", "unflock", "fclose", "remove"}

\* What backup_file puts aside is always a whole upload: no half-written file ever
\* becomes a version, however writers of the same file interleave and fail.
VersionsWhole ==
  \A n \in Names, s \in Stamps :
    dir[Version(n, s)] # None => Whole(dir[Version(n, s)])

\* A file no WRITE is busy with is a whole upload: failed writes leave no partial
\* file behind (handle_write_request, "Partial/corrupted file deleted").
SettledWhole ==
  \A n \in Names :
    \/ dir[Main(n)] = None
    \/ Whole(dir[Main(n)])
    \/ \E t \in Threads : Writing(t) /\ File(t) = n

\* What a GETVERSION client accepts is the whole version, although no lock covers
\* the time between resolve_version_path and send_file_with_lock.
GetVersionWhole ==
  \A t \in Threads :
    pc[t] = "sent" /\ Op(t) = "GETVERSION" => out[t] = Full(upload[fd[t]])

\* No reply mixes two uploads: the chunks sent to a client are those of one upload,
\* from its first one on, although a WRITE may put the file aside while it is being
\* sent or, if its backup fails, truncate it and write another upload into it.
ReplyUnmixed ==
  \A t \in Threads : \E u \in Uploads : \A k \in 1 .. Len(out[t]) : out[t][k] = u

\* When an RM that could read the directory releases its mutex, what is left of the
\* file, if anything, is what it failed to remove and says so ("Warning: Failed to
\* delete %d file(s)"): the scan misses nothing and no WRITE slips in.
RmReportsTheRest ==
  \A t \in Threads :
    pc[t] = "unlock" /\ Op(t) = "RM" =>
      \A s \in 0 .. MaxStamp :
        dir[<<File(t), s>>] # None => <<File(t), s>> \in stuck[t]

\* An RM is deleting files of n: an RM of n, or one whose scan matches n as well.
Removing(n) ==
  \E t \in Threads :
    \/ pc[t] \in {"delete", "sweep"} /\ File(t) = n
    \/ pc[t] = "sweep" /\ n \in Extending[File(t)]

\* A WRITE has reported that it could not put file n aside, and goes on.
Overwriting(n) ==
  \E t \in Threads :
    (pc[t] = "fopen" \/ Writing(t)) /\ File(t) = n /\ stuck[t] # {}

\* In a step, the whole upload in entry e, if there is one, stays in storage: as the
\* file or as a version of it.
Kept(e) ==
  LET f == dir[e]
  IN  f # None /\ Whole(f) =>
        /\ upload'[f] = upload[f] /\ data'[f] = data[f]
        /\ \E r \in 0 .. MaxStamp : dir'[<<e[1], r>>] = f

\* A whole upload stays in storage until an RM of that file, or of a name it extends.
OnlyRmErases ==
  [][\A n \in Names : \A s \in 0 .. MaxStamp : ~Removing(n) => Kept(<<n, s>>)]_vars

\* The same, but for the current file of a WRITE whose backup has failed, which is
\* reported on the server's console and nowhere else: no other WRITE, no failed one and
\* no end of the server process in the middle of one loses an upload, and RM takes
\* nothing along but what it matches.
NothingLostUnnoticed ==
  [][\A n \in Names : \A s \in 0 .. MaxStamp :
       Removing(n) \/ (s = 0 /\ Overwriting(n)) \/ Kept(<<n, s>>)]_vars

\* A version keeps its content and its name until RM deletes it.
VersionsImmutable ==
  [][\A n \in Names : \A s \in Stamps :
       LET u == dir[Version(n, s)]
       IN  u # None /\ ~Removing(n) =>
             /\ dir'[Version(n, s)] = u
             /\ upload'[u] = upload[u] /\ data'[u] = data[u]]_vars

\* A version number does not move while WRITEs add versions: of the versions that
\* exist when the scan of a GETVERSION begins, none of them deleted meanwhile, number k
\* selects the k-th oldest.  (The comments of version_manager.h and .c say the opposite,
\* "1 = newest"; the lines LS prints agree with the code, see ListingAgrees.)
NumberedVersion ==
  \A t \in Threads :
    /\ pc[t] \in {"open", "share", "size", "send", "unshare"}
    /\ Op(t) = "GETVERSION"
    /\ req[t].num <= Cardinality(snap[t])
    /\ \A e \in snap[t] : dir[e] # None
    => Cardinality({s \in 1 .. target[t][2] : dir[Version(File(t), s)] # None})
         = req[t].num

\* A version number read off a listing can be given to GETVERSION ("Client can check
\* which version number with LS OP"): a GETVERSION that begins after an LS has
\* displayed e as version k resolves k to e, whatever WRITEs happen before,
\* between and during the two, as long as nothing is deleted.
ListingAgrees ==
  \A l, t \in Threads :
    /\ pc[l] = "listed"
    /\ pc[t] \in {"open", "share", "size", "send", "unshare"}
    /\ Op(t) = "GETVERSION" /\ File(t) = File(l)
    /\ found[l] \subseteq snap[t]
    /\ \A e \in snap[t] : dir[e] # None
    => \A e \in snap[l] : DisplayedAs(l, e, req[t].num) => target[t] = e

\* What a GET client accepts is a whole upload ("Client B: Attempts to read
\* file.txt -> BLOCKED until Client A finishes").
DownloadWhole ==
  \A t \in Threads : pc[t] = "sent" => out[t] = Full(upload[fd[t]])

-----------------------------------------------------------------------------
(* Progress *)

\* Every request is answered or ended by the server ("All error paths properly
\* release locks to prevent deadlocks"), whichever calls fail.  Downloads whose
\* clients stop reading hold up nobody but themselves: the shared lock they keep
\* is on a file that the next WRITE puts aside before it locks a new one (unless
\* its rename fails: then it waits for them).
EveryRequestEnds ==
  \A t \in Threads : Active(t) ~> pc[t] \in EndPcs \cup {"send"}

-----------------------------------------------------------------------------
(* The promise: VersionedFiles *)

\* Thread t is serving file n with the version mutex held.
InSession(t, n) ==
  /\ pc[t] \in WritePcs \cup RmPcs \cup {"unlock"}
  /\ File(t) = n

\* The session of a file is that of the thread that holds its mutex.
AbsSession ==
  [n \in Names |->
     IF \E t \in Threads : InSession(t, n) /\ Op(t) = "WRITE" THEN "write"
     ELSE IF \E t \in Threads : InSession(t, n) THEN "remove" ELSE "none"]

\* The upload an entry holds.
Holds(e) == IF dir[e] = None THEN None ELSE upload[dir[e]]

\* A new upload counts as the current one once its WRITE releases the mutex.
AbsCurrent ==
  [n \in Names |->
     IF \E t \in Threads : InSession(t, n) /\ Holds(Main(n)) = t THEN None
     ELSE Holds(Main(n))]

AbsArchive == [n \in Names |-> [s \in Stamps |-> Holds(Version(n, s))]]

\* A call of the session has failed that leaves something where it should not be.
AbsTrouble ==
  [n \in Names |->
     \E t \in Threads : InSession(t, n) /\ (stuck[t] # {} \/ pc[t] = "unread")]

Abstract == INSTANCE VersionedFiles
  WITH current <- AbsCurrent, archive <- AbsArchive, session <- AbsSession,
       trouble <- AbsTrouble,
       CanFail <- Faults \cap {"rename", "remove", "opendir"} # {},
       InitCurrent <- [n \in Names |-> InitDir[Main(n)]],
       InitArchive <- [n \in Names |-> [s \in Stamps |-> InitDir[Version(n, s)]]]

\* The handlers implement VersionedFiles: one session per file at a time, uploads
\* archived in time order and never replaced, nothing left after RM and no upload
\* overwritten but in a session in which a call has failed.
ImplementsVersionedFiles == Abstract!Spec

=============================================================================
