# The remote file system server in TLA+

The repository is a small remote file system in C: a multi-threaded TCP server
(`server.c`, `server_handlers.c`, `version_manager.c`, `file_utils.c`,
`path_utils.c`, `network.c`) that keeps files and all their earlier versions under
`./rfs_storage`, and a command line client (`client.c`, `operations.c`). This directory
holds a TLA+ model of the server and of its client, the TLC runs that check it on small
instances, and theorems about it that TLAPS proves for all instances.

## 1. Inventory

| component | code | state | operations |
|---|---|---|---|
| listener | `server.c` | `global_socket_desc`, the detached threads | accept loop, `handle_client`, `signal_handler` |
| server state | `server_handlers.c:24-42,562-566` | `server_running`, `server_mutex` | `set_server_running`, `is_server_running`, STOP |
| WRITE | `server_handlers.c:44-166`, `version_manager.c:30-55`, `network.c:130-165` | the file, its version mutex, `flock` | lock, back up, create, lock file, receive, unlock, close, remove if it failed |
| GET | `server_handlers.c:168-208`, `file_utils.c:107-147`, `network.c:93-128` | open file, `flock` | open, lock shared, size, send, unlock |
| GETVERSION | `server_handlers.c:210-273`, `version_manager.c:57-154` | array of versions | scan, sort, index, then as GET |
| RM | `server_handlers.c:275-342`, `file_utils.c:23-89` | `deleted_count` | lock mutex, remove file, scan and remove versions |
| LS | `server_handlers.c:344-560` | array of versions | two stats, scan, sort, display; or list a directory |
| version mutexes | `version_manager.c:16-28` | 256 mutexes | `hash_string(full_path)` chooses one |
| paths, directories | `path_utils.c` | `dir_mutex`, the directory tree | `validate_path`, `create_directories_safe` |
| framing | `network.c:18-89` | the byte stream | `send_all`, `recv_all`, `recv_string`, plain `recv` |
| client | `client.c`, `operations.c`, `network.c:169-298` | the local file | one connection per command |

How they interact. `main` gives each accepted connection a detached thread; a thread
serves one request and ends. Threads meet in the storage directory (names, inodes,
contents), in the version mutexes and in `flock`. WRITE holds the version mutex from
before the backup until after `fclose`, RM from the first to the last remove; GET,
GETVERSION and LS never take it. `flock` is advisory and per open file, so it goes with
the inode: `rename` in `backup_file` moves a file and its lock away from the name. Every
thread and every signal reads or clears `server_running` under `server_mutex`.

What is hard, and what makes each component right:

* WRITE: any call may fail, at any point of another WRITE, RM or download. Right means:
  one session per file at a time; what is put aside as a version is always a whole
  upload; a failed upload leaves nothing behind; nothing stored is lost but by RM.
* GET: no mutex, and the name may be renamed or recreated between `fopen`, `flock` and
  each `fread`. Right means: no reply mixes two uploads, and a reply accepted by the client
  is a whole upload (the second does *not* hold, see section 5).
* GETVERSION, LS: the directory is scanned without a lock while others rename into it.
  Right means: a number means the same version in both, and goes on meaning it.
* RM: it scans while others want to write, and `remove` and `opendir` may fail. Right means:
  nothing is left but what it reports.
* paths, directories: a path is walked anew by every call, while others create, remove
  and rename its directories; `dir_mutex` covers the creation only. Right means: nothing
  stored gets out of reach, and WRITEs do not make each other fail.
* framing, client: a stream is cut anywhere, either side dies anywhere, some fields are read
  by a `recv` that may return a part of them, some calls are not looked at, WRITE and STOP are
  not acknowledged. Right means: a file arrives whole or not at all, on either side,
  and nobody waits for ever.
* listener: three parties clear one flag, a signal interrupts any thread at any instruction.
  Right means: the server ends when asked, accepts nobody afterwards, leaks nothing.

The hazards are listed one by one, with their lines and the properties that watch them,
in `PROJECT.json`.

## 2. Modules

| module | what it is |
|---|---|
| `RfsStore` | the handlers as concurrent threads over one storage directory |
| `VersionedFiles` | what they promise: per file a current upload, an immutable archive, sessions |
| `RfsScan` | scan, sort, index and display of the versions array, as an algorithm |
| `RfsDirectories` | the directory tree: creation, removal, and WRITE onto a directory's name |
| `RfsTransfer` | one command of the client, the two byte streams, and the thread that serves it |
| `RfsListener` | the server process: accept loop, STOP, signals, end of the process |
| `MCRfsStore`, `MCRfsDirectories`, `MCRfsTransfer` | the instances that TLC checks |
| `RfsStoreProofs`, `RfsRetentionProofs`, `RfsNumberingProofs`, `RfsRefinementProofs` | theorems about `RfsStore` |
| `RfsScanProofs`, `RfsTransferProofs`, `RfsDirectoriesProofs`, `RfsListenerProofs` | theorems about the other modules |

The modules split the program at the places where one part needs only a summary of
another: `RfsStore` takes the request line for one step (`RfsTransfer` has it byte by
byte), the sort for one step (`RfsScan` proves that the summary `AtIndex` is right), and
the directory of a file for given (`RfsDirectories` has the tree); `RfsListener`
takes a whole file request for one step.

### RfsStore

One action is one call that other threads can observe; the program counter of a thread
names its next call. Between two of them a thread works on its own data only.

| variable | code |
|---|---|
| `dir` | the directory: entry -> file. An entry is a name and a stamp, 0 for the file itself (`full_path`), s for `full_path.v<s>` |
| `data` | the content that has reached each file, as chunks named by the upload they are from |
| `upload` | the upload each file was last opened for |
| `mutex` | `version_mutexes` |
| `fd`, `lk` | the file a thread has open, and its `flock` on it |
| `size`, `count`, `put` | `file_size`, `total_received` (RM: `deleted_count`), how much of that stdio has written out |
| `stuck` | the entries that a WRITE failed to rename, or an RM to remove; their number is `failed_count` |
| `out` | what a download client has received |
| `snap`, `found` | what existed at `opendir`; the `versions` array as a set |
| `clock`, `exits` | last `gettimeofday`; ends of the process |

A thread creates at most one file (only WRITE creates one), so that file carries the name of
the thread, and so does the upload it receives. If the entry is there, because `rename` has failed or
another spelling came first, `fopen("wb")` truncates *that* file, whoever made it: `upload` then
says which upload it is for now. `WriteAt` is what `write` does at the descriptor's own
offset: two writers of one inode overwrite each other, and a gap reads as zeroes. stdio may
pass buffered bytes on at any time; `fclose` passes on the rest. `readdir` must return what
was there at `opendir` and stays, and may or may not return what comes and goes. The
`versions` array is a set: its sort compares seconds only, so `AtIndex` says which
entries *may* stand at an index, for every order `readdir` can produce.

Each kind of failure is an action beside the one of the call that succeeds (`BackupRenameFails`,
`DeleteVersionFails`, `OpenDirectoryFails`, ...), enabled per instance by `Faults`. They go on as the code
does: after a failed `rename` WRITE opens the file in place, after a failed `remove` RM counts it and
goes on, after a failed `opendir` RM ends as if there were no versions. `ServerExits` ends all
threads at any point; storage stays and new threads serve on it.

Parameters carry what depends on strings: `FileOf` (which file a spelling denotes),
`MutexOf` (its hash), `Extending` (names that begin with `n.v` and so match RM's and the
scans' prefix test).

Simplifications: `DeleteMain` is `stat` and `remove` in one step (both under the mutex); `Second`
puts a name that only extends another (`foo.v2.txt`) before all versions, as the small number
`extract_version_timestamp` makes of it does; modification times and wording of replies are left
out; requests name files, not their versions (`foo.v123` can be asked for like any file).

### VersionedFiles

The promise of the engine, without calls, locks or partial contents: sessions per file,
one at a time; a WRITE session archives the current upload under a stamp above all others
and then publishes a fresh upload or gives up; an RM session ends with nothing left. Calls on
the directory may fail (`CallFails`), and only in a session in which one has does a WRITE overwrite the
current upload (`Overwrite`) or an RM end with something left. `RfsStore` maps its state to
it: a file that is being written counts as "no current upload" until the mutex is released, and
`trouble` is `stuck`, or an `opendir` of the session that failed.

### RfsScan

`resolve_version_path` and the same lines of `handle_ls_request`: `readdir` in any order into
an array of `Limit` elements, the exchange sort loop by loop (`OuterLoop`, `InnerLoop`, with
`i` and `j` as in the code), then the index `version_count - version_number` or the display.
`timestamp` is what `extract_version_timestamp` makes of each name: any second, equal ones
included, 0 for a name that matches the prefix without being a version. The directory does
not change meanwhile; `RfsStore` is the module in which it does.

### RfsDirectories

| variable | code |
|---|---|
| `link` | the tree: directory and entry -> file or directory |
| `whole` | the files that hold all of their upload |
| `dirMutex`, `mutex` | `dir_mutex`; `version_mutexes`, one per path here |
| `level` | how far the loop of `create_directories_safe` has come |
| `scan`, `seen`, `snap` | the directory that `opendir` opened, what `readdir` has returned, what was there at first |

A path is a sequence of names, and every call that takes a path walks it in the tree as it
is then (`Walk`): that is where a directory created, removed or renamed in between
matters. `Walk`, `Reachable` and `InPlaceDirs` are recursive functions, so that the theorems can
speak of them. `rename` of a directory moves all that is below it; the clock begins anywhere past
the stamps that are in the tree already. Each file has its own mutex, the
best case; `RfsStore` has shared ones. An upload is one step that succeeds or is cut short;
GET, `flock`, a failing `rename` or `remove`, and the end of the process are left to `RfsStore`. The names are ones that do
not extend each other.

### RfsTransfer

`send_operation`, `send_string`, `send_file`, `receive_file`, `receive_response`,
`list_directory` and the handlers, for one command and one connection. What each
side sends follows from the command, so a stream is two positions, sent and received; `mark`
is where the server thread began to read its current field. `Send` and the receives move any
number of units that are there, and block when the socket buffers (`Window`) are full or
empty. Either side can be killed, any call can fail; `trouble` records that something failed, or did
a part of its work, that need not have. The storage is one file and its versions, since one
connection is alone with it here.

`FieldDone` says when a thread may go on to the next field: after `recv_all` with the whole
field, after a plain `recv` with any part of it. A part of the operation's name
matches no operation, but for the GET in GETVERSION (`ReceiveOperationCut`). A part of a name, or bytes that were something
else, may be no valid name, the name of nothing, or that of another file (`ReceiveNameCut`,
`name` and `Found`); WRITE alone reads its name with `recv_all`.

Some calls fail without any effect on what the program does next: `rename`, `fclose` and
`remove` of the server's WRITE, `fclose` and `remove` of the client's download (`Unheeded`). Which of
them did is in `ignored`, a variable of the model only, so that the properties can say what each
of these failures costs.

### RfsListener

`main`, each connection thread up to its handler, and `signal_handler` on top of whichever
thread it interrupted: while `handler[x]` is not `"none"`, the thread itself does not move.
`is_server_running` and `set_server_running` take two steps (lock, then access and unlock),
because a signal can come between. `late` counts clients accepted after the flag was
cleared. A file request is opaque here: it returns, never returns, or meets SIGPIPE,
which nobody ignores and which ends the process. The end of the process leaves a file request that was
under way `"interrupted"`, and any other connection, such as that of the STOP itself, `"killed"`.

## 3. Runs

| run | question | states |
|---|---|---|
| `StoreIntegrity` | three requests of any kind on one file with one version, failures anywhere | 464 k |
| `StoreCrash` | two files of different mutexes, one name extending the other, every failure but that of the clock, the process ends once | 1.64 M |
| `StoreLive` | does every request on two files that share a mutex end? | 262 k |
| `Transfer` | one command of each kind, streams cut in every way, failures and kills anywhere | 1.42 M |
| `Directories` | three requests on a tree: WRITE, RM and LS of files and of directories on their paths | 151 k |
| `Scan` | every directory, order and time of four entries, an array of three | 93 k |
| `Listener` | three clients, a signal on any thread | 67 k |
| `GetDuringWrite`, `TwoSpellings`, `SameSecond`, `StopInFlight`, `SignalHang` | statements of the repository that the code does not keep (section 5) | |

What the passing runs show:

* `VersionsWhole`, `SettledWhole`: no interleaving and no failed call turns a half-written
  file into a version or leaves one behind.
* `NothingLostUnnoticed`, `VersionsImmutable`: an upload that is whole in storage stays, as file or
  version, and a version keeps name and content, also across failed WRITEs, failing
  flushes and the end of the process. Only an RM that matches it removes it: RM of `foo` also
  takes `foo.v2.txt`, which is a file of its own (`StoreCrash`), but nothing else. The one
  exception of `NothingLostUnnoticed` is the current file of a WRITE whose `rename` has failed
  (section 5); without it the property is `OnlyRmErases`.
* `GetVersionWhole`, `ReplyUnmixed`: although downloads take no mutex, a GETVERSION reply is
  the whole version, and no reply mixes uploads. It is the `rename` before the truncation that makes
  the first so; where `rename` fails and the file is truncated in place, `flock` still keeps the
  writer from writing into what a reader is sending, so a reply is cut short but not mixed.
* `RmReportsTheRest`: the unlocked order of `readdir` misses nothing, because WRITE is kept out;
  what an RM leaves is what `remove` failed on, which the reply counts. An RM whose `opendir` failed
  is not covered: it leaves the versions and does not say so (section 5).
* `NumberedVersion`, `ListingAgrees`: version k is the k-th *oldest*, in GETVERSION and in LS
  alike, and stays so while WRITEs go on, as long as no two versions fall into one second. The
  script's Test 4b expects this too; the comments say the opposite (section 5).
* `ImplementsVersionedFiles`: all of that at once, as a refinement.
* `EveryRequestEnds`: no error path keeps a mutex, and no writer ever waits for a stalled
  reader, since it locks an inode it has just created. (A writer whose `rename` failed does wait, with the
  mutex held, so this failure is not in `StoreLive`.)
* `DownloadIntact`, `LocalNeverPartial`: a download that the client reports as received is the
  whole file, and one that fails leaves no part of it in the local file. The exceptions, each of which
  the run breaks the property without: the server took another name for the one sent; the client was
  killed; its own `fclose` or `remove` failed. The previous local copy may be gone, but only after a
  call has failed once the file to send was opened.
* `UploadAllOrNothing`, `MissingSourceHarmless`: a WRITE that has ended stored all or nothing, if the
  server's `rename`, `fclose` and `remove` did their work; the property says what each costs if it
  did not, and that a failed `fopen` or `flock` leaves an empty file at most. A local file that does
  not exist is noticed after the server thread is at work, and does no harm, because the handler
  reads the size before it touches the storage.
* `UploadAsSent`: a WRITE goes on only with the name and size that were sent and with the stream at
  the first byte of the data. `CarriedOut`, `CommandEnds`: what can be carried out is, unless a
  call fails or does a part of its work; and every command ends, on both sides.
* `NothingStranded`, `WholeFilesKept`: no directory is lost with something in it, whole files
  stay until their own RM, and nothing comes to lie deeper than a request may go.
* `PartialsOnlyAside`: a failed WRITE leaves nothing at its place. (It does leave its partial
  file inside a directory that another WRITE has put aside meanwhile.)
* `RefusedOnlyByConflict`, `LocksGivenBack`: WRITEs into one new directory do not make each
  other fail, and no path keeps `dir_mutex` or a version mutex; with the deadlock check, which
  is on, this is why every request ends.
* `ArrayComplete`, `ResolvesAtIndex`, `DisplayMatchesResolve`: the sort loses
  nothing, and index and display do what `RfsStore` takes them to do.
* `OneLateClient`, `ShutdownUnlessStuck`, `ConnectionsTakenCareOf`: see `RfsListener`.

Bounds. Three threads are the fewest in which two requests interfere and a third observes,
or a reader meets an old file, its backup and its successor. Sizes -1, 0 and 2 chunks
are the nonsense a client may announce, the empty file and one with an interior point; more chunks
repeat it (`StoreCrash` has 2 only, `StoreLive` 1). The stored file
and version have one chunk, so their length differs from new uploads. `MaxStamp` 4 lets
three WRITEs back up a file on top of the stored version. `StoreIntegrity` leaves out the
failures under which `SettledWhole` cannot hold: an interrupted `flock`, a failing flush or `remove`
and the end of the process each leave a file that is not whole;
`StoreCrash` has them all, and keeps the properties that survive them. The clock goes on in all
runs (the "clock" fault, of which the repository says nothing, is in the theorems that hold with it). `Threads` is
a symmetry set in the safety runs: no definition tells threads apart. `StoreLive` uses no
symmetry. `Listener` has three clients because one must send STOP, or carry the thread that a
signal interrupts, while two others come late.
`MaxExits` 1 is one restart between requests. In the runs of `RfsStore` the array of 100
entries never fills up; `Scan` has four entries for an array of three, times 0 to 2 so that
all, some or none of them are equal, and numbers from 0 (out of range) to 4. `Transfer` has fields of
two pieces (enough for a field to be cut in the middle), buffers of two units so
that both sides block, and files of 0, 1 and 3 chunks, the last longer than the buffers.
`Directories` starts from one file `d/a/b` at the greatest depth allowed (`MaxPathDepth` 2
directories) and has requests for it, for each directory above it, for a second file in a new
directory, and one that is too deep; `MaxStamp` 3 is a backup by each thread.

Mutants. Each property of a passing run has a mutant in its module (`..._Skipped`,
`..._Ignored`, ...), a plausible bug in one mapped definition, under which the run
finds the property violated.

## 4. Fairness

`RfsStore!FairSpec`: weak fairness of `Serve(t)` for each thread, that is, threads are
scheduled. It includes the receives of an upload: an accepted socket inherits the
one-second SO_RCVTIMEO that `server.c:183` sets on the listening one, so `recv` returns. It
does not include sending: `SO_SNDTIMEO` is not set, so a client that stops reading
holds its download for ever, and `EveryRequestEnds` allows just that (if a `rename` has failed, the
writer that opened the file in place waits for that client too). Of an upload every turn
receives something or fails, so the loop ends. Weak fairness suffices for the version mutex
and `flock`, since a thread serves one request and there are finitely many: nobody can be
overtaken for ever.

`RfsTransfer!FairSpec`: weak fairness of the client's steps and of the server thread's: both
programs are scheduled. A step that waits for bytes or for room in the buffers is not enabled
until they are there; the server's `recv` ends after its timeout, while the client's `recv` and
either side's `send` may wait for ever, so that `CommandEnds` says that they need not.

`RfsListener!FairSpec`: weak fairness of `main`, of connection threads outside handlers and of
signal handlers. Strong fairness is assumed only of taking `server_mutex` to clear the flag:
`main` takes that mutex and gives it back in every turn of an unbounded loop, and glibc's
mutex is not formally fair; the assumption is that `main` does not win *every* race against
*all* the threads that want to clear the flag (`LockToClear`).

## 5. Findings

Runs that find a statement of the repository violated:

1. `GetDuringWrite`: a GET during a WRITE is not blocked (`readme.md:145-146`). The writer
   truncates before it locks and unlocks before it flushes, so a reader gets an empty
   or partial file and its client accepts it.
2. `TwoSpellings`: mutexes go by the spelling of a path, so `d/a` and `d//a` are
   written at once and an upload is lost (`readme.md:201`).
3. `SameSecond`: versions of one second have no fixed order, so a number read in LS may
   select another version (`readme.md:70`).
4. `StopInFlight`: after one client's STOP the server ends in the middle of another client's
   request (`readme.md:195`, `server.c:288`).
5. `SignalHang`: a signal in the critical section of `server_mutex` hangs the server
   (`server.c:33`).

Disagreements that a passing run shows, by a property that states what the code does or excepts
the case:

6. `NumberedVersion`: versions are numbered from the oldest; `version_manager.h:35,46`, the comment at
   `version_manager.c:142-143` and `readme.md:85` say that 1 is the newest.
7. `NothingLostUnnoticed`: if `rename` fails, the WRITE goes on and truncates the stored file in
   place (`version_manager.c:51`, `server_handlers.c:100`), while `readme.md:33` promises that the
   old file is versioned. The exception of the property is this case.
8. `UploadAllOrNothing`: if the last flush fails, inside `fclose` (`server_handlers.c:149`), a part of
   the upload is kept and reported as saved (`SavedInPart`), against `readme.md:208-209`.
9. `RmReportsTheRest`: if `opendir` fails, RM leaves all versions and reports success
   (`file_utils.c:59`, `server_handlers.c:317`), against `readme.md:96`.

## 6. Proofs

The theorems hold for any number of threads, names, mutexes, versions, sizes (negative ones
included), commands, clients and signals, from the named assumption of each module on its
constants (`StoreAssumption`, `TransferAssumption`, `ScanAssumption`, `DirectoriesAssumption`,
`ListenerAssumption`).
Every theorem of the form `Spec => []P` is by an inductive invariant that implies `P`.

`RfsStoreProofs`:

* `TypeCorrect`: `Spec => []TypeOK`, with every fault and process exit. `TypeOK` is not
  inductive: `TypeInv` adds that a thread past its first step knows its request and target
  (`Requested`), that one that works on a file has one (`Opened`), and that the counters
  are 0 before their loops (`Fresh`), without which `put <= count` would not be preserved.
* `VersionsAreWhole`: `Undisturbed => (Spec => [](VersionsWhole /\ SettledWhole))`.
  `Undisturbed` says that spellings of one file share a mutex, and that `flock`, the last flush, `remove`
  and the process do not fail. Each of these is needed. `rename` may fail, the clock may do anything,
  and names may extend each other. The argument: whoever is between lock and unlock holds the
  mutex of its file (`Owners`), so nobody else is there for the same file (`Exclusive`). Hence a
  WRITE writes to a file that was last opened for it (`OwnFile`), be it a new one or, after a failed
  `rename`, the one it has truncated, whose content is what has arrived (`Contents`); while it is written
  only `full_path` links it, and if an entry links it afterwards it is complete (`Linked`).
  Uploads of earlier days are whole until they are opened for another one (`Preserved`). Steps that
  touch neither directory nor data are dealt with once (`QuietStep`, `CalmStep`). The conjunction of all is `Inv`.

`RfsRetentionProofs`, which begins with what a step leaves alone (`OthersStay`,
`OnlyTheseWrite`, `OnlyTheseLock`, ...):

* `OnlyTheReportedIsLeft`: `Serialized => (Spec => []RmReportsTheRest)`, with every fault and any
  number of process ends: `Owners` survives them all (`OwnersStep`), so while a thread is in
  its critical section others at most remove entries of its file (`OthersOnlyRemove`), and
  `RmInv` says how far the RM has come: the file is gone, then what is left is in the scan,
  then nothing is left; at each point but for what is in `stuck`.
* `VersionsStay`, `UploadsStay`: `VersionsImmutable` and `NothingLostUnnoticed`, if spellings of one
  file share a mutex and the clock goes on, and under nothing else: with every failure and any number
  of process ends. `Inv` is of no use for that, since after a failed `fflush` or an interrupted `flock`
  a file need not hold what has arrived. `KeepInv` says less of contents and more of names. A file that
  has not been made is nowhere (`Unmade`), no file has two names (`LinkedOnce`), and one that is being
  written has the name by which it was opened or none (`OpenedByName`), one writer (`WrittenByOne`), and
  the length that stdio has passed on (`Extended`). A WRITE whose `rename` has not failed (`Unhindered`)
  finds its entry free at `fopen` (`Vacant`) and writes to a file of its own (`Placed`). An upload never
  receives too much (`Bounded`), and what is removed after an error has received too little
  (`CutShort`), so the `remove` of a failed WRITE hits no whole upload. To this `Clocked` adds
  that no version is younger than the clock, so `rename` replaces nothing. `ContentStays` and
  `NameStays` are the steps.
* `RepliesAreUnmixed`: `ReplyUnmixed`, if spellings of one file share a mutex; again with every failure,
  a failing `rename` included, and every process end. From `KeepInv`; `Pure` (a file holds chunks of the
  upload it was last opened for and no other); `Locks` and `Exclusion` (who has which `flock` where, so that
  nobody writes to a file that is being sent); `Silent` (nothing is sent before the lock is taken); and
  `ReplyInv`: what has been sent is of one upload, which is that of the file, or else the file has
  been truncated and nothing more can come of it as long as the reader has its lock (`Truncated`).
* `SettledFilesAreWhole`: the second half of `VersionsAreWhole` by itself.
* `VersionsSentWhole`: `GetVersionWhole`, under `Undisturbed` and without names that extend each
  other by `.v`. What a version name links is settled (`LinkedSettled`), what is settled stays
  as it is although no lock is held (`SettledStays`), and `FetchInv` follows the download.

`RfsNumberingProofs`, with every failure, any number of process ends, and RMs: `StoredNumbersAreAges`,
`Numberable => (Spec => []NumberedVersion)`, and `ListedNumbersResolve`, the same of `ListingAgrees`.
`Numberable` says that no two backups fall into one second (`SameSecond` is what happens otherwise),
the clock goes on, no names extend each other, and the array has room for all versions there can be;
each of these is a way in which the code's numbers do go wrong. `NumberInv` is `TypeInv`, `Clocked`,
that the array is empty before a scan (`ArrayFresh`), and `ScanInv`, which says of a scan in progress that what
was there at `opendir` had been named by then, and that all that has appeared since is *younger*.
Hence a WRITE that adds a version during the scan changes no number of an older one, whether
`readdir` returns it or not, and rank k in the array is rank k among the versions that were there
(`StampsOfVersions` counts them); `RankIsUnique` makes two scans agree.

`RfsRefinementProofs`: `HandlersImplementVersionedFiles`, `Ordinary => (Spec =>
ImplementsVersionedFiles)`, where `Ordinary` says that spellings share a mutex, the clock goes on, no names
extend each other and the process goes on (its end would end the sessions of all files in one step);
any other call may fail. `MapInv` adds to `KeepInv`, `Clocked` and `RmInv` that each operation makes its
own calls (`OwnCalls`), that a WRITE comes to its `rename` with something to put aside and no failure so
far (`ToPutAside`), that once its file is open its entry holds the new upload or nothing (`InPlace`), and
that no other entry does (`HeldOnce`). There is one lemma per step that shows in `VersionedFiles`:
`LockBegins`, `BackupMaps`, `FailureMaps`, `OpenMaps` (which is `Overwrite` after a failed `rename`),
`RemoveMaps`, `DeleteMainMaps`, `DeleteVersionMaps`, and `SessionEnds` with `WriteEnds` and `RmEnds`;
`Unnoticed` is the rest, and `StepMaps` puts them together.

`RfsScanProofs`, from `ScanAssumption` alone: `ScanInv` is `TypeOK`, what has been read
(`ReadInv`), the invariants of the two loops (`SortInv`) and of index and display (`IndexInv`).
From it `ScanTypeCorrect`, `ArrayIsComplete`, `ResolutionIsAtIndex`, `NumbersAreAges` and
`DisplayIsResolvable`, for an array of any length: the run's four properties, and `NumberIsAge`, which
says outright what the index computes (n counts from the oldest) and is no property of a run.

`RfsTransferProofs`, with every failure and kill: `TransferInv` is `TypeOK`, which program counters go
together (`ControlInv`), that the thread of a WRITE reads in step with the client (`LayoutInv`), what it
answers to a download (`AnswerInv`), how the ends of the connection and the streams are as long as
every call does its work (`EndsInv`), and what the local file (`LocalInv`) and the storage
(`UploadInv`) hold meanwhile. `EndIsTrouble` is the use of `EndsInv`: a client that meets the end of the stream within
a download knows that something failed, so the local copy is not lost for nothing. `Steps`,
`ClientFrame` and `ServerFrame` split each step into one of the client or of the thread and what the other side
keeps. From it `TransferTypeCorrect`, `DownloadsAreIntact`, `LocalFileNeverPartial`,
`UploadsAreAsSent`, `UploadsAreAllOrNothing`, `MissingSourcesAreHarmless`.

`RfsDirectoriesProofs`, for any tree without hard links to begin with and any requests. It has
four invariants, each of which contains the one before it:

* `Inv` is the tree (`TreeOK`), the threads (`ThreadsOK`, `Opened`), that the file and the
  directories of a thread are nowhere before its `fopen` and `mkdir` (`FileUnmade`,
  `DirectoriesUnmade`: without them `fopen` might link a file a second time), and who holds which
  mutex (`DirMutexHeld`, `MutexHeld`). From it `DirectoriesTypeCorrect` and `MutexesGivenBack`,
  for which it does not matter what `Walk` returns.
* `Whereabouts` gives `TreeHangsTogether`, that is `NothingStranded`. "Reachable" is not
  something that a step visibly keeps: a renamed directory carries along a subtree of any depth. So
  each node has a `Home`, a path that it never changes: the request path of the thread that
  made it, or, for what was there at first, any naming under which the tree hangs from the root
  within `MaxPathDepth` (`Rooted` says that there is one). `Shape` says that each entry is where the
  home of what it links has it, under its own name or put aside under a stamp, so a rename
  changes an entry and no home. A directory may be removed only when empty, so every parent is
  there, and `EverythingReached` goes up the homes. `Handled` says which node a thread holds on to.
* `FilesSafe` gives `FilesKept` (the action property `WholeFilesKept`) and `PartialsAside`
  (`PartialsOnlyAside`). `Own`: what a thread finds at its path is its own file, or one that is
  put aside by its backup, so that the `remove(full_path)` of a failed WRITE, which walks the
  path again, cannot hit a whole file. `Partial`: a file that is not whole is still being received,
  about to be removed, or inside a directory that has been put aside.
* `Orderly` gives `RefusedForCause` (`RefusedOnlyByConflict`). `Undisturbed`: as long as a WRITE has
  met no RM and no WRITE of the name of one of its directories, every directory that it has found or
  made so far is still in place. It needs `Unblocked`: no file stored at the start has the name of
  a directory on the path of a WRITE. Such a file refuses the WRITE too, with nobody else
  about, and the code means it to.

The recursive functions are unfolded (`WalkUnfolds`, `ReachedUnfolds`, `InPlaceUnfolds`) and reasoned
about with induction over a *set* of numbers (`SetInduction`, from the well-foundedness of the
naturals), which needs no operator parameter. `WalkHome` is what connects the tree with homes: what
`Walk[p]` finds has `p` as its home, or a home that was put aside.

`RfsListenerProofs`:

* `ListenerTypeCorrect`: `Spec => []TypeOK`, where `TypeOK` includes that at most one accepted
  connection has no thread; inductive with `Handover`, that `main` is then about to start it.
* `AtMostOneLate`: `Spec => []OneLateClient`, with the invariant that after a late client
  `main` is past `accept` and the flag is down, and never comes up again (`LateInv`).

Model-checked only: what is temporal, since liveness under fairness is out of the prover's reach,
that is `EveryRequestEnds`, `CommandEnds`, `CarriedOut`, `ShutdownUnlessStuck`,
`ConnectionsTakenCareOf` and the deadlock checks. Every other property of a passing run is stated by a theorem. The runs of section 5 are
counterexamples and need none.

## 7. Not modelled

What could still be added: a second signal during a handler, SIGTERM inside another handler, and the
listening socket being closed twice; GET of a directory; RM of the storage root itself; a failing
`rename` or `remove` among the directories of `RfsDirectories`.

Left out for good: `create_server_socket` and the set-up of `main` (sequential, once: a
failure ends the process before anything is served); formatting and logging; how the client
makes a local or remote name from its arguments, and its exit status, which is 0
whatever happened; the build files, the test script and the documentation.
