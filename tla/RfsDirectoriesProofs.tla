------------------------ MODULE RfsDirectoriesProofs ------------------------
(***************************************************************************)
(* Theorems about RfsDirectories, for any tree to begin with, any number   *)
(* of threads and any requests, of any depth.                              *)
(***************************************************************************)
EXTENDS RfsDirectories, SequenceTheorems, WellFoundedInduction, TLAPS

-----------------------------------------------------------------------------
(* The inductive invariant. *)

\* The tree: every entry leads to a file or a directory, and no two to the same.
TreeOK ==
  /\ DOMAIN link \subseteq Dirs \X Entries
  /\ \A x \in DOMAIN link : link[x] \in Nodes
  /\ \A x, y \in DOMAIN link : link[x] = link[y] => x = y
  /\ whole \subseteq Files
  /\ clock \in 0 .. MaxStamp

\* The threads: the parts of TypeOK about them, and that levels are counted from 1.
ThreadsOK ==
  /\ pc \in [Threads -> Pcs]
  /\ req \in [Threads -> Requests \cup {None}]
  /\ \A t \in Threads : pc[t] # "idle" => req[t] \in Requests
  /\ fd \in [Threads -> Files \cup {None}]
  /\ scan \in [Threads -> Dirs]
  /\ seen \in [Threads -> SUBSET Entries] /\ snap \in [Threads -> SUBSET Entries]
  /\ level \in [Threads -> Nat \ {0}]
  /\ \A t \in Threads : pc[t] = "mkdir" => level[t] < Len(Path(t))

\* Whoever receives a file has opened one.
Opened == \A t \in Threads : pc[t] = "recv" => fd[t] \in Files

\* The file of a thread is nowhere in the tree before its fopen, ...
FileUnmade ==
  \A t \in Threads :
    pc[t] \in {"idle", "dirlock", "mkdir", "dirunlock", "lock", "backup", "fopen"} =>
      \A x \in DOMAIN link : link[x] # t

\* ... and a directory nowhere before its mkdir.
DirectoriesUnmade ==
  \A t \in Threads, k \in Levels :
    \A x \in DOMAIN link :
      link[x] = <<t, k>> => pc[t] \notin {"idle", "dirlock"} /\ k < level[t]

DirPcs   == {"mkdir", "dirunlock", "dirfail"}
MutexPcs == {"backup", "fopen", "recv", "remove", "unlock", "delete", "opendir", "sweep"}

\* dir_mutex is held by the thread in create_directories_safe, and by no other.
DirMutexHeld ==
  /\ dirMutex \in Threads \cup {None}
  /\ \A t \in Threads : pc[t] \in DirPcs <=> dirMutex = t

\* A version mutex is held by a thread between lock and unlock, for its own path.
MutexHeld ==
  /\ mutex \in [Paths -> Threads \cup {None}]
  /\ \A t \in Threads, p \in Paths :
       mutex[p] = t => pc[t] \in MutexPcs /\ Path(t) = p

Inv ==
  /\ TreeOK
  /\ ThreadsOK
  /\ Opened
  /\ FileUnmade
  /\ DirectoriesUnmade
  /\ DirMutexHeld
  /\ MutexHeld

-----------------------------------------------------------------------------
(* Paths and nodes *)

\* The path of a thread is one of a request, and has a last name.
LEMMA PathTyping ==
  ASSUME Inv, NEW t \in Threads, pc[t] # "idle"
  PROVE  /\ Path(t) \in Paths
         /\ Path(t) \in Seq(Names)
         /\ Len(Path(t)) \in Nat \ {0}
         /\ Last(Path(t)) \in Names
         /\ \A k \in 1 .. Len(Path(t)) : Path(t)[k] \in Names
<1>1. req[t] \in Requests
  BY DEF Inv, ThreadsOK
<1>2. Path(t) \in Paths /\ Path(t) \in Seq(Names) \ {<<>>}
  BY <1>1, DirectoriesAssumption DEF Path, Paths
<1>3. Len(Path(t)) \in Nat /\ Len(Path(t)) # 0
  BY <1>2, EmptySeq, LenProperties
<1>4. \A k \in 1 .. Len(Path(t)) : Path(t)[k] \in Names
  BY <1>2, ElementOfSeq
<1> QED
  BY <1>2, <1>3, <1>4 DEF Last

\* The level of a thread in create_directories is one of its path.
LEMMA LevelTyping ==
  ASSUME Inv, NEW t \in Threads, pc[t] = "mkdir"
  PROVE  level[t] \in Levels /\ level[t] \in 1 .. Len(Path(t)) - 1
<1>1. req[t] \in Requests /\ level[t] \in Nat \ {0} /\ level[t] < Len(Path(t))
  BY DEF Inv, ThreadsOK
<1>2. Len(Path(t)) \in Nat
  BY PathTyping
<1>3. level[t] \in 1 .. Len(req[t].path) - 1
  BY <1>1, <1>2 DEF Path
<1> QED
  BY <1>1, <1>3 DEF Levels, Path

\* What can be told apart.
LEMMA NodesApart ==
  /\ None \notin Threads /\ None \notin Files /\ None \notin Dirs
  /\ Dirs \cap Files = {}
  /\ Threads \subseteq Files
  /\ \A t, u \in Threads, k \in Levels : t # <<u, k>>
BY DirectoriesAssumption DEF Nodes, Dirs, Files

-----------------------------------------------------------------------------
(* The tree *)

\* What remove does to the tree: nothing, or an entry goes.
LEMMA RemoveShrinks ==
  ASSUME Inv, NEW d, NEW e, RemoveEntry(d, e)
  PROVE  /\ DOMAIN link' \subseteq DOMAIN link
         /\ \A x \in DOMAIN link' : link'[x] = link[x]
BY DEF RemoveEntry, Without

\* What is looked up is in the tree, or nothing is found.
LEMMA LookupTyping ==
  ASSUME Inv, NEW d, NEW e
  PROVE  /\ Lookup(d, e) # None => /\ <<d, e>> \in DOMAIN link
                                   /\ Lookup(d, e) = link[<<d, e>>]
                                   /\ Lookup(d, e) \in Nodes
         /\ Lookup(d, e) = None => <<d, e>> \notin DOMAIN link
BY NodesApart, DirectoriesAssumption DEF Inv, TreeOK, Lookup, Nodes

-----------------------------------------------------------------------------
(* Steps *)

\* A request is accepted or rejected, and nothing else happens.
LEMMA RequestStep ==
  ASSUME Inv, NEW t \in Threads, Request(t)
  PROVE  /\ pc[t] = "idle"
         /\ \E next \in {"rejected", "dirlock", "lock", "stat"} :
              pc' = [pc EXCEPT ![t] = next]
         /\ \E r \in Requests : req' = [req EXCEPT ![t] = r]
         /\ UNCHANGED <<tree, locks, level, fd, scanVars, clock>>
<1>1. PICK r \in Requests :
        /\ Goto(t, "idle", IF ~ValidPath(r.path) THEN "rejected"
                           ELSE CASE r.op = "WRITE" -> "dirlock"
                                  [] r.op = "RM"    -> "lock"
                                  [] r.op = "LS"    -> "stat")
        /\ req' = [req EXCEPT ![t] = r]
        /\ UNCHANGED <<tree, locks, level, fd, scanVars, clock>>
  BY DEF Request
<1>2. r.op \in {"WRITE", "RM", "LS"}
  BY DirectoriesAssumption
<1> QED
  BY <1>1, <1>2 DEF Goto

\* Every step keeps the two kinds of mutex with those that work under them.
LEMMA LocksStep ==
  ASSUME Inv, NEW t \in Threads, Request(t) \/ Serve(t)
  PROVE  DirMutexHeld' /\ MutexHeld'
<1> USE DEF Goto, locks, tree, scanVars, Path
<1>1. /\ pc \in [Threads -> Pcs] /\ None \notin Threads
      /\ DirMutexHeld /\ MutexHeld
  BY NodesApart DEF Inv, ThreadsOK
<1>2. pc[t] # "idle" => req[t].path \in Paths
  BY PathTyping DEF Path
<1>3. CASE Request(t)
  <2>1. PICK next \in {"rejected", "dirlock", "lock", "stat"} :
          pc' = [pc EXCEPT ![t] = next]
    BY <1>3, RequestStep
  <2>2. pc[t] = "idle" /\ \A u \in Threads \ {t} : req'[u] = req[u]
    BY <1>3, RequestStep DEF Inv, ThreadsOK
  <2>3. UNCHANGED locks
    BY <1>3, RequestStep
  <2> QED
    BY <1>1, <2>1, <2>2, <2>3 DEF DirMutexHeld, MutexHeld, DirPcs, MutexPcs
<1>4. CASE LockDirectories(t)
  BY <1>1, <1>2, <1>4 DEF LockDirectories, DirMutexHeld, MutexHeld, DirPcs, MutexPcs, Pcs, EndPcs
<1>5. CASE Mkdir(t)
  BY <1>1, <1>2, <1>5 DEF Mkdir, DirMutexHeld, MutexHeld, DirPcs, MutexPcs, Pcs, EndPcs
<1>6. CASE UnlockDirectories(t)
  BY <1>1, <1>2, <1>6 DEF UnlockDirectories, DirMutexHeld, MutexHeld, DirPcs, MutexPcs, Pcs, EndPcs
<1>7. CASE LockVersionMutex(t)
  BY <1>1, <1>2, <1>7 DEF LockVersionMutex, DirMutexHeld, MutexHeld, DirPcs, MutexPcs, Pcs, EndPcs
<1>8. CASE Backup(t)
  BY <1>1, <1>2, <1>8 DEF Backup, DirMutexHeld, MutexHeld, DirPcs, MutexPcs, Pcs, EndPcs
<1>9. CASE Fopen(t)
  BY <1>1, <1>2, <1>9 DEF Fopen, DirMutexHeld, MutexHeld, DirPcs, MutexPcs, Pcs, EndPcs
<1>10. CASE FopenFails(t)
  BY <1>1, <1>2, <1>10 DEF FopenFails, Release, DirMutexHeld, MutexHeld, DirPcs, MutexPcs, Pcs, EndPcs
<1>11. CASE ReceiveFile(t)
  BY <1>1, <1>2, <1>11 DEF ReceiveFile, DirMutexHeld, MutexHeld, DirPcs, MutexPcs, Pcs, EndPcs
<1>12. CASE RemovePartial(t)
  BY <1>1, <1>2, <1>12 DEF RemovePartial, DirMutexHeld, MutexHeld, DirPcs, MutexPcs, Pcs, EndPcs
<1>13. CASE UnlockVersionMutex(t)
  BY <1>1, <1>2, <1>13 DEF UnlockVersionMutex, Release, DirMutexHeld, MutexHeld, DirPcs, MutexPcs, Pcs, EndPcs
<1>14. CASE DeleteMain(t)
  BY <1>1, <1>2, <1>14 DEF DeleteMain, DirMutexHeld, MutexHeld, DirPcs, MutexPcs, Pcs, EndPcs
<1>15. CASE OpenDirectory(t)
  BY <1>1, <1>2, <1>15 DEF OpenDirectory, DirMutexHeld, MutexHeld, DirPcs, MutexPcs, Pcs, EndPcs
<1>16. CASE OpenDirectoryFails(t)
  BY <1>1, <1>2, <1>16 DEF OpenDirectoryFails, DirMutexHeld, MutexHeld, DirPcs, MutexPcs, Pcs, EndPcs
<1>17. CASE ReadDirectory(t)
  BY <1>1, <1>2, <1>17 DEF ReadDirectory, DirMutexHeld, MutexHeld, DirPcs, MutexPcs, Pcs, EndPcs
<1>18. CASE DirectoryEnds(t)
  BY <1>1, <1>2, <1>18 DEF DirectoryEnds, DirMutexHeld, MutexHeld, DirPcs, MutexPcs, Pcs, EndPcs
<1>19. CASE Stat(t)
  BY <1>1, <1>2, <1>19 DEF Stat, DirMutexHeld, MutexHeld, DirPcs, MutexPcs, Pcs, EndPcs
<1> QED
  BY <1>3, <1>4, <1>5, <1>6, <1>7, <1>8, <1>9, <1>10, <1>11, <1>12, <1>13, <1>14, <1>15, <1>16, <1>17, <1>18, <1>19 DEF Serve

\* Every step leaves a tree.
LEMMA TreeStep ==
  ASSUME Inv, NEW t \in Threads, Request(t) \/ Serve(t)
  PROVE  TreeOK'
<1> USE DEF Goto, locks, tree, scanVars
<1>1. TreeOK
  BY DEF Inv
<1>2. CASE Request(t)
  BY <1>1, <1>2, RequestStep DEF TreeOK
<1>3. CASE LockDirectories(t)
  BY <1>1, <1>3 DEF LockDirectories, TreeOK
<1>4. CASE Mkdir(t)
  <2> DEFINE k == level[t]
             d == Walk[SubSeq(Path(t), 1, k - 1)]
             e == Main(Path(t)[k])
  <2>1. k \in Levels /\ e \in Entries /\ pc[t] = "mkdir"
    BY <1>4, LevelTyping, PathTyping, DirectoriesAssumption DEF Mkdir, Main, Entries
  <2>2. <<t, k>> \in Nodes /\ \A x \in DOMAIN link : link[x] # <<t, k>>
    BY <2>1 DEF Inv, DirectoriesUnmade, ThreadsOK, Nodes, Dirs
  <2>3. CASE MkdirResult(d, e) = "made"
    <3>1. d \in Dirs
      BY <2>3 DEF MkdirResult
    <3>2. link' = With(d, e, <<t, k>>)
      BY <1>4, <2>3 DEF Mkdir
    <3> QED
      BY <1>1, <2>1, <2>2, <3>1, <3>2, <1>4 DEF Mkdir, TreeOK, With
  <2>4. CASE MkdirResult(d, e) # "made"
    BY <1>1, <1>4, <2>4 DEF Mkdir, TreeOK
  <2> QED
    BY <2>3, <2>4
<1>5. CASE UnlockDirectories(t)
  BY <1>1, <1>5 DEF UnlockDirectories, TreeOK
<1>6. CASE LockVersionMutex(t)
  BY <1>1, <1>6 DEF LockVersionMutex, TreeOK
<1>7. CASE Backup(t)
  <2> DEFINE d == Walk[Front(Path(t))]
             n == Last(Path(t))
  <2>1. n \in Names
    BY <1>7, PathTyping DEF Backup
  <2>2. CASE Lookup(d, Main(n)) = None
    BY <1>1, <1>7, <2>2 DEF Backup, TreeOK
  <2>3. CASE Lookup(d, Main(n)) # None
    <3>1. <<d, Main(n)>> \in DOMAIN link /\ d \in Dirs
      BY <1>1, <2>3, LookupTyping DEF TreeOK
    <3>2. clock' \in 0 .. MaxStamp /\ <<n, clock'>> \in Entries
      BY <1>1, <2>1, <2>3, <1>7, DirectoriesAssumption DEF Backup, TreeOK, Entries
    <3>3. link' = Renamed(d, Main(n), <<n, clock'>>) /\ whole' = whole
      BY <2>3, <1>7 DEF Backup
    <3> QED
      BY <1>1, <3>1, <3>2, <3>3 DEF TreeOK, Renamed
  <2> QED
    BY <2>2, <2>3
<1>8. CASE Fopen(t)
  <2> DEFINE d == Walk[Front(Path(t))]
             e == Main(Last(Path(t)))
             file == IF Lookup(d, e) = None THEN t ELSE Lookup(d, e)
  <2>1. d \in Dirs /\ e \in Entries
    BY <1>8, PathTyping, DirectoriesAssumption DEF Fopen, Main, Entries
  <2>2. \A x \in DOMAIN link : link[x] # t
    BY <1>8 DEF Fopen, Inv, FileUnmade
  <2>3. file \in Files
    BY <1>8, LookupTyping, NodesApart DEF Fopen, Nodes
  <2>4. \A x \in DOMAIN link : link[x] = file => x = <<d, e>>
    BY <1>1, <2>2, LookupTyping DEF TreeOK
  <2>5. link' = With(d, e, file) /\ whole' = whole \ {file} /\ clock' = clock
    BY <1>8 DEF Fopen
  <2> QED
    BY <1>1, <2>1, <2>3, <2>4, <2>5 DEF TreeOK, With, Nodes
<1>9. CASE FopenFails(t)
  BY <1>1, <1>9 DEF FopenFails, Release, TreeOK
<1>10. CASE ReceiveFile(t)
  BY <1>1, <1>10 DEF ReceiveFile, TreeOK, Inv, Opened
<1>11. CASE RemovePartial(t)
  BY <1>1, <1>11, RemoveShrinks DEF RemovePartial, RemovePath, TreeOK
<1>12. CASE UnlockVersionMutex(t)
  BY <1>1, <1>12 DEF UnlockVersionMutex, Release, TreeOK
<1>13. CASE DeleteMain(t)
  BY <1>1, <1>13, RemoveShrinks DEF DeleteMain, RemovePath, TreeOK
<1>14. CASE OpenDirectory(t)
  BY <1>1, <1>14 DEF OpenDirectory, TreeOK
<1>15. CASE OpenDirectoryFails(t)
  BY <1>1, <1>15 DEF OpenDirectoryFails, TreeOK
<1>16. CASE ReadDirectory(t)
  <2>1. /\ whole' = whole /\ clock' = clock
        /\ link' = link \/ \E d, e : RemoveEntry(d, e)
    BY <1>16 DEF ReadDirectory
  <2> QED
    BY <1>1, <2>1, RemoveShrinks DEF TreeOK
<1>17. CASE DirectoryEnds(t)
  BY <1>1, <1>17 DEF DirectoryEnds, TreeOK
<1>18. CASE Stat(t)
  BY <1>1, <1>18 DEF Stat, TreeOK
<1> QED
  BY <1>2, <1>3, <1>4, <1>5, <1>6, <1>7, <1>8, <1>9, <1>10, <1>11, <1>12, <1>13, <1>14, <1>15, <1>16, <1>17, <1>18 DEF Serve

\* Every step leaves threads in order.
LEMMA ThreadsStep ==
  ASSUME Inv, NEW t \in Threads, Request(t) \/ Serve(t)
  PROVE  ThreadsOK' /\ Opened'
<1> USE DEF Goto, locks, tree, scanVars
<1>1. ThreadsOK /\ Opened
  BY DEF Inv
<1>2. pc[t] # "idle" => Len(Path(t)) \in Nat \ {0}
  BY PathTyping
<1>3. DOMAIN link \subseteq Dirs \X Entries
  BY DEF Inv, TreeOK
<1>4. Root \in Dirs
  BY DEF Dirs
<1>5. CASE Request(t)
  <2>1. PICK next \in {"rejected", "dirlock", "lock", "stat"} :
          pc' = [pc EXCEPT ![t] = next]
    BY <1>5, RequestStep
  <2>2. PICK r \in Requests : req' = [req EXCEPT ![t] = r]
    BY <1>5, RequestStep
  <2>3. pc[t] = "idle" /\ UNCHANGED <<level, fd, scan, seen, snap>>
    BY <1>5, RequestStep
  <2>4. pc' \in [Threads -> Pcs] /\ \A u \in Threads : u # t => pc'[u] = pc[u]
    BY <1>1, <2>1 DEF ThreadsOK, Pcs, EndPcs
  <2>5. \A u \in Threads : pc'[u] # "idle" => req'[u] \in Requests
    BY <1>1, <2>1, <2>2, <2>3 DEF ThreadsOK
  <2> QED
    BY <1>1, <2>1, <2>2, <2>3, <2>4, <2>5 DEF ThreadsOK, Opened, Path
<1>6. CASE LockDirectories(t)
  <2>1. /\ level' = [level EXCEPT ![t] = 1]
        /\ pc[t] = "dirlock"
        /\ \/ pc' = [pc EXCEPT ![t] = "dirunlock"]
           \/ Len(Path(t)) > 1 /\ pc' = [pc EXCEPT ![t] = "mkdir"]
        /\ UNCHANGED <<req, fd, scan, seen, snap>>
    <3>1. CASE Len(Path(t)) = 1
      BY <1>6, <3>1 DEF LockDirectories
    <3>2. CASE Len(Path(t)) # 1
      <4>1. pc[t] = "dirlock"
        BY <1>6 DEF LockDirectories
      <4>2. Len(Path(t)) > 1
        <5> DEFINE n == Len(Path(t))
        <5>1. n \in Nat \ {0} /\ n # 1
          BY <1>2, <3>2, <4>1
        <5> HIDE DEF n
        <5>2. n > 1
          BY <5>1
        <5> QED
          BY <5>2 DEF n
      <4> QED
        BY <1>6, <3>2, <4>1, <4>2 DEF LockDirectories
    <3> QED
      BY <3>1, <3>2
  <2> QED
    BY <1>1, <2>1 DEF ThreadsOK, Opened, Path, Pcs, EndPcs
<1>7. CASE Mkdir(t)
  <2>1. level[t] \in 1 .. Len(Path(t)) - 1
    BY <1>7, LevelTyping DEF Mkdir
  <2>2. /\ level' = [level EXCEPT ![t] = level[t] + 1]
        /\ \/ pc' = [pc EXCEPT ![t] = "dirfail"]
           \/ pc' = [pc EXCEPT ![t] = "dirunlock"]
           \/ level[t] # Len(Path(t)) - 1 /\ pc' = [pc EXCEPT ![t] = "mkdir"]
        /\ UNCHANGED <<req, fd, scan, seen, snap>>
    BY <1>7 DEF Mkdir, IsLastDirectory
  <2>3. Len(Path(t)) \in Nat /\ Path(t)' = Path(t) /\ pc[t] # "idle"
    BY <1>2, <2>2, <1>7 DEF Mkdir, Path
  <2>4. pc'[t] = "mkdir" => level'[t] < Len(Path(t)')
    BY <1>1, <2>1, <2>2, <2>3 DEF ThreadsOK
  <2>5. level' \in [Threads -> Nat \ {0}] /\ pc' \in [Threads -> Pcs]
    BY <1>1, <2>1, <2>2 DEF ThreadsOK, Pcs, EndPcs
  <2>6. \A u \in Threads : u # t => pc'[u] = pc[u] /\ level'[u] = level[u]
    BY <1>1, <2>2 DEF ThreadsOK
  <2> QED
    BY <1>1, <2>2, <2>3, <2>4, <2>5, <2>6 DEF ThreadsOK, Opened, Path
<1>8. CASE UnlockDirectories(t)
  BY <1>1, <1>2, <1>3, <1>4, <1>8 DEF UnlockDirectories, ThreadsOK, Opened, Path, Pcs, EndPcs
<1>9. CASE LockVersionMutex(t)
  BY <1>1, <1>2, <1>3, <1>4, <1>9 DEF LockVersionMutex, ThreadsOK, Opened, Path, Pcs, EndPcs
<1>10. CASE Backup(t)
  BY <1>1, <1>2, <1>3, <1>4, <1>10 DEF Backup, ThreadsOK, Opened, Path, Pcs, EndPcs
<1>11. CASE Fopen(t)
  <2> DEFINE d == Walk[Front(Path(t))]
             e == Main(Last(Path(t)))
             file == IF Lookup(d, e) = None THEN t ELSE Lookup(d, e)
  <2>1. file \in Files
    BY <1>11, LookupTyping, NodesApart DEF Fopen, Nodes
  <2>2. fd' = [fd EXCEPT ![t] = file]
    BY <1>11 DEF Fopen
  <2> HIDE DEF file
  <2> QED
    BY <1>1, <2>1, <2>2, <1>11 DEF Fopen, ThreadsOK, Opened, Path, Pcs, EndPcs
<1>12. CASE FopenFails(t)
  BY <1>1, <1>2, <1>3, <1>4, <1>12 DEF FopenFails, Release, ThreadsOK, Opened, Path, Pcs, EndPcs
<1>13. CASE ReceiveFile(t)
  BY <1>1, <1>2, <1>3, <1>4, <1>13 DEF ReceiveFile, ThreadsOK, Opened, Path, Pcs, EndPcs
<1>14. CASE RemovePartial(t)
  BY <1>1, <1>2, <1>3, <1>4, <1>14 DEF RemovePartial, ThreadsOK, Opened, Path, Pcs, EndPcs
<1>15. CASE UnlockVersionMutex(t)
  BY <1>1, <1>2, <1>3, <1>4, <1>15 DEF UnlockVersionMutex, Release, ThreadsOK, Opened, Path, Pcs, EndPcs
<1>16. CASE DeleteMain(t)
  BY <1>1, <1>2, <1>3, <1>4, <1>16 DEF DeleteMain, ThreadsOK, Opened, Path, Pcs, EndPcs
<1>17. CASE OpenDirectory(t)
  <2> DEFINE d == Walk[IF req[t].op = "LS" THEN Path(t) ELSE Front(Path(t))]
  <2>1. d \in Dirs /\ {e \in Holds(d) : Matches(t, e)} \in SUBSET Entries
    BY <1>3, <1>17 DEF OpenDirectory, Holds
  <2> HIDE DEF d
  <2>2. /\ scan' = [scan EXCEPT ![t] = d]
        /\ snap' = [snap EXCEPT ![t] = {e \in Holds(d) : Matches(t, e)}]
    BY <1>17 DEF OpenDirectory, d
  <2>3. /\ pc' = [pc EXCEPT ![t] = "sweep"] \/ pc' = [pc EXCEPT ![t] = "readdir"]
        /\ seen' = [seen EXCEPT ![t] = {}]
        /\ UNCHANGED <<req, fd, level>>
    BY <1>17 DEF OpenDirectory
  <2> HIDE DEF d
  <2>4. /\ scan' \in [Threads -> Dirs]
        /\ snap' \in [Threads -> SUBSET Entries] /\ seen' \in [Threads -> SUBSET Entries]
    BY <1>1, <2>1, <2>2, <2>3 DEF ThreadsOK
  <2>5. pc[t] # "idle"
    BY <1>17 DEF OpenDirectory
  <2> QED
    BY <1>1, <2>3, <2>4, <2>5 DEF ThreadsOK, Opened, Path, Pcs, EndPcs
<1>18. CASE OpenDirectoryFails(t)
  BY <1>1, <1>2, <1>3, <1>4, <1>18 DEF OpenDirectoryFails, ThreadsOK, Opened, Path, Pcs, EndPcs
<1>19. CASE ReadDirectory(t)
  <2>1. PICK e \in Holds(scan[t]) \ seen[t] : seen' = [seen EXCEPT ![t] = @ \cup {e}]
    BY <1>19 DEF ReadDirectory
  <2>2. e \in Entries
    BY <1>3, <2>1 DEF Holds
  <2> QED
    BY <1>1, <2>1, <2>2, <1>19 DEF ReadDirectory, ThreadsOK, Opened, Path
<1>20. CASE DirectoryEnds(t)
  BY <1>1, <1>2, <1>3, <1>4, <1>20 DEF DirectoryEnds, ThreadsOK, Opened, Path, Pcs, EndPcs
<1>21. CASE Stat(t)
  BY <1>1, <1>2, <1>3, <1>4, <1>21 DEF Stat, ThreadsOK, Opened, Path, Pcs, EndPcs
<1> QED
  BY <1>5, <1>6, <1>7, <1>8, <1>9, <1>10, <1>11, <1>12, <1>13, <1>14, <1>15, <1>16, <1>17, <1>18, <1>19, <1>20, <1>21 DEF Serve

\* A thread makes no file or directory before its time.
LEMMA UnmadeStep ==
  ASSUME Inv, NEW t \in Threads, Request(t) \/ Serve(t)
  PROVE  FileUnmade' /\ DirectoriesUnmade'
<1> USE DEF Goto, locks, tree, scanVars
<1>1. /\ FileUnmade /\ DirectoriesUnmade
      /\ pc \in [Threads -> Pcs] /\ level \in [Threads -> Nat \ {0}]
  BY DEF Inv, ThreadsOK
<1>2. (\E d, e : RemoveEntry(d, e)) =>
        /\ DOMAIN link' \subseteq DOMAIN link
        /\ \A x \in DOMAIN link' : link'[x] = link[x]
  BY RemoveShrinks
<1>3. CASE Request(t)
  BY <1>1, <1>2, <1>3, RequestStep DEF FileUnmade, DirectoriesUnmade
<1>4. CASE LockDirectories(t)
  BY <1>1, <1>2, <1>4 DEF LockDirectories, FileUnmade, DirectoriesUnmade
<1>5. CASE Mkdir(t)
  <2> DEFINE k == level[t]
             d == Walk[SubSeq(Path(t), 1, k - 1)]
             e == Main(Path(t)[k])
  <2>1. /\ \A x \in DOMAIN link' :
             link'[x] = <<t, k>> \/ (x \in DOMAIN link /\ link'[x] = link[x])
        /\ level' = [level EXCEPT ![t] = k + 1]
        /\ pc[t] = "mkdir"
        /\ \E next \in {"dirfail", "dirunlock", "mkdir"} : pc' = [pc EXCEPT ![t] = next]
    BY <1>5 DEF Mkdir, With
  <2>2. k \in Levels /\ k \in Nat /\ level' \in [Threads -> Nat \ {0}]
    BY <1>1, <2>1, LevelTyping
  <2>3. \A u \in Threads : u # <<t, k>>
    BY <2>2, NodesApart
  <2> QED
    BY <1>1, <2>1, <2>2, <2>3 DEF FileUnmade, DirectoriesUnmade, Levels
<1>6. CASE UnlockDirectories(t)
  BY <1>1, <1>2, <1>6 DEF UnlockDirectories, FileUnmade, DirectoriesUnmade
<1>7. CASE LockVersionMutex(t)
  BY <1>1, <1>2, <1>7 DEF LockVersionMutex, FileUnmade, DirectoriesUnmade
<1>8. CASE Backup(t)
  <2>1. /\ \A x \in DOMAIN link' : \E y \in DOMAIN link : link'[x] = link[y]
        /\ level' = level
        /\ pc[t] = "backup" /\ pc' = [pc EXCEPT ![t] = "fopen"]
    BY <1>8, LookupTyping DEF Backup, Renamed
  <2> QED
    BY <1>1, <2>1 DEF FileUnmade, DirectoriesUnmade
<1>9. CASE Fopen(t)
  <2>1. /\ \A x \in DOMAIN link' :
             link'[x] = t \/ \E y \in DOMAIN link : link'[x] = link[y]
        /\ level' = level
        /\ pc[t] = "fopen" /\ pc' = [pc EXCEPT ![t] = "recv"]
    BY <1>9, LookupTyping DEF Fopen, With
  <2> QED
    BY <1>1, <2>1, NodesApart DEF FileUnmade, DirectoriesUnmade
<1>10. CASE FopenFails(t)
  BY <1>1, <1>2, <1>10 DEF FopenFails, Release, FileUnmade, DirectoriesUnmade
<1>11. CASE ReceiveFile(t)
  BY <1>1, <1>2, <1>11 DEF ReceiveFile, FileUnmade, DirectoriesUnmade
<1>12. CASE RemovePartial(t)
  BY <1>1, <1>2, <1>12 DEF RemovePartial, RemovePath, FileUnmade, DirectoriesUnmade
<1>13. CASE UnlockVersionMutex(t)
  BY <1>1, <1>2, <1>13 DEF UnlockVersionMutex, Release, FileUnmade, DirectoriesUnmade
<1>14. CASE DeleteMain(t)
  BY <1>1, <1>2, <1>14 DEF DeleteMain, RemovePath, FileUnmade, DirectoriesUnmade
<1>15. CASE OpenDirectory(t)
  BY <1>1, <1>2, <1>15 DEF OpenDirectory, FileUnmade, DirectoriesUnmade
<1>16. CASE OpenDirectoryFails(t)
  BY <1>1, <1>2, <1>16 DEF OpenDirectoryFails, FileUnmade, DirectoriesUnmade
<1>17. CASE ReadDirectory(t)
  <2>1. /\ UNCHANGED <<pc, level>>
        /\ link' = link \/ \E d, e : RemoveEntry(d, e)
    BY <1>17 DEF ReadDirectory
  <2> QED
    BY <1>1, <1>2, <2>1 DEF FileUnmade, DirectoriesUnmade
<1>18. CASE DirectoryEnds(t)
  BY <1>1, <1>2, <1>18 DEF DirectoryEnds, FileUnmade, DirectoriesUnmade
<1>19. CASE Stat(t)
  BY <1>1, <1>2, <1>19 DEF Stat, FileUnmade, DirectoriesUnmade
<1> QED
  BY <1>3, <1>4, <1>5, <1>6, <1>7, <1>8, <1>9, <1>10, <1>11, <1>12, <1>13, <1>14, <1>15, <1>16, <1>17, <1>18, <1>19 DEF Serve

-----------------------------------------------------------------------------
(* Theorems *)

\* The invariant holds at first, ...
LEMMA InvInit == Init => Inv
<1> SUFFICES ASSUME Init PROVE Inv
  OBVIOUS
<1> USE DEF Init
<1>1. TreeOK
  BY DirectoriesAssumption DEF TreeOK, Dirs, Nodes, Files
<1>2. ThreadsOK /\ Opened
  BY DEF ThreadsOK, Opened, Pcs, Dirs
<1>3. FileUnmade
  BY DirectoriesAssumption DEF FileUnmade, Dirs, Files
<1>4. DirectoriesUnmade
  BY DirectoriesAssumption DEF DirectoriesUnmade, Dirs, Files
<1>5. DirMutexHeld /\ MutexHeld
  BY NodesApart DEF DirMutexHeld, MutexHeld, DirPcs
<1> QED
  BY <1>1, <1>2, <1>3, <1>4, <1>5 DEF Inv

\* ... while nothing happens, ...
LEMMA InvStutter == Inv /\ UNCHANGED vars => Inv'
BY DEF Inv, vars, tree, locks, scanVars, TreeOK, ThreadsOK, Opened, FileUnmade,
       DirectoriesUnmade, DirMutexHeld, MutexHeld, Path

\* ... after every step, ...
LEMMA InvNext == Inv /\ [Next]_vars => Inv'
<1> SUFFICES ASSUME Inv, [Next]_vars PROVE Inv'
  OBVIOUS
<1>1. CASE UNCHANGED vars
  BY <1>1, InvStutter
<1>2. ASSUME NEW t \in Threads, Request(t) \/ Serve(t)
      PROVE  Inv'
  BY <1>2, LocksStep, TreeStep, ThreadsStep, UnmadeStep DEF Inv
<1> QED
  BY <1>1, <1>2 DEF Next

\* ... and so always.
LEMMA InvAlways == Spec => []Inv
BY InvInit, InvNext, PTL DEF Spec

\* The tree stays a tree, in which no file or directory is entered twice, whatever is
\* created, removed and renamed meanwhile (create_directories_safe, backup_file, remove).
THEOREM DirectoriesTypeCorrect == Spec => []TypeOK
<1>1. Inv => TypeOK
  BY DEF Inv, TypeOK, TreeOK, ThreadsOK, DirMutexHeld, MutexHeld, DirPcs
<1> QED
  BY <1>1, InvAlways, PTL

\* The two kinds of mutex are never nested and are given back on every path through
\* create_directories_safe, handle_write_request and handle_rm_request.
THEOREM MutexesGivenBack == Spec => []LocksGivenBack
<1>1. Inv => LocksGivenBack
  BY NodesApart DEF Inv, LocksGivenBack, DirMutexHeld, MutexHeld, DirPcs, MutexPcs
<1> QED
  BY <1>1, InvAlways, PTL

-----------------------------------------------------------------------------
(* Induction and recursion.  Walk, Reached and InPlace are recursive functions: that    *)
(* they satisfy their equations follows from the principle that a set of numbers has a  *)
(* least element, and so does what they return for every path and every depth.          *)

\* A set of numbers that has an element has a least one.
LEMMA LeastNumber ==
  ASSUME NEW T, T \subseteq Nat, T # {}
  PROVE  \E m \in T : \A n \in T : m <= n
<1> DEFINE less == OpToRel(<, Nat)
<1>1. IsWellFoundedOn(less, Nat)
  BY NatLessThanWellFounded
<1>2. \A m, n \in Nat : <<n, m>> \in less <=> n < m
  BY DEF OpToRel
<1> HIDE DEF less
<1>3. PICK m \in T : \A n \in T : <<n, m>> \notin less
  BY <1>1, WFMin
<1>4. \A n \in T : m \in Nat /\ n \in Nat /\ ~ (n < m)
  BY <1>2, <1>3
<1> QED
  BY <1>4

\* A set of numbers that has 0, and the successor of each of its numbers, has them all.
LEMMA SetInduction ==
  ASSUME NEW S, 0 \in S, \A n \in Nat : n \in S => n + 1 \in S
  PROVE  Nat \subseteq S
<1> SUFFICES ASSUME Nat \ S # {} PROVE FALSE
  OBVIOUS
<1>1. PICK m \in Nat \ S : \A n \in Nat \ S : m <= n
  BY LeastNumber
<1>2. m # 0 /\ m - 1 \in Nat
  BY <1>1
<1>3. m - 1 \in S
  BY <1>1, <1>2
<1> QED
  BY <1>1, <1>2, <1>3

\* The first n values of the iteration of m from z ...
Begins(V, z, m, g, n) ==
  /\ g \in [0 .. n -> V]
  /\ g[0] = z
  /\ \A k \in 0 .. n - 1 : g[k + 1] = m[g[k]]

\* What begins so can be continued by one, ...
LEMMA BeginsLonger ==
  ASSUME NEW V, NEW z \in V, NEW m \in [V -> V], NEW n \in Nat,
         NEW g, Begins(V, z, m, g, n)
  PROVE  \E h : Begins(V, z, m, h, n + 1)
<1> DEFINE next == m[g[n]]
           h == [k \in 0 .. n + 1 |-> IF k = n + 1 THEN next ELSE g[k]]
<1>1. next \in V
  BY DEF Begins
<1>2. h \in [0 .. n + 1 -> V] /\ h[0] = z
  <2> HIDE DEF next
  <2> QED
    BY <1>1 DEF Begins
<1>3. ASSUME NEW k \in 0 .. n PROVE h[k + 1] = m[h[k]]
  <2>1. CASE k = n
    <3>1. h[k + 1] = next /\ h[k] = g[n]
      BY <2>1
    <3> QED
      BY <2>1, <3>1
  <2>2. CASE k # n
    <3>1. h[k + 1] = g[k + 1] /\ h[k] = g[k] /\ k \in 0 .. n - 1
      BY <2>2
    <3> QED
      BY <3>1 DEF Begins
  <2> QED
    BY <2>1, <2>2
<1> HIDE DEF h
<1> QED
  BY <1>2, <1>3 DEF Begins

\* Two such beginnings agree as far as both go.
LEMMA BeginsAgree ==
  ASSUME NEW V, NEW z \in V, NEW m \in [V -> V],
         NEW l \in Nat, NEW g, Begins(V, z, m, g, l),
         NEW n \in Nat, NEW h, Begins(V, z, m, h, n),
         NEW i \in Nat, i <= l, i <= n
  PROVE  g[i] = h[i]
<1> DEFINE S == {k \in Nat : k <= l /\ k <= n => g[k] = h[k]}
<1>1. 0 \in S
  BY DEF Begins
<1>2. ASSUME NEW k \in Nat, k \in S PROVE k + 1 \in S
  <2> SUFFICES ASSUME k + 1 <= l, k + 1 <= n PROVE g[k + 1] = h[k + 1]
    OBVIOUS
  <2>1. g[k] = h[k] /\ k \in 0 .. l - 1 /\ k \in 0 .. n - 1
    BY <1>2
  <2>2. g[k + 1] = m[g[k]] /\ h[k + 1] = m[h[k]]
    BY <2>1 DEF Begins
  <2> QED
    BY <2>1, <2>2
<1>3. Nat \subseteq S
  <2> HIDE DEF S
  <2> QED
    BY <1>1, <1>2, SetInduction
<1> QED
  BY <1>3

\* ... and all of them.
Iterates(V, z, m, f) ==
  /\ f \in [Nat -> V]
  /\ f[0] = z
  /\ \A n \in Nat : f[n + 1] = m[f[n]]

\* Every function can be iterated: what is defined by recursion exists.
LEMMA Iteration ==
  ASSUME NEW V, NEW z \in V, NEW m \in [V -> V]
  PROVE  \E f : Iterates(V, z, m, f)
<1> DEFINE S == {n \in Nat : \E g : Begins(V, z, m, g, n)}
<1>1. Nat \subseteq S
  <2>1. 0 \in S
    <3>1. Begins(V, z, m, [k \in 0 .. 0 |-> z], 0)
      BY DEF Begins
    <3> QED
      BY <3>1
  <2>2. \A n \in Nat : n \in S => n + 1 \in S
    BY BeginsLonger
  <2> HIDE DEF S
  <2> QED
    BY <2>1, <2>2, SetInduction
<1> DEFINE part(n) == CHOOSE g : Begins(V, z, m, g, n)
           f == [n \in Nat |-> part(n)[n]]
<1>3. \A n \in Nat : Begins(V, z, m, part(n), n)
  BY <1>1
<1>4. f \in [Nat -> V] /\ f[0] = z
  <2> HIDE DEF part
  <2>1. \A n \in Nat : part(n)[n] \in V
    BY <1>3 DEF Begins
  <2>2. part(0)[0] = z
    BY <1>3 DEF Begins
  <2> QED
    BY <2>1, <2>2
<1>5. ASSUME NEW n \in Nat PROVE f[n + 1] = m[f[n]]
  <2> HIDE DEF part
  <2>1. Begins(V, z, m, part(n), n) /\ Begins(V, z, m, part(n + 1), n + 1)
    BY <1>3
  <2>2. part(n)[n] = part(n + 1)[n]
    BY <2>1, BeginsAgree
  <2>3. n \in 0 .. (n + 1) - 1
    OBVIOUS
  <2>4. part(n + 1)[n + 1] = m[part(n + 1)[n]]
    BY <1>3, <2>3 DEF Begins
  <2> QED
    BY <2>2, <2>4
<1> HIDE DEF f
<1> QED
  BY <1>4, <1>5 DEF Iterates

\* The two ways to say what an iteration is.
LEMMA IterationEquation ==
  ASSUME NEW V, NEW z \in V, NEW m \in [V -> V], NEW f, Iterates(V, z, m, f)
  PROVE  f = [k \in Nat |-> IF k = 0 THEN z ELSE m[f[k - 1]]]
<1>1. f = [k \in Nat |-> f[k]]
  BY DEF Iterates
<1>2. ASSUME NEW k \in Nat PROVE f[k] = IF k = 0 THEN z ELSE m[f[k - 1]]
  <2>1. CASE k = 0
    BY <2>1 DEF Iterates
  <2>2. CASE k # 0
    <3>1. k - 1 \in Nat /\ (k - 1) + 1 = k
      BY <2>2
    <3>2. f[(k - 1) + 1] = m[f[k - 1]]
      BY <3>1 DEF Iterates
    <3> QED
      BY <2>2, <3>1, <3>2
  <2> QED
    BY <2>1, <2>2
<1> QED
  BY <1>1, <1>2

-----------------------------------------------------------------------------
(* Paths *)

\* The first k names of a path.
LEMMA PrefixProperties ==
  ASSUME NEW p \in Seq(Names), NEW k \in 0 .. Len(p)
  PROVE  /\ SubSeq(p, 1, k) \in Seq(Names)
         /\ Len(SubSeq(p, 1, k)) = k
         /\ \A i \in 1 .. k : SubSeq(p, 1, k)[i] = p[i]
<1>1. Len(p) \in Nat
  BY LenProperties
<1>2. \A i \in 1 .. k : p[i] \in Names
  BY <1>1, ElementOfSeq
<1>3. k \in Int /\ (k = 0 \/ 1 <= k)
  BY <1>1
<1> QED
  BY <1>2, <1>3, SubSeqProperties

\* A path without its last name.
LEMMA FrontProperties ==
  ASSUME NEW p \in Seq(Names), p # <<>>
  PROVE  /\ Len(p) \in Nat /\ Len(p) > 0
         /\ Front(p) \in Seq(Names)
         /\ Front(p) = SubSeq(p, 1, Len(p) - 1)
         /\ Len(Front(p)) = Len(p) - 1
         /\ Last(p) \in Names
         /\ p = Append(Front(p), Last(p))
<1>1. Len(p) \in Nat /\ Len(p) # 0
  BY LenProperties, EmptySeq
<1>2. Len(p) > 0 /\ Len(p) \in 1 .. Len(p) /\ Len(p) - 1 \in 0 .. Len(p)
  BY <1>1
<1>3. Front(p) = SubSeq(p, 1, Len(p) - 1) /\ Last(p) = p[Len(p)]
  BY DEF Front, Last
<1>4. Last(p) \in Names
  BY <1>2, <1>3, ElementOfSeq
<1>5. /\ Front(p) \in Seq(Names) /\ Len(Front(p)) = Len(p) - 1
      /\ \A i \in 1 .. Len(p) - 1 : Front(p)[i] = p[i]
  BY <1>2, <1>3, PrefixProperties
<1>6. /\ Append(Front(p), Last(p)) \in Seq(Names)
      /\ Len(Append(Front(p), Last(p))) = Len(p)
      /\ \A i \in 1 .. Len(p) - 1 : Append(Front(p), Last(p))[i] = Front(p)[i]
      /\ Append(Front(p), Last(p))[Len(p)] = Last(p)
  BY <1>1, <1>4, <1>5, AppendProperties
<1>7. \A i \in 1 .. Len(p) : Append(Front(p), Last(p))[i] = p[i]
  <2> SUFFICES ASSUME NEW i \in 1 .. Len(p) PROVE Append(Front(p), Last(p))[i] = p[i]
    OBVIOUS
  <2>1. i = Len(p) \/ i \in 1 .. Len(p) - 1
    BY <1>1
  <2> QED
    BY <1>3, <1>5, <1>6, <2>1
<1>8. p = Append(Front(p), Last(p))
  BY <1>6, <1>7, SeqEqual
<1> QED
  BY <1>1, <1>2, <1>3, <1>4, <1>5, <1>8

\* A path with one more name.
LEMMA AppendFront ==
  ASSUME NEW q \in Seq(Names), NEW n \in Names
  PROVE  /\ Append(q, n) \in Seq(Names) /\ Append(q, n) # <<>>
         /\ Front(Append(q, n)) = q /\ Last(Append(q, n)) = n
<1> DEFINE r == Append(q, n)
<1>1. /\ r \in Seq(Names) /\ Len(r) = Len(q) + 1 /\ Len(q) \in Nat
      /\ r[Len(q) + 1] = n
      /\ \A i \in 1 .. Len(q) : r[i] = q[i]
  BY AppendProperties, LenProperties
<1> HIDE DEF r
<1>2. r # <<>>
  BY <1>1, EmptySeq
<1>3. Len(q) \in 0 .. Len(r) /\ Len(r) - 1 = Len(q)
  BY <1>1
<1>4. Front(r) \in Seq(Names) /\ Front(r) = SubSeq(r, 1, Len(q)) /\ Len(Front(r)) = Len(q)
  BY <1>1, <1>2, <1>3, FrontProperties
<1>5. \A i \in 1 .. Len(q) : Front(r)[i] = q[i]
  <2> DEFINE k == Len(q)
  <2>1. k \in 0 .. Len(r)
    BY <1>3
  <2> HIDE DEF k
  <2>2. \A i \in 1 .. k : SubSeq(r, 1, k)[i] = r[i]
    BY <1>1, <2>1, PrefixProperties
  <2> QED
    BY <1>1, <1>4, <2>2 DEF k
<1>6. Front(r) = q
  BY <1>4, <1>5, SeqEqual
<1>7. Last(r) = n
  BY <1>1 DEF Last
<1> QED
  BY <1>1, <1>2, <1>6, <1>7 DEF r

\* Prefixes of a prefix are prefixes.
LEMMA PrefixOfPrefix ==
  ASSUME NEW p \in Seq(Names), NEW k \in 0 .. Len(p), NEW j \in 0 .. k
  PROVE  SubSeq(SubSeq(p, 1, k), 1, j) = SubSeq(p, 1, j)
<1> DEFINE q == SubSeq(p, 1, k)
<1>1. Len(p) \in Nat
  BY LenProperties
<1>2. q \in Seq(Names) /\ Len(q) = k /\ \A i \in 1 .. k : q[i] = p[i]
  BY PrefixProperties
<1> HIDE DEF q
<1>3. j \in 0 .. Len(p) /\ j \in 0 .. Len(q)
  BY <1>1, <1>2
<1>4. /\ SubSeq(q, 1, j) \in Seq(Names) /\ Len(SubSeq(q, 1, j)) = j
      /\ \A i \in 1 .. j : SubSeq(q, 1, j)[i] = q[i]
  BY <1>2, <1>3, PrefixProperties
<1>5. /\ SubSeq(p, 1, j) \in Seq(Names) /\ Len(SubSeq(p, 1, j)) = j
      /\ \A i \in 1 .. j : SubSeq(p, 1, j)[i] = p[i]
  BY <1>3, PrefixProperties
<1>6. \A i \in 1 .. j : i \in 1 .. k
  BY <1>1
<1>7. \A i \in 1 .. Len(SubSeq(q, 1, j)) : SubSeq(q, 1, j)[i] = SubSeq(p, 1, j)[i]
  BY <1>2, <1>4, <1>5, <1>6
<1>8. SubSeq(q, 1, j) = SubSeq(p, 1, j)
  BY <1>4, <1>5, <1>7, SeqEqual
<1> QED
  BY <1>8 DEF q

\* The last name of a prefix, and what is before it.
LEMMA PrefixFront ==
  ASSUME NEW p \in Seq(Names), NEW k \in 1 .. Len(p)
  PROVE  /\ SubSeq(p, 1, k) # <<>>
         /\ Front(SubSeq(p, 1, k)) = SubSeq(p, 1, k - 1)
         /\ Last(SubSeq(p, 1, k)) = p[k]
<1>1. Len(p) \in Nat
  BY LenProperties
<1>2. k \in 0 .. Len(p) /\ k - 1 \in 0 .. k /\ k \in 1 .. k /\ k # 0
  BY <1>1
<1>3. /\ SubSeq(p, 1, k) \in Seq(Names) /\ Len(SubSeq(p, 1, k)) = k
      /\ SubSeq(p, 1, k)[k] = p[k]
  BY <1>2, PrefixProperties
<1>4. SubSeq(p, 1, k) # <<>>
  BY <1>2, <1>3, EmptySeq
<1>5. SubSeq(SubSeq(p, 1, k), 1, k - 1) = SubSeq(p, 1, k - 1)
  BY <1>2, PrefixOfPrefix
<1> QED
  BY <1>3, <1>4, <1>5 DEF Front, Last

-----------------------------------------------------------------------------
(* Walks *)

\* Walk is what its recursive definition says, for every path.
WalkEquation ==
  \A p \in Seq(Names) :
    Walk[p] = IF p = <<>> THEN Root ELSE Lookup(Walk[Front(p)], Main(Last(p)))

LEMMA WalkUnfolds == WalkEquation
<1> DEFINE W == {Root, None} \cup {link[x] : x \in DOMAIN link}
           V == [Seq(Names) -> W]
           along(w, p) == IF p = <<>> THEN Root ELSE Lookup(w[Front(p)], Main(Last(p)))
           m == [w \in V |-> [p \in Seq(Names) |-> along(w, p)]]
           z == [p \in Seq(Names) |-> Root]
<1>1. \A d, e : Lookup(d, e) \in W
  BY DEF Lookup
<1>2. \A w, p : along(w, p) \in W
  BY <1>1
<1>3. z \in V /\ m \in [V -> V]
  <2> HIDE DEF along, W
  <2>1. Root \in W
    BY DEF W
  <2> QED
    BY <1>2, <2>1
<1>4. \A w \in V, p \in Seq(Names) : m[w][p] = along(w, p)
  <2> HIDE DEF along, W
  <2> QED
    OBVIOUS
<1> HIDE DEF m, V, z
<1>5. PICK f : Iterates(V, z, m, f)
  BY <1>3, Iteration
<1> DEFINE h == [p \in Seq(Names) |-> f[Len(p)][p]]
<1>6. ASSUME NEW p \in Seq(Names) PROVE h[p] = along(h, p)
  <2>1. CASE p = <<>>
    BY <1>5, <2>1, EmptySeq DEF z, Iterates
  <2>2. CASE p # <<>>
    <3> DEFINE n == Len(p) - 1
    <3>1. n \in Nat /\ Front(p) \in Seq(Names) /\ Len(Front(p)) = n /\ Len(p) = n + 1
      BY <2>2, FrontProperties
    <3> HIDE DEF n
    <3>2. h[p] = m[f[n]][p]
      BY <1>5, <3>1 DEF Iterates
    <3>3. h[p] = along(f[n], p)
      <4> HIDE DEF along, h
      <4>1. f[n] \in V /\ n + 1 \in Nat
        BY <1>5, <3>1 DEF Iterates
      <4> QED
        BY <1>4, <3>2, <4>1
    <3>4. h[Front(p)] = f[n][Front(p)]
      BY <3>1
    <3> HIDE DEF h
    <3> QED
      BY <2>2, <3>3, <3>4
  <2> QED
    BY <2>1, <2>2
<1>7. h = [p \in Seq(Names) |-> along(h, p)]
  <2> HIDE DEF along
  <2>1. h = [p \in Seq(Names) |-> h[p]]
    OBVIOUS
  <2> HIDE DEF h
  <2> QED
    BY <1>6, <2>1
<1> HIDE DEF h
<1>8. Walk = [p \in Seq(Names) |-> IF p = <<>> THEN Root
                                  ELSE Lookup(Walk[Front(p)], Main(Last(p)))]
  BY <1>7 DEF Walk
<1> QED
  BY <1>8 DEF WalkEquation

\* Reached and InPlace are what their recursive definitions say.
ReachedEquation ==
  /\ Reached[0] = {Root}
  /\ \A k \in Nat : \A node :
       node \in Reached[k + 1] <=>
         node \in Reached[k] \/ \E x \in DOMAIN link : x[1] \in Reached[k] /\ link[x] = node

InPlaceEquation ==
  /\ InPlace[0] = {Root}
  /\ \A k \in Nat : \A d :
       d \in InPlace[k + 1] <=>
         \/ d \in InPlace[k]
         \/ d \in Dirs /\ \E x \in DOMAIN link :
              x[1] \in InPlace[k] /\ x[2][2] = 0 /\ link[x] = d

LEMMA ReachedUnfolds == ReachedEquation
<1> DEFINE V == SUBSET ({Root} \cup {link[x] : x \in DOMAIN link})
           more(S) == S \cup {link[x] : x \in {y \in DOMAIN link : y[1] \in S}}
           m == [S \in V |-> more(S)]
           z == {Root}
<1>1. z \in V /\ m \in [V -> V]
  <2>1. z \in V /\ \A S \in V : more(S) \in V
    OBVIOUS
  <2> HIDE DEF more, V
  <2> QED
    BY <2>1
<1>2. \A S \in V : m[S] = more(S)
  <2> HIDE DEF more, V
  <2> QED
    OBVIOUS
<1> HIDE DEF m, V, z
<1>3. PICK f : Iterates(V, z, m, f)
  BY <1>1, Iteration
<1>4. f = [k \in Nat |-> IF k = 0 THEN z ELSE m[f[k - 1]]]
  BY <1>1, <1>3, IterationEquation
<1>5. \A k \in Nat : k # 0 => m[f[k - 1]] = more(f[k - 1])
  <2> HIDE DEF more
  <2> QED
    BY <1>2, <1>3 DEF Iterates
<1>6. f = [k \in Nat |-> IF k = 0 THEN {Root} ELSE more(f[k - 1])]
  <2> HIDE DEF more
  <2> QED
    BY <1>4, <1>5 DEF z
<1>7. Reached = [k \in Nat |-> IF k = 0 THEN {Root} ELSE more(Reached[k - 1])]
  BY <1>6 DEF Reached
<1>8. Reached[0] = {Root} /\ \A k \in Nat : Reached[k + 1] = more(Reached[k])
  <2> DEFINE r == Reached
  <2> HIDE DEF more, r
  <2>1. r = [k \in Nat |-> IF k = 0 THEN {Root} ELSE more(r[k - 1])]
    BY <1>7 DEF r
  <2>2. ASSUME NEW k \in Nat PROVE r[k + 1] = more(r[k])
    <3>1. k + 1 \in Nat /\ k + 1 # 0 /\ (k + 1) - 1 = k
      OBVIOUS
    <3>2. r[k + 1] = more(r[(k + 1) - 1])
      BY <2>1, <3>1
    <3> QED
      BY <3>1, <3>2
  <2>3. r[0] = {Root}
    BY <2>1
  <2> QED
    BY <2>2, <2>3 DEF r
<1>9. \A k \in Nat : \A e :
        e \in Reached[k + 1] <=> e \in more(Reached[k])
  <2> HIDE DEF more
  <2> QED
    BY <1>8
<1> QED
  BY <1>8, <1>9 DEF ReachedEquation

LEMMA InPlaceUnfolds == InPlaceEquation
<1> DEFINE V == SUBSET ({Root} \cup {link[x] : x \in DOMAIN link})
           named(S) == {x \in DOMAIN link : x[1] \in S /\ x[2][2] = 0}
           more(S) == S \cup ({link[x] : x \in named(S)} \cap Dirs)
           m == [S \in V |-> more(S)]
           z == {Root}
<1>1. z \in V /\ m \in [V -> V]
  <2>1. z \in V /\ \A S \in V : more(S) \in V
    OBVIOUS
  <2> HIDE DEF more, V
  <2> QED
    BY <2>1
<1>2. \A S \in V : m[S] = more(S)
  <2> HIDE DEF more, V
  <2> QED
    OBVIOUS
<1> HIDE DEF m, V, z
<1>3. PICK f : Iterates(V, z, m, f)
  BY <1>1, Iteration
<1>4. f = [k \in Nat |-> IF k = 0 THEN z ELSE m[f[k - 1]]]
  BY <1>1, <1>3, IterationEquation
<1>5. \A k \in Nat : k # 0 => m[f[k - 1]] = more(f[k - 1])
  <2> HIDE DEF more
  <2> QED
    BY <1>2, <1>3 DEF Iterates
<1>6. f = [k \in Nat |-> IF k = 0 THEN {Root} ELSE more(f[k - 1])]
  <2> HIDE DEF more
  <2> QED
    BY <1>4, <1>5 DEF z
<1>7. InPlace = [k \in Nat |-> IF k = 0 THEN {Root} ELSE more(InPlace[k - 1])]
  BY <1>6 DEF InPlace
<1>8. InPlace[0] = {Root} /\ \A k \in Nat : InPlace[k + 1] = more(InPlace[k])
  <2> DEFINE r == InPlace
  <2> HIDE DEF more, r
  <2>1. r = [k \in Nat |-> IF k = 0 THEN {Root} ELSE more(r[k - 1])]
    BY <1>7 DEF r
  <2>2. ASSUME NEW k \in Nat PROVE r[k + 1] = more(r[k])
    <3>1. k + 1 \in Nat /\ k + 1 # 0 /\ (k + 1) - 1 = k
      OBVIOUS
    <3>2. r[k + 1] = more(r[(k + 1) - 1])
      BY <2>1, <3>1
    <3> QED
      BY <3>1, <3>2
  <2>3. r[0] = {Root}
    BY <2>1
  <2> QED
    BY <2>2, <2>3 DEF r
<1>9. \A k \in Nat : \A e :
        e \in InPlace[k + 1] <=> e \in more(InPlace[k])
  <2> HIDE DEF more
  <2> QED
    BY <1>8
<1> QED
  BY <1>8, <1>9 DEF InPlaceEquation


\* The root is within reach.
LEMMA RootReached ==
  ASSUME MaxPathDepth \in Nat
  PROVE  Root \in Reachable
<1> DEFINE S == {k \in Nat : Root \in Reached[k]}
<1>1. 0 \in S /\ \A k \in Nat : k \in S => k + 1 \in S
  BY ReachedUnfolds DEF ReachedEquation
<1>2. Nat \subseteq S
  <2> HIDE DEF S
  <2> QED
    BY <1>1, SetInduction
<1>3. MaxPathDepth + 1 \in S
  BY <1>2
<1> QED
  BY <1>3 DEF Reachable

-----------------------------------------------------------------------------
(* Homes *)

\* A tree to begin with: from its entries one comes to the root, and no directory lies
\* deeper than requests go.  home is the name of a file or a directory without the version
\* suffixes of its own name and of the directories above it, which backups leave as it is.
Homes(home) ==
  /\ home \in [{Root} \cup OldDirs \cup Stored -> Seq(Names)]
  /\ home[Root] = <<>>
  /\ \A x \in DOMAIN InitLink :
       /\ x[1] = Root \/ \E y \in DOMAIN InitLink : InitLink[y] = x[1]
       /\ home[InitLink[x]] = Append(home[x[1]], x[2][1])
       /\ Len(home[x[1]]) <= MaxPathDepth

Rooted == \E home : Homes(home)

InitHome == CHOOSE home : Homes(home)

\* The name a file or a directory was made by.
Home ==
  [node \in Nodes |->
   IF node \in Threads THEN Path(node)
  ELSE IF node \in Threads \X Levels THEN SubSeq(Path(node[1]), 1, node[2])
  ELSE InitHome[node]]

\* The tree hangs together, and everything in it is where its name says.
Shape ==
  \A x \in DOMAIN link :
    /\ x[1] = Root \/ \E y \in DOMAIN link : link[y] = x[1]
    /\ Home[x[1]] \in Seq(Names)
    /\ Home[link[x]] = Append(Home[x[1]], x[2][1])
    /\ Len(Home[x[1]]) <= MaxPathDepth

\* No version is younger than the last clock reading.
Stamped == \A x \in DOMAIN link : x[2][2] <= clock

HomeRoot == Home[Root] = <<>>

\* What a path leads to has that path as its home.
LEMMA WalkHome ==
  ASSUME Inv, Shape, HomeRoot, NEW p \in Seq(Names), Walk[p] # None
  PROVE  Home[Walk[p]] = p
<1> DEFINE S == {n \in Nat : \A q \in Seq(Names) :
                   Len(q) = n /\ Walk[q] # None => Home[Walk[q]] = q}
<1>1. 0 \in S
  <2> SUFFICES ASSUME NEW q \in Seq(Names), Len(q) = 0 PROVE Home[Walk[q]] = q
    OBVIOUS
  <2>1. q = <<>>
    BY EmptySeq
  <2> QED
    BY <2>1, WalkUnfolds DEF WalkEquation, HomeRoot
<1>2. ASSUME NEW n \in Nat, n \in S PROVE n + 1 \in S
  <2> SUFFICES ASSUME NEW q \in Seq(Names), Len(q) = n + 1, Walk[q] # None
               PROVE  Home[Walk[q]] = q
    OBVIOUS
  <2>1. q # <<>>
    BY EmptySeq
  <2>2. /\ Front(q) \in Seq(Names) /\ Len(Front(q)) = n /\ Last(q) \in Names
        /\ q = Append(Front(q), Last(q))
    BY <2>1, FrontProperties
  <2>3. Walk[q] = Lookup(Walk[Front(q)], Main(Last(q)))
    BY <2>1, WalkUnfolds DEF WalkEquation
  <2>4. /\ <<Walk[Front(q)], Main(Last(q))>> \in DOMAIN link
        /\ Walk[q] = link[<<Walk[Front(q)], Main(Last(q))>>]
    BY <2>3, LookupTyping
  <2>5. Walk[Front(q)] # None
    BY <2>4, NodesApart DEF Inv, TreeOK
  <2>6. Home[Walk[Front(q)]] = Front(q)
    BY <1>2, <2>2, <2>5
  <2> QED
    BY <2>2, <2>4, <2>6 DEF Shape, Main
<1>3. Nat \subseteq S
  <2> HIDE DEF S
  <2> QED
    BY <1>1, <1>2, SetInduction
<1> QED
  BY <1>3, LenProperties

\* Where a path leads to, one entry after the other.
LEMMA WalkEntry ==
  ASSUME Inv, NEW p \in Seq(Names), p # <<>>
  PROVE  /\ Walk[p] = Lookup(Walk[Front(p)], Main(Last(p)))
         /\ Walk[p] # None => /\ <<Walk[Front(p)], Main(Last(p))>> \in DOMAIN link
                              /\ Walk[p] = link[<<Walk[Front(p)], Main(Last(p))>>]
                              /\ Walk[Front(p)] \in Dirs
<1>1. Walk[p] = Lookup(Walk[Front(p)], Main(Last(p)))
  BY WalkUnfolds DEF WalkEquation
<1> QED
  BY <1>1, LookupTyping DEF Inv, TreeOK

\* Everything in the tree is within reach.
LEMMA EverythingReached ==
  ASSUME Inv, Shape, HomeRoot, DirectoriesAssumption
  PROVE  /\ \A x \in DOMAIN link : link[x] \in Reachable
         /\ \A node \in Reachable : node = Root \/ \E x \in DOMAIN link : link[x] = node
<1> DEFINE S == {n \in Nat : \A x \in DOMAIN link :
                   Len(Home[x[1]]) <= n => x[1] \in Reached[n]}
           T == {n \in Nat : \A node \in Reached[n] :
                   node = Root \/ \E x \in DOMAIN link : link[x] = node}
<1>1. MaxPathDepth \in Nat
  BY DirectoriesAssumption
<1>2. Nat \subseteq S
  <2>1. ASSUME NEW x \in DOMAIN link, x[1] # Root
        PROVE  \E y \in DOMAIN link : link[y] = x[1] /\ Len(Home[x[1]]) = Len(Home[y[1]]) + 1
    <3>1. PICK y \in DOMAIN link : link[y] = x[1]
      BY <2>1 DEF Shape
    <3>2. y[2][1] \in Names
      BY DEF Inv, TreeOK, Entries
    <3>3. Home[x[1]] = Append(Home[y[1]], y[2][1]) /\ Home[y[1]] \in Seq(Names)
      BY <3>1 DEF Shape
    <3>4. Len(Home[x[1]]) = Len(Home[y[1]]) + 1
      BY <3>2, <3>3, AppendProperties
    <3> QED
      BY <3>1, <3>4
  <2>2. \A x \in DOMAIN link : Len(Home[x[1]]) \in Nat
    BY LenProperties DEF Shape
  <2>3. 0 \in S
    BY <2>1, <2>2, ReachedUnfolds DEF ReachedEquation
  <2>4. ASSUME NEW n \in Nat, n \in S PROVE n + 1 \in S
    <3> SUFFICES ASSUME NEW x \in DOMAIN link, Len(Home[x[1]]) <= n + 1
                 PROVE  x[1] \in Reached[n + 1]
      OBVIOUS
    <3>1. CASE Len(Home[x[1]]) <= n
      BY <2>4, <3>1, ReachedUnfolds DEF ReachedEquation
    <3>2. CASE ~ (Len(Home[x[1]]) <= n)
      <4>1. x[1] # Root
        <5>1. Len(Home[x[1]]) # 0
          BY <2>2, <3>2
        <5>2. Len(Home[Root]) = 0
          BY DEF HomeRoot
        <5> QED
          BY <5>1, <5>2
      <4>2. PICK y \in DOMAIN link :
              link[y] = x[1] /\ Len(Home[x[1]]) = Len(Home[y[1]]) + 1
        BY <2>1, <4>1
      <4>3. Len(Home[y[1]]) <= n
        <5> DEFINE i == Len(Home[x[1]])
                   j == Len(Home[y[1]])
        <5>1. i \in Nat /\ j \in Nat /\ i = j + 1 /\ i <= n + 1
          BY <2>2, <4>2
        <5> HIDE DEF i, j
        <5>2. j <= n
          BY <5>1
        <5> QED
          BY <5>2 DEF j
      <4>4. y[1] \in Reached[n]
        BY <2>4, <4>3
      <4>5. \A v \in DOMAIN link : v[1] \in Reached[n] => link[v] \in Reached[n + 1]
        BY ReachedUnfolds DEF ReachedEquation
      <4> QED
        BY <4>2, <4>4, <4>5
    <3> QED
      BY <3>1, <3>2
  <2> HIDE DEF S
  <2> QED
    BY <2>3, <2>4, SetInduction
<1>3. Nat \subseteq T
  <2>1. 0 \in T
    BY ReachedUnfolds DEF ReachedEquation
  <2>2. ASSUME NEW n \in Nat, n \in T PROVE n + 1 \in T
    <3> SUFFICES ASSUME NEW node \in Reached[n + 1]
                 PROVE  node = Root \/ \E x \in DOMAIN link : link[x] = node
      OBVIOUS
    <3>1. \/ node \in Reached[n]
          \/ \E x \in DOMAIN link : link[x] = node
      BY ReachedUnfolds DEF ReachedEquation
    <3> QED
      BY <2>2, <3>1
  <2> HIDE DEF T
  <2> QED
    BY <2>1, <2>2, SetInduction
<1>4. ASSUME NEW x \in DOMAIN link PROVE link[x] \in Reachable
  <2>1. x[1] \in Reached[MaxPathDepth]
    BY <1>1, <1>2 DEF Shape
  <2> QED
    BY <1>1, <2>1, ReachedUnfolds DEF ReachedEquation, Reachable
<1>5. MaxPathDepth + 1 \in T
  BY <1>1, <1>3
<1> QED
  BY <1>4, <1>5 DEF Reachable

-----------------------------------------------------------------------------
(* Steps, once more *)

\* A step changes nothing about other threads, and no request once there is one.
LEMMA OthersStay ==
  ASSUME Inv, NEW t \in Threads, Request(t) \/ Serve(t)
  PROVE  /\ \A u \in Threads \ {t} :
              pc'[u] = pc[u] /\ req'[u] = req[u] /\ fd'[u] = fd[u] /\ level'[u] = level[u]
         /\ \A u \in Threads : pc[u] # "idle" => req'[u] = req[u] /\ pc'[u] # "idle"
<1> USE DEF Goto
<1>1. ThreadsOK
  BY DEF Inv
<1>2. CASE Request(t)
  BY <1>1, <1>2, RequestStep DEF ThreadsOK
<1>3. CASE LockDirectories(t)
  BY <1>1, <1>3 DEF LockDirectories, ThreadsOK
<1>4. CASE Mkdir(t)
  BY <1>1, <1>4 DEF Mkdir, ThreadsOK
<1>5. CASE UnlockDirectories(t)
  BY <1>1, <1>5 DEF UnlockDirectories, ThreadsOK
<1>6. CASE LockVersionMutex(t)
  BY <1>1, <1>6 DEF LockVersionMutex, ThreadsOK
<1>7. CASE Backup(t)
  BY <1>1, <1>7 DEF Backup, ThreadsOK
<1>8. CASE Fopen(t)
  BY <1>1, <1>8 DEF Fopen, ThreadsOK
<1>9. CASE FopenFails(t)
  BY <1>1, <1>9 DEF FopenFails, Release, ThreadsOK
<1>10. CASE ReceiveFile(t)
  BY <1>1, <1>10 DEF ReceiveFile, ThreadsOK
<1>11. CASE RemovePartial(t)
  BY <1>1, <1>11 DEF RemovePartial, ThreadsOK
<1>12. CASE UnlockVersionMutex(t)
  BY <1>1, <1>12 DEF UnlockVersionMutex, Release, ThreadsOK
<1>13. CASE DeleteMain(t)
  BY <1>1, <1>13 DEF DeleteMain, ThreadsOK
<1>14. CASE OpenDirectory(t)
  BY <1>1, <1>14 DEF OpenDirectory, ThreadsOK
<1>15. CASE OpenDirectoryFails(t)
  BY <1>1, <1>15 DEF OpenDirectoryFails, ThreadsOK
<1>16. CASE ReadDirectory(t)
  BY <1>1, <1>16 DEF ReadDirectory, ThreadsOK
<1>17. CASE DirectoryEnds(t)
  BY <1>1, <1>17 DEF DirectoryEnds, ThreadsOK
<1>18. CASE Stat(t)
  BY <1>1, <1>18 DEF Stat, ThreadsOK
<1> QED
  BY <1>2, <1>3, <1>4, <1>5, <1>6, <1>7, <1>8, <1>9, <1>10, <1>11, <1>12, <1>13, <1>14,
     <1>15, <1>16, <1>17, <1>18 DEF Serve

WritePcs == {"dirlock", "mkdir", "dirunlock", "dirfail", "backup", "fopen", "recv",
             "remove", "refused", "saved", "failed"}

\* A request is not too deep, is handled by its own handler, and the mutex is held by
\* whoever works under it.
Handled ==
  \A t \in Threads :
    /\ pc[t] = "idle" => req[t] = None
    /\ pc[t] \notin {"idle", "rejected"} => Len(Path(t)) - 1 <= MaxPathDepth
    /\ pc[t] \in WritePcs => req[t].op = "WRITE"
    /\ pc[t] \in {"delete", "opendir", "sweep", "removed"} => req[t].op = "RM"
    /\ pc[t] \in {"stat", "opendir_ls", "readdir", "listed", "other"} => req[t].op = "LS"
    /\ pc[t] \in {"lock", "unlock"} => req[t].op \in {"WRITE", "RM"}
    /\ pc[t] \in MutexPcs => mutex[Path(t)] = t

\* Every step keeps requests with their handlers, and mutexes with their holders.
LEMMA HandledStep ==
  ASSUME Inv, Handled, NEW t \in Threads, Request(t) \/ Serve(t)
  PROVE  Handled'
<1> USE DEF Goto, locks, tree, Path, WritePcs, MutexPcs
<1>1. /\ pc \in [Threads -> Pcs] /\ mutex \in [Paths -> Threads \cup {None}]
      /\ Handled /\ MutexHeld
  BY DEF Inv, ThreadsOK, MutexHeld
<1>2. pc[t] # "idle" => req[t].path \in Paths
  BY PathTyping DEF Path
<1>3. CASE Request(t)
  <2>1. PICK r \in Requests :
          /\ pc[t] = "idle"
          /\ pc' = [pc EXCEPT ![t] = IF ~ValidPath(r.path) THEN "rejected"
                                     ELSE CASE r.op = "WRITE" -> "dirlock"
                                            [] r.op = "RM"    -> "lock"
                                            [] r.op = "LS"    -> "stat"]
          /\ req' = [req EXCEPT ![t] = r]
          /\ mutex' = mutex
    BY <1>3 DEF Request
  <2>2. r.op \in {"WRITE", "RM", "LS"}
    BY DirectoriesAssumption
  <2>3. req'[t] = r /\ \A u \in Threads \ {t} : req'[u] = req[u] /\ pc'[u] = pc[u]
    BY <1>1, <2>1 DEF Inv, ThreadsOK
  <2>4. \/ pc'[t] = "rejected"
        \/ /\ Len(r.path) - 1 <= MaxPathDepth
           /\ \/ pc'[t] = "dirlock" /\ r.op = "WRITE"
              \/ pc'[t] = "lock" /\ r.op = "RM"
              \/ pc'[t] = "stat" /\ r.op = "LS"
    BY <1>1, <2>1, <2>2 DEF ValidPath
  <2>5. pc'[t] \in {"rejected", "dirlock", "lock", "stat"}
    BY <2>4
  <2>6. ASSUME NEW u \in Threads \ {t} PROVE UNCHANGED <<pc[u], req[u], mutex>>
    BY <2>1, <2>3
  <2>7. /\ pc'[t] # "rejected" => Len(req'[t].path) - 1 <= MaxPathDepth
        /\ pc'[t] = "dirlock" => req'[t].op = "WRITE"
        /\ pc'[t] = "lock" => req'[t].op = "RM"
        /\ pc'[t] = "stat" => req'[t].op = "LS"
    BY <2>3, <2>4
  <2> QED
    BY <1>1, <2>5, <2>6, <2>7 DEF Handled
<1>4. CASE LockDirectories(t)
  BY <1>1, <1>2, <1>4 DEF LockDirectories, Handled, MutexHeld
<1>5. CASE Mkdir(t)
  BY <1>1, <1>2, <1>5 DEF Mkdir, Handled, MutexHeld
<1>6. CASE UnlockDirectories(t)
  BY <1>1, <1>2, <1>6 DEF UnlockDirectories, Handled, MutexHeld
<1>7. CASE LockVersionMutex(t)
  <2>1. /\ pc[t] = "lock" /\ mutex[req[t].path] = None
        /\ pc' = [pc EXCEPT ![t] = IF req[t].op = "WRITE" THEN "backup" ELSE "delete"]
        /\ mutex' = [mutex EXCEPT ![req[t].path] = t]
        /\ req' = req
    BY <1>7 DEF LockVersionMutex
  <2>2. req[t].path \in Paths /\ req[t].op \in {"WRITE", "RM"}
    BY <1>1, <1>2, <2>1 DEF Handled
  <2>3. mutex'[req[t].path] = t
    BY <1>1, <2>1, <2>2
  <2>4. \A u \in Threads \ {t} : mutex[req[u].path] = u => mutex'[req[u].path] = u
    BY <1>1, <2>1, NodesApart
  <2>5. \A u \in Threads \ {t} : pc'[u] = pc[u]
    BY <1>1, <2>1
  <2>6. \/ pc'[t] = "backup" /\ req[t].op = "WRITE"
        \/ pc'[t] = "delete" /\ req[t].op = "RM"
    BY <1>1, <2>1, <2>2
  <2>7. /\ Len(req[t].path) - 1 <= MaxPathDepth
        /\ \A u \in Threads : pc'[u] = "idle" => pc[u] = "idle"
    BY <1>1, <2>1, <2>5, <2>6 DEF Handled
  <2> HIDE DEF Path
  <2>8. /\ \A u \in Threads : Path(u)' = Path(u) /\ req'[u] = req[u]
        /\ Path(t) = req[t].path /\ \A u \in Threads : req[u].path = Path(u)
    BY <2>1 DEF Path
  <2>9. \A u \in Threads \ {t} : pc'[u] \in MutexPcs => mutex'[Path(u)] = u
    BY <1>1, <2>4, <2>5, <2>8 DEF Handled
  <2> QED
    BY <1>1, <2>3, <2>5, <2>6, <2>7, <2>8, <2>9 DEF Handled
<1>8. CASE Backup(t)
  BY <1>1, <1>2, <1>8 DEF Backup, Handled, MutexHeld
<1>9. CASE Fopen(t)
  BY <1>1, <1>2, <1>9 DEF Fopen, Handled, MutexHeld
<1>10. CASE FopenFails(t)
  BY <1>1, <1>2, <1>10 DEF FopenFails, Release, Handled, MutexHeld
<1>11. CASE ReceiveFile(t)
  BY <1>1, <1>2, <1>11 DEF ReceiveFile, Handled, MutexHeld
<1>12. CASE RemovePartial(t)
  BY <1>1, <1>2, <1>12 DEF RemovePartial, Handled, MutexHeld
<1>13. CASE UnlockVersionMutex(t)
  BY <1>1, <1>2, <1>13 DEF UnlockVersionMutex, Release, Handled, MutexHeld
<1>14. CASE DeleteMain(t)
  BY <1>1, <1>2, <1>14 DEF DeleteMain, Handled, MutexHeld
<1>15. CASE OpenDirectory(t)
  BY <1>1, <1>2, <1>15 DEF OpenDirectory, Handled, MutexHeld
<1>16. CASE OpenDirectoryFails(t)
  BY <1>1, <1>2, <1>16 DEF OpenDirectoryFails, Handled, MutexHeld
<1>17. CASE ReadDirectory(t)
  BY <1>1, <1>2, <1>17 DEF ReadDirectory, Handled, MutexHeld
<1>18. CASE DirectoryEnds(t)
  BY <1>1, <1>2, <1>18 DEF DirectoryEnds, Handled, MutexHeld
<1>19. CASE Stat(t)
  BY <1>1, <1>2, <1>19 DEF Stat, Handled, MutexHeld
<1> QED
  BY <1>3, <1>4, <1>5, <1>6, <1>7, <1>8, <1>9, <1>10, <1>11, <1>12, <1>13, <1>14, <1>15,
     <1>16, <1>17, <1>18, <1>19 DEF Serve

-----------------------------------------------------------------------------
(* What a step does to the tree *)

\* The entry of path p.
At(p) == <<Walk[Front(p)], Main(Last(p))>>

Still ==
  /\ DOMAIN link' = DOMAIN link
  /\ \A x \in DOMAIN link : link'[x] = link[x]
  /\ clock' = clock

\* A node is entered at path p, where there was nothing.
Enters(p, node) ==
  /\ Walk[Front(p)] \in Dirs
  /\ At(p) \notin DOMAIN link
  /\ link' = With(Walk[Front(p)], Main(Last(p)), node)
  /\ clock' = clock

DirectoryMade(t) ==
  /\ pc[t] = "mkdir"
  /\ Enters(SubSeq(Path(t), 1, level[t]), <<t, level[t]>>)

FileMade(t) ==
  /\ pc[t] = "fopen"
  /\ Enters(Path(t), t)

PutAside(t) ==
  /\ pc[t] = "backup"
  /\ At(Path(t)) \in DOMAIN link
  /\ clock' = clock + 1
  /\ link' = Renamed(Walk[Front(Path(t))], Main(Last(Path(t))), <<Last(Path(t)), clock'>>)

Removed(t) ==
  /\ pc[t] \in {"remove", "delete", "sweep"}
  /\ \E e : /\ e[1] = Last(Path(t))
            /\ IF pc[t] = "sweep" THEN e[2] # 0 ELSE e = Main(Last(Path(t)))
            /\ RemoveEntry(Walk[Front(Path(t))], e)
  /\ clock' = clock

\* A step leaves the tree as it is, or changes it in one of four ways.
LEMMA TreeMoves ==
  ASSUME Inv, Handled, NEW t \in Threads, Request(t) \/ Serve(t)
  PROVE  Still \/ DirectoryMade(t) \/ FileMade(t) \/ PutAside(t) \/ Removed(t)
<1>1. CASE Request(t)
  BY <1>1, RequestStep DEF tree, Still
<1>2. CASE LockDirectories(t)
  BY <1>2 DEF LockDirectories, tree, scanVars, Still
<1>3. CASE Mkdir(t)
  <2> DEFINE k == level[t]
             p == SubSeq(Path(t), 1, k)
  <2>1. pc[t] = "mkdir" /\ clock' = clock
    BY <1>3 DEF Mkdir, Goto, scanVars
  <2>2. Path(t) \in Seq(Names) /\ k \in 1 .. Len(Path(t))
    <3>1. k \in 1 .. Len(Path(t)) - 1 /\ Len(Path(t)) \in Nat \ {0} /\ Path(t) \in Seq(Names)
      BY <2>1, LevelTyping, PathTyping
    <3> QED
      BY <3>1
  <2>3. Front(p) = SubSeq(Path(t), 1, k - 1) /\ Last(p) = Path(t)[k]
    BY <2>2, PrefixFront
  <2>4. CASE MkdirResult(Walk[Front(p)], Main(Last(p))) = "made"
    <3>1. Walk[Front(p)] \in Dirs /\ Lookup(Walk[Front(p)], Main(Last(p))) = None
      BY <2>4 DEF MkdirResult
    <3>2. link' = With(Walk[Front(p)], Main(Last(p)), <<t, k>>)
      BY <1>3, <2>3, <2>4 DEF Mkdir
    <3> QED
      BY <2>1, <3>1, <3>2, LookupTyping DEF DirectoryMade, Enters, At
  <2>5. CASE MkdirResult(Walk[Front(p)], Main(Last(p))) # "made"
    BY <1>3, <2>1, <2>3, <2>5 DEF Mkdir, Still
  <2> QED
    BY <2>4, <2>5
<1>4. CASE UnlockDirectories(t)
  BY <1>4 DEF UnlockDirectories, tree, scanVars, Still
<1>5. CASE LockVersionMutex(t)
  BY <1>5 DEF LockVersionMutex, tree, scanVars, Still
<1>6. CASE Backup(t)
  <2>1. CASE Lookup(Walk[Front(Path(t))], Main(Last(Path(t)))) = None
    BY <1>6, <2>1 DEF Backup, Still
  <2>2. CASE Lookup(Walk[Front(Path(t))], Main(Last(Path(t)))) # None
    BY <1>6, <2>2, LookupTyping DEF Backup, Goto, PutAside, At
  <2> QED
    BY <2>1, <2>2
<1>7. CASE Fopen(t)
  <2> DEFINE d == Walk[Front(Path(t))]
             e == Main(Last(Path(t)))
  <2>1. CASE Lookup(d, e) = None
    BY <1>7, <2>1, LookupTyping DEF Fopen, Goto, FileMade, Enters, At, scanVars
  <2>2. CASE Lookup(d, e) # None
    <3>1. <<d, e>> \in DOMAIN link /\ Lookup(d, e) = link[<<d, e>>]
      BY <2>2, LookupTyping
    <3>2. link' = With(d, e, link[<<d, e>>]) /\ clock' = clock
      BY <1>7, <2>2, <3>1 DEF Fopen, scanVars
    <3> QED
      BY <3>1, <3>2 DEF With, Still
  <2> QED
    BY <2>1, <2>2
<1>8. CASE FopenFails(t)
  BY <1>8 DEF FopenFails, Release, tree, scanVars, Still
<1>9. CASE ReceiveFile(t)
  BY <1>9 DEF ReceiveFile, tree, scanVars, Still
<1>10. CASE RemovePartial(t)
  BY <1>10 DEF RemovePartial, Goto, RemovePath, Removed, At, scanVars, Main
<1>11. CASE UnlockVersionMutex(t)
  BY <1>11 DEF UnlockVersionMutex, Release, tree, scanVars, Still
<1>12. CASE DeleteMain(t)
  BY <1>12 DEF DeleteMain, Goto, RemovePath, Removed, At, scanVars, Main
<1>13. CASE OpenDirectory(t)
  BY <1>13 DEF OpenDirectory, tree, scanVars, Still
<1>14. CASE OpenDirectoryFails(t)
  BY <1>14 DEF OpenDirectoryFails, tree, scanVars, Still
<1>15. CASE ReadDirectory(t)
  <2>1. pc[t] \in {"sweep", "readdir"} /\ clock' = clock
    BY <1>15 DEF ReadDirectory
  <2>2. PICK e \in Holds(scan[t]) \ seen[t] :
          /\ Matches(t, e)
          /\ IF req[t].op = "RM" THEN RemoveEntry(Walk[Front(Path(t))], e)
                                 ELSE UNCHANGED link
    BY <1>15 DEF ReadDirectory
  <2>3. CASE req[t].op = "RM"
    <3>1. pc[t] = "sweep"
      BY <2>1, <2>3 DEF Handled
    <3>2. e[1] = Last(Path(t)) /\ e[2] # 0
      BY <2>2, <2>3 DEF Matches
    <3> QED
      BY <2>1, <2>2, <2>3, <3>1, <3>2 DEF Removed
  <2>4. CASE req[t].op # "RM"
    BY <2>1, <2>2, <2>4 DEF Still
  <2> QED
    BY <2>3, <2>4
<1>16. CASE DirectoryEnds(t)
  BY <1>16 DEF DirectoryEnds, tree, scanVars, Still
<1>17. CASE Stat(t)
  BY <1>17 DEF Stat, tree, scanVars, Still
<1> QED
  BY <1>1, <1>2, <1>3, <1>4, <1>5, <1>6, <1>7, <1>8, <1>9, <1>10, <1>11, <1>12, <1>13,
     <1>14, <1>15, <1>16, <1>17 DEF Serve

-----------------------------------------------------------------------------
(* The shape of the tree stays *)

\* The root, and what is entered somewhere.
Linked == {Root} \cup {link[x] : x \in DOMAIN link}

\* A path leads into the tree.
LEMMA WalkLinked ==
  ASSUME Inv, NEW p \in Seq(Names), Walk[p] # None
  PROVE  Walk[p] \in Linked
<1>1. CASE p = <<>>
  BY <1>1, WalkUnfolds DEF WalkEquation, Linked
<1>2. CASE p # <<>>
  BY <1>2, WalkEntry DEF Linked
<1> QED
  BY <1>1, <1>2

\* A file or directory made by a thread has its home from the thread's request.
HomeCases ==
  /\ \A t \in Threads : Home[t] = Path(t)
  /\ \A t \in Threads, k \in Levels : Home[<<t, k>>] = SubSeq(Path(t), 1, k)
  /\ \A node \in Nodes : node \notin Threads /\ node \notin Threads \X Levels =>
       Home[node] = InitHome[node]

LEMMA HomeUnfolds == HomeCases
<1>1. /\ Threads \subseteq Nodes /\ Threads \X Levels \subseteq Nodes
      /\ \A t, u \in Threads, k \in Levels : t # <<u, k>>
  BY NodesApart DEF Nodes, Dirs, Files
<1>2. ASSUME NEW t \in Threads PROVE Home[t] = Path(t)
  BY <1>1 DEF Home
<1>3. ASSUME NEW t \in Threads, NEW k \in Levels PROVE Home[<<t, k>>] = SubSeq(Path(t), 1, k)
  <2>1. <<t, k>> \in Nodes /\ <<t, k>> \notin Threads /\ <<t, k>> \in Threads \X Levels
    BY <1>1
  <2> QED
    BY <2>1 DEF Home
<1>4. ASSUME NEW node \in Nodes, node \notin Threads, node \notin Threads \X Levels
      PROVE  Home[node] = InitHome[node]
  BY <1>4 DEF Home
<1> QED
  BY <1>2, <1>3, <1>4 DEF HomeCases

\* The tree has nothing in it but files and directories.
LEMMA LinkedTyping ==
  ASSUME Inv
  PROVE  Linked \subseteq Nodes
BY DEF Inv, TreeOK, Linked, Nodes, Dirs

\* What is in the tree keeps its home: no request changes after something is made for it.
LEMMA HomeStays ==
  ASSUME Inv, NEW t \in Threads, Request(t) \/ Serve(t)
  PROVE  \A node \in Linked : Home'[node] = Home[node]
<1>1. ASSUME NEW u \in Threads, pc[u] # "idle" PROVE Path(u)' = Path(u)
  BY <1>1, OthersStay DEF Path
<1>2. HomeCases /\ HomeCases'
  BY HomeUnfolds, PTL
<1>3. Linked \subseteq Nodes
  BY LinkedTyping
<1> SUFFICES ASSUME NEW node \in Linked PROVE Home'[node] = Home[node]
  OBVIOUS
<1>4. node = Root \/ \E x \in DOMAIN link : link[x] = node
  BY DEF Linked
<1>5. CASE node \in Threads
  <2>1. node # Root
    BY <1>5, NodesApart DEF Dirs
  <2>2. pc[node] # "idle"
    BY <1>4, <1>5, <2>1 DEF Inv, FileUnmade
  <2>3. Path(node)' = Path(node)
    BY <1>1, <1>5, <2>2
  <2>4. Home[node] = Path(node) /\ Home'[node] = Path(node)'
    BY <1>2, <1>5 DEF HomeCases
  <2> QED
    BY <2>3, <2>4
<1>6. CASE node \in Threads \X Levels
  <2>1. PICK u \in Threads, k \in Levels : node = <<u, k>>
    BY <1>6
  <2>2. node # Root
    BY <1>6, DirectoriesAssumption
  <2>3. pc[u] # "idle"
    BY <1>4, <2>1, <2>2 DEF Inv, DirectoriesUnmade
  <2>4. Path(u)' = Path(u)
    BY <1>1, <2>3
  <2>5. /\ Home[<<u, k>>] = SubSeq(Path(u), 1, k)
        /\ Home'[<<u, k>>] = SubSeq(Path(u)', 1, k)
    BY <1>2 DEF HomeCases
  <2> QED
    BY <2>1, <2>4, <2>5
<1>7. CASE node \notin Threads /\ node \notin Threads \X Levels
  <2>1. Home[node] = InitHome[node] /\ Home'[node] = InitHome[node]
    BY <1>2, <1>3, <1>7 DEF HomeCases
  <2> QED
    BY <2>1
<1> QED
  BY <1>5, <1>6, <1>7

\* What entering something new does to the tree.
LEMMA EnterEntries ==
  ASSUME NEW p, NEW node, Enters(p, node)
  PROVE  /\ At(p)[1] = Walk[Front(p)] /\ At(p)[1] \in Dirs /\ At(p)[2][2] = 0
         /\ At(p) \notin DOMAIN link
         /\ DOMAIN link' = DOMAIN link \cup {At(p)}
         /\ link'[At(p)] = node
         /\ \A x \in DOMAIN link : link'[x] = link[x]
BY DEF Enters, At, With, Main

\* Something new, entered where its name says.
LEMMA EnterShape ==
  ASSUME Inv, Shape, HomeRoot, NEW t \in Threads, Request(t) \/ Serve(t),
         NEW p \in Seq(Names), p # <<>>, Len(p) - 1 <= MaxPathDepth,
         NEW node, Enters(p, node), Home'[node] = p
  PROVE  Shape'
<1> DEFINE d == Walk[Front(p)]
           new == At(p)
<1>1. /\ d \in Dirs /\ new = <<d, Main(Last(p))>> /\ new \notin DOMAIN link
      /\ DOMAIN link' = DOMAIN link \cup {new}
      /\ link'[new] = node
      /\ \A x \in DOMAIN link : link'[x] = link[x]
  BY DEF Enters, At, With
<1>2. /\ Front(p) \in Seq(Names) /\ Len(Front(p)) = Len(p) - 1
      /\ p = Append(Front(p), Last(p))
  BY FrontProperties
<1>3. d # None
  BY <1>1, NodesApart
<1>4. d \in Linked /\ Home[d] = Front(p)
  BY <1>2, <1>3, WalkLinked, WalkHome
<1>5. \A v \in Linked : Home'[v] = Home[v]
  BY HomeStays
<1> HIDE DEF d, new
<1>6. ASSUME NEW x \in DOMAIN link'
      PROVE  /\ x[1] \in Linked
             /\ Home[x[1]] \in Seq(Names)
             /\ Len(Home[x[1]]) <= MaxPathDepth
             /\ Home'[link'[x]] = Append(Home[x[1]], x[2][1])
  <2>1. CASE x = new
    <3>1. x[1] = d /\ x[2][1] = Last(p) /\ link'[x] = node
      BY <1>1, <2>1 DEF Main
    <3> QED
      BY <1>2, <1>4, <3>1
  <2>2. CASE x \in DOMAIN link
    <3>1. link'[x] = link[x] /\ link[x] \in Linked /\ x[1] \in Linked
      BY <1>1, <2>2 DEF Shape, Linked
    <3>2. Home'[link'[x]] = Home[link[x]]
      BY <1>5, <3>1
    <3> QED
      BY <2>2, <3>1, <3>2 DEF Shape
  <2> QED
    BY <1>1, <2>1, <2>2
<1>7. \A v \in Linked : v = Root \/ \E y \in DOMAIN link' : link'[y] = v
  BY <1>1 DEF Linked
<1> QED
  BY <1>5, <1>6, <1>7 DEF Shape

\* The entry a directory or file is put aside to, and what that does to the tree.
AsideAt(t) == <<Walk[Front(Path(t))], <<Last(Path(t)), clock + 1>>>>

LEMMA AsideEntries ==
  ASSUME Inv, Stamped, NEW t \in Threads, PutAside(t)
  PROVE  /\ At(Path(t)) \in DOMAIN link
         /\ AsideAt(t)[1] = At(Path(t))[1] /\ AsideAt(t)[2][1] = At(Path(t))[2][1]
         /\ At(Path(t))[2][2] = 0 /\ AsideAt(t)[2][2] = clock + 1 /\ clock + 1 # 0
         /\ DOMAIN link' = (DOMAIN link \ {At(Path(t))}) \cup {AsideAt(t)}
         /\ link'[AsideAt(t)] = link[At(Path(t))]
         /\ \A x \in DOMAIN link \ {At(Path(t))} : x # AsideAt(t) /\ link'[x] = link[x]
<1> DEFINE old == At(Path(t))
           new == AsideAt(t)
<1>1. /\ clock' = clock + 1 /\ clock \in Nat
      /\ old \in DOMAIN link
      /\ old = <<Walk[Front(Path(t))], <<Last(Path(t)), 0>>>>
      /\ new = <<Walk[Front(Path(t))], <<Last(Path(t)), clock'>>>>
  BY DirectoriesAssumption DEF PutAside, Inv, TreeOK, At, Main, AsideAt
<1>2. /\ link' = Renamed(old[1], old[2], new[2])
      /\ old = <<old[1], old[2]>> /\ new = <<old[1], new[2]>>
  BY <1>1 DEF PutAside, Main
<1>3. new[2][2] = clock + 1 /\ old[2][2] = 0 /\ new[1] = old[1] /\ new[2][1] = old[2][1]
  BY <1>1
<1>4. new \notin DOMAIN link
  BY <1>1, <1>3 DEF Stamped
<1> HIDE DEF old, new
<1>5. /\ DOMAIN link' = (DOMAIN link \ {old}) \cup {new}
      /\ link'[new] = link[old]
      /\ \A x \in DOMAIN link \ {old} : x # new /\ link'[x] = link[x]
  BY <1>1, <1>2, <1>4 DEF Renamed
<1>6. clock + 1 # 0
  BY <1>1
<1> QED
  BY <1>1, <1>3, <1>5, <1>6 DEF old, new

\* A version is where its name was, and what is below it moves with it.
LEMMA PutAsideShape ==
  ASSUME Inv, Shape, Stamped, NEW t \in Threads, Request(t) \/ Serve(t), PutAside(t)
  PROVE  Shape'
<1> DEFINE old == At(Path(t))
           new == AsideAt(t)
<1>4. /\ old \in DOMAIN link
      /\ DOMAIN link' = (DOMAIN link \ {old}) \cup {new}
      /\ link'[new] = link[old]
      /\ \A x \in DOMAIN link \ {old} : link'[x] = link[x]
      /\ new[1] = old[1] /\ new[2][1] = old[2][1]
  BY AsideEntries
<1>5. \A v \in Linked : Home'[v] = Home[v]
  BY HomeStays
<1> HIDE DEF old, new
<1>7. ASSUME NEW x \in DOMAIN link'
      PROVE  \E y \in DOMAIN link : link'[x] = link[y] /\ x[1] = y[1] /\ x[2][1] = y[2][1]
  BY <1>4
<1>8. \A v \in Linked : v = Root \/ \E y \in DOMAIN link' : link'[y] = v
  BY <1>4 DEF Linked
<1>9. ASSUME NEW x \in DOMAIN link'
      PROVE  /\ x[1] \in Linked
             /\ Home[x[1]] \in Seq(Names)
             /\ Len(Home[x[1]]) <= MaxPathDepth
             /\ Home'[link'[x]] = Append(Home[x[1]], x[2][1])
  <2>1. PICK y \in DOMAIN link : link'[x] = link[y] /\ x[1] = y[1] /\ x[2][1] = y[2][1]
    BY <1>7
  <2>2. link[y] \in Linked /\ x[1] \in Linked
    BY <2>1 DEF Shape, Linked
  <2>3. Home'[link'[x]] = Home[link[y]]
    BY <1>5, <2>1, <2>2
  <2> QED
    BY <2>1, <2>2, <2>3 DEF Shape
<1> QED
  BY <1>5, <1>8, <1>9 DEF Shape

\* What remove takes out of the tree has nothing below it.
LEMMA RemovedEntries ==
  ASSUME Inv, NEW t \in Threads, Removed(t)
  PROVE  /\ DOMAIN link' \subseteq DOMAIN link
         /\ \A x \in DOMAIN link' : link'[x] = link[x]
         /\ \A x \in DOMAIN link \ DOMAIN link' :
              /\ \A y \in DOMAIN link : y[1] # link[x]
              /\ x[1] = Walk[Front(Path(t))] /\ x[2][1] = Last(Path(t))
              /\ IF pc[t] = "sweep" THEN x[2][2] # 0 ELSE x = At(Path(t))
         /\ pc[t] # "sweep" /\ Walk[Path(t)] \notin Dirs => At(Path(t)) \notin DOMAIN link'
<1> DEFINE d == Walk[Front(Path(t))]
<1>1. PICK e : /\ e[1] = Last(Path(t))
               /\ IF pc[t] = "sweep" THEN e[2] # 0 ELSE e = Main(Last(Path(t)))
               /\ RemoveEntry(d, e)
  BY DEF Removed
<1>2. At(Path(t)) = <<d, Main(Last(Path(t)))>>
  BY DEF At
<1> HIDE DEF d
<1>3. link' = link \/ link' = Without(d, e)
  BY <1>1 DEF RemoveEntry
<1>4. DOMAIN Without(d, e) = DOMAIN link \ {<<d, e>>}
  BY DEF Without
<1>5. ASSUME NEW x \in DOMAIN link \ DOMAIN link', NEW y \in DOMAIN link, y[1] = link[x]
      PROVE  FALSE
  <2>1. x = <<d, e>> /\ link' # link
    BY <1>3, <1>4, <1>5
  <2>2. Lookup(d, e) = link[x] /\ link[x] \in Dirs
    BY <1>5, <2>1 DEF Lookup, Inv, TreeOK
  <2>3. y[2] \in Holds(link[x])
    BY <1>5 DEF Holds
  <2> QED
    BY <1>1, <2>1, <2>2, <2>3 DEF RemoveEntry
<1>6. ASSUME NEW x \in DOMAIN link \ DOMAIN link'
      PROVE  /\ x[1] = d /\ x[2][1] = Last(Path(t))
             /\ IF pc[t] = "sweep" THEN x[2][2] # 0 ELSE x = At(Path(t))
  <2>1. x = <<d, e>>
    BY <1>3, <1>4, <1>6
  <2> QED
    BY <1>1, <1>2, <2>1
<1>7. ASSUME pc[t] # "sweep", Walk[Path(t)] \notin Dirs, At(Path(t)) \in DOMAIN link'
      PROVE  FALSE
  <2>1. e = Main(Last(Path(t))) /\ At(Path(t)) = <<d, e>>
    BY <1>1, <1>2, <1>7
  <2>2. link' = link /\ link # Without(d, e)
    BY <1>3, <1>4, <1>7, <2>1
  <2>3. Lookup(d, e) \in Dirs
    BY <1>1, <2>2 DEF RemoveEntry
  <2>4. Path(t) \in Seq(Names) /\ Path(t) # <<>>
    BY PathTyping, EmptySeq DEF Removed
  <2>5. Walk[Path(t)] = Lookup(d, e)
    BY <2>1, <2>4, WalkEntry DEF d
  <2> QED
    BY <1>7, <2>3, <2>5
<1>8. DOMAIN link' \subseteq DOMAIN link /\ \A x \in DOMAIN link' : link'[x] = link[x]
  BY <1>1, RemoveShrinks
<1> QED
  BY <1>5, <1>6, <1>7, <1>8 DEF d

\* An entry that goes has nothing below it.
LEMMA RemovedShape ==
  ASSUME Inv, Shape, NEW t \in Threads, Request(t) \/ Serve(t), Still \/ Removed(t)
  PROVE  Shape'
<1>1. /\ DOMAIN link' \subseteq DOMAIN link
      /\ \A x \in DOMAIN link' : link'[x] = link[x]
      /\ \A x \in DOMAIN link' : \A y \in DOMAIN link : link[y] = x[1] => y \in DOMAIN link'
  BY RemovedEntries DEF Still
<1>2. \A v \in Linked : Home'[v] = Home[v]
  BY HomeStays
<1>3. ASSUME NEW x \in DOMAIN link'
      PROVE  /\ x[1] = Root \/ \E y \in DOMAIN link' : link'[y] = x[1]
             /\ Home'[x[1]] \in Seq(Names)
             /\ Len(Home'[x[1]]) <= MaxPathDepth
             /\ Home'[link'[x]] = Append(Home'[x[1]], x[2][1])
  <2>1. x \in DOMAIN link /\ link'[x] = link[x] /\ link[x] \in Linked /\ x[1] \in Linked
    BY <1>1 DEF Shape, Linked
  <2>2. Home'[x[1]] = Home[x[1]] /\ Home'[link'[x]] = Home[link[x]]
    BY <1>2, <2>1
  <2>3. x[1] = Root \/ \E y \in DOMAIN link' : link'[y] = x[1]
    BY <1>1, <2>1 DEF Shape
  <2> QED
    BY <2>1, <2>2, <2>3 DEF Shape
<1> QED
  BY <1>3 DEF Shape

\* Every step keeps the tree in shape.
LEMMA ShapeStep ==
  ASSUME Inv, Handled, Shape, Stamped, HomeRoot, NEW t \in Threads, Request(t) \/ Serve(t)
  PROVE  Shape' /\ Stamped' /\ HomeRoot'
<1>1. HomeRoot'
  BY HomeStays DEF HomeRoot, Linked
<1>2. CASE Still \/ Removed(t)
  <2>1. /\ DOMAIN link' \subseteq DOMAIN link
        /\ clock' = clock
    BY <1>2, RemoveShrinks DEF Still, Removed
  <2> QED
    BY <1>1, <1>2, <2>1, RemovedShape DEF Stamped
<1>3. CASE DirectoryMade(t) \/ FileMade(t)
  <2>1. PICK p \in Seq(Names) :
          \E node : /\ p # <<>> /\ Len(p) - 1 <= MaxPathDepth
                    /\ Enters(p, node) /\ Home'[node] = p
    <3>1. Path(t) \in Seq(Names) /\ Len(Path(t)) \in Nat \ {0}
      BY <1>3, PathTyping DEF DirectoryMade, FileMade
    <3>2. Path(t)' = Path(t) /\ Len(Path(t)) - 1 <= MaxPathDepth
      BY <1>3, OthersStay DEF DirectoryMade, FileMade, Handled, Path
    <3>3. HomeCases'
      BY HomeUnfolds, PTL
    <3>4. CASE DirectoryMade(t)
      <4> DEFINE k == level[t]
                 p == SubSeq(Path(t), 1, k)
      <4>1. k \in Levels /\ k \in 1 .. Len(Path(t)) /\ k \in 0 .. Len(Path(t))
        <5>1. k \in Levels /\ k \in 1 .. Len(Path(t)) - 1
          BY <3>4, LevelTyping DEF DirectoryMade
        <5> QED
          BY <3>1, <5>1
      <4>2. p \in Seq(Names) /\ Len(p) = k /\ p # <<>>
        BY <3>1, <4>1, PrefixProperties, PrefixFront
      <4>3. Len(p) - 1 <= MaxPathDepth
        <5> DEFINE n == Len(Path(t))
        <5>1. n \in Nat /\ n - 1 <= MaxPathDepth /\ k \in 1 .. n
          BY <3>1, <3>2, <4>1
        <5> HIDE DEF n
        <5>2. k - 1 <= MaxPathDepth
          BY <5>1, DirectoriesAssumption
        <5> QED
          BY <4>2, <5>2
      <4>4. Home'[<<t, k>>] = p
        <5>1. Home'[<<t, k>>] = SubSeq(Path(t)', 1, k)
          BY <3>3, <4>1 DEF HomeCases
        <5> QED
          BY <3>2, <5>1
      <4> QED
        BY <3>4, <4>2, <4>3, <4>4 DEF DirectoryMade
    <3>5. CASE FileMade(t)
      <4>1. Home'[t] = Path(t)
        BY <3>2, <3>3 DEF HomeCases
      <4>2. Path(t) # <<>>
        BY <3>1, EmptySeq
      <4> QED
        BY <3>1, <3>2, <3>5, <4>1, <4>2 DEF FileMade
    <3> QED
      BY <1>3, <3>4, <3>5
  <2>2. Shape'
    BY <2>1, EnterShape
  <2>3. Stamped'
    <3>1. /\ DOMAIN link' = DOMAIN link \cup {At(p)} /\ clock' = clock
          /\ At(p)[2][2] = 0
      BY <2>1 DEF Enters, With, At, Main
    <3>2. 0 <= clock
      BY DirectoriesAssumption DEF Inv, TreeOK
    <3> QED
      BY <3>1, <3>2 DEF Stamped
  <2> QED
    BY <1>1, <2>2, <2>3
<1>4. CASE PutAside(t)
  <2>1. Shape'
    BY <1>4, PutAsideShape
  <2>2. Stamped'
    <3>1. /\ clock' = clock + 1 /\ clock \in Int
          /\ \A x \in DOMAIN link' : x \in DOMAIN link \/ x[2][2] = clock'
      BY <1>4, DirectoriesAssumption DEF PutAside, Renamed, Inv, TreeOK
    <3>2. \A x \in DOMAIN link : x[2][2] \in Int
      BY DirectoriesAssumption DEF Inv, TreeOK, Entries
    <3> QED
      BY <3>1, <3>2 DEF Stamped
  <2> QED
    BY <1>1, <2>1, <2>2
<1> QED
  BY <1>2, <1>3, <1>4, TreeMoves

\* All of it together.
Whereabouts ==
  /\ Inv
  /\ Handled
  /\ Shape
  /\ Stamped
  /\ HomeRoot

\* It holds at first, ...
LEMMA WhereaboutsInit == Rooted /\ Init => Whereabouts
<1> SUFFICES ASSUME Rooted, Init PROVE Whereabouts
  OBVIOUS
<1>1. Inv
  BY InvInit
<1>2. Handled
  BY DEF Init, Handled, WritePcs, MutexPcs
<1>3. Homes(InitHome)
  BY DEF Rooted, InitHome
<1>4. /\ {Root} \cup OldDirs \cup Stored \subseteq Nodes
      /\ ({Root} \cup OldDirs \cup Stored) \cap (Threads \cup Threads \X Levels) = {}
  BY DirectoriesAssumption DEF Nodes, Dirs, Files
<1>5. \A node \in {Root} \cup OldDirs \cup Stored : Home[node] = InitHome[node]
  BY <1>4, HomeUnfolds DEF HomeCases
<1>6. HomeRoot
  BY <1>3, <1>5 DEF HomeRoot, Homes
<1>7. Shape
  <2> SUFFICES ASSUME NEW x \in DOMAIN InitLink
               PROVE  /\ x[1] = Root \/ \E y \in DOMAIN InitLink : InitLink[y] = x[1]
                      /\ Home[x[1]] \in Seq(Names)
                      /\ Home[InitLink[x]] = Append(Home[x[1]], x[2][1])
                      /\ Len(Home[x[1]]) <= MaxPathDepth
    BY DEF Init, Shape
  <2>1. x[1] \in {Root} \cup OldDirs /\ InitLink[x] \in OldDirs \cup Stored
    BY DirectoriesAssumption
  <2>2. Home[x[1]] = InitHome[x[1]] /\ Home[InitLink[x]] = InitHome[InitLink[x]]
    BY <1>5, <2>1
  <2> QED
    BY <1>3, <2>1, <2>2 DEF Homes
<1>8. Stamped
  BY DEF Init, Stamped
<1> QED
  BY <1>1, <1>2, <1>6, <1>7, <1>8 DEF Whereabouts

\* ... while nothing happens, ...
LEMMA WhereaboutsStutter == Whereabouts /\ UNCHANGED vars => Whereabouts'
<1> SUFFICES ASSUME Whereabouts, UNCHANGED vars
             PROVE  Whereabouts'
  OBVIOUS
<1>1. Inv'
  BY InvStutter DEF Whereabouts
<1>2. UNCHANGED <<link, mutex, pc, req, clock>>
  BY DEF vars, tree, locks
<1>3. Home' = Home
  BY <1>2 DEF Home, Path
<1>4. Handled' /\ Shape' /\ Stamped' /\ HomeRoot'
  BY <1>2, <1>3 DEF Whereabouts, Handled, Shape, Stamped, HomeRoot, Path
<1> QED
  BY <1>1, <1>4 DEF Whereabouts

\* ... after every step, ...
LEMMA WhereaboutsNext == Whereabouts /\ [Next]_vars => Whereabouts'
<1> SUFFICES ASSUME Whereabouts, [Next]_vars PROVE Whereabouts'
  OBVIOUS
<1>1. CASE UNCHANGED vars
  BY <1>1, WhereaboutsStutter
<1>2. ASSUME NEW t \in Threads, Request(t) \/ Serve(t)
      PROVE  Whereabouts'
  <2>1. Inv'
    BY <1>2, LocksStep, TreeStep, ThreadsStep, UnmadeStep DEF Whereabouts, Inv
  <2> QED
    BY <1>2, <2>1, HandledStep, ShapeStep DEF Whereabouts
<1> QED
  BY <1>1, <1>2 DEF Next

\* ... and so always.
LEMMA WhereaboutsAlways == Rooted /\ Spec => []Whereabouts
BY WhereaboutsInit, WhereaboutsNext, PTL DEF Spec

\* Nothing in storage gets out of reach: whoever creates, removes or puts aside a
\* directory, the entries that stay lead to the root, and none lies deeper than
\* validate_path lets a request go (create_directories, backup_file, remove).
THEOREM TreeHangsTogether == Rooted /\ Spec => []NothingStranded
<1>1. Whereabouts => NothingStranded
  BY EverythingReached, DirectoriesAssumption DEF Whereabouts, NothingStranded
<1> QED
  BY <1>1, WhereaboutsAlways, PTL

-----------------------------------------------------------------------------
(* Where paths lead to after a step *)

\* The entries of names (not of versions) stay or go, but for a new one at path q.
OnlyEnters(q, node) ==
  /\ node \notin Linked
  /\ \A x \in DOMAIN link' : x[2][2] = 0 =>
       \/ x \in DOMAIN link /\ link'[x] = link[x]
       \/ x = At(q) /\ x \notin DOMAIN link /\ Walk[Front(q)] \in Dirs /\ link'[x] = node

\* A path leads where it led, or nowhere any more, or to the new node.
LEMMA WalkMovesOn ==
  ASSUME Whereabouts, Inv', NEW q \in Seq(Names), q # <<>>, NEW node, OnlyEnters(q, node),
         NEW p \in Seq(Names)
  PROVE  \/ Walk'[p] \in {Walk[p], None}
         \/ p = q /\ Walk[p] = None /\ Walk'[p] = node
<1> DEFINE P(r) == \/ Walk'[r] \in {Walk[r], None}
                   \/ r = q /\ Walk[r] = None /\ Walk'[r] = node
           S == {n \in Nat : \A r \in Seq(Names) : Len(r) = n => P(r)}
<1> WalkEquation /\ WalkEquation'
  BY WalkUnfolds, PTL
<1>1. Walk'[<<>>] = Root /\ Walk[<<>>] = Root /\ <<>> \in Seq(Names)
  BY EmptySeq DEF WalkEquation
<1>2. 0 \in S
  <2> SUFFICES ASSUME NEW r \in Seq(Names), Len(r) = 0 PROVE P(r)
    OBVIOUS
  <2>1. r = <<>>
    BY EmptySeq
  <2> QED
    BY <1>1, <2>1
<1>3. ASSUME NEW r \in Seq(Names), r # <<>>, P(Front(r)) PROVE P(r)
  <2> DEFINE f == Front(r)
             e == Main(Last(r))
  <2>1. f \in Seq(Names) /\ Last(r) \in Names /\ r = Append(f, Last(r))
    BY <1>3, FrontProperties
  <2>2. Walk[r] = Lookup(Walk[f], e) /\ Walk'[r] = Lookup(Walk[f], e)'
    BY <1>3, <2>1 DEF WalkEquation
  <2>3. e[2] = 0
    BY DEF Main
  <2>4. ASSUME <<Walk'[f], e>> \notin DOMAIN link' PROVE Walk'[r] = None
    BY <2>2, <2>4 DEF Lookup
  <2>5. ASSUME <<Walk'[f], e>> \in DOMAIN link' PROVE Walk'[r] = link'[<<Walk'[f], e>>]
    BY <2>2, <2>5 DEF Lookup
  <2>6. /\ \A x \in DOMAIN link' : x[1] # None
        /\ \A x \in DOMAIN link : x[1] \in Linked
    BY NodesApart DEF Inv, TreeOK, Whereabouts, Shape, Linked
  <2>7. At(q) = <<Walk[Front(q)], Main(Last(q))>>
    BY DEF At
  <2> HIDE DEF e
  <2>8. CASE <<Walk'[f], e>> \in DOMAIN link' /\ Walk'[f] = Walk[f]
    <3> DEFINE x == <<Walk[f], e>>
    <3>1. x \in DOMAIN link' /\ x[2][2] = 0 /\ Walk'[r] = link'[x]
      BY <2>3, <2>5, <2>8
    <3>2. CASE x \in DOMAIN link /\ link'[x] = link[x]
      <4>1. Walk[r] = link[x]
        BY <2>2, <3>2 DEF Lookup
      <4> QED
        BY <3>1, <3>2, <4>1
    <3>3. CASE /\ x = At(q) /\ x \notin DOMAIN link
               /\ Walk[Front(q)] \in Dirs /\ link'[x] = node
      <4>1. Walk[f] = Walk[Front(q)] /\ Walk[f] # None /\ e = Main(Last(q))
        BY <2>7, <3>3, NodesApart
      <4>2. Front(q) \in Seq(Names) /\ q = Append(Front(q), Last(q))
        BY FrontProperties
      <4>3. f = Front(q)
        BY <2>1, <4>1, <4>2, WalkHome DEF Whereabouts
      <4>4. Last(r) = Last(q)
        BY <4>1 DEF e, Main
      <4>5. r = q
        BY <2>1, <4>2, <4>3, <4>4
      <4>6. Walk[r] = None
        BY <2>2, <3>3 DEF Lookup
      <4> QED
        BY <3>1, <3>3, <4>5, <4>6
    <3> QED
      BY <3>1, <3>2, <3>3 DEF OnlyEnters
  <2>9. CASE <<Walk'[f], e>> \in DOMAIN link' /\ Walk'[f] = node
    <3> DEFINE x == <<node, e>>
    <3>1. x \in DOMAIN link' /\ x[2][2] = 0 /\ x[1] = node
      BY <2>3, <2>9
    <3>2. x \notin DOMAIN link
      BY <2>6, <3>1 DEF OnlyEnters
    <3>3. node = Walk[Front(q)] /\ Walk[Front(q)] \in Dirs
      BY <2>7, <3>1, <3>2 DEF OnlyEnters
    <3>4. node \in Linked
      BY <3>3, FrontProperties, WalkLinked, NodesApart DEF Whereabouts
    <3> QED
      BY <3>4 DEF OnlyEnters
  <2>10. CASE Walk'[f] = None
    BY <2>4, <2>6, <2>10
  <2> QED
    BY <1>3, <2>4, <2>8, <2>9, <2>10
<1>4. ASSUME NEW n \in Nat, n \in S PROVE n + 1 \in S
  <2> SUFFICES ASSUME NEW r \in Seq(Names), Len(r) = n + 1 PROVE P(r)
    OBVIOUS
  <2>1. r # <<>>
    BY EmptySeq
  <2>2. Front(r) \in Seq(Names) /\ Len(Front(r)) = n
    BY <2>1, FrontProperties
  <2>3. P(Front(r))
    BY <1>4, <2>2
  <2> HIDE DEF P
  <2> QED
    BY <1>3, <2>1, <2>3
<1>5. Nat \subseteq S
  <2> HIDE DEF S
  <2> QED
    BY <1>2, <1>4, SetInduction
<1>6. Len(p) \in S
  BY <1>5, LenProperties
<1> QED
  BY <1>6

\* Where the paths lead to after each kind of step.
LEMMA WalkMoves ==
  ASSUME Whereabouts, Inv', NEW t \in Threads, Request(t) \/ Serve(t), NEW p \in Seq(Names)
  PROVE  \/ Walk'[p] \in {Walk[p], None}
         \/ /\ DirectoryMade(t)
            /\ p = SubSeq(Path(t), 1, level[t]) /\ Walk'[p] = <<t, level[t]>>
         \/ /\ FileMade(t)
            /\ p = Path(t) /\ Walk'[p] = t
<1>1. \A node \in Linked : node = Root \/ \E x \in DOMAIN link : link[x] = node
  BY DEF Linked
<1>2. Walk'[<<>>] = Walk[<<>>]
  <2>1. WalkEquation /\ WalkEquation'
    BY WalkUnfolds, PTL
  <2> QED
    BY <2>1, EmptySeq DEF WalkEquation
<1>3. CASE p # <<>> /\ \A x \in DOMAIN link' :
             x[2][2] = 0 => x \in DOMAIN link /\ link'[x] = link[x]
  <2>1. OnlyEnters(p, None)
    BY <1>3, LinkedTyping, DirectoriesAssumption DEF OnlyEnters, Whereabouts
  <2> QED
    BY <1>3, <2>1, WalkMovesOn
<1>4. CASE Still \/ Removed(t)
  BY <1>2, <1>3, <1>4, RemovedEntries DEF Still, Whereabouts
<1>5. CASE PutAside(t)
  BY <1>2, <1>3, <1>5, AsideEntries DEF Whereabouts
<1>6. ASSUME NEW q \in Seq(Names), q # <<>>, NEW node, node \notin Linked, Enters(q, node)
      PROVE  Walk'[p] \in {Walk[p], None} \/ (p = q /\ Walk'[p] = node)
  <2>1. OnlyEnters(q, node)
    BY <1>6 DEF OnlyEnters, Enters, At, With
  <2> QED
    BY <1>6, <2>1, WalkMovesOn
<1>7. CASE DirectoryMade(t)
  <2> DEFINE k == level[t]
             q == SubSeq(Path(t), 1, k)
             node == <<t, k>>
  <2>1. /\ Path(t) \in Seq(Names) /\ k \in Levels
        /\ k \in 1 .. Len(Path(t)) /\ k \in 0 .. Len(Path(t))
    <3>1. /\ Path(t) \in Seq(Names) /\ Len(Path(t)) \in Nat
          /\ k \in Levels /\ k \in 1 .. Len(Path(t)) - 1
      BY <1>7, PathTyping, LevelTyping DEF DirectoryMade, Whereabouts
    <3> QED
      BY <3>1
  <2>2. q \in Seq(Names) /\ q # <<>>
    BY <2>1, PrefixProperties, PrefixFront
  <2>3. node \notin Linked
    <3>1. node # Root
      BY <2>1, DirectoriesAssumption
    <3>2. \A x \in DOMAIN link : link[x] # node
      <4>1. ~ (k < k)
        BY <2>1
      <4> QED
        BY <2>1, <4>1 DEF Whereabouts, Inv, DirectoriesUnmade
    <3> QED
      BY <1>1, <3>1, <3>2
  <2>4. Enters(q, node)
    BY <1>7 DEF DirectoryMade
  <2>5. Walk'[p] \in {Walk[p], None} \/ (p = q /\ Walk'[p] = node)
    <3> HIDE DEF q, node
    <3> QED
      BY <1>6, <2>2, <2>3, <2>4
  <2> QED
    BY <1>7, <2>5
<1>8. CASE FileMade(t)
  <2>1. Path(t) \in Seq(Names) /\ Path(t) # <<>>
    BY <1>8, PathTyping, EmptySeq DEF FileMade, Whereabouts
  <2>2. t \notin Linked
    <3>1. t # Root
      BY NodesApart DEF Dirs
    <3> QED
      BY <1>1, <1>8, <3>1 DEF FileMade, Whereabouts, Inv, FileUnmade
  <2>3. Enters(Path(t), t)
    BY <1>8 DEF FileMade
  <2> QED
    BY <1>6, <1>8, <2>1, <2>2, <2>3
<1> QED
  BY <1>4, <1>5, <1>7, <1>8, TreeMoves DEF Whereabouts

\* Where the entry goes, the path leads nowhere.
LEMMA WalkGone ==
  ASSUME Inv', NEW p \in Seq(Names), p # <<>>, At(p) \notin DOMAIN link',
         Walk'[Front(p)] \in {Walk[Front(p)], None}
  PROVE  Walk'[p] = None
<1>1. WalkEquation'
  BY WalkUnfolds, PTL
<1>2. Walk'[p] = Lookup(Walk[Front(p)], Main(Last(p)))'
  BY <1>1 DEF WalkEquation
<1>3. <<Walk'[Front(p)], Main(Last(p))>> \notin DOMAIN link'
  BY NodesApart DEF Inv, TreeOK, At
<1> QED
  BY <1>2, <1>3 DEF Lookup, Main

\* Two threads do not work under the mutex of one path.
LEMMA MutexAlone ==
  ASSUME Whereabouts, NEW t \in Threads, NEW u \in Threads,
         pc[t] \in MutexPcs, pc[u] \in MutexPcs, Path(t) = Path(u)
  PROVE  t = u
BY DEF Whereabouts, Handled

-----------------------------------------------------------------------------
(* Files *)

\* A WRITE comes to fopen with no file in its place, and the file it then receives is its
\* own: the only one its path leads to, as long as it leads to a file.
Own ==
  /\ Stored \subseteq whole
  /\ \A t \in Threads :
       /\ pc[t] = "fopen" => Walk[Path(t)] \notin Files
       /\ pc[t] \in {"recv", "remove"} =>
            fd[t] = t /\ t \notin whole /\ Walk[Path(t)] \in (Nodes \ Files) \cup {None, t}

\* The steps of a WRITE under its mutex, and all others.
Cleared(t) ==
  /\ pc[t] = "backup" /\ pc'[t] = "fopen" /\ whole' = whole
  /\ PutAside(t) \/ (Still /\ At(Path(t)) \notin DOMAIN link)

Opens(t) ==
  /\ pc[t] = "fopen" /\ pc'[t] = "recv"
  /\ FileMade(t)
  /\ fd'[t] = t
  /\ whole' = whole \ {t}

Receives(t) ==
  /\ pc[t] = "recv"
  /\ Still
  /\ fd' = fd
  /\ \/ pc'[t] = "unlock" /\ whole' = whole \cup {fd[t]}
     \/ pc'[t] = "remove" /\ whole' = whole

CleansUp(t) ==
  /\ pc[t] = "remove" /\ pc'[t] = "unlock"
  /\ Removed(t)
  /\ whole' = whole

Elsewhere(t) ==
  /\ pc[t] \notin {"backup", "recv", "remove"} /\ pc'[t] \notin {"fopen", "recv", "remove"}
  /\ Still \/ DirectoryMade(t) \/ (Removed(t) /\ pc[t] \in {"delete", "sweep"})
  /\ whole' = whole

\* The files are changed by a WRITE under its mutex, and otherwise not at all.
LEMMA FileMoves ==
  ASSUME Whereabouts, Own, NEW t \in Threads, Request(t) \/ Serve(t)
  PROVE  Cleared(t) \/ Opens(t) \/ Receives(t) \/ CleansUp(t) \/ Elsewhere(t)
<1> USE DEF Goto, tree, scanVars
<1>1. /\ pc \in [Threads -> Pcs] /\ fd \in [Threads -> Files \cup {None}]
      /\ Inv
  BY DEF Whereabouts, Inv, ThreadsOK
<1>2. Still \/ DirectoryMade(t) \/ FileMade(t) \/ PutAside(t) \/ Removed(t)
  BY TreeMoves DEF Whereabouts
<1>3. /\ DirectoryMade(t) => pc[t] = "mkdir"
      /\ FileMade(t) => pc[t] = "fopen"
      /\ PutAside(t) => pc[t] = "backup"
      /\ Removed(t) => pc[t] \in {"remove", "delete", "sweep"}
  BY DEF DirectoryMade, FileMade, PutAside, Removed
<1> HIDE DEF Goto
<1>4. ASSUME pc[t] \notin {"backup", "fopen", "recv", "remove"},
             pc'[t] \notin {"fopen", "recv", "remove"}, whole' = whole
      PROVE  Elsewhere(t)
  BY <1>2, <1>3, <1>4 DEF Elsewhere
<1>5. \A from, to : Goto(t, from, to) => pc[t] = from /\ pc'[t] = to
  BY <1>1 DEF Goto
<1>6. CASE Request(t)
  <2>1. /\ pc[t] = "idle" /\ pc'[t] \in {"rejected", "dirlock", "lock", "stat"}
        /\ whole' = whole
    BY <1>1, <1>6, RequestStep
  <2> QED
    BY <1>4, <2>1
<1>7. CASE LockDirectories(t)
  BY <1>4, <1>5, <1>7 DEF LockDirectories
<1>8. CASE Mkdir(t)
  BY <1>4, <1>5, <1>8 DEF Mkdir
<1>9. CASE UnlockDirectories(t)
  BY <1>4, <1>5, <1>9 DEF UnlockDirectories
<1>10. CASE LockVersionMutex(t)
  BY <1>4, <1>5, <1>10 DEF LockVersionMutex
<1>11. CASE Backup(t)
  <2>1. pc[t] = "backup" /\ pc'[t] = "fopen" /\ whole' = whole
    BY <1>5, <1>11 DEF Backup
  <2>2. CASE Lookup(Walk[Front(Path(t))], Main(Last(Path(t)))) = None
    BY <1>1, <1>11, <2>1, <2>2, LookupTyping DEF Backup, Still, Cleared, At
  <2>3. CASE Lookup(Walk[Front(Path(t))], Main(Last(Path(t)))) # None
    BY <1>1, <1>11, <2>1, <2>3, LookupTyping DEF Backup, PutAside, Cleared, At
  <2> QED
    BY <2>2, <2>3
<1>12. CASE Fopen(t)
  <2>1. /\ pc[t] = "fopen" /\ pc'[t] = "recv"
        /\ Walk[Front(Path(t))] \in Dirs
    BY <1>5, <1>12 DEF Fopen
  <2>2. Path(t) \in Seq(Names) /\ Path(t) # <<>>
    BY <1>1, <2>1, PathTyping, EmptySeq
  <2>3. Walk[Path(t)] = Lookup(Walk[Front(Path(t))], Main(Last(Path(t))))
    BY <1>1, <2>2, WalkEntry
  <2>4. Walk[Path(t)] \notin Dirs /\ Walk[Path(t)] \notin Files
    BY <1>12, <2>1, <2>3 DEF Fopen, Own
  <2>5. Walk[Path(t)] = None
    BY <1>1, <2>3, <2>4 DEF Lookup, Inv, TreeOK, Nodes
  <2>6. /\ link' = With(Walk[Front(Path(t))], Main(Last(Path(t))), t)
        /\ whole' = whole \ {t} /\ fd' = [fd EXCEPT ![t] = t] /\ clock' = clock
    BY <1>12, <2>3, <2>5 DEF Fopen
  <2>7. At(Path(t)) \notin DOMAIN link
    BY <1>1, <2>3, <2>5, LookupTyping DEF At
  <2> QED
    BY <1>1, <2>1, <2>6, <2>7 DEF Opens, FileMade, Enters
<1>13. CASE FopenFails(t)
  <2>1. /\ pc[t] = "fopen" /\ pc'[t] = "refused"
        /\ whole' = whole /\ link' = link /\ clock' = clock
    BY <1>5, <1>13 DEF FopenFails
  <2> QED
    BY <2>1 DEF Elsewhere, Still
<1>14. CASE ReceiveFile(t)
  BY <1>5, <1>14 DEF ReceiveFile, Receives, Still
<1>15. CASE RemovePartial(t)
  <2>1. pc[t] = "remove" /\ pc'[t] = "unlock" /\ whole' = whole
    BY <1>5, <1>15 DEF RemovePartial
  <2>2. RemoveEntry(Walk[Front(Path(t))], Main(Last(Path(t)))) /\ clock' = clock
    BY <1>15 DEF RemovePartial, RemovePath
  <2> QED
    BY <2>1, <2>2 DEF CleansUp, Removed, Main
<1>16. CASE UnlockVersionMutex(t)
  BY <1>4, <1>5, <1>16 DEF UnlockVersionMutex
<1>17. CASE DeleteMain(t)
  BY <1>4, <1>5, <1>17 DEF DeleteMain
<1>18. CASE OpenDirectory(t)
  BY <1>4, <1>5, <1>18 DEF OpenDirectory
<1>19. CASE OpenDirectoryFails(t)
  BY <1>4, <1>5, <1>19 DEF OpenDirectoryFails
<1>20. CASE ReadDirectory(t)
  BY <1>4, <1>20 DEF ReadDirectory
<1>21. CASE DirectoryEnds(t)
  BY <1>4, <1>5, <1>21 DEF DirectoryEnds
<1>22. CASE Stat(t)
  BY <1>4, <1>5, <1>22 DEF Stat
<1> QED
  BY <1>6, <1>7, <1>8, <1>9, <1>10, <1>11, <1>12, <1>13, <1>14, <1>15, <1>16, <1>17,
     <1>18, <1>19, <1>20, <1>21, <1>22 DEF Serve

\* Where the path of a thread under the mutex leads to, no other thread makes a file.
LEMMA PlaceMoves ==
  ASSUME Whereabouts, Inv', NEW t \in Threads, Request(t) \/ Serve(t),
         NEW w \in Threads \ {t}, pc[w] \in MutexPcs
  PROVE  /\ Path(w)' = Path(w)
         /\ Walk'[Path(w)] \in {Walk[Path(w)], None} \cup Dirs
<1>1. Path(w) \in Seq(Names)
  BY PathTyping DEF MutexPcs, Whereabouts
<1>2. Path(w)' = Path(w)
  BY OthersStay DEF Path, MutexPcs, Whereabouts
<1>3. CASE Walk'[Path(w)] \in {Walk[Path(w)], None}
  BY <1>2, <1>3
<1>4. CASE DirectoryMade(t) /\ Walk'[Path(w)] = <<t, level[t]>>
  <2>1. level[t] \in Levels
    BY <1>4, LevelTyping DEF DirectoryMade, Whereabouts
  <2> QED
    BY <1>2, <1>4, <2>1 DEF Dirs
<1>5. CASE FileMade(t) /\ Path(w) = Path(t)
  BY <1>5, MutexAlone DEF FileMade, MutexPcs
<1> QED
  BY <1>1, <1>3, <1>4, <1>5, WalkMoves

\* After backup_file there is nothing in the place of the upload.
LEMMA ClearedGone ==
  ASSUME Whereabouts, Inv', NEW t \in Threads, Request(t) \/ Serve(t), Cleared(t)
  PROVE  Walk'[Path(t)] = None
<1>1. Path(t) \in Seq(Names) /\ Path(t) # <<>> /\ Front(Path(t)) \in Seq(Names)
  BY PathTyping, EmptySeq, FrontProperties DEF Cleared, Whereabouts
<1>2. ~ DirectoryMade(t) /\ ~ FileMade(t)
  BY DEF Cleared, DirectoryMade, FileMade
<1>3. Walk'[Front(Path(t))] \in {Walk[Front(Path(t))], None}
  BY <1>1, <1>2, WalkMoves
<1>4. At(Path(t)) \notin DOMAIN link'
  BY AsideEntries DEF Cleared, Still, Whereabouts
<1> QED
  BY <1>1, <1>3, <1>4, WalkGone

\* Every step leaves a WRITE its own file.
LEMMA OwnStep ==
  ASSUME Whereabouts, Inv', Own, NEW t \in Threads, Request(t) \/ Serve(t)
  PROVE  Own'
<1>1. Cleared(t) \/ Opens(t) \/ Receives(t) \/ CleansUp(t) \/ Elsewhere(t)
  BY FileMoves
<1>2. /\ whole' \subseteq whole \cup {t} /\ whole \ {t} \subseteq whole'
      /\ t \in whole' => t \in whole \/ pc'[t] = "unlock"
  BY <1>1 DEF Cleared, Opens, Receives, CleansUp, Elsewhere, Own
<1>3. Stored \subseteq whole'
  BY <1>2, DirectoriesAssumption DEF Own
<1>4. ASSUME NEW w \in Threads \ {t}, pc'[w] \in {"fopen", "recv", "remove"}
      PROVE  /\ pc'[w] = "fopen" => Walk'[Path(w)'] \notin Files
             /\ pc'[w] \in {"recv", "remove"} =>
                  /\ fd'[w] = w /\ w \notin whole'
                  /\ Walk'[Path(w)'] \in (Nodes \ Files) \cup {None, w}
  <2>1. pc'[w] = pc[w] /\ fd'[w] = fd[w]
    BY OthersStay DEF Whereabouts
  <2>2. pc[w] \in MutexPcs
    BY <1>4, <2>1 DEF MutexPcs
  <2>3. /\ Path(w)' = Path(w)
        /\ Walk'[Path(w)] \in {Walk[Path(w)], None} \cup Dirs
    BY <2>2, PlaceMoves
  <2>4. w \in whole' => w \in whole
    BY <1>2
  <2> QED
    BY <2>1, <2>3, <2>4, NodesApart DEF Own, Nodes
<1>5. ASSUME pc'[t] \in {"fopen", "recv", "remove"}
      PROVE  /\ pc'[t] = "fopen" => Walk'[Path(t)'] \notin Files
             /\ pc'[t] \in {"recv", "remove"} =>
                  /\ fd'[t] = t /\ t \notin whole'
                  /\ Walk'[Path(t)'] \in (Nodes \ Files) \cup {None, t}
  <2>1. pc[t] \in {"backup", "fopen", "recv"}
    BY <1>1, <1>5 DEF Cleared, Opens, Receives, CleansUp, Elsewhere
  <2>2. /\ Path(t) \in Seq(Names) /\ Path(t) # <<>> /\ Path(t)' = Path(t)
        /\ Front(Path(t)) \in Seq(Names)
    BY <2>1, PathTyping, EmptySeq, FrontProperties, OthersStay DEF Path, Whereabouts
  <2>3. CASE Cleared(t)
    <3>1. Walk'[Path(t)] = None
      BY <2>3, ClearedGone
    <3> QED
      BY <2>2, <2>3, <3>1, NodesApart DEF Cleared
  <2>4. CASE Opens(t)
    <3>1. Walk'[Path(t)] \in {Walk[Path(t)], None, t}
      BY <2>2, <2>4, WalkMoves DEF Opens, DirectoryMade
    <3>2. Walk[Path(t)] \notin Files
      BY <2>4 DEF Opens, Own
    <3>3. Walk[Path(t)] \in Nodes \cup {None}
      BY <2>2, WalkLinked, LinkedTyping DEF Whereabouts
    <3> QED
      BY <2>2, <2>4, <3>1, <3>2, <3>3 DEF Opens
  <2>5. CASE Receives(t)
    <3>1. ~ DirectoryMade(t) /\ ~ FileMade(t)
      BY <2>5 DEF Receives, DirectoryMade, FileMade
    <3>2. Walk'[Path(t)] \in {Walk[Path(t)], None}
      BY <2>2, <3>1, WalkMoves
    <3> QED
      BY <2>2, <2>5, <3>2 DEF Receives, Own
  <2> QED
    BY <1>1, <1>5, <2>3, <2>4, <2>5 DEF CleansUp, Elsewhere
<1> QED
  BY <1>3, <1>4, <1>5 DEF Own

\* A file that is not whole is of a WRITE that has yet to receive or remove it, or it is
\* out of the reach of that WRITE: its directory is not where the path leads to.
Partial ==
  \A t \in Threads, x \in DOMAIN link :
    link[x] = t /\ t \notin whole =>
      \/ x[1] # Walk[Front(Path(t))]
      \/ pc[t] \in {"recv", "remove"} /\ x = At(Path(t))

\* Every step leaves partial files with their WRITEs, or out of their reach.
LEMMA PartialStep ==
  ASSUME Whereabouts, Inv', Own, Partial, NEW t \in Threads, Request(t) \/ Serve(t)
  PROVE  Partial'
<1>1. Cleared(t) \/ Opens(t) \/ Receives(t) \/ CleansUp(t) \/ Elsewhere(t)
  BY FileMoves
<1> SUFFICES ASSUME NEW w \in Threads, NEW x \in DOMAIN link',
                    link'[x] = w, w \notin whole', x[1] = Walk'[Front(Path(w)')]
             PROVE  pc'[w] \in {"recv", "remove"} /\ x = At(Path(w))'
  BY DEF Partial
<1>2. x[1] \in Dirs /\ x[1] # None
  BY NodesApart DEF Inv, TreeOK
<1>3. CASE Opens(t) /\ w = t
  <2>1. At(Path(t)) = <<Walk[Front(Path(t))], Main(Last(Path(t)))>>
    BY DEF At
  <2>2. Path(t) \in Seq(Names) /\ Path(t) # <<>> /\ Path(t)' = Path(t)
    BY <1>3, PathTyping, EmptySeq, OthersStay DEF Path, Opens, Whereabouts
  <2>3. \A y \in DOMAIN link : link[y] # t
    BY <1>3 DEF Opens, Whereabouts, Inv, FileUnmade
  <2>4. x = At(Path(t))
    BY <1>3, <2>1, <2>3 DEF Opens, FileMade, Enters, With
  <2>5. x = <<x[1], Main(Last(Path(t)))>>
    BY <2>1, <2>4
  <2>6. At(Path(t))' = <<Walk'[Front(Path(t)')], Main(Last(Path(t)'))>>
    BY DEF At, Main
  <2> QED
    BY <1>3, <2>2, <2>5, <2>6 DEF Opens
<1>4. CASE ~ (Opens(t) /\ w = t)
  <2>1. w \notin whole
    BY <1>1, <1>4 DEF Cleared, Opens, Receives, CleansUp, Elsewhere
  \* The entry of the file before the step.
  <2>2. PICK y \in DOMAIN link :
          /\ link[y] = w /\ x[1] = y[1]
          /\ x = y \/ (PutAside(t) /\ y = At(Path(t)))
    <3>1. CASE Still \/ Removed(t)
      BY <3>1, RemovedEntries DEF Still, Whereabouts
    <3>2. CASE DirectoryMade(t)
      <4> DEFINE p == SubSeq(Path(t), 1, level[t])
      <4>1. level[t] \in Levels
        BY <3>2, LevelTyping DEF DirectoryMade, Whereabouts
      <4>2. /\ DOMAIN link' = DOMAIN link \cup {At(p)}
            /\ link'[At(p)] = <<t, level[t]>>
            /\ \A z \in DOMAIN link : link'[z] = link[z]
        BY <3>2, EnterEntries DEF DirectoryMade
      <4> HIDE DEF p
      <4>3. x # At(p)
        BY <4>1, <4>2, NodesApart
      <4> QED
        BY <4>2, <4>3
    <3>3. CASE PutAside(t)
      <4> DEFINE old == At(Path(t))
                 new == AsideAt(t)
      <4>1. /\ old \in DOMAIN link /\ new[1] = old[1]
            /\ DOMAIN link' = (DOMAIN link \ {old}) \cup {new}
            /\ link'[new] = link[old]
            /\ \A z \in DOMAIN link \ {old} : link'[z] = link[z]
        BY <3>3, AsideEntries DEF Whereabouts
      <4> HIDE DEF old, new
      <4>2. CASE x = new
        BY <3>3, <4>1, <4>2 DEF old
      <4>3. CASE x \in DOMAIN link /\ x # old
        BY <4>1, <4>3
      <4> QED
        BY <4>1, <4>2, <4>3
    <3>4. CASE FileMade(t)
      <4>1. pc[t] = "fopen" /\ ~ Still
        BY <3>4, EnterEntries DEF FileMade, Still
      <4>2. Opens(t)
        BY <1>1, <4>1 DEF Cleared, Receives, CleansUp, Elsewhere, DirectoryMade
      <4> QED
        BY <1>4, <3>4, <4>2, EnterEntries DEF FileMade
    <3> QED
      BY <3>1, <3>2, <3>3, <3>4, TreeMoves DEF Whereabouts
  <2>3. pc[w] # "idle"
    BY <2>2 DEF Whereabouts, Inv, FileUnmade
  <2>4. /\ Path(w) \in Seq(Names) /\ Path(w) # <<>> /\ Path(w)' = Path(w)
        /\ Front(Path(w)) \in Seq(Names) /\ Path(w) = Append(Front(Path(w)), Last(Path(w)))
    BY <2>3, PathTyping, EmptySeq, FrontProperties, OthersStay DEF Path, Whereabouts
  \* The directory is where the path leads to now, so it was before.
  <2>5. y[1] = Walk[Front(Path(w))]
    <3>1. y[1] \in Linked
      BY <2>2 DEF Linked, Whereabouts, Shape
    <3>2. Walk'[Front(Path(w))] = y[1]
      BY <2>2, <2>4
    <3>3. CASE DirectoryMade(t) /\ Walk'[Front(Path(w))] = <<t, level[t]>>
      <4>1. level[t] \in Levels /\ level[t] \in Nat
        BY <3>3, LevelTyping DEF DirectoryMade, Whereabouts, Inv, ThreadsOK
      <4>2. <<t, level[t]>> # Root
        BY <4>1, DirectoriesAssumption
      <4>3. \E z \in DOMAIN link : link[z] = <<t, level[t]>>
        BY <3>1, <3>2, <3>3, <4>2 DEF Linked
      <4>4. level[t] < level[t]
        BY <4>1, <4>3 DEF Whereabouts, Inv, DirectoriesUnmade
      <4> QED
        BY <4>1, <4>4
    <3>4. CASE FileMade(t) /\ Walk'[Front(Path(w))] = t
      BY <1>2, <2>2, <3>2, <3>4, NodesApart
    <3> QED
      BY <1>2, <2>2, <2>4, <3>2, <3>3, <3>4, WalkMoves
  <2>6. pc[w] \in {"recv", "remove"} /\ y = At(Path(w))
    BY <2>1, <2>2, <2>5 DEF Partial
  <2>7. CASE w # t
    <3>1. pc'[w] = pc[w]
      BY <2>7, OthersStay DEF Whereabouts
    <3>2. ~ PutAside(t) \/ y # At(Path(t))
      <4> SUFFICES ASSUME PutAside(t), y = At(Path(t)) PROVE FALSE
        OBVIOUS
      <4>1. /\ Path(t) \in Seq(Names) /\ Path(t) # <<>>
            /\ Front(Path(t)) \in Seq(Names)
            /\ Path(t) = Append(Front(Path(t)), Last(Path(t)))
        BY PathTyping, EmptySeq, FrontProperties DEF PutAside, Whereabouts
      <4>2. Walk[Front(Path(t))] = Walk[Front(Path(w))] /\ Last(Path(t)) = Last(Path(w))
        BY <2>6 DEF At, Main
      <4>3. Walk[Front(Path(w))] # None
        BY <1>2, <2>2, <2>5
      <4>4. Front(Path(t)) = Front(Path(w))
        BY <2>4, <4>1, <4>2, <4>3, WalkHome DEF Whereabouts
      <4>5. Path(t) = Path(w)
        BY <2>4, <4>1, <4>2, <4>4
      <4> QED
        BY <2>6, <2>7, <4>5, MutexAlone DEF PutAside, MutexPcs
    <3>3. x = y
      BY <2>2, <3>2
    <3>4. y = <<y[1], Main(Last(Path(w)))>>
      BY <2>6 DEF At
    <3>5. At(Path(w))' = <<Walk'[Front(Path(w)')], Main(Last(Path(w)'))>>
      BY DEF At, Main
    <3> QED
      BY <2>4, <2>6, <3>1, <3>3, <3>4, <3>5
  <2>8. CASE w = t
    <3>1. CASE Receives(t)
      <4>1. pc'[t] = "remove"
        <5>1. fd[t] = t
          BY <2>6, <2>8 DEF Own
        <5> QED
          BY <2>8, <3>1, <5>1 DEF Receives
      <4>2. x = y
        BY <2>2, <3>1 DEF Receives, PutAside
      <4>3. y = <<y[1], Main(Last(Path(w)))>>
        BY <2>6 DEF At
      <4>4. At(Path(w))' = <<Walk'[Front(Path(w)')], Main(Last(Path(w)'))>>
        BY DEF At, Main
      <4> QED
        BY <2>4, <2>8, <4>1, <4>2, <4>3, <4>4
    <3>2. CASE CleansUp(t)
      <4>1. Walk[Path(t)] \notin Dirs
        <5>1. Walk[Path(t)] = Lookup(Walk[Front(Path(t))], Main(Last(Path(t))))
          BY <2>4, <2>8, WalkEntry DEF Whereabouts
        <5>2. Walk[Path(t)] = t
          BY <2>2, <2>6, <2>8, <5>1 DEF Lookup, At
        <5> QED
          BY <5>2, NodesApart
      <4>2. At(Path(t)) \notin DOMAIN link'
        BY <3>2, <4>1, RemovedEntries DEF CleansUp, Whereabouts
      <4>3. x = y
        BY <2>2, <3>2 DEF CleansUp, PutAside
      <4> QED
        BY <2>6, <2>8, <4>2, <4>3
    <3> QED
      BY <1>1, <2>6, <2>8, <3>1, <3>2 DEF Cleared, Opens, Elsewhere
  <2> QED
    BY <2>7, <2>8
<1> QED
  BY <1>3, <1>4

\* A step of nobody keeps both.
LEMMA OwnStutter ==
  ASSUME Own, Partial, UNCHANGED vars
  PROVE  Own' /\ Partial'
<1>1. UNCHANGED <<link, whole, pc, req, fd>>
  BY DEF vars, tree
<1>2. Walk' = Walk
  BY <1>1 DEF Walk, Lookup
<1> QED
  BY <1>1, <1>2 DEF Own, Partial, At, Main, Path

\* Where everything is, and whose the files are.
FilesSafe ==
  /\ Whereabouts
  /\ Own
  /\ Partial

\* It holds at first, ...
LEMMA FilesSafeInit == Rooted /\ Init => FilesSafe
<1> SUFFICES ASSUME Rooted, Init PROVE FilesSafe
  OBVIOUS
<1>1. Own
  BY DEF Init, Own
<1>2. Partial
  <2>1. \A x \in DOMAIN link : link[x] \notin Threads
    BY DirectoriesAssumption DEF Init, Dirs, Files
  <2> QED
    BY <2>1 DEF Partial
<1> QED
  BY <1>1, <1>2, WhereaboutsInit DEF FilesSafe

\* ... after every step, ...
LEMMA FilesSafeNext == FilesSafe /\ [Next]_vars => FilesSafe'
<1> SUFFICES ASSUME FilesSafe, [Next]_vars PROVE FilesSafe'
  OBVIOUS
<1>1. Whereabouts'
  BY WhereaboutsNext DEF FilesSafe
<1>2. CASE UNCHANGED vars
  BY <1>1, <1>2, OwnStutter DEF FilesSafe
<1>3. ASSUME NEW t \in Threads, Request(t) \/ Serve(t)
      PROVE  FilesSafe'
  BY <1>1, <1>3, OwnStep, PartialStep DEF FilesSafe, Whereabouts
<1> QED
  BY <1>2, <1>3 DEF Next

\* ... and so always.
LEMMA FilesSafeAlways == Rooted /\ Spec => []FilesSafe
BY FilesSafeInit, FilesSafeNext, PTL DEF Spec

\* Within reach is what is entered somewhere.
LEMMA ReachableIsLinked == Whereabouts => Reachable = Linked
<1> SUFFICES ASSUME Whereabouts PROVE Reachable = Linked
  OBVIOUS
<1>1. /\ \A x \in DOMAIN link : link[x] \in Reachable
      /\ \A node \in Reachable : node = Root \/ \E x \in DOMAIN link : link[x] = node
  BY EverythingReached, DirectoriesAssumption DEF Whereabouts
<1>2. Root \in Reachable
  BY RootReached, DirectoriesAssumption
<1> QED
  BY <1>1, <1>2 DEF Linked

\* No step takes a whole file out of the tree, or cuts it short, but the RM of that file.
LEMMA WholeFilesStep ==
  ASSUME FilesSafe, Inv', NEW t \in Threads, Request(t) \/ Serve(t),
         NEW f \in whole, f \in Linked, ~ Removing(f)
  PROVE  f \in whole' /\ f \in Linked'
<1>1. Cleared(t) \/ Opens(t) \/ Receives(t) \/ CleansUp(t) \/ Elsewhere(t)
  BY FileMoves DEF FilesSafe
<1>2. Inv /\ f \in Files /\ f # Root
  BY NodesApart DEF FilesSafe, Whereabouts, Inv, TreeOK, Dirs
<1>3. PICK x \in DOMAIN link : link[x] = f
  BY <1>2 DEF Linked
<1>4. f \in whole'
  <2>1. Opens(t) => t # f
    BY <1>2, <1>3 DEF Opens, Inv, FileUnmade
  <2> QED
    BY <1>1, <2>1 DEF Cleared, Opens, Receives, CleansUp, Elsewhere
<1>5. CASE Removed(t)
  <2>1. x \in DOMAIN link' => f \in Linked'
    BY <1>2, <1>3, <1>5, RemovedEntries DEF Linked
  <2>2. SUFFICES ASSUME x \notin DOMAIN link' PROVE FALSE
    BY <1>4, <2>1
  <2>3. /\ x[1] = Walk[Front(Path(t))] /\ x[2][1] = Last(Path(t))
        /\ IF pc[t] = "sweep" THEN x[2][2] # 0 ELSE x = At(Path(t))
    BY <1>2, <1>5, <2>2, RemovedEntries
  <2>4. /\ x = <<x[1], x[2]>> /\ x[2] = <<x[2][1], x[2][2]>> /\ x[2][2] \in 0 .. MaxStamp
    BY <1>2 DEF Inv, TreeOK, Entries
  <2>5. pc[t] \in {"remove", "delete", "sweep"}
    BY <1>5 DEF Removed
  <2>6. Path(t) \in Seq(Names) /\ Path(t) # <<>>
    BY <1>2, <2>5, PathTyping, EmptySeq
  <2>7. pc[t] # "sweep" => Walk[Path(t)] = f
    <3> SUFFICES ASSUME x = At(Path(t)) PROVE Walk[Path(t)] = f
      BY <2>3
    <3>1. Walk[Path(t)] = Lookup(Walk[Front(Path(t))], Main(Last(Path(t))))
      BY <1>2, <2>6, WalkEntry
    <3> QED
      BY <1>3, <3>1 DEF At, Lookup
  <2>8. CASE pc[t] = "remove"
    <3>1. f \in (Nodes \ Files) \cup {None, t} /\ t \notin whole
      BY <2>7, <2>8 DEF FilesSafe, Own
    <3> QED
      BY <1>2, <3>1, NodesApart
  <2>9. CASE pc[t] \in {"delete", "sweep"}
    <3>1. req[t] # None /\ req[t].op = "RM"
      <4>1. pc[t] # "idle" /\ req[t] \in Requests /\ req[t].op = "RM"
        BY <1>2, <2>9 DEF FilesSafe, Whereabouts, Handled, Inv, ThreadsOK
      <4> QED
        BY <4>1, DirectoriesAssumption
    <3>2. CASE pc[t] = "delete"
      BY <2>7, <3>1, <3>2 DEF Removing
    <3>3. CASE pc[t] = "sweep"
      <4>1. x[2][2] \in Stamps
        BY <2>3, <2>4, <3>3, DirectoriesAssumption DEF Stamps
      <4>2. x = <<Walk[Front(Path(t))], <<Last(Path(t)), x[2][2]>>>>
        BY <2>3, <2>4
      <4>3. Lookup(Walk[Front(Path(t))], <<Last(Path(t)), x[2][2]>>) = f
        BY <1>3, <4>2 DEF Lookup
      <4> QED
        BY <3>1, <3>3, <4>1, <4>3 DEF Removing
    <3> QED
      BY <2>9, <3>2, <3>3
  <2> QED
    BY <2>5, <2>8, <2>9
<1>6. CASE Still
  BY <1>3, <1>4, <1>6 DEF Still, Linked
<1>7. CASE DirectoryMade(t) \/ FileMade(t)
  BY <1>3, <1>4, <1>7, EnterEntries DEF DirectoryMade, FileMade, Linked
<1>8. CASE PutAside(t)
  <2> DEFINE old == At(Path(t))
             new == AsideAt(t)
  <2>1. /\ old \in DOMAIN link
        /\ DOMAIN link' = (DOMAIN link \ {old}) \cup {new}
        /\ link'[new] = link[old]
        /\ \A z \in DOMAIN link \ {old} : link'[z] = link[z]
    BY <1>8, AsideEntries DEF FilesSafe, Whereabouts
  <2> HIDE DEF old, new
  <2> QED
    BY <1>3, <1>4, <2>1 DEF Linked
<1> QED
  BY <1>5, <1>4, <1>6, <1>7, <1>8, TreeMoves DEF FilesSafe, Whereabouts

\* A file that is whole stays within reach and whole until an RM of that very file: not a
\* WRITE or an RM of a name above it, not the remove(full_path) of a failed WRITE, which
\* may lead to something else by now, takes it away (backup_file, write_error,
\* delete_single_file, delete_file_versions).
THEOREM FilesKept == Rooted /\ Spec => WholeFilesKept
<1> DEFINE Kept == \A f \in whole : f \in Reachable /\ ~Removing(f) =>
                     f \in whole' /\ f \in Reachable'
<1>1. FilesSafe /\ FilesSafe' /\ [Next]_vars => [Kept]_vars
  <2> SUFFICES ASSUME FilesSafe, FilesSafe', [Next]_vars PROVE [Kept]_vars
    OBVIOUS
  <2>1. Reachable = Linked
    BY ReachableIsLinked DEF FilesSafe
  <2>2. (Whereabouts => Reachable = Linked)'
    BY ReachableIsLinked, PTL
  <2>3. Reachable' = Linked'
    BY <2>2 DEF FilesSafe
  <2>4. ASSUME NEW t \in Threads, Request(t) \/ Serve(t) PROVE Kept
    BY <2>1, <2>3, <2>4, WholeFilesStep DEF FilesSafe, Whereabouts
  <2> QED
    BY <2>4 DEF Next
<1> QED
  BY <1>1, FilesSafeAlways, PTL DEF Spec, WholeFilesKept

\* A directory that has not been put aside is where a path leads to.
LEMMA InPlaceWalked ==
  ASSUME Inv, NEW d \in InPlaceDirs
  PROVE  \E q \in Seq(Names) : Walk[q] = d
<1> DEFINE S == {k \in Nat : \A c \in InPlace[k] : \E q \in Seq(Names) : Walk[q] = c}
<1>1. WalkEquation /\ InPlaceEquation
  BY WalkUnfolds, InPlaceUnfolds
<1>2. 0 \in S
  BY <1>1, EmptySeq DEF WalkEquation, InPlaceEquation
<1>3. ASSUME NEW k \in Nat, k \in S PROVE k + 1 \in S
  <2> SUFFICES ASSUME NEW c \in InPlace[k + 1] PROVE \E q \in Seq(Names) : Walk[q] = c
    OBVIOUS
  <2>1. CASE c \in InPlace[k]
    BY <1>3, <2>1
  <2>2. ASSUME NEW x \in DOMAIN link, x[1] \in InPlace[k], x[2][2] = 0, link[x] = c
        PROVE  \E q \in Seq(Names) : Walk[q] = c
    <3>1. PICK q \in Seq(Names) : Walk[q] = x[1]
      BY <1>3, <2>2
    <3>2. x = <<x[1], Main(x[2][1])>> /\ x[2][1] \in Names
      BY <2>2 DEF Inv, TreeOK, Entries, Main
    <3> DEFINE n == x[2][1]
               r == Append(q, n)
    <3>3. r \in Seq(Names) /\ r # <<>> /\ Front(r) = q /\ Last(r) = n
      BY <3>2, AppendFront
    <3>4. Walk[r] = Lookup(Walk[q], Main(n))
      BY <1>1, <3>3 DEF WalkEquation
    <3>5. Walk[r] = c
      BY <2>2, <3>1, <3>2, <3>4 DEF Lookup
    <3> QED
      BY <3>3, <3>5
  <2> QED
    BY <1>1, <2>1, <2>2 DEF InPlaceEquation
<1>4. MaxPathDepth \in S
  <2> HIDE DEF S
  <2> QED
    BY <1>2, <1>3, SetInduction, DirectoriesAssumption
<1> QED
  BY <1>4 DEF InPlaceDirs

\* A file that is not whole, in a directory that is in its place, is still being received
\* or about to be removed: a WRITE that fails leaves a partial file only in a directory
\* another WRITE has put aside meanwhile (write_error).
THEOREM PartialsAside == Rooted /\ Spec => []PartialsOnlyAside
<1>1. FilesSafe => PartialsOnlyAside
  <2> SUFFICES ASSUME FilesSafe, NEW x \in DOMAIN link,
                      x[1] \in InPlaceDirs, link[x] \in Files \ whole
               PROVE  \E t \in Threads : pc[t] \in {"recv", "remove"} /\ fd[t] = link[x]
    BY DEF PartialsOnlyAside
  <2>1. PICK t \in Threads : link[x] = t /\ t \notin whole
    BY DEF FilesSafe, Own, Files
  <2>2. PICK q \in Seq(Names) : Walk[q] = x[1]
    BY InPlaceWalked DEF FilesSafe, Whereabouts
  <2>3. x[1] \in Dirs /\ x[2][1] \in Names
    BY DEF FilesSafe, Whereabouts, Inv, TreeOK, Entries
  <2>4. Home[x[1]] = q
    BY <2>2, <2>3, WalkHome, NodesApart DEF FilesSafe, Whereabouts
  <2>5. Home[t] = Append(q, x[2][1])
    BY <2>1, <2>4 DEF FilesSafe, Whereabouts, Shape
  <2>6. Path(t) = Append(q, x[2][1])
    BY <2>5, HomeUnfolds DEF HomeCases
  <2>7. Front(Path(t)) = q
    BY <2>3, <2>6, AppendFront
  <2>8. pc[t] \in {"recv", "remove"}
    BY <2>1, <2>2, <2>7 DEF FilesSafe, Partial
  <2>9. fd[t] = t
    BY <2>8 DEF FilesSafe, Own
  <2> QED
    BY <2>1, <2>8, <2>9
<1> QED
  BY <1>1, FilesSafeAlways, PTL

-----------------------------------------------------------------------------
(* Refusals *)

\* The entry of a path is that of no other path.
LEMMA SameEntry ==
  ASSUME Whereabouts, NEW p \in Seq(Names), p # <<>>, NEW r \in Seq(Names), r # <<>>,
         At(p) = At(r), At(p) \in DOMAIN link
  PROVE  p = r
<1>1. /\ Front(p) \in Seq(Names) /\ p = Append(Front(p), Last(p))
      /\ Front(r) \in Seq(Names) /\ r = Append(Front(r), Last(r))
  BY FrontProperties
<1>2. Walk[Front(p)] = Walk[Front(r)] /\ Last(p) = Last(r)
  BY DEF At, Main
<1>3. Walk[Front(p)] # None
  BY NodesApart DEF Whereabouts, Inv, TreeOK, At
<1>4. Front(p) = Front(r)
  BY <1>1, <1>2, <1>3, WalkHome DEF Whereabouts
<1> QED
  BY <1>1, <1>2, <1>4

\* A path leads where it led if the entries along it stay.
LEMMA WalkKeeps ==
  ASSUME NEW q \in Seq(Names), Walk[q] # None, Inv,
         \A k \in 1 .. Len(q) : At(SubSeq(q, 1, k)) \in DOMAIN link =>
           /\ At(SubSeq(q, 1, k)) \in DOMAIN link'
           /\ link'[At(SubSeq(q, 1, k))] = link[At(SubSeq(q, 1, k))]
  PROVE  Walk'[q] = Walk[q]
<1> DEFINE w(k) == SubSeq(q, 1, k)
           S == {k \in Nat : k <= Len(q) /\ Walk[w(k)] # None => Walk'[w(k)] = Walk[w(k)]}
<1>1. WalkEquation /\ WalkEquation'
  BY WalkUnfolds, PTL
<1>2. Len(q) \in Nat
  BY LenProperties
<1>3. 0 \in S
  <2>1. w(0) = <<>>
    BY <1>2, PrefixProperties, EmptySeq
  <2> QED
    BY <1>1, <2>1, EmptySeq DEF WalkEquation
<1>4. ASSUME NEW j \in Nat, j \in S PROVE j + 1 \in S
  <2> DEFINE k == j + 1
  <2> SUFFICES ASSUME k <= Len(q), Walk[w(k)] # None PROVE Walk'[w(k)] = Walk[w(k)]
    OBVIOUS
  <2>1. /\ k \in 1 .. Len(q) /\ k \in 0 .. Len(q)
        /\ j \in 0 .. Len(q) /\ j <= Len(q) /\ k - 1 = j
    BY <1>2
  <2>2. w(k) \in Seq(Names) /\ w(k) # <<>> /\ w(j) \in Seq(Names)
    BY <2>1, PrefixProperties, PrefixFront
  <2>3. Front(w(k)) = w(j)
    <3> HIDE DEF k
    <3> QED
      BY <2>1, PrefixFront
  <2>4. /\ At(w(k)) \in DOMAIN link /\ Walk[w(k)] = link[At(w(k))]
        /\ Walk[Front(w(k))] \in Dirs
    <3> HIDE DEF k, w
    <3> QED
      BY <2>2, WalkEntry DEF At
  <2>5. Walk'[w(j)] = Walk[w(j)]
    BY <1>4, <2>1, <2>3, <2>4, NodesApart
  <2>6. At(w(k)) \in DOMAIN link' /\ link'[At(w(k))] = link[At(w(k))]
    BY <2>1, <2>4
  <2>7. Walk'[w(k)] = Lookup(Walk[w(j)], Main(Last(w(k))))'
    <3> HIDE DEF k, w
    <3> QED
      BY <1>1, <2>2, <2>3 DEF WalkEquation
  <2>8. At(w(k)) = <<Walk'[w(j)], Main(Last(w(k)))>>
    <3> HIDE DEF k, w
    <3> QED
      BY <2>3, <2>5 DEF At
  <2> HIDE DEF k, w
  <2> QED
    BY <2>4, <2>6, <2>7, <2>8 DEF Lookup, Main
<1>5. Nat \subseteq S
  <2> HIDE DEF S
  <2> QED
    BY <1>3, <1>4, SetInduction
<1>6. w(Len(q)) = q
  BY <1>2, PrefixProperties, SeqEqual
<1>7. Len(q) \in S /\ Len(q) <= Len(q)
  <2> HIDE DEF S
  <2> QED
    BY <1>2, <1>5
<1>8. Walk[w(Len(q))] # None => Walk'[w(Len(q))] = Walk[w(Len(q))]
  BY <1>7
<1> QED
  <2> HIDE DEF w
  <2> QED
    BY <1>6, <1>8

\* A conflicting request has been made.
Met(t) == \E u \in Threads \ {t} : req[u] # None /\ Conflicts(req[u], Path(t))

\* A conflicting request that has been made stays made.
LEMMA MetStays ==
  ASSUME Whereabouts, NEW u \in Threads, Request(u) \/ Serve(u),
         NEW t \in Threads, pc[t] # "idle", Met(t)
  PROVE  Met(t)'
<1>1. PICK v \in Threads \ {t} : req[v] # None /\ Conflicts(req[v], Path(t))
  BY DEF Met
<1>2. pc[v] # "idle"
  BY <1>1 DEF Whereabouts, Handled
<1>3. req'[v] = req[v] /\ Path(t)' = Path(t)
  BY <1>2, OthersStay DEF Path, Whereabouts
<1> QED
  BY <1>1, <1>3 DEF Met

\* A directory of the path stays where it is, unless such a request has been made.
LEMMA DirectoryStays ==
  ASSUME Whereabouts, NEW u \in Threads, Request(u) \/ Serve(u),
         NEW t \in Threads, pc[t] # "idle", ~ Met(t)',
         NEW q \in Seq(Names), ProperPrefix(q, Path(t)), Walk[q] # None
  PROVE  Walk'[q] = Walk[q]
<1>1. /\ Path(t) \in Seq(Names) /\ Len(Path(t)) \in Nat /\ Len(q) \in Nat
      /\ Len(q) < Len(Path(t)) /\ q = SubSeq(Path(t), 1, Len(q))
  BY PathTyping, LenProperties DEF ProperPrefix, Whereabouts
<1>2. ASSUME NEW x \in DOMAIN link, x \in DOMAIN link' PROVE link'[x] = link[x]
  <2>1. CASE Still
    BY <1>2, <2>1 DEF Still
  <2>2. CASE DirectoryMade(u) \/ FileMade(u)
    BY <1>2, <2>2, EnterEntries DEF DirectoryMade, FileMade
  <2>3. CASE PutAside(u)
    BY <1>2, <2>3, AsideEntries DEF Whereabouts
  <2>4. CASE Removed(u)
    BY <1>2, <2>4, RemovedEntries DEF Whereabouts
  <2> QED
    BY <2>1, <2>2, <2>3, <2>4, TreeMoves DEF Whereabouts
<1>3. ASSUME NEW k \in 1 .. Len(q), At(SubSeq(q, 1, k)) \in DOMAIN link,
             At(SubSeq(q, 1, k)) \notin DOMAIN link'
      PROVE  FALSE
  <2> DEFINE r == SubSeq(q, 1, k)
  <2>1. k \in 0 .. Len(q) /\ k < Len(Path(t)) /\ Len(q) \in 0 .. Len(Path(t)) /\ k \in Nat
    BY <1>1
  <2>2. r \in Seq(Names) /\ r # <<>> /\ Len(r) = k
    BY <2>1, PrefixProperties, PrefixFront
  <2>3. r = SubSeq(Path(t), 1, k)
    <3> DEFINE n == Len(q)
    <3> HIDE DEF n
    <3>1. q = SubSeq(Path(t), 1, n) /\ n \in 0 .. Len(Path(t)) /\ k \in 0 .. n
      BY <1>1, <2>1 DEF n
    <3> QED
      BY <1>1, <3>1, PrefixOfPrefix
  <2>4. ProperPrefix(r, Path(t))
    BY <2>1, <2>2, <2>3 DEF ProperPrefix
  <2>5. At(r)[2][2] = 0
    BY DEF At, Main
  <2> HIDE DEF r
  <2>6. /\ pc[u] \in {"backup", "remove", "delete"}
        /\ At(r) = At(Path(u))
    <3>1. CASE Still
      BY <1>3, <3>1 DEF Still, r
    <3>2. CASE DirectoryMade(u) \/ FileMade(u)
      BY <1>3, <3>2, EnterEntries DEF DirectoryMade, FileMade, r
    <3>3. CASE PutAside(u)
      BY <1>3, <3>3, AsideEntries DEF Whereabouts, r, PutAside
    <3>4. CASE Removed(u)
      BY <1>3, <2>5, <3>4, RemovedEntries DEF Whereabouts, r, Removed
    <3> QED
      BY <3>1, <3>2, <3>3, <3>4, TreeMoves DEF Whereabouts
  <2>7. Path(u) \in Seq(Names) /\ Path(u) # <<>>
    BY <2>6, PathTyping, EmptySeq DEF Whereabouts
  <2>8. At(r) \in DOMAIN link
    BY <1>3 DEF r
  <2>9. Path(u) = r
    BY <2>2, <2>6, <2>7, <2>8, SameEntry
  <2>10. u # t
    BY <2>1, <2>2, <2>9
  <2>11. req[u] \in Requests /\ req[u].op \in {"WRITE", "RM"}
    BY <2>6 DEF Whereabouts, Inv, ThreadsOK, Handled, WritePcs
  <2>12. req'[u] = req[u] /\ Path(t)' = Path(t)
    BY <2>6, OthersStay DEF Path, Whereabouts
  <2>13. Conflicts(req[u], Path(t))
    BY <2>4, <2>9, <2>11 DEF Conflicts, Path
  <2>14. Met(t)
    BY <2>10, <2>11, <2>13, DirectoriesAssumption DEF Met
  <2> QED
    BY <2>14, MetStays
<1> QED
  BY <1>2, <1>3, WalkKeeps DEF Whereabouts

\* No WRITE has to go through a file that was there at the start.
Unblocked ==
  \A r \in Requests, q \in Seq(Names) :
    r.op = "WRITE" /\ ProperPrefix(q, r.path) => Walk[q] \notin Stored

\* The files in the tree that were not there at the start are of WRITEs.
Written ==
  \A t \in Threads, x \in DOMAIN link :
    link[x] = t => pc[t] # "idle" /\ req[t].op = "WRITE"

\* Unless it has met a conflicting request, a WRITE creates all of its directories, they
\* stay, and nobody creates a directory at its name.
Served(t) ==
  /\ pc[t] \notin {"dirfail", "refused"}
  /\ pc[t] = "mkdir" => Walk[SubSeq(Path(t), 1, level[t] - 1)] \in Dirs
  /\ pc[t] \in {"dirunlock", "lock", "backup", "fopen"} /\ req[t].op = "WRITE" =>
       Walk[Front(Path(t))] \in Dirs
  /\ pc[t] = "fopen" => Walk[Path(t)] \notin Dirs

Undisturbed == \A t \in Threads : Met(t) \/ Served(t)

\* Every step keeps the files of the start out of the way, and other files of WRITEs.
LEMMA UnblockedStep ==
  ASSUME Whereabouts, Inv', Unblocked, Written, NEW t \in Threads, Request(t) \/ Serve(t)
  PROVE  Unblocked' /\ Written'
<1>1. ASSUME NEW r \in Requests, NEW q \in Seq(Names),
             r.op = "WRITE", ProperPrefix(q, r.path), Walk'[q] \in Stored
      PROVE  FALSE
  <2>1. Walk[q] \notin Stored
    BY <1>1 DEF Unblocked
  <2>2. DirectoryMade(t) => level[t] \in Levels
    BY LevelTyping DEF DirectoryMade, Whereabouts
  <2>3. Stored \subseteq Files /\ Stored \cap Threads = {}
    BY DirectoriesAssumption DEF Files
  <2>4. Walk'[q] # None /\ Walk'[q] \notin Threads /\ Walk'[q] \notin Dirs
    BY <1>1, <2>3, NodesApart
  <2>5. \A k \in Levels : <<t, k>> \in Dirs
    BY DEF Dirs
  <2> QED
    BY <1>1, <2>1, <2>2, <2>4, <2>5, WalkMoves
<1>2. ASSUME NEW w \in Threads, NEW x \in DOMAIN link', link'[x] = w
      PROVE  pc'[w] # "idle" /\ req'[w].op = "WRITE"
  <2>1. \/ \E y \in DOMAIN link : link[y] = w
        \/ w = t /\ FileMade(t)
    <3>1. CASE Still \/ Removed(t)
      BY <1>2, <3>1, RemovedEntries DEF Still, Whereabouts
    <3>2. CASE DirectoryMade(t)
      <4> DEFINE p == SubSeq(Path(t), 1, level[t])
      <4>1. level[t] \in Levels
        BY <3>2, LevelTyping DEF DirectoryMade, Whereabouts
      <4>2. /\ DOMAIN link' = DOMAIN link \cup {At(p)}
            /\ link'[At(p)] = <<t, level[t]>>
            /\ \A z \in DOMAIN link : link'[z] = link[z]
        BY <3>2, EnterEntries DEF DirectoryMade
      <4> HIDE DEF p
      <4> QED
        BY <1>2, <4>1, <4>2, NodesApart
    <3>3. CASE PutAside(t)
      <4> DEFINE old == At(Path(t))
                 new == AsideAt(t)
      <4>1. /\ old \in DOMAIN link
            /\ DOMAIN link' = (DOMAIN link \ {old}) \cup {new}
            /\ link'[new] = link[old]
            /\ \A z \in DOMAIN link \ {old} : link'[z] = link[z]
        BY <3>3, AsideEntries DEF Whereabouts
      <4> HIDE DEF old, new
      <4> QED
        BY <1>2, <4>1
    <3>4. CASE FileMade(t)
      BY <1>2, <3>4, EnterEntries DEF FileMade
    <3> QED
      BY <3>1, <3>2, <3>3, <3>4, TreeMoves DEF Whereabouts
  <2>2. pc[w] # "idle" /\ req[w].op = "WRITE"
    BY <2>1 DEF Written, FileMade, Whereabouts, Handled, WritePcs
  <2> QED
    BY <2>2, OthersStay DEF Whereabouts
<1> QED
  BY <1>1, <1>2 DEF Unblocked, Written

\* A file in the way of a WRITE is of a conflicting request.
LEMMA FileInTheWay ==
  ASSUME Whereabouts, Unblocked, Written,
         NEW t \in Threads, pc[t] # "idle", req[t].op = "WRITE", ~ Met(t),
         NEW q \in Seq(Names), ProperPrefix(q, Path(t))
  PROVE  Walk[q] \notin Files
<1> SUFFICES ASSUME Walk[q] \in Files PROVE FALSE
  OBVIOUS
<1>1. req[t] \in Requests
  BY DEF Whereabouts, Inv, ThreadsOK
<1>2. Walk[q] \notin Stored
  BY <1>1 DEF Unblocked, Path
<1>3. PICK u \in Threads : Walk[q] = u
  BY <1>2 DEF Files
<1>4. u # None /\ u # Root
  BY NodesApart DEF Dirs
<1>5. Path(u) = q
  <2>1. Home[u] = q
    BY <1>3, <1>4, WalkHome DEF Whereabouts
  <2> QED
    BY <2>1, HomeUnfolds DEF HomeCases
<1>6. \E x \in DOMAIN link : link[x] = u
  BY <1>3, <1>4, WalkLinked DEF Linked, Whereabouts
<1>7. pc[u] # "idle" /\ req[u].op = "WRITE"
  BY <1>6 DEF Written
<1>8. req[u] \in Requests
  BY <1>7 DEF Whereabouts, Inv, ThreadsOK
<1>9. u # t
  <2>1. Len(q) < Len(Path(t)) /\ Len(q) \in Nat
    BY LenProperties DEF ProperPrefix
  <2> QED
    BY <1>5, <2>1
<1>10. Conflicts(req[u], Path(t))
  BY <1>5, <1>7 DEF Conflicts, Path
<1> QED
  BY <1>8, <1>9, <1>10, DirectoriesAssumption DEF Met

\* A thread goes on being served while others take their steps.
LEMMA ServedByOthers ==
  ASSUME Whereabouts, Inv', NEW u \in Threads, Request(u) \/ Serve(u),
         NEW t \in Threads \ {u}, Met(t) \/ Served(t)
  PROVE  Met(t)' \/ Served(t)'
<1>1. pc'[t] = pc[t] /\ level'[t] = level[t] /\ req'[t] = req[t]
  BY OthersStay DEF Whereabouts
<1>2. Path(t)' = Path(t)
  BY <1>1 DEF Path
<1>3. CASE pc[t] = "idle"
  BY <1>1, <1>3 DEF Served
<1> SUFFICES ASSUME pc[t] # "idle", ~ Met(t)' PROVE Served(t)'
  BY <1>3
<1>4. Served(t)
  BY MetStays
<1>5. Path(t) \in Seq(Names) /\ Path(t) # <<>> /\ Len(Path(t)) \in Nat /\ Len(Path(t)) > 0
  BY PathTyping, EmptySeq DEF Whereabouts
<1>6. CASE pc[t] = "mkdir"
  <2> DEFINE j == level[t] - 1
             q == SubSeq(Path(t), 1, j)
  <2>1. j \in 0 .. Len(Path(t)) /\ j < Len(Path(t))
    <3>1. level[t] \in 1 .. Len(Path(t)) - 1
      BY <1>6, LevelTyping DEF Whereabouts
    <3> QED
      BY <1>5, <3>1
  <2> HIDE DEF j
  <2>2. q \in Seq(Names) /\ Len(q) = j
    BY <1>5, <2>1, PrefixProperties
  <2>3. ProperPrefix(q, Path(t))
    BY <2>1, <2>2 DEF ProperPrefix
  <2>4. Walk[q] \in Dirs
    BY <1>4, <1>6 DEF Served, j
  <2>5. Walk'[q] = Walk[q]
    BY <2>2, <2>3, <2>4, DirectoryStays, NodesApart
  <2> QED
    BY <1>1, <1>2, <1>6, <2>4, <2>5 DEF Served, j
<1>7. CASE pc[t] \in {"dirunlock", "lock", "backup", "fopen"} /\ req[t].op = "WRITE"
  <2> DEFINE q == Front(Path(t))
  <2>1. q \in Seq(Names) /\ ProperPrefix(q, Path(t))
    BY <1>5, FrontProperties DEF ProperPrefix
  <2>2. Walk[q] \in Dirs
    BY <1>4, <1>7 DEF Served
  <2>3. Walk'[q] = Walk[q]
    BY <2>1, <2>2, DirectoryStays, NodesApart
  <2>4. ASSUME pc[t] = "fopen", Walk'[Path(t)] \in Dirs PROVE FALSE
    <3>1. Walk[Path(t)] \notin Dirs
      BY <1>4, <2>4 DEF Served
    <3>2. DirectoryMade(u) /\ Path(t) = SubSeq(Path(u), 1, level[u])
      BY <1>5, <2>4, <3>1, WalkMoves, NodesApart
    <3> DEFINE k == level[u]
    <3>3. /\ Path(u) \in Seq(Names) /\ k \in 0 .. Len(Path(u)) /\ k < Len(Path(u))
          /\ pc[u] = "mkdir"
      <4>1. /\ k \in 1 .. Len(Path(u)) - 1 /\ Path(u) \in Seq(Names)
            /\ Len(Path(u)) \in Nat /\ pc[u] = "mkdir"
        BY <3>2, LevelTyping, PathTyping DEF DirectoryMade, Whereabouts
      <4> QED
        BY <4>1
    <3> HIDE DEF k
    <3>4. Len(Path(t)) = k /\ Path(t) = SubSeq(Path(u), 1, k)
      BY <3>2, <3>3, PrefixProperties DEF k
    <3>5. ProperPrefix(Path(t), Path(u))
      BY <3>3, <3>4 DEF ProperPrefix
    <3>6. req[u] \in Requests /\ req[u].op = "WRITE"
      BY <3>3 DEF Whereabouts, Inv, ThreadsOK, Handled, WritePcs
    <3>7. Met(t)
      BY <3>5, <3>6, DirectoriesAssumption DEF Met, Conflicts, Path
    <3> QED
      BY <3>7, MetStays
  <2> QED
    BY <1>1, <1>2, <1>7, <2>2, <2>3, <2>4 DEF Served
<1>8. CASE ~ (pc[t] \in {"dirunlock", "lock", "backup", "fopen"} /\ req[t].op = "WRITE")
          /\ pc[t] # "mkdir"
  <2>1. pc[t] # "fopen"
    BY <1>8 DEF Whereabouts, Handled, WritePcs
  <2> QED
    BY <1>1, <1>4, <1>8, <2>1 DEF Served
<1> QED
  BY <1>6, <1>7, <1>8

\* A thread goes on being served while it takes its own steps.
LEMMA ServedByItself ==
  ASSUME FilesSafe, Inv', Unblocked, Written,
         NEW t \in Threads, Request(t) \/ Serve(t), Met(t) \/ Served(t)
  PROVE  Met(t)' \/ Served(t)'
<1> USE DEF FilesSafe
<1>1. pc \in [Threads -> Pcs] /\ level \in [Threads -> Nat \ {0}] /\ Inv
  BY DEF Whereabouts, Inv, ThreadsOK
<1>2. \A from, to : Goto(t, from, to) => pc[t] = from /\ pc'[t] = to
  BY <1>1 DEF Goto
<1>3. CASE pc'[t] \notin {"dirfail", "refused", "mkdir", "dirunlock", "lock", "backup",
                          "fopen"}
  BY <1>3 DEF Served
<1>4. CASE Request(t)
  <2>1. PICK r \in Requests :
          /\ pc' = [pc EXCEPT ![t] = IF ~ValidPath(r.path) THEN "rejected"
                                     ELSE CASE r.op = "WRITE" -> "dirlock"
                                            [] r.op = "RM"    -> "lock"
                                            [] r.op = "LS"    -> "stat"]
          /\ req' = [req EXCEPT ![t] = r]
    BY <1>4 DEF Request, Goto
  <2>2. req'[t] = r
    BY <2>1 DEF Whereabouts, Inv, ThreadsOK
  <2>3. pc'[t] \in {"rejected", "dirlock", "stat"} \/ (pc'[t] = "lock" /\ r.op = "RM")
    BY <1>1, <2>1, DirectoriesAssumption
  <2> QED
    BY <2>2, <2>3 DEF Served
<1>5. ASSUME pc[t] # "idle", req'[t] = req[t] PROVE Path(t)' = Path(t)
  BY <1>5 DEF Path
<1> SUFFICES ASSUME Serve(t), ~ Met(t)' PROVE Served(t)'
  BY <1>4
<1>6. ASSUME pc[t] # "idle" PROVE Served(t) /\ ~ Met(t)
  BY <1>6, MetStays
<1>7. ASSUME link' = link PROVE Walk' = Walk
  BY <1>7 DEF Walk, Lookup
<1>8. ASSUME pc[t] # "idle"
      PROVE  /\ Path(t) \in Seq(Names) /\ Path(t) # <<>> /\ Len(Path(t)) \in Nat \ {0}
             /\ Front(Path(t)) \in Seq(Names) /\ Len(Front(Path(t))) = Len(Path(t)) - 1
             /\ ProperPrefix(Front(Path(t)), Path(t))
  <2>1. Path(t) \in Seq(Names) /\ Path(t) # <<>> /\ Len(Path(t)) \in Nat \ {0}
    BY <1>1, <1>8, PathTyping, EmptySeq
  <2> QED
    BY <2>1, FrontProperties DEF ProperPrefix
<1>9. Walk[<<>>] = Root /\ Root \in Dirs
  BY WalkUnfolds, EmptySeq DEF WalkEquation, Dirs
<1>10. CASE LockDirectories(t)
  <2>1. /\ pc[t] = "dirlock" /\ level'[t] = 1 /\ req' = req /\ link' = link
        /\ pc'[t] = IF Len(Path(t)) = 1 THEN "dirunlock" ELSE "mkdir"
    BY <1>1, <1>2, <1>10 DEF LockDirectories, tree
  <2>2. Len(Path(t)) = 1 => Front(Path(t)) = <<>>
    BY <1>8, <2>1, EmptySeq
  <2>3. SubSeq(Path(t), 1, 0) = <<>>
    BY <1>8, <2>1, PrefixProperties, EmptySeq
  <2>4. Path(t)' = Path(t) /\ Walk' = Walk /\ level'[t] - 1 = 0
    BY <1>5, <1>7, <2>1
  <2>5. /\ Walk'[SubSeq(Path(t)', 1, level'[t] - 1)] \in Dirs
        /\ Len(Path(t)) = 1 => Walk'[Front(Path(t)')] \in Dirs
    BY <1>9, <2>2, <2>3, <2>4
  <2> QED
    BY <2>1, <2>5 DEF Served
<1>11. CASE Mkdir(t)
  <2> DEFINE k == level[t]
             q == SubSeq(Path(t), 1, k)
             d == Walk[SubSeq(Path(t), 1, k - 1)]
             e == Main(Path(t)[k])
  <2>1. /\ pc[t] = "mkdir" /\ level' = [level EXCEPT ![t] = k + 1] /\ req' = req
        /\ pc'[t] = IF MkdirResult(d, e) = "error" THEN "dirfail"
                    ELSE IF IsLastDirectory(t) THEN "dirunlock" ELSE "mkdir"
        /\ link' = IF MkdirResult(d, e) = "made" THEN With(d, e, <<t, k>>) ELSE link
    BY <1>2, <1>11 DEF Mkdir
  <2>2. level'[t] = k + 1 /\ Path(t)' = Path(t) /\ req[t].op = "WRITE"
    BY <1>1, <1>5, <2>1 DEF Whereabouts, Handled, WritePcs
  <2>3. d \in Dirs
    BY <1>6, <2>1 DEF Served
  <2>4. /\ k \in Levels /\ k \in 1 .. Len(Path(t)) /\ k \in 0 .. Len(Path(t))
        /\ k < Len(Path(t)) /\ (k + 1) - 1 = k
        /\ k - 1 \in 0 .. Len(Path(t)) /\ k - 1 < Len(Path(t))
    <3>1. k \in Levels /\ k \in 1 .. Len(Path(t)) - 1
      BY <1>1, <2>1, LevelTyping
    <3> QED
      BY <1>8, <2>1, <3>1
  <2>5. q \in Seq(Names) /\ q # <<>> /\ Len(q) = k /\ ProperPrefix(q, Path(t))
    BY <1>8, <2>1, <2>4, PrefixProperties, PrefixFront DEF ProperPrefix
  <2>6. Front(q) = SubSeq(Path(t), 1, k - 1) /\ Last(q) = Path(t)[k]
    BY <1>8, <2>1, <2>4, PrefixFront
  <2>7. Walk[q] = Lookup(d, e)
    <3> HIDE DEF q
    <3> QED
      BY <1>1, <2>5, <2>6, WalkEntry
  <2>8. Walk'[q] \in Dirs
    <3>1. CASE MkdirResult(d, e) = "made"
      <4>1. ProperPrefix(Front(q), Path(t)) /\ Front(q) \in Seq(Names)
        <5>1. /\ SubSeq(Path(t), 1, k - 1) \in Seq(Names)
              /\ Len(SubSeq(Path(t), 1, k - 1)) = k - 1
          BY <1>8, <2>1, <2>4, PrefixProperties
        <5> QED
          BY <2>4, <2>6, <5>1 DEF ProperPrefix
      <4>2. Walk'[Front(q)] = Walk[Front(q)]
        BY <2>1, <2>3, <2>6, <4>1, DirectoryStays, NodesApart
      <4>3. link'[<<d, e>>] = <<t, k>> /\ <<d, e>> \in DOMAIN link'
        BY <2>1, <3>1 DEF With
      <4>4. WalkEquation'
        BY WalkUnfolds, PTL
      <4>5. ASSUME NEW p \in Seq(Names), p # <<>>,
                   <<Walk'[Front(p)], Main(Last(p))>> \in DOMAIN link'
            PROVE  Walk'[p] = link'[<<Walk'[Front(p)], Main(Last(p))>>]
        BY <4>4, <4>5 DEF WalkEquation, Lookup, Main
      <4>6. Walk'[q] = link'[<<d, e>>]
        <5> HIDE DEF q
        <5> QED
          BY <2>5, <2>6, <4>2, <4>3, <4>5
      <4> QED
        BY <2>4, <4>3, <4>6 DEF Dirs
    <3>2. CASE MkdirResult(d, e) # "made"
      <4>1. Walk[q] # None
        BY <2>3, <2>7, <3>2 DEF MkdirResult
      <4>2. Walk[q] \in Nodes
        BY <1>1, <2>5, <4>1, WalkLinked, LinkedTyping
      <4>3. Walk[q] \notin Files
        BY <1>6, <2>1, <2>2, <2>5, FileInTheWay
      <4>4. Walk' = Walk
        BY <1>7, <2>1, <3>2
      <4> QED
        BY <4>2, <4>3, <4>4 DEF Nodes
    <3> QED
      BY <3>1, <3>2
  <2>9. IsLastDirectory(t) => Front(Path(t)) = q
    BY <1>8, <2>1, FrontProperties DEF IsLastDirectory
  <2>10. MkdirResult(d, e) # "error"
    BY <2>3 DEF MkdirResult
  <2> QED
    BY <2>1, <2>2, <2>4, <2>8, <2>9, <2>10 DEF Served
<1>12. CASE UnlockDirectories(t)
  <2>1. /\ \/ pc[t] = "dirunlock" /\ pc'[t] = "lock"
           \/ pc[t] = "dirfail" /\ pc'[t] = "refused"
        /\ req' = req /\ link' = link
    BY <1>2, <1>12 DEF UnlockDirectories, tree
  <2>2. pc[t] = "dirunlock" /\ Walk[Front(Path(t))] \in Dirs
    BY <1>6, <2>1 DEF Served, Whereabouts, Handled, WritePcs
  <2>3. Path(t)' = Path(t) /\ Walk' = Walk
    BY <1>5, <1>7, <2>1
  <2> QED
    BY <2>1, <2>2, <2>3 DEF Served
<1>13. CASE LockVersionMutex(t)
  <2>1. /\ pc[t] = "lock" /\ req' = req /\ link' = link
        /\ pc'[t] = IF req[t].op = "WRITE" THEN "backup" ELSE "delete"
    BY <1>2, <1>13 DEF LockVersionMutex, tree
  <2>2. req[t].op = "WRITE" => Walk[Front(Path(t))] \in Dirs
    BY <1>6, <2>1 DEF Served
  <2>3. Path(t)' = Path(t) /\ Walk' = Walk
    BY <1>5, <1>7, <2>1
  <2> QED
    BY <2>1, <2>2, <2>3 DEF Served
<1>14. CASE Backup(t)
  <2>1. pc[t] = "backup" /\ pc'[t] = "fopen" /\ req' = req
    BY <1>2, <1>14 DEF Backup
  <2>2. Path(t)' = Path(t) /\ req[t].op = "WRITE"
    BY <1>5, <2>1 DEF Whereabouts, Handled, WritePcs
  <2>3. Walk[Front(Path(t))] \in Dirs
    BY <1>6, <2>1, <2>2 DEF Served
  <2>4. Walk'[Front(Path(t))] = Walk[Front(Path(t))]
    BY <1>8, <2>1, <2>3, DirectoryStays, NodesApart
  <2>5. Cleared(t)
    BY <2>1, FileMoves DEF Opens, Receives, CleansUp, Elsewhere
  <2>6. Walk'[Path(t)] = None
    BY <2>5, ClearedGone
  <2> QED
    BY <2>1, <2>2, <2>3, <2>4, <2>6, NodesApart DEF Served
<1>15. CASE FopenFails(t)
  <2>1. /\ pc[t] = "fopen"
        /\ Walk[Front(Path(t))] \notin Dirs \/ Walk[Path(t)] \in Dirs
    BY <1>2, <1>15 DEF FopenFails
  <2> QED
    BY <1>6, <2>1 DEF Served, Whereabouts, Handled, WritePcs
<1>16. CASE Fopen(t)
  BY <1>2, <1>3, <1>16 DEF Fopen
<1>17. CASE ReceiveFile(t)
  BY <1>2, <1>3, <1>17 DEF ReceiveFile
<1>18. CASE RemovePartial(t)
  BY <1>2, <1>3, <1>18 DEF RemovePartial
<1>19. CASE UnlockVersionMutex(t)
  BY <1>2, <1>3, <1>19 DEF UnlockVersionMutex
<1>20. CASE DeleteMain(t)
  BY <1>2, <1>3, <1>20 DEF DeleteMain
<1>21. CASE OpenDirectory(t)
  BY <1>2, <1>3, <1>21 DEF OpenDirectory
<1>22. CASE OpenDirectoryFails(t)
  BY <1>2, <1>3, <1>22 DEF OpenDirectoryFails
<1>23. CASE ReadDirectory(t)
  BY <1>3, <1>23 DEF ReadDirectory
<1>24. CASE DirectoryEnds(t)
  BY <1>2, <1>3, <1>24 DEF DirectoryEnds
<1>25. CASE Stat(t)
  BY <1>2, <1>3, <1>25 DEF Stat
<1> QED
  BY <1>10, <1>11, <1>12, <1>13, <1>14, <1>15, <1>16, <1>17, <1>18, <1>19, <1>20, <1>21,
     <1>22, <1>23, <1>24, <1>25 DEF Serve

\* Everything together.
Orderly ==
  /\ FilesSafe
  /\ Unblocked
  /\ Written
  /\ Undisturbed

\* It holds at first, ...
LEMMA OrderlyInit == Rooted /\ Unblocked /\ Init => Orderly
<1> SUFFICES ASSUME Rooted, Unblocked, Init PROVE Orderly
  OBVIOUS
<1>1. Written
  BY DirectoriesAssumption DEF Init, Written, Dirs, Files
<1>2. Undisturbed
  BY DEF Init, Undisturbed, Served
<1> QED
  BY <1>1, <1>2, FilesSafeInit DEF Orderly

\* ... after every step, ...
LEMMA OrderlyNext == Orderly /\ [Next]_vars => Orderly'
<1> SUFFICES ASSUME Orderly, [Next]_vars PROVE Orderly'
  OBVIOUS
<1>1. FilesSafe' /\ Inv'
  BY FilesSafeNext DEF Orderly, FilesSafe, Whereabouts
<1>2. CASE UNCHANGED vars
  <2>1. UNCHANGED <<link, pc, req, level>>
    BY <1>2 DEF vars, tree
  <2>2. Walk' = Walk
    BY <2>1 DEF Walk, Lookup
  <2>3. \A t : Path(t)' = Path(t)
    BY <2>1 DEF Path
  <2> QED
    BY <1>1, <2>1, <2>2, <2>3 DEF Orderly, Unblocked, Written, Undisturbed, Served, Met
<1>3. ASSUME NEW t \in Threads, Request(t) \/ Serve(t)
      PROVE  Orderly'
  <2>1. Unblocked' /\ Written'
    BY <1>1, <1>3, UnblockedStep DEF Orderly, FilesSafe
  <2>2. Undisturbed'
    <3> SUFFICES ASSUME NEW w \in Threads PROVE Met(w)' \/ Served(w)'
      BY DEF Undisturbed
    <3>1. Met(w) \/ Served(w)
      BY DEF Orderly, Undisturbed
    <3> QED
      BY <1>1, <1>3, <3>1, ServedByOthers, ServedByItself DEF Orderly, FilesSafe
  <2> QED
    BY <1>1, <2>1, <2>2 DEF Orderly
<1> QED
  BY <1>2, <1>3 DEF Next

\* ... and so always.
LEMMA OrderlyAlways == Rooted /\ Unblocked /\ Spec => []Orderly
BY OrderlyInit, OrderlyNext, PTL DEF Spec

\* WRITEs that create the same directories at a time do not disturb each other: one that is
\* refused has met an RM or a WRITE of the name of one of its directories, or a WRITE of
\* something below its own name (create_directories_safe, and the fopen that follows when
\* dir_mutex is free again).
THEOREM RefusedForCause == Rooted /\ Unblocked /\ Spec => []RefusedOnlyByConflict
<1>1. Orderly => RefusedOnlyByConflict
  BY DEF Orderly, Undisturbed, Met, Served, RefusedOnlyByConflict
<1> QED
  BY <1>1, OrderlyAlways, PTL
=============================================================================
