---------------------------- MODULE RfsListener ----------------------------
(***************************************************************************)
(* The life of the server process: the accept loop of main, the thread of  *)
(* each connection up to its handler, the server_running flag behind       *)
(* server_mutex, the STOP operation, and signal_handler, which runs on top *)
(* of whichever thread the signal interrupts.                              *)
(*                                                                         *)
(* A client stands for its connection and for the thread that serves it.   *)
(* What the handlers of file requests do is in RfsStore; here a request    *)
(* is being handled or it is not.                                          *)
(***************************************************************************)
EXTENDS Integers

CONSTANTS
  Clients,     \* connections
  Main,        \* the main thread
  None,        \* "no thread"
  MaxSignals   \* bound on the SIGINT and SIGTERM of a behaviour

ASSUME ListenerAssumption ==
  /\ Main \notin Clients
  /\ None \notin Clients \cup {Main}
  /\ MaxSignals \in Nat

Threads == Clients \cup {Main}

VARIABLES
  running,   \* server_running
  owner,     \* who holds server_mutex
  main,      \* the next call of main
  conn,      \* the next call of each connection thread, or its connection's state
  handler,   \* the next call of signal_handler on each thread, or "none"
  sock,      \* the listening socket, and with it global_socket_desc
  late,      \* clients accepted after server_running was cleared
  signals    \* signals so far

flagVars == <<running, owner>>
vars == <<running, owner, main, conn, handler, sock, late, signals>>

\* The calls of is_server_running in main.
Checks == {"while", "select_err", "recheck", "accept_err"}

MainPcs    == Checks \cup {"select", "accept", "spawn", "closing", "close",
                           "return", "returned", "terminated"}
LivePcs    == {"recv_op", "stop", "handle", "close"}
ConnStates == LivePcs \cup {"absent", "pending", "refused", "accepted", "closed",
                            "killed", "interrupted"}
HandlerPcs == {"none", "lock", "store", "test", "close"}

\* The process has ended.
Ended == main \in {"returned", "terminated"}

\* Thread x exists.
Alive(x) == ~Ended /\ x \in {Main} \cup {c \in Clients : conn[c] \in LivePcs}

\* The code of main, not the signal handler, runs next.
MainAt(p) == main = p /\ handler[Main] = "none"

\* The same of a connection thread.
ClientAt(c, p) == ~Ended /\ conn[c] = p /\ handler[c] = "none"

-----------------------------------------------------------------------------
(* main *)

\* is_server_running locks server_mutex ...
LockForCheck ==
  /\ \E p \in Checks : MainAt(p)
  /\ owner = None
  /\ owner' = Main
  /\ UNCHANGED <<running, main, conn, handler, sock, late, signals>>

\* Mutant: while (1) in place of while (is_server_running()), and no second look.
Continue_Always(p) == TRUE

\* The value it returns, as tested at p.
Continue(p) == running

\* ... reads the flag and unlocks; the loop goes on or ends.
IsRunning ==
  \E p \in Checks :
    /\ MainAt(p)
    /\ owner = Main
    /\ owner' = None
    /\ main' = IF ~Continue(p) THEN "closing"
               ELSE CASE p = "while"   -> "select"
                      [] p = "recheck" -> "accept"
                      [] OTHER         -> "while"
    /\ UNCHANGED <<running, conn, handler, sock, late, signals>>

\* select finds a connection; or the descriptor is closed and its number is in use
\* again, for a file, which is always readable.
SelectReady ==
  /\ MainAt("select")
  /\ sock = "closed" \/ \E c \in Clients : conn[c] = "pending"
  /\ main' = "recheck"
  /\ UNCHANGED <<flagVars, conn, handler, sock, late, signals>>

\* Mutant: select without a timeout.
SelectTimeout_Never ==
  /\ MainAt("select")
  /\ \E x \in Threads : handler[x] # "none"
  /\ main' = "while"
  /\ UNCHANGED <<flagVars, conn, handler, sock, late, signals>>

\* select times out, or is interrupted by a signal.
SelectTimeout ==
  /\ MainAt("select")
  /\ main' = "while"
  /\ UNCHANGED <<flagVars, conn, handler, sock, late, signals>>

\* select fails, the descriptor being closed.
SelectError ==
  /\ MainAt("select")
  /\ sock = "closed"
  /\ main' = "select_err"
  /\ UNCHANGED <<flagVars, conn, handler, sock, late, signals>>

Accept(c) ==
  /\ MainAt("accept")
  /\ sock = "open"
  /\ conn[c] = "pending"
  /\ conn' = [conn EXCEPT ![c] = "accepted"]
  /\ main' = "spawn"
  /\ late' = IF running THEN late ELSE late + 1
  /\ UNCHANGED <<flagVars, handler, sock, signals>>

\* accept fails: interrupted, timed out as the client is gone again, out of
\* descriptors, or on a closed descriptor.
AcceptFails ==
  /\ MainAt("accept")
  /\ main' = "accept_err"
  /\ UNCHANGED <<flagVars, conn, handler, sock, late, signals>>

\* pthread_create and pthread_detach.
Spawn(c) ==
  /\ MainAt("spawn")
  /\ conn[c] = "accepted"
  /\ conn' = [conn EXCEPT ![c] = "recv_op"]
  /\ main' = "while"
  /\ UNCHANGED <<flagVars, handler, sock, late, signals>>

\* Mutant: the error path leaves the socket open.
SpawnFails_Leaks(c) ==
  /\ MainAt("spawn")
  /\ conn[c] = "accepted"
  /\ main' = "while"
  /\ UNCHANGED <<flagVars, conn, handler, sock, late, signals>>

\* malloc or pthread_create fails: the connection is closed.
SpawnFails(c) ==
  /\ MainAt("spawn")
  /\ conn[c] = "accepted"
  /\ conn' = [conn EXCEPT ![c] = "closed"]
  /\ main' = "while"
  /\ UNCHANGED <<flagVars, handler, sock, late, signals>>

\* if (global_socket_desc >= 0) ...
TestSocket ==
  /\ MainAt("closing")
  /\ main' = IF sock = "open" THEN "close" ELSE "return"
  /\ UNCHANGED <<flagVars, conn, handler, sock, late, signals>>

\* The connections a closed listening socket has not handed out are reset.
ResetPending == [c \in Clients |-> IF conn[c] = "pending" THEN "refused" ELSE conn[c]]

\* ... close(global_socket_desc); global_socket_desc = -1.
CloseSocket ==
  /\ MainAt("close")
  /\ main' = "return"
  /\ sock' = "closed"
  /\ conn' = ResetPending
  /\ UNCHANGED <<flagVars, handler, late, signals>>

\* What is left of the threads when the process ends: one in the handler of a file
\* request is interrupted in its operation; to others it makes no difference but that
\* the connection is closed by the kernel.
Killed ==
  [c \in Clients |-> CASE conn[c] = "handle" -> "interrupted"
                       [] conn[c] \in (LivePcs \ {"handle"}) \cup {"accepted"} -> "killed"
                       [] conn[c] = "pending" -> "refused"
                       [] OTHER -> conn[c]]

\* main returns, and the detached threads end with it.
Return ==
  /\ MainAt("return")
  /\ main' = "returned"
  /\ conn' = Killed
  /\ UNCHANGED <<flagVars, handler, sock, late, signals>>

MainStep ==
  \/ LockForCheck \/ IsRunning
  \/ SelectReady \/ SelectTimeout \/ SelectError
  \/ AcceptFails \/ \E c \in Clients : Accept(c) \/ Spawn(c) \/ SpawnFails(c)
  \/ TestSocket \/ CloseSocket \/ Return

-----------------------------------------------------------------------------
(* handle_client *)

\* The operation arrives and is dispatched, or it is unknown, or a recv fails.
RecvOperation(c) ==
  /\ ClientAt(c, "recv_op")
  /\ \E next \in {"stop", "handle", "close"} : conn' = [conn EXCEPT ![c] = next]
  /\ UNCHANGED <<flagVars, main, handler, sock, late, signals>>

\* handle_stop_request: set_server_running(0) locks server_mutex ...
LockForStop(c) ==
  /\ ClientAt(c, "stop")
  /\ owner = None
  /\ owner' = c
  /\ UNCHANGED <<running, main, conn, handler, sock, late, signals>>

\* ... clears the flag and unlocks.
HandleStopRequest(c) ==
  /\ ClientAt(c, "stop")
  /\ owner = c
  /\ owner' = None
  /\ running' = FALSE
  /\ conn' = [conn EXCEPT ![c] = "close"]
  /\ UNCHANGED <<main, handler, sock, late, signals>>

\* The handler of a file request returns.
HandleRequest(c) ==
  /\ ClientAt(c, "handle")
  /\ conn' = [conn EXCEPT ![c] = "close"]
  /\ UNCHANGED <<flagVars, main, handler, sock, late, signals>>

\* The handler sends to a client that is gone, and SIGPIPE ends the process.
SendToClosed(c) ==
  /\ ClientAt(c, "handle")
  /\ main' = "terminated"
  /\ conn' = Killed
  /\ UNCHANGED <<flagVars, handler, sock, late, signals>>

CloseConnection(c) ==
  /\ ClientAt(c, "close")
  /\ conn' = [conn EXCEPT ![c] = "closed"]
  /\ UNCHANGED <<flagVars, main, handler, sock, late, signals>>

\* What a thread does by itself.  How long a handler takes is up to its client.
ClientStep(c) ==
  RecvOperation(c) \/ LockForStop(c) \/ HandleStopRequest(c) \/ CloseConnection(c)

-----------------------------------------------------------------------------
(* signal_handler *)

\* SIGINT or SIGTERM arrives and interrupts thread x.
Signal(x) ==
  /\ signals < MaxSignals
  /\ Alive(x)
  /\ handler[x] = "none"
  /\ handler' = [handler EXCEPT ![x] = "lock"]
  /\ signals' = signals + 1
  /\ UNCHANGED <<flagVars, main, conn, sock, late>>

HandlerAt(x, p) == Alive(x) /\ handler[x] = p

\* set_server_running(0) locks server_mutex: not if x itself held it when it was
\* interrupted, or ever afterwards.
HandlerLocks(x) ==
  /\ HandlerAt(x, "lock")
  /\ owner = None
  /\ owner' = x
  /\ handler' = [handler EXCEPT ![x] = "store"]
  /\ UNCHANGED <<running, main, conn, sock, late, signals>>

HandlerStores(x) ==
  /\ HandlerAt(x, "store")
  /\ running' = FALSE
  /\ owner' = None
  /\ handler' = [handler EXCEPT ![x] = "test"]
  /\ UNCHANGED <<main, conn, sock, late, signals>>

HandlerTests(x) ==
  /\ HandlerAt(x, "test")
  /\ handler' = [handler EXCEPT ![x] = IF sock = "open" THEN "close" ELSE "none"]
  /\ UNCHANGED <<flagVars, main, conn, sock, late, signals>>

HandlerCloses(x) ==
  /\ HandlerAt(x, "close")
  /\ sock' = "closed"
  /\ conn' = ResetPending
  /\ handler' = [handler EXCEPT ![x] = "none"]
  /\ UNCHANGED <<flagVars, main, late, signals>>

HandlerStep(x) ==
  HandlerLocks(x) \/ HandlerStores(x) \/ HandlerTests(x) \/ HandlerCloses(x)

-----------------------------------------------------------------------------

\* A client connects; the kernel queues the connection if anybody listens.
Connect(c) ==
  /\ conn[c] = "absent"
  /\ conn' = [conn EXCEPT ![c] = IF sock = "open" /\ ~Ended THEN "pending" ELSE "refused"]
  /\ UNCHANGED <<flagVars, main, handler, sock, late, signals>>

Init ==
  /\ running = TRUE
  /\ owner = None
  /\ main = "while"
  /\ conn = [c \in Clients |-> "absent"]
  /\ handler = [x \in Threads |-> "none"]
  /\ sock = "open"
  /\ late = 0
  /\ signals = 0

Next ==
  \/ MainStep
  \/ \E c \in Clients :
       Connect(c) \/ ClientStep(c) \/ HandleRequest(c) \/ SendToClosed(c)
  \/ \E x \in Threads : Signal(x) \/ HandlerStep(x)

Spec == Init /\ [][Next]_vars

\* Someone takes server_mutex in order to clear server_running.
LockToClear ==
  \/ \E c \in Clients : LockForStop(c)
  \/ \E x \in Threads : HandlerLocks(x)

\* Threads are scheduled, select has its timeout, and recv of an operation returns
\* after the timeout inherited from the listening socket.  Nothing is assumed of
\* the clients, so a handler may never return.  main takes server_mutex in every
\* turn of its loop for an instant: strong fairness says that it does not for ever
\* win the race for it against all the threads that want to clear the flag.
FairSpec ==
  /\ Spec
  /\ WF_vars(MainStep)
  /\ \A c \in Clients : WF_vars(ClientStep(c))
  /\ \A x \in Threads : WF_vars(HandlerStep(x))
  /\ SF_vars(LockToClear)

-----------------------------------------------------------------------------

TypeOK ==
  /\ running \in BOOLEAN
  /\ owner \in Threads \cup {None}
  /\ main \in MainPcs
  /\ conn \in [Clients -> ConnStates]
  /\ handler \in [Threads -> HandlerPcs]
  /\ sock \in {"open", "closed"}
  /\ late \in Nat
  /\ signals \in 0 .. MaxSignals
  /\ \A c, d \in Clients : conn[c] = "accepted" /\ conn[d] = "accepted" => c = d

\* At most one client that main was about to accept still gets a thread once
\* server_running is cleared, whoever clears it and whenever ("Check if we're still
\* running (might have been stopped by signal)").
OneLateClient == late <= 1

\* signal_handler waits for a mutex that the code it interrupted holds.
SelfDeadlock == \E x \in Threads : Alive(x) /\ handler[x] = "lock" /\ owner = x

\* STOP and signals end the server ("The main loop detects this within 1 second"),
\* unless a signal interrupts a thread that holds server_mutex.
ShutdownUnlessStuck ==
  ~running \/ (\E x \in Threads : handler[x] # "none") ~> Ended \/ SelfDeadlock

\* An accepted connection gets to a handler or is closed, whatever fails.
ConnectionsTakenCareOf ==
  \A c \in Clients :
    conn[c] = "accepted" ~> conn[c] \in {"handle", "closed", "killed"} \/ SelfDeadlock

\* "Active operations complete before the server exits": main does not return while a
\* thread is in the handler of a file request.  The thread of the STOP itself, and those
\* that have not received an operation, do not count.
OperationsComplete ==
  main = "returned" => \A c \in Clients : conn[c] # "interrupted"

\* "Signal handler for graceful shutdown": a signal ends the server.
SignalEndsServer == (\E x \in Threads : handler[x] # "none") ~> Ended
=============================================================================
