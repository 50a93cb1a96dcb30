------------------------- MODULE RfsListenerProofs -------------------------
(***************************************************************************)
(* Theorems about RfsListener, for any number of clients and signals.      *)
(***************************************************************************)
EXTENDS RfsListener, TLAPS

\* The one connection that is accepted and has no thread yet is the one that main
\* is about to start a thread for.
Handover == \A c \in Clients : conn[c] = "accepted" => main \in {"spawn", "returned", "terminated"}

\* The strengthening of TypeOK.
TypeInv == TypeOK /\ Handover

\* The strengthening of OneLateClient: server_running is never set again, so that
\* main does not get to accept once it has accepted a late client.
LateInv ==
  /\ late \in {0, 1}
  /\ late = 1 => ~running /\ main # "accept"

-----------------------------------------------------------------------------

\* The listener starts well typed.
LEMMA InitTypeInv == Init => TypeInv
  BY ListenerAssumption
  DEF Init, TypeInv, TypeOK, Handover, Threads, MainPcs, Checks, ConnStates, LivePcs,
      HandlerPcs

\* Every step of main, of a connection thread and of a signal handler keeps the types
\* and at most one connection without a thread.
LEMMA NextTypeInv == TypeInv /\ [Next]_vars => TypeInv'
<1> SUFFICES ASSUME TypeInv, [Next]_vars PROVE TypeInv'
  OBVIOUS
<1> USE ListenerAssumption
    DEF TypeInv, TypeOK, Handover, Threads, MainPcs, Checks, ConnStates, LivePcs, HandlerPcs,
        flagVars
<1>1. CASE MainStep
  <2>1. CASE LockForCheck
    BY <2>1 DEF LockForCheck, MainAt
  <2>2. CASE IsRunning
    BY <2>2 DEF IsRunning, MainAt, Continue
  <2>3. CASE SelectReady \/ SelectTimeout \/ SelectError
    BY <2>3 DEF SelectReady, SelectTimeout, SelectError, MainAt
  <2>4. CASE AcceptFails
    BY <2>4 DEF AcceptFails, MainAt
  <2>5. ASSUME NEW c \in Clients, Accept(c) PROVE TypeInv'
    BY <2>5 DEF Accept, MainAt
  <2>6. ASSUME NEW c \in Clients, Spawn(c) \/ SpawnFails(c) PROVE TypeInv'
    BY <2>6 DEF Spawn, SpawnFails, MainAt
  <2>7. CASE TestSocket
    BY <2>7 DEF TestSocket, MainAt
  <2>8. CASE CloseSocket
    BY <2>8 DEF CloseSocket, MainAt, ResetPending
  <2>9. CASE Return
    BY <2>9 DEF Return, MainAt, Killed
  <2> QED
    BY <1>1, <2>1, <2>2, <2>3, <2>4, <2>5, <2>6, <2>7, <2>8, <2>9 DEF MainStep
<1>2. ASSUME NEW c \in Clients,
             Connect(c) \/ ClientStep(c) \/ HandleRequest(c) \/ SendToClosed(c)
      PROVE  TypeInv'
  <2>1. CASE Connect(c)
    BY <2>1 DEF Connect, Ended
  <2>2. CASE RecvOperation(c)
    BY <2>2 DEF RecvOperation, ClientAt
  <2>3. CASE LockForStop(c) \/ HandleStopRequest(c)
    BY ZenonT(60), <2>3 DEF LockForStop, HandleStopRequest, ClientAt
  <2>4. CASE CloseConnection(c) \/ HandleRequest(c)
    BY <2>4 DEF CloseConnection, HandleRequest, ClientAt
  <2>5. CASE SendToClosed(c)
    BY <2>5 DEF SendToClosed, ClientAt, Killed
  <2> QED
    BY <1>2, <2>1, <2>2, <2>3, <2>4, <2>5 DEF ClientStep
<1>3. ASSUME NEW x \in Threads, Signal(x) \/ HandlerStep(x) PROVE TypeInv'
  <2>1. CASE Signal(x)
    BY <2>1 DEF Signal
  <2>2. CASE HandlerLocks(x) \/ HandlerStores(x) \/ HandlerTests(x)
    BY <2>2 DEF HandlerLocks, HandlerStores, HandlerTests, HandlerAt
  <2>3. CASE HandlerCloses(x)
    BY <2>3 DEF HandlerCloses, HandlerAt, ResetPending
  <2> QED
    BY <1>3, <2>1, <2>2, <2>3 DEF HandlerStep
<1>4. CASE UNCHANGED vars
  BY <1>4 DEF vars
<1> QED
  BY <1>1, <1>2, <1>3, <1>4 DEF Next

\* Type correctness of the listener, with any number of clients and signals: no
\* descriptor of an accepted connection is ever lost by the main loop.
THEOREM ListenerTypeCorrect == Spec => []TypeOK
<1>1. TypeInv => TypeOK
  BY DEF TypeInv
<1> QED
  BY <1>1, InitTypeInv, NextTypeInv, PTL DEF Spec

-----------------------------------------------------------------------------

\* At most one client gets a connection thread after STOP or a signal has cleared
\* server_running, however many clear it and connect (server.c, main and
\* signal_handler).
THEOREM AtMostOneLate == Spec => []OneLateClient
<1>1. Init => LateInv
  BY DEF Init, LateInv
<1>2. LateInv /\ [Next]_vars => LateInv'
  <2> SUFFICES ASSUME LateInv, [Next]_vars PROVE LateInv'
    OBVIOUS
  <2> USE DEF LateInv, flagVars
  <2>1. CASE MainStep
    <3>1. CASE IsRunning
      BY <3>1 DEF IsRunning, Continue, Checks, MainAt
    <3>2. ASSUME NEW c \in Clients, Accept(c) PROVE LateInv'
      BY <3>2 DEF Accept, MainAt
    <3>3. ASSUME NEW c \in Clients, Spawn(c) \/ SpawnFails(c) PROVE LateInv'
      BY <3>3 DEF Spawn, SpawnFails
    <3>4. CASE \/ LockForCheck \/ SelectReady \/ SelectTimeout \/ SelectError
               \/ AcceptFails \/ TestSocket \/ CloseSocket \/ Return
      BY <3>4 DEF LockForCheck, SelectReady, SelectTimeout, SelectError, AcceptFails,
                  TestSocket, CloseSocket, Return, MainAt
    <3> QED
      BY <2>1, <3>1, <3>2, <3>3, <3>4 DEF MainStep
  <2>2. ASSUME NEW c \in Clients,
               Connect(c) \/ ClientStep(c) \/ HandleRequest(c) \/ SendToClosed(c)
        PROVE  LateInv'
    BY <2>2 DEF Connect, ClientStep, RecvOperation, LockForStop, HandleStopRequest,
                CloseConnection, HandleRequest, SendToClosed
  <2>3. ASSUME NEW x \in Threads, Signal(x) \/ HandlerStep(x) PROVE LateInv'
    BY <2>3 DEF Signal, HandlerStep, HandlerLocks, HandlerStores, HandlerTests,
                HandlerCloses
  <2>4. CASE UNCHANGED vars
    BY <2>4 DEF vars
  <2> QED
    BY <2>1, <2>2, <2>3, <2>4 DEF Next
<1>3. LateInv => OneLateClient
  BY DEF LateInv, OneLateClient
<1> QED
  BY <1>1, <1>2, <1>3, PTL DEF Spec
=============================================================================
