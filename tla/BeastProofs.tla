----------------------------- MODULE BeastProofs ----------------------------
(***************************************************************************)
(* The Beast server, for any number of instances and clients: it           *)
(* implements PipeAcceptor; every connection is guarded by its deadline or *)
(* its destructor; no reply is thrown away and no client's handle is lost; *)
(* and with its one thread the pipe name never disappears.                 *)
(***************************************************************************)
EXTENDS BeastServer, ClientProofs, PipeRefinement

ConnectionTypeOK ==
  /\ pending \in [Pipes -> PendingOp]
  /\ timer \in [Pipes -> TimerState]
  /\ flushing \in Pipes \cup {NoPipe}

(* The destructor runs when no handler of the connection is left.          *)
FlushingLast == flushing \in Pipes => timer[flushing] = "none"

(* A connection that has no request yet reads, under its deadline.         *)
UnderDeadline(p) == timer[p] \in {"armed", "expired"} /\ pending[p] # "write"
Attended == \A c \in Clients : Unserved(c) /\ cp[c] \in owned => UnderDeadline(cp[c])

(* What the thread is in: a connection came from the running loop, and     *)
(* during a flush the loop waits.                                          *)
LoopRuns == owned # {} => \A a \in Acceptors : pc[a] # "dead"
OneThread == flushing # NoPipe => Busy = {}

BeastInv ==
  /\ IInv /\ ClientInv /\ ConnectionTypeOK
  /\ DeadlineGuardsConnection /\ FlushingLast
  /\ LoopRuns /\ OneThread
  /\ RepliesOwned /\ Attended

LEMMA InitBeastInv == BeastInit => BeastInv
<1> SUFFICES ASSUME BeastInit PROVE BeastInv
  OBVIOUS
<1>1. IInv /\ ClientInv
  BY InitIInv, InitClientInv DEF BeastInit
<1>2. ConnectionTypeOK /\ DeadlineGuardsConnection /\ FlushingLast /\ OneThread
  BY NoPipeAssumption DEF BeastInit, Init, ConnectionTypeOK, PendingOp, TimerState,
     DeadlineGuardsConnection, FlushingLast, OneThread
<1>3. RepliesOwned /\ LoopRuns /\ Attended
  BY DEF BeastInit, Init, ClientInit, RepliesOwned, Unread, LoopRuns, Attended
<1> QED
  BY <1>1, <1>2, <1>3 DEF BeastInv

-----------------------------------------------------------------------------
(* The steps as steps of the accept path.                                  *)

LEMMA BeastNextNext == BeastInv /\ [BeastNext]_beastVars => [Next]_vars
<1> SUFFICES ASSUME BeastInv, [BeastNext]_beastVars PROVE [Next]_vars
  OBVIOUS
<1>1. CASE \E c \in Clients : ClientNext(c)
  BY <1>1, ClientStepNext DEF BeastInv
<1>2. CASE \E a \in Acceptors : Main(a) \/ Operate(a) \/ Accept(a)
  BY <1>2 DEF Main, Operate, Accept, Next
<1>3. CASE \E p \in Pipes :
             ReadHandler(p) \/ WriteHandler(p) \/ Expire(p) \/ DeadlineHandler(p) \/ Flushed(p)
  BY <1>3 DEF ReadHandler, WriteHandler, Expire, DeadlineHandler, Flushed, Next
<1> QED
  BY <1>1, <1>2, <1>3 DEF BeastNext, beastVars

(* A step of the server as the clients see it.                             *)
LEMMA ConnectionStep ==
  ASSUME BeastInv, ServerStep \/ UNCHANGED vars, UNCHANGED clientVars,
         \/ UNCHANGED bufferVars
         \/ UNCHANGED vars /\ \E p \in owned : Moved(p),
         \A p \in Pipes : p \in owned /\ p \notin owned' => instance'[p] # "connected",
         \A p \in owned' :
           p \notin owned \/ (UnderDeadline(p) /\ ~Moved(p)) => UnderDeadline(p)'
  PROVE  IInv' /\ ClientInv' /\ RepliesOwned' /\ Attended'
<1>1. IInv'
  BY ServerStepNext, NextIInv DEF BeastInv
<1>2. KeepsClientEnds
  BY ServerKeepsClientEnds DEF BeastInv, KeepsClientEnds, ClientOpen, vars, kernelVars
<1>3. owned \in SUBSET Pipes
  BY DEF BeastInv, IInv, TypeOK
<1>4. ClientInv'
  BY <1>2, <1>3, ServerStepClientInv DEF BeastInv
<1>5. ASSUME NEW p \in Pipes, Unread(p)' PROVE p \in owned'
  <2>1. instance[p] = "connected"
    BY <1>5, ServerStepInstances DEF BeastInv, Unread, vars, kernelVars
  <2>2. CASE UNCHANGED bufferVars
    BY <2>1, <2>2, <1>5 DEF BeastInv, RepliesOwned, Unread, bufferVars
  <2>3. CASE UNCHANGED vars /\ \E q \in owned : Moved(q)
    <3>1. PICK q \in owned : Moved(q)
      BY <2>3
    <3>2. owned' = owned /\ instance' = instance
      BY <2>3 DEF vars, kernelVars, acceptVars
    <3>3. p = q \/ Unread(p)
      BY <3>1, <3>2, <1>3, <1>5 DEF Moved, Unread, BeastInv, ClientInv, ClientTypeOK
    <3> QED
      BY <3>1, <3>2, <3>3 DEF BeastInv, RepliesOwned
  <2> QED
    BY <2>2, <2>3
<1>6. Attended'
  <2> SUFFICES ASSUME NEW c \in Clients, Unserved(c)', cp'[c] \in owned'
               PROVE  UnderDeadline(cp[c])'
    BY DEF Attended
  <2>1. Unserved(c) /\ ~Moved(cp[c]) /\ cp'[c] = cp[c]
    BY <1>3, ServerStepUnserved DEF BeastInv, clientVars
  <2>2. PICK p : p = cp[c]
    OBVIOUS
  <2>3. p \in owned' /\ (p \in owned => UnderDeadline(p)) /\ ~Moved(p)
    BY <2>1, <2>2 DEF BeastInv, Attended
  <2>4. UnderDeadline(p)'
    BY <2>3
  <2> QED
    BY <2>1, <2>2, <2>4 DEF UnderDeadline
<1> QED
  BY <1>1, <1>4, <1>5, <1>6 DEF RepliesOwned

-----------------------------------------------------------------------------
(* The invariant, action by action.                                        *)

(* main starts the loop before there is any connection; an operation runs  *)
(* only while no destructor does.                                          *)
LEMMA LoopStep ==
  ASSUME BeastInv, NEW a \in Acceptors, Main(a) \/ Operate(a)
  PROVE  BeastInv'
<1>1. ServerStep /\ owned' = owned
  BY DEF Main, Operate, ServerStep, Start, Operation, CreateInstance, ConnectInstance,
     Assign, Finish
<1>2. UNCHANGED <<clientVars, bufferVars, connectionVars>>
  BY DEF Main, Operate
<1>3. IInv' /\ ClientInv' /\ RepliesOwned' /\ Attended'
  BY <1>1, <1>2, ConnectionStep DEF UnderDeadline, connectionVars
<1>4. ConnectionTypeOK' /\ DeadlineGuardsConnection' /\ FlushingLast'
  BY <1>1, <1>2 DEF BeastInv, connectionVars, ConnectionTypeOK, DeadlineGuardsConnection,
     FlushingLast
<1>5. flushing = NoPipe
  <2> SUFFICES ASSUME flushing # NoPipe PROVE FALSE
    OBVIOUS
  <2>1. owned # {} /\ Busy = {}
    BY DEF BeastInv, ConnectionTypeOK, DeadlineGuardsConnection, OneThread
  <2> QED
    BY <2>1 DEF Main, Operate, Start, Operation, CreateInstance, ConnectInstance, Assign,
       Finish, Busy, BeastInv, LoopRuns
<1>6. OneThread'
  BY <1>2, <1>5 DEF connectionVars, OneThread
<1>7. LoopRuns'
  BY <1>1 DEF Main, Operate, Start, Operation, CreateInstance, ConnectInstance, Assign,
     Finish, BeastInv, IInv, TypeOK, LoopRuns, Busy
<1> QED
  BY <1>3, <1>4, <1>6, <1>7 DEF BeastInv

(* A connection starts to read and sets its deadline in one handler.       *)
LEMMA AcceptStep ==
  ASSUME BeastInv, NEW a \in Acceptors, Accept(a)
  PROVE  BeastInv'
<1> USE DEF Accept
<1>1. ServerStep /\ owned \subseteq owned'
  BY DEF ServerStep, AcceptHandler
<1>2. IInv' /\ ClientInv' /\ RepliesOwned' /\ Attended'
  <2>1. IInv'
    BY <1>1, NextIInv, ServerStepNext DEF BeastInv
  <2>2. owned' \in SUBSET Pipes
    BY <2>1 DEF IInv, TypeOK
  <2>3. \A p \in owned' : p \notin owned \/ UnderDeadline(p) => UnderDeadline(p)'
    BY <2>2 DEF UnderDeadline
  <2> QED
    BY <1>1, <2>3, ConnectionStep
<1>3. flushing' = NoPipe
  BY DEF ThreadIsFree
<1>4. ConnectionTypeOK'
  BY DEF BeastInv, ConnectionTypeOK, PendingOp, TimerState
<1>5. DeadlineGuardsConnection' /\ FlushingLast' /\ OneThread'
  BY <1>1, <1>3, NoPipeAssumption
     DEF BeastInv, ConnectionTypeOK, DeadlineGuardsConnection, FlushingLast, OneThread
<1>6. LoopRuns'
  BY MainAssumption DEF AcceptHandler, LoopRuns, BeastInv, IInv, TypeOK
<1> QED
  BY <1>2, <1>4, <1>5, <1>6 DEF BeastInv

(* Handlers that leave the pipe with its connection.                       *)
LEMMA HandlerStep ==
  ASSUME BeastInv, NEW p \in Pipes,
         \/ ReadHandler(p) \/ WriteHandler(p) \/ Expire(p)
         \/ DeadlineHandler(p) /\ timer[p] = "canceled"
  PROVE  BeastInv'
<1> USE DEF ReadHandler, WriteHandler, Expire, DeadlineHandler, Pend, SetTimer
<1>1. UNCHANGED vars /\ UNCHANGED clientVars
  BY DEF Drop
<1>2. owned' = owned /\ pc' = pc
  BY <1>1 DEF vars, acceptVars
<1>3. UNCHANGED bufferVars \/ \E q \in owned : Moved(q)
  BY NoMsgAssumption DEF Moved, BeastInv, DeadlineGuardsConnection, bufferVars
<1>4. ASSUME NEW q \in owned', UnderDeadline(q), ~Moved(q) PROVE UnderDeadline(q)'
  <2>1. q \in Pipes
    BY <1>2 DEF BeastInv, IInv, TypeOK
  <2>2. CASE q # p
    BY <2>1, <2>2, <1>4 DEF UnderDeadline, BeastInv, ConnectionTypeOK
  <2>3. CASE q = p
    <3>1. ~Moved(p)
      BY <2>3, <1>4
    <3>2. pending'[p] # "write" /\ timer'[p] \in {"armed", "expired"}
      BY <2>3, <3>1, <1>4, NoMsgAssumption DEF Moved, UnderDeadline, BeastInv,
         ConnectionTypeOK
    <3> QED
      BY <2>3, <3>2 DEF UnderDeadline
  <2> QED
    BY <2>2, <2>3
<1>5. IInv' /\ ClientInv' /\ RepliesOwned' /\ Attended'
  BY <1>1, <1>2, <1>3, <1>4, ConnectionStep
<1>6. ConnectionTypeOK'
  BY DEF BeastInv, ConnectionTypeOK, PendingOp, TimerState
<1>7. DeadlineGuardsConnection' /\ FlushingLast'
  BY <1>2, NoPipeAssumption
     DEF BeastInv, ConnectionTypeOK, DeadlineGuardsConnection, FlushingLast, ThreadIsFree
<1>8. LoopRuns' /\ OneThread'
  BY <1>2 DEF BeastInv, LoopRuns, OneThread, ThreadIsFree, Busy
<1> QED
  BY <1>5, <1>6, <1>7, <1>8 DEF BeastInv

(* The two ways a connection lets its pipe go.                             *)
LEMMA EndStep ==
  ASSUME BeastInv, NEW p \in Pipes,
         Flushed(p) \/ (DeadlineHandler(p) /\ timer[p] = "expired")
  PROVE  BeastInv'
<1> USE DEF Flushed, DeadlineHandler, Pend, SetTimer
<1>1. PICK end \in {"gone", "shut"} : Drop(p, end)
  OBVIOUS
<1>2. owned' = owned \ {p} /\ instance'[p] # "connected" /\ pc' = pc
  BY <1>1 DEF Drop, CloseServerEnd, BeastInv, IInv, TypeOK, KernelTypeOK
<1>3. IInv' /\ ClientInv' /\ RepliesOwned' /\ Attended'
  <2>1. \A q \in owned' : q \in owned /\ (UnderDeadline(q) => UnderDeadline(q)')
    BY <1>2 DEF UnderDeadline, BeastInv, ConnectionTypeOK, IInv, TypeOK
  <2> QED
    BY <1>1, <1>2, <2>1, ConnectionStep DEF ServerStep
<1>4. ConnectionTypeOK' /\ FlushingLast'
  BY NoPipeAssumption
     DEF BeastInv, ConnectionTypeOK, PendingOp, TimerState, FlushingLast, ThreadIsFree
<1>5. DeadlineGuardsConnection'
  BY <1>2, NoPipeAssumption
     DEF BeastInv, ConnectionTypeOK, DeadlineGuardsConnection, FlushingLast, ThreadIsFree
<1>6. LoopRuns' /\ OneThread'
  BY <1>2 DEF BeastInv, LoopRuns, OneThread, ThreadIsFree, Busy
<1> QED
  BY <1>3, <1>4, <1>5, <1>6 DEF BeastInv

LEMMA BeastClientStep ==
  ASSUME BeastInv, NEW c \in Clients, ClientNext(c), UNCHANGED connectionVars
  PROVE  BeastInv'
<1>1. IInv' /\ ClientInv'
  BY ClientStepNext, NextIInv, ClientStepClientInv DEF BeastInv
<1>2. ASSUME NEW p \in Pipes PROVE owned' = owned /\ (Unread(p)' => Unread(p))
  BY ClientStepInstances DEF BeastInv
<1>3. pc' = pc
  BY ClientStepEnds DEF BeastInv, vars, acceptVars, ClientConnects, ClientLeaves
<1>4. owned' = owned
  BY ClientStepEnds DEF BeastInv, vars, acceptVars, ClientConnects, ClientLeaves
<1>5. Attended'
  <2> SUFFICES ASSUME NEW d \in Clients, Unserved(d)', cp'[d] \in owned'
               PROVE  UnderDeadline(cp[d])'
    BY DEF Attended
  <2>1. Unserved(d) /\ cp'[d] = cp[d]
    BY <1>4, ClientStepUnserved DEF BeastInv
  <2> QED
    BY <2>1, <1>4 DEF BeastInv, Attended, UnderDeadline, connectionVars
<1> QED
  BY <1>1, <1>2, <1>3, <1>4, <1>5
     DEF BeastInv, connectionVars, ConnectionTypeOK, DeadlineGuardsConnection, FlushingLast,
         LoopRuns, OneThread, Busy, RepliesOwned

LEMMA NextBeastInv == BeastInv /\ [BeastNext]_beastVars => BeastInv'
<1> SUFFICES ASSUME BeastInv, [BeastNext]_beastVars PROVE BeastInv'
  OBVIOUS
<1>1. CASE \E a \in Acceptors : Main(a) \/ Operate(a) \/ Accept(a)
  BY <1>1, LoopStep, AcceptStep
<1>2. ASSUME NEW p \in Pipes,
             ReadHandler(p) \/ WriteHandler(p) \/ Expire(p) \/ DeadlineHandler(p) \/ Flushed(p)
      PROVE  BeastInv'
  <2>1. DeadlineHandler(p) => timer[p] \in {"expired", "canceled"}
    BY DEF DeadlineHandler
  <2> QED
    BY <1>2, <2>1, HandlerStep, EndStep
<1>3. CASE \E c \in Clients : ClientNext(c) /\ UNCHANGED connectionVars
  BY <1>3, BeastClientStep
<1>4. CASE UNCHANGED beastVars
  <2>1. UNCHANGED <<vars, bufferVars, clientVars, connectionVars>>
    BY <1>4 DEF beastVars
  <2>2. IInv' /\ ClientInv' /\ RepliesOwned' /\ Attended'
    BY <2>1, ConnectionStep DEF vars, acceptVars, connectionVars, UnderDeadline
  <2> QED
    BY <2>1, <2>2
       DEF BeastInv, vars, acceptVars, connectionVars, ConnectionTypeOK,
           DeadlineGuardsConnection, FlushingLast, LoopRuns, OneThread, Busy
<1> QED
  BY <1>1, <1>2, <1>3, <1>4 DEF BeastNext

-----------------------------------------------------------------------------
(* The action properties.                                                  *)

(* A pipe is disconnected only when its flush is over.                     *)
LEMMA BeastKeepsUnread ==
  ASSUME BeastInv, [BeastNext]_beastVars, NEW p \in Pipes, Unread(p)
  PROVE  instance'[p] # "gone"
<1>1. p \in owned
  BY DEF BeastInv, RepliesOwned
<1>2. CASE UNCHANGED vars
  BY <1>2 DEF vars, kernelVars, Unread
<1>3. CASE \E c \in Clients : ClientNext(c)
  BY <1>3, ClientStepInstances DEF BeastInv, Unread
<1>4. CASE \E a \in Acceptors : Main(a) \/ Operate(a) \/ Accept(a)
  <2>1. ServerStep /\ owned \subseteq owned'
    BY <1>4 DEF Main, Operate, Accept, ServerStep, Start, Operation, CreateInstance,
       ConnectInstance, Assign, Finish, AcceptHandler
  <2> QED
    BY <1>1, <2>1, ServerStepInstances DEF BeastInv, Unread
<1>5. ASSUME NEW q \in Pipes,
             ReadHandler(q) \/ WriteHandler(q) \/ Expire(q) \/ DeadlineHandler(q) \/ Flushed(q)
      PROVE  instance'[p] # "gone"
  <2>1. CASE UNCHANGED vars
    BY <2>1, <1>2
  <2>2. CASE Drop(q, "shut")
    BY <2>2 DEF Drop, CloseServerEnd, BeastInv, IInv, TypeOK, KernelTypeOK, Unread
  <2>3. CASE Flushed(q)
    <3>1. p # q
      BY <2>3 DEF Flushed, Unread
    <3> QED
      BY <2>3, <3>1 DEF Flushed, Drop, CloseServerEnd, BeastInv, IInv, TypeOK, KernelTypeOK,
         Unread
  <2> QED
    BY <1>5, <2>1, <2>2, <2>3 DEF ReadHandler, WriteHandler, Expire, DeadlineHandler
<1> QED
  BY <1>2, <1>3, <1>4, <1>5 DEF BeastNext, beastVars

(* When a connection ends the loop is waiting, with an instance of its own. *)
LEMMA BeastNameStays ==
  ASSUME BeastInv, [BeastNext]_beastVars, Serving, Up
  PROVE  Up'
<1>1. PICK p \in Pipes : ServerOpen(p)
  BY DEF Up
<1>2. CASE \/ UNCHANGED vars
           \/ \E a \in Acceptors : Start(a) \/ Operation(a) \/ AcceptHandler(a)
           \/ \E q \in Pipes : ClientConnects(q) \/ ClientLeaves(q)
  BY <1>1, <1>2, ServerEndStays DEF BeastInv, Up
<1>3. ASSUME NEW q \in Pipes, NEW end \in {"gone", "shut"}, Drop(q, end), Busy = {}
      PROVE  Up'
  <2>1. PICK r \in Pipes \ {q} : ServerOpen(r)
    BY <1>3, WaitingHasInstance DEF Drop, BeastInv
  <2> QED
    BY <2>1, <1>3, ServerEndStays DEF BeastInv, Up
<1>4. CASE \E c \in Clients : ClientNext(c)
  BY <1>4, <1>2, ClientStepEnds DEF BeastInv
<1>5. CASE \E a \in Acceptors : Main(a) \/ Operate(a) \/ Accept(a)
  BY <1>5, <1>2 DEF Main, Operate, Accept
<1>6. ASSUME NEW q \in Pipes,
             ReadHandler(q) \/ WriteHandler(q) \/ Expire(q) \/ DeadlineHandler(q) \/ Flushed(q)
      PROVE  UNCHANGED vars \/ (Busy = {} /\ \E end \in {"gone", "shut"} : Drop(q, end))
  BY <1>6, NoPipeAssumption DEF ReadHandler, WriteHandler, Expire, DeadlineHandler, Flushed,
     ThreadIsFree, BeastInv, OneThread
<1> QED
  BY <1>2, <1>3, <1>4, <1>5, <1>6 DEF BeastNext, beastVars

-----------------------------------------------------------------------------
(* What clients can lose.                                                  *)

(* Every client handle is held by a client, and connect will find the pipe *)
(* it opened still connected or closed, but not disconnected.              *)
HandlesHeld ==
  /\ NoClientHandleLeak
  /\ \A c \in Clients : cpc[c] = "mode" => instance[cp[c]] # "gone"

(* A server step disconnects no pipe whose client is still in connect.     *)
LEMMA DisconnectsServed ==
  ASSUME BeastInv, BeastNext, UNCHANGED clientVars,
         \A c \in Clients : ~ClientNext(c),
         NEW c \in Clients, cpc[c] = "mode", instance'[cp[c]] = "gone"
  PROVE  instance[cp[c]] = "gone"
<1>1. cp[c] \in Pipes /\ Unserved(c)
  BY DEF BeastInv, ClientInv, ClientTypeOK, Unserved, HasPipe
<1>2. CASE UNCHANGED vars
  BY <1>2 DEF vars, kernelVars
<1>3. CASE \E a \in Acceptors : Main(a) \/ Operate(a) \/ Accept(a)
  BY <1>1, <1>3 DEF Main, Operate, Accept, Start, Operation, CreateInstance, ConnectInstance,
     CreateNamedPipe, Assign, Finish, AcceptHandler, kernelVars, BeastInv, IInv, TypeOK,
     KernelTypeOK, Post
<1>4. ASSUME NEW q \in Pipes, Drop(q, "shut") PROVE instance[cp[c]] = "gone"
  BY <1>1, <1>4 DEF Drop, CloseServerEnd, BeastInv, IInv, TypeOK, KernelTypeOK
<1>5. ASSUME NEW q \in Pipes, Flushed(q) PROVE instance[cp[c]] = "gone"
  <2>1. q \in owned /\ timer[q] = "none"
    BY <1>5 DEF Flushed, BeastInv, DeadlineGuardsConnection, FlushingLast
  <2>2. cp[c] # q
    BY <1>1, <2>1 DEF BeastInv, Attended, UnderDeadline
  <2> QED
    BY <1>1, <1>5, <2>2 DEF Flushed, Drop, CloseServerEnd, BeastInv, IInv, TypeOK, KernelTypeOK
<1> QED
  BY <1>2, <1>3, <1>4, <1>5 DEF BeastNext, ReadHandler, WriteHandler, Expire, DeadlineHandler

(* A step keeps it: a server's by the lemma above, a client's because the  *)
(* calls close what they opened, except after a failed SetMode.            *)
LEMMA NextHandlesHeld == BeastInv /\ HandlesHeld /\ [BeastNext]_beastVars => HandlesHeld'
<1> SUFFICES ASSUME BeastInv, HandlesHeld, [BeastNext]_beastVars PROVE HandlesHeld'
  OBVIOUS
<1>1. CASE UNCHANGED beastVars
  BY <1>1 DEF beastVars, vars, kernelVars, clientVars, HandlesHeld, NoClientHandleLeak,
     ClientOpen
<1>2. CASE BeastNext /\ \A c \in Clients : ~ClientNext(c)
  <2>1. UNCHANGED clientVars /\ (ServerStep \/ UNCHANGED vars)
    BY <1>2 DEF BeastNext, Main, Operate, Accept, ReadHandler, WriteHandler, Expire,
       DeadlineHandler, Flushed, ServerStep
  <2>2. KeepsClientEnds
    BY <2>1, ServerKeepsClientEnds DEF BeastInv, KeepsClientEnds, ClientOpen, vars, kernelVars
  <2>3. \A c \in Clients : cpc'[c] = "mode" => instance'[cp'[c]] # "gone"
    BY <1>2, <2>1, DisconnectsServed DEF clientVars, HandlesHeld
  <2> QED
    BY <2>1, <2>2, <2>3 DEF clientVars, HandlesHeld, NoClientHandleLeak, KeepsClientEnds
<1>3. ASSUME NEW c \in Clients, ClientNext(c) PROVE HandlesHeld'
  <2>1. \A p \in Pipes : instance'[p] = "gone" => instance[p] = "gone"
    BY <1>3, ClientStepInstances DEF BeastInv
  <2>2. ClientTypeOK /\ ClientTypeOK' /\ instance \in [Pipes -> InstanceState]
    BY <1>3, ClientStepClientInv DEF BeastInv, ClientInv, IInv, TypeOK, KernelTypeOK
  <2>3. CASE Connect(c) \/ WaitPipe(c) \/ SetMode(c)
    BY <2>2, <2>3 DEF Connect, WaitPipe, SetMode, Goto, Return, vars, kernelVars, HandlesHeld,
       NoClientHandleLeak, ClientOpen, ClientTypeOK
  <2>4. CASE OpenPipe(c)
    <3>1. CASE UNCHANGED vars /\ UNCHANGED cp /\ cpc'[c] # "mode"
      BY <2>2, <2>4, <3>1 DEF OpenPipe, Goto, Return, vars, kernelVars, HandlesHeld,
         NoClientHandleLeak, ClientOpen, ClientTypeOK
    <3>2. ASSUME NEW p \in Pipes, ClientConnects(p), cp' = [cp EXCEPT ![c] = p],
                 Goto(c, "mode")
          PROVE  HandlesHeld'
      <4>1. cp[c] = NoPipe \/ cp[c] \notin Pipes
        BY <2>2, <2>4 DEF OpenPipe, ClientTypeOK
      <4>2. /\ instance' = [instance EXCEPT ![p] = "connected"]
            /\ \A d \in Clients \ {c} : cp'[d] = cp[d] /\ cpc'[d] = cpc[d]
            /\ cp'[c] = p
        BY <2>2, <3>2 DEF ClientConnects, CreateFile, Goto, ClientTypeOK
      <4>3. \A d \in Clients \ {c} : cpc[d] = "mode" => cp[d] \in Pipes
        BY <2>2 DEF ClientTypeOK
      <4>4. NoClientHandleLeak'
        BY <2>2, <4>1, <4>2, NoPipeAssumption DEF HandlesHeld, NoClientHandleLeak, ClientOpen
      <4>5. \A d \in Clients : cpc'[d] = "mode" => instance'[cp'[d]] # "gone"
        BY <2>2, <4>2, <4>3 DEF HandlesHeld
      <4> QED
        BY <4>4, <4>5 DEF HandlesHeld
    <3> QED
      BY <2>2, <2>4, <3>1, <3>2 DEF OpenPipe, Goto, Return, ClientTypeOK
  <2>5. ASSUME NEW r, HasPipe(c), ReturnAndClose(c, r) PROVE HandlesHeld'
    <3>1. /\ instance' = [instance EXCEPT ![cp[c]] = IF @ = "connected" THEN "closing" ELSE "free"]
          /\ cp[c] \in Pipes
          /\ \A d \in Clients \ {c} : cp'[d] = cp[d] /\ cpc'[d] = cpc[d]
          /\ cpc'[c] = "done"
      BY <2>2, <2>5 DEF ReturnAndClose, Return, Goto, ClientLeaves, CloseClientEnd, HasPipe,
         ClientTypeOK
    <3>2. NoClientHandleLeak'
      BY <2>2, <3>1 DEF HandlesHeld, NoClientHandleLeak, ClientOpen
    <3>3. \A d \in Clients : cpc'[d] = "mode" => cp'[d] = cp[d] /\ cpc[d] = "mode" /\ cp[d] \in Pipes
      BY <2>2, <3>1 DEF ClientTypeOK
    <3> QED
      BY <2>1, <3>2, <3>3 DEF HandlesHeld
  <2>6. CASE Write(c) \/ Read(c) \/ Close(c) \/ Die(c)
    <3>1. HasPipe(c)
      BY <2>2, <2>6 DEF Write, Read, Close, Die, ClientTypeOK, HasPipe
    <3>2. CASE \E r : ReturnAndClose(c, r)
      BY <2>5, <3>1, <3>2
    <3>3. CASE UNCHANGED vars /\ UNCHANGED cp /\ cpc'[c] # "mode"
      BY <2>2, <2>6, <3>3 DEF Write, Read, Close, Die, ReturnAndClose, Return, Goto, vars,
         kernelVars, HandlesHeld, NoClientHandleLeak, ClientOpen, ClientTypeOK
    <3> QED
      BY <2>2, <2>6, <3>2, <3>3 DEF Write, Read, Close, Die, Goto, ClientTypeOK
  <2> QED
    BY <1>3, <2>3, <2>4, <2>6 DEF ClientNext, ClientCall
<1> QED
  BY <1>1, <1>2, <1>3

-----------------------------------------------------------------------------
(* The theorems.                                                           *)

(* In every reachable state each connection matches its pipe, its deadline *)
(* and the buffers of its client, and the thread is in one thing at a time. *)
THEOREM BeastInvariance == BeastSpec => []BeastInv
  BY InitBeastInv, NextBeastInv, PTL DEF BeastSpec

(* The Beast server implements the accept path: whatever connections and   *)
(* their deadlines do, each of its steps is one PipeAcceptor allows.       *)
THEOREM BeastImplements == BeastSpec => Spec
<1>1. BeastInit => Init
  BY DEF BeastInit
<1> QED
  BY <1>1, BeastInvariance, BeastNextNext, PTL DEF BeastSpec, Spec

(* What was proved of the accept path therefore holds in the server:       *)
(* it hands each arrived pipe over once, by the rules of Handoff.          *)
THEOREM BeastAccepts ==
  BeastSpec => /\ HandoffSpec
                /\ [](SoleOwner /\ AcceptedWasConnected /\ CompletesOnce
                      /\ PipeFreeForNextAccept /\ OnlyNoDataLeaks /\ ConnectedOnItsWay)
  BY BeastImplements, Refinement, OwnerUnique, AcceptSound, CompletionUnique, AssignNeverThrows,
     LeakBound, ConnectedAnnounced, PTL

(* The variables keep their types.                                         *)
THEOREM BeastTypeCorrect == BeastSpec => []BeastTypeOK
<1>1. BeastInv => BeastTypeOK
  BY DEF BeastInv, ConnectionTypeOK, ClientInv, BeastTypeOK
<1> QED
  BY <1>1, BeastInvariance, PTL

(* A connection that reads or writes has a deadline before it; one that    *)
(* does not is held by its timer or by its destructor alone.               *)
THEOREM DeadlineGuards == BeastSpec => []DeadlineGuardsConnection
<1>1. BeastInv => DeadlineGuardsConnection
  BY DEF BeastInv
<1> QED
  BY <1>1, BeastInvariance, PTL

(* No client of the Beast server gets another client's reply.              *)
THEOREM BeastOwnReply == BeastSpec => []OwnReply
<1>1. BeastInv => OwnReply
  BY ClientInvOwnReply DEF BeastInv
<1> QED
  BY <1>1, BeastInvariance, PTL

(* Neither a deadline nor a destructor takes an unread reply away.         *)
THEOREM BeastFlushes == BeastSpec => NoReplyDiscarded
<1> DEFINE Kept ==
      \A p \in Pipes : instance[p] = "connected" /\ toClient[p] # NoMsg => instance'[p] # "gone"
<1>1. BeastInv /\ [BeastNext]_beastVars => [Kept]_vars
  BY BeastKeepsUnread DEF Unread
<1>2. NoReplyDiscarded <=> [][Kept]_vars
  BY DEF NoReplyDiscarded
<1> HIDE DEF Kept
<1> QED
  BY <1>1, <1>2, BeastInvariance, PTL DEF BeastSpec

(* With one thread the name of the pipe exists as long as the server runs  *)
(* and no accept has failed.                                               *)
THEOREM BeastNameStaysUp == BeastSpec => NameStaysUp
<1> DEFINE Stays == Serving /\ Up /\ Serving' => Up'
<1>1. BeastInv /\ [BeastNext]_beastVars => [Stays]_vars
  BY BeastNameStays
<1>2. NameStaysUp <=> [][Stays]_vars
  BY DEF NameStaysUp
<1> HIDE DEF Stays
<1> QED
  BY <1>1, <1>2, BeastInvariance, PTL DEF BeastSpec

(* No client of the Beast server loses its handle: no pipe is disconnected *)
(* before its client has called SetNamedPipeHandleState.                   *)
THEOREM BeastClientLeaks == BeastSpec => []NoClientHandleLeak
<1>1. BeastInit => HandlesHeld
  BY DEF BeastInit, Init, KernelInit, ClientInit, HandlesHeld, NoClientHandleLeak, ClientOpen
<1>2. HandlesHeld => NoClientHandleLeak
  BY DEF HandlesHeld
<1> QED
  BY <1>1, <1>2, NextHandlesHeld, BeastInvariance, PTL DEF BeastSpec

(* The connection of a client that waits for its reply has its deadline    *)
(* before it, or the pipe is on its way to a connection, unless the accept *)
(* has lost its completion.                                                *)
THEOREM BeastAttends == BeastSpec => []UnansweredHasDeadline
<1>1. BeastInv => UnansweredHasDeadline
  <2> SUFFICES ASSUME BeastInv, NEW c \in Clients, Unanswered(c)
               PROVE  /\ toServer[cp[c]] = c
                      /\ timer[cp[c]] \in {"armed", "expired"} \/ OnItsWay(cp[c])
    BY DEF UnansweredHasDeadline
  <2>1. HasPipe(c) /\ toServer[cp[c]] = c
    BY UnansweredWritten DEF BeastInv
  <2>2. cp[c] \notin owned => OnItsWay(cp[c])
    BY <2>1, IInvOnItsWay DEF BeastInv, ConnectedOnItsWay, Unanswered, HasPipe
  <2> QED
    BY <2>1, <2>2 DEF BeastInv, Attended, Unserved, UnderDeadline
<1> QED
  BY <1>1, BeastInvariance, PTL
=============================================================================
