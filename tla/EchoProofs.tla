----------------------------- MODULE EchoProofs -----------------------------
(***************************************************************************)
(* The echo programs, for any number of servers, threads, instances and    *)
(* clients: they implement PipeAcceptor, so its theorems hold of them, a   *)
(* session lives exactly as long as its pipe, and clients get their own    *)
(* replies, none of which a server throws away.                            *)
(***************************************************************************)
EXTENDS EchoServer, ClientProofs, PipeRefinement, FiniteSetTheorems

(* A write fails only because the client has left.                         *)
FailingWrites == \A p \in Pipes : session[p] = "writefail" => instance[p] # "connected"

(* A session has nothing else to do than to read until it has a request.   *)
Attended == \A c \in Clients : Unserved(c) /\ cp[c] \in owned => session[cp[c]] = "reading"

SessionTypeOK == stopped \in BOOLEAN /\ session \in [Pipes -> SessionState]

EchoInv ==
  /\ IInv /\ ClientInv /\ SessionTypeOK
  /\ SessionOwnsPipe /\ FailingWrites /\ RepliesOwned /\ Attended

LEMMA InitEchoInv == EchoInit => EchoInv
<1> SUFFICES ASSUME EchoInit PROVE EchoInv
  OBVIOUS
<1>1. IInv /\ ClientInv
  BY InitIInv, InitClientInv DEF EchoInit
<1>2. SessionTypeOK /\ SessionOwnsPipe /\ FailingWrites
  BY DEF EchoInit, Init, SessionTypeOK, SessionState, SessionOwnsPipe, FailingWrites
<1>3. RepliesOwned
  BY DEF EchoInit, ClientInit, RepliesOwned, Unread
<1>4. Attended
  BY DEF EchoInit, Init, Attended
<1> QED
  BY <1>1, <1>2, <1>3, <1>4 DEF EchoInv

-----------------------------------------------------------------------------
(* The steps of the composed system, as steps of the accept path.          *)

(* A session that ends is a Drop.                                          *)
LEMMA EchoNextNext == EchoInv /\ [EchoNext]_echoVars => [Next]_vars
<1> SUFFICES ASSUME EchoInv, [EchoNext]_echoVars PROVE [Next]_vars
  OBVIOUS
<1>1. CASE \E c \in Clients : ClientNext(c)
  BY <1>1, ClientStepNext DEF EchoInv
<1>2. CASE \E a \in Acceptors : Boot(a) \/ DestroyServer(a) \/ Operate(a) \/ Accept(a)
  BY <1>2 DEF Boot, DestroyServer, Operate, Accept, Next
<1>3. CASE \E p \in Pipes : DestroySession(p) \/ ReadHandler(p) \/ WriteHandler(p)
  BY <1>3 DEF DestroySession, ReadHandler, WriteHandler, EndSession, Next
<1>4. CASE Stop \/ UNCHANGED echoVars
  BY <1>4 DEF Stop, echoVars
<1> QED
  BY <1>1, <1>2, <1>3, <1>4 DEF EchoNext

(***************************************************************************)
(* A step of the server as the clients and the sessions see it: buffers    *)
(* stay or a request moves on, and the pipes change as a ServerStep says.  *)
(***************************************************************************)
LEMMA SessionStep ==
  ASSUME EchoInv, ServerStep \/ UNCHANGED vars,
         UNCHANGED clientVars,
         \/ UNCHANGED bufferVars
         \/ UNCHANGED vars /\ \E p \in owned : Moved(p),
         SessionTypeOK', SessionOwnsPipe',
         \A p \in Pipes : session'[p] = "writefail" =>
           session[p] = "writefail" \/ instance'[p] # "connected",
         \A p \in Pipes : p \in owned /\ p \notin owned' => ~Unread(p)',
         \A p \in owned' :
           p \notin owned \/ (session[p] = "reading" /\ ~Moved(p)) => session'[p] = "reading"
  PROVE  EchoInv'
<1>1. IInv'
  BY ServerStepNext, NextIInv DEF EchoInv
<1>2. KeepsClientEnds
  BY ServerKeepsClientEnds DEF EchoInv, KeepsClientEnds, ClientOpen, vars, kernelVars
<1>3. owned \in SUBSET Pipes
  BY DEF EchoInv, IInv, TypeOK
<1>4. ClientInv'
  BY <1>2, <1>3, ServerStepClientInv DEF EchoInv
<1>5. ASSUME NEW p \in Pipes
      PROVE  /\ instance'[p] = "connected" => instance[p] = "connected"
             /\ p \in owned /\ p \in owned' => instance'[p] = instance[p]
  BY ServerStepInstances DEF EchoInv, vars, kernelVars
<1>6. FailingWrites'
  BY <1>5 DEF EchoInv, FailingWrites
<1>7. RepliesOwned'
  <2> SUFFICES ASSUME NEW p \in Pipes, Unread(p)' PROVE p \in owned'
    BY DEF RepliesOwned
  <2>1. CASE UNCHANGED bufferVars
    <3>1. Unread(p)
      BY <2>1, <1>5 DEF Unread, bufferVars
    <3> QED
      BY <3>1 DEF EchoInv, RepliesOwned
  <2>2. CASE UNCHANGED vars /\ \E q \in owned : Moved(q)
    <3>1. PICK q \in owned : Moved(q)
      BY <2>2
    <3>2. owned' = owned /\ instance' = instance
      BY <2>2 DEF vars, kernelVars, acceptVars
    <3>3. p = q \/ Unread(p)
      BY <3>1, <3>2, <1>3 DEF Moved, Unread, EchoInv, ClientInv, ClientTypeOK
    <3> QED
      BY <3>1, <3>2, <3>3 DEF EchoInv, RepliesOwned
  <2> QED
    BY <2>1, <2>2
<1>8. Attended'
  <2> SUFFICES ASSUME NEW c \in Clients, Unserved(c)', cp'[c] \in owned'
               PROVE  session'[cp'[c]] = "reading"
    BY DEF Attended
  <2>1. Unserved(c) /\ ~Moved(cp[c]) /\ cp'[c] = cp[c]
    BY <1>3, ServerStepUnserved DEF EchoInv, clientVars
  <2> QED
    BY <2>1 DEF EchoInv, Attended
<1> QED
  BY <1>1, <1>4, <1>6, <1>7, <1>8 DEF EchoInv

(* A pipe that its session drops, and the session with it.                 *)
LEMMA DropSessionStep ==
  ASSUME EchoInv, NEW p \in Pipes, NEW end \in {"gone", "shut"}, Drop(p, end),
         session' = [session EXCEPT ![p] = "none"], UNCHANGED stopped,
         UNCHANGED bufferVars, UNCHANGED clientVars
  PROVE  EchoInv'
<1>1. ServerStep
  BY DEF ServerStep
<1>2. SessionTypeOK'
  BY DEF EchoInv, SessionTypeOK, SessionState
<1>3. owned' = owned \ {p} /\ instance'[p] # "connected"
  BY DEF Drop, CloseServerEnd, EchoInv, IInv, TypeOK, KernelTypeOK
<1>4. SessionOwnsPipe'
  BY <1>3 DEF EchoInv, SessionTypeOK, SessionOwnsPipe
<1>5. \A q \in Pipes : session'[q] = "writefail" => session[q] = "writefail"
  BY DEF EchoInv, SessionTypeOK
<1>6. \A q \in Pipes : q \in owned /\ q \notin owned' => ~Unread(q)'
  BY <1>3 DEF Unread
<1>7. \A q \in owned' : q \in owned /\ session'[q] = session[q]
  BY <1>3 DEF EchoInv, IInv, TypeOK, SessionTypeOK
<1> QED
  BY <1>1, <1>2, <1>4, <1>5, <1>6, <1>7, SessionStep

-----------------------------------------------------------------------------
(* The invariant, action by action.                                        *)

LEMMA LifeStep ==
  ASSUME EchoInv, NEW a \in Acceptors,
         Stop \/ Boot(a) \/ DestroyServer(a) \/ Operate(a)
  PROVE  EchoInv'
<1>1. ServerStep \/ UNCHANGED vars
  BY DEF Stop, Boot, DestroyServer, Operate, ServerStep
<1>2. session' = session /\ SessionTypeOK' /\ UNCHANGED bufferVars /\ UNCHANGED clientVars
  BY DEF Stop, Boot, DestroyServer, Operate, sessionVars, EchoInv, SessionTypeOK
<1>3. owned' = owned
  BY DEF Stop, Boot, DestroyServer, Operate, Start, Operation, Destroy, CreateInstance,
     ConnectInstance, Assign, Finish, vars, acceptVars
<1> QED
  BY <1>1, <1>2, <1>3, SessionStep DEF EchoInv, SessionOwnsPipe

(* The session starts with the pipe it gets.                               *)
LEMMA AcceptStep ==
  ASSUME EchoInv, NEW a \in Acceptors, Accept(a)
  PROVE  EchoInv'
<1> USE DEF Accept
<1>1. ServerStep
  BY DEF ServerStep
<1>2. owned \subseteq owned'
  BY DEF AcceptHandler
<1>3. SessionTypeOK' /\ SessionOwnsPipe'
  BY <1>2 DEF EchoInv, SessionTypeOK, SessionState, SessionOwnsPipe
<1>4. \A p \in Pipes : session'[p] = "writefail" => session[p] = "writefail"
  OBVIOUS
<1>5. \A p \in owned' : p \notin owned \/ session[p] = "reading" => session'[p] = "reading"
  <2>1. IInv'
    BY <1>1, NextIInv, ServerStepNext DEF EchoInv
  <2>2. owned' \in SUBSET Pipes
    BY <2>1 DEF IInv, TypeOK
  <2> QED
    BY <2>2
<1> QED
  BY <1>1, <1>2, <1>3, <1>4, <1>5, SessionStep

LEMMA ReadHandlerStep ==
  ASSUME EchoInv, NEW p \in Pipes, ReadHandler(p)
  PROVE  EchoInv'
<1>1. CASE EndSession(p)
  BY <1>1, DropSessionStep DEF EndSession, ReadHandler
<1>2. CASE ~EndSession(p)
  <2> USE <1>2 DEF ReadHandler
  <2>1. p \in owned
    BY DEF EchoInv, SessionOwnsPipe
  <2>2. Moved(p) /\ UNCHANGED vars /\ UNCHANGED clientVars
    BY NoMsgAssumption DEF Moved
  <2>3. owned' = owned /\ instance' = instance
    BY <2>2 DEF vars, kernelVars, acceptVars
  <2>4. SessionTypeOK' /\ SessionOwnsPipe'
    BY <2>1, <2>3 DEF EchoInv, SessionTypeOK, SessionState, SessionOwnsPipe
  <2>5. \A q \in Pipes : session'[q] = "writefail" =>
          session[q] = "writefail" \/ instance'[q] # "connected"
    BY <2>3 DEF EchoInv, SessionTypeOK
  <2>6. \A q \in owned' : q \in owned /\ (~Moved(q) => session'[q] = session[q])
    <3> SUFFICES ASSUME NEW q \in owned', ~Moved(q)
                 PROVE  q \in owned /\ session'[q] = session[q]
      BY <2>3
    <3>1. q # p
      BY <2>2
    <3> QED
      BY <2>3, <3>1 DEF EchoInv, SessionTypeOK, IInv, TypeOK
  <2> QED
    BY <2>1, <2>2, <2>3, <2>4, <2>5, <2>6, SessionStep
<1> QED
  BY <1>1, <1>2

LEMMA WriteHandlerStep ==
  ASSUME EchoInv, NEW p \in Pipes, WriteHandler(p)
  PROVE  EchoInv'
<1>1. CASE EndSession(p)
  BY <1>1, DropSessionStep DEF EndSession, WriteHandler
<1>2. CASE ~EndSession(p)
  <2> USE <1>2 DEF WriteHandler
  <2>1. owned' = owned
    BY DEF vars, acceptVars
  <2>2. SessionTypeOK' /\ SessionOwnsPipe'
    BY <2>1 DEF EchoInv, SessionTypeOK, SessionState, SessionOwnsPipe
  <2>3. \A q \in Pipes : session'[q] = "writefail" => session[q] = "writefail"
    BY DEF EchoInv, SessionTypeOK
  <2>4. \A q \in Pipes : session[q] = "reading" => session'[q] = "reading"
    BY DEF EchoInv, SessionTypeOK
  <2> QED
    BY <2>1, <2>2, <2>3, <2>4, SessionStep DEF EchoInv, IInv, TypeOK
<1> QED
  BY <1>1, <1>2

(* Clients open, close and read pipes; whose pipe it is they leave alone.  *)
LEMMA EchoClientStep ==
  ASSUME EchoInv, NEW c \in Clients, ClientNext(c), UNCHANGED sessionVars
  PROVE  EchoInv'
<1>1. IInv' /\ ClientInv'
  BY ClientStepNext, NextIInv, ClientStepClientInv DEF EchoInv
<1>2. ASSUME NEW p \in Pipes
      PROVE  /\ owned' = owned
             /\ instance'[p] = "connected" => instance[p] \in {"connected", "listening"}
             /\ Unread(p)' => Unread(p)
  BY ClientStepInstances DEF EchoInv
<1>3. SessionTypeOK' /\ SessionOwnsPipe' /\ RepliesOwned'
  BY <1>2 DEF EchoInv, sessionVars, SessionTypeOK, SessionOwnsPipe, RepliesOwned
<1>4. FailingWrites'
  <2> SUFFICES ASSUME NEW p \in Pipes, session'[p] = "writefail", instance'[p] = "connected"
               PROVE  FALSE
    BY DEF FailingWrites
  <2>1. p \in owned /\ instance[p] # "connected"
    BY DEF EchoInv, sessionVars, SessionOwnsPipe, FailingWrites
  <2>2. instance[p] # "listening"
    BY <2>1 DEF EchoInv, IInv, PipeInv, Arrived
  <2> QED
    BY <2>1, <2>2, <1>2
<1>5. Attended'
  <2> SUFFICES ASSUME NEW d \in Clients, Unserved(d)', cp'[d] \in owned'
               PROVE  session'[cp'[d]] = "reading"
    BY DEF Attended
  <2>1. owned' = owned
    BY ClientStepEnds DEF EchoInv, vars, acceptVars, ClientConnects, ClientLeaves
  <2> QED
    BY <2>1, ClientStepUnserved DEF EchoInv, Attended, sessionVars
<1> QED
  BY <1>1, <1>3, <1>4, <1>5 DEF EchoInv

LEMMA NextEchoInv == EchoInv /\ [EchoNext]_echoVars => EchoInv'
<1> SUFFICES ASSUME EchoInv, [EchoNext]_echoVars PROVE EchoInv'
  OBVIOUS
<1>1. CASE Stop
  <2>1. UNCHANGED <<vars, session, bufferVars, clientVars>> /\ SessionTypeOK'
    BY <1>1 DEF Stop, EchoInv, SessionTypeOK
  <2> QED
    BY <2>1, SessionStep DEF vars, acceptVars, EchoInv, SessionOwnsPipe
<1>2. CASE \E a \in Acceptors : Boot(a) \/ DestroyServer(a) \/ Operate(a) \/ Accept(a)
  BY <1>2, LifeStep, AcceptStep
<1>3. CASE \E p \in Pipes : DestroySession(p)
  BY <1>3, DropSessionStep DEF DestroySession
<1>4. CASE \E p \in Pipes : ReadHandler(p) \/ WriteHandler(p)
  BY <1>4, ReadHandlerStep, WriteHandlerStep
<1>5. CASE \E c \in Clients : ClientNext(c) /\ UNCHANGED sessionVars
  BY <1>5, EchoClientStep
<1>6. CASE UNCHANGED echoVars
  <2>1. UNCHANGED <<vars, bufferVars, clientVars, session, stopped>>
    BY <1>6 DEF echoVars, sessionVars
  <2>2. SessionTypeOK' /\ owned' = owned
    BY <2>1 DEF EchoInv, SessionTypeOK, vars, acceptVars
  <2> QED
    BY <2>1, <2>2, SessionStep DEF EchoInv, SessionOwnsPipe
<1> QED
  BY <1>1, <1>2, <1>3, <1>4, <1>5, <1>6 DEF EchoNext

(* A session ends when its client has closed, when a write failed for that *)
(* reason, or on a request too long to be answered: there is no reply.     *)
LEMMA EchoKeepsUnread ==
  ASSUME EchoInv, [EchoNext]_echoVars, NEW p \in Pipes, Unread(p)
  PROVE  instance'[p] # "gone"
<1>1. p \in owned
  BY DEF EchoInv, RepliesOwned
<1>2. ASSUME ServerStep, p \in owned' PROVE instance'[p] # "gone"
  BY <1>1, <1>2, ServerStepInstances DEF EchoInv, Unread
<1>3. CASE UNCHANGED vars
  BY <1>3 DEF vars, kernelVars, Unread
<1>4. CASE \E c \in Clients : ClientNext(c)
  BY <1>4, ClientStepInstances DEF EchoInv, Unread
<1>5. CASE \E a \in Acceptors : Boot(a) \/ DestroyServer(a) \/ Operate(a) \/ Accept(a)
  <2>1. ServerStep
    BY <1>5 DEF Boot, DestroyServer, Operate, Accept, ServerStep
  <2>2. owned \subseteq owned'
    BY <1>5 DEF Boot, DestroyServer, Operate, Accept, Start, Operation, Destroy,
       CreateInstance, ConnectInstance, Assign, Finish, AcceptHandler
  <2> QED
    BY <1>1, <1>2, <2>1, <2>2
<1>6. ASSUME NEW q \in Pipes, DestroySession(q) PROVE instance'[p] # "gone"
  BY <1>6 DEF DestroySession, Drop, CloseServerEnd, EchoInv, IInv, TypeOK, KernelTypeOK, Unread
<1>7. ASSUME NEW q \in Pipes, EndSession(q), instance[q] # "connected" \/ toServer[q] # NoMsg
      PROVE  instance'[p] # "gone"
  <2>1. p # q
    BY <1>7 DEF Unread, EchoInv, ClientInv, OneMessage
  <2> QED
    BY <2>1, <1>7 DEF EndSession, Drop, CloseServerEnd, EchoInv, IInv, TypeOK, KernelTypeOK, Unread
<1>8. ASSUME NEW q \in Pipes, ReadHandler(q) \/ WriteHandler(q) PROVE instance'[p] # "gone"
  <2>1. \/ UNCHANGED vars
        \/ EndSession(q) /\ (instance[q] # "connected" \/ toServer[q] # NoMsg)
    BY <1>8, NoMsgAssumption, LongAssumption
       DEF ReadHandler, WriteHandler, EchoInv, FailingWrites
  <2> QED
    BY <2>1, <1>3, <1>7
<1> QED
  BY <1>3, <1>4, <1>5, <1>6, <1>8 DEF EchoNext, Stop, echoVars

-----------------------------------------------------------------------------
(* The theorems.                                                           *)

(* In every reachable state each session matches its pipe and the buffers  *)
(* of its client, whatever threads, shutdowns and deaths did before.       *)
THEOREM EchoInvariance == EchoSpec => []EchoInv
  BY InitEchoInv, NextEchoInv, PTL DEF EchoSpec

(* The echo programs implement the accept path: whatever sessions, threads *)
(* and shutdowns do, each of their steps is one PipeAcceptor allows.       *)
THEOREM EchoImplements == EchoSpec => Spec
<1>1. EchoInit => Init
  BY DEF EchoInit
<1> QED
  BY <1>1, EchoInvariance, EchoNextNext, PTL DEF EchoSpec, Spec

(* What was proved of the accept path therefore holds in the programs:     *)
(* it hands each arrived pipe over once, by the rules of Handoff.          *)
THEOREM EchoAccepts ==
  EchoSpec => /\ HandoffSpec
               /\ [](SoleOwner /\ AcceptedWasConnected /\ CompletesOnce
                     /\ PipeFreeForNextAccept /\ OnlyNoDataLeaks /\ ConnectedOnItsWay)
  BY EchoImplements, Refinement, OwnerUnique, AcceptSound, CompletionUnique, AssignNeverThrows,
     LeakBound, ConnectedAnnounced, PTL

(* The programs' variables keep their types, and a client has a handle     *)
(* exactly while it is inside a call that opened one.                      *)
THEOREM EchoTypeCorrect == EchoSpec => []EchoTypeOK
<1>1. EchoInv => EchoTypeOK
  BY DEF EchoInv, SessionTypeOK, ClientInv, EchoTypeOK
<1> QED
  BY <1>1, EchoInvariance, PTL

(* A pipe that was accepted has one session until it is destroyed.         *)
THEOREM SessionOwner == EchoSpec => []SessionOwnsPipe
<1>1. EchoInv => SessionOwnsPipe
  BY DEF EchoInv
<1> QED
  BY <1>1, EchoInvariance, PTL

(* No client ever gets another client's reply.                             *)
THEOREM EchoOwnReply == EchoSpec => []OwnReply
<1>1. EchoInv => OwnReply
  BY ClientInvOwnReply DEF EchoInv
<1> QED
  BY <1>1, EchoInvariance, PTL

(* No server disconnects a client that has yet to read its reply.          *)
THEOREM EchoFlushes == EchoSpec => NoReplyDiscarded
<1> DEFINE Kept ==
      \A p \in Pipes : instance[p] = "connected" /\ toClient[p] # NoMsg => instance'[p] # "gone"
<1>1. EchoInv /\ [EchoNext]_echoVars => Kept
  BY EchoKeepsUnread DEF Unread
<1>2. EchoInv /\ [EchoNext]_echoVars => [Kept]_vars
  BY <1>1
<1>3. NoReplyDiscarded <=> [][Kept]_vars
  BY DEF NoReplyDiscarded
<1> HIDE DEF Kept
<1> QED
  BY <1>2, <1>3, EchoInvariance, PTL DEF EchoSpec

(* A client leaks its handle only if the server disconnected its pipe.     *)
THEOREM EchoClientLeaks == EchoSpec => []OnlyDisconnectedLeaks
<1>1. EchoInv => OnlyDisconnectedLeaks
  BY DEF EchoInv, ClientInv
<1> QED
  BY <1>1, EchoInvariance, PTL

(* No client that waits for its reply is forgotten: its request lies in    *)
(* the pipe, where a session reads or will read it, unless the accept that *)
(* should start the session has lost its completion.                       *)
THEOREM EchoAttends == EchoSpec => []UnansweredIsRead
<1>1. EchoInv => UnansweredIsRead
  <2> SUFFICES ASSUME EchoInv, NEW c \in Clients, Unanswered(c)
               PROVE  /\ toServer[cp[c]] = c
                      /\ session[cp[c]] = "reading" \/ OnItsWay(cp[c])
    BY DEF UnansweredIsRead
  <2>1. HasPipe(c) /\ toServer[cp[c]] = c
    BY UnansweredWritten DEF EchoInv
  <2>2. cp[c] \notin owned => OnItsWay(cp[c])
    BY <2>1, IInvOnItsWay DEF EchoInv, ConnectedOnItsWay, Unanswered, HasPipe
  <2> QED
    BY <2>1, <2>2 DEF EchoInv, Attended, Unserved
<1> QED
  BY <1>1, EchoInvariance, PTL

-----------------------------------------------------------------------------
(* With one thread.                                                        *)

(* A program runs one server at a time.                                    *)
OneServer == \A a, b \in Acceptors : pc[a] # "dead" /\ pc[b] # "dead" => a = b

LEMMA NextOneServer == EchoInv /\ OneServer /\ [EchoNext]_echoVars => OneServer'
<1> SUFFICES ASSUME EchoInv, OneServer, [EchoNext]_echoVars PROVE OneServer'
  OBVIOUS
<1> USE DEF OneServer, EchoInv, IInv, TypeOK
<1>1. ASSUME pc' = pc PROVE OneServer'
  BY <1>1
<1>2. ASSUME NEW a \in Acceptors, Boot(a) PROVE OneServer'
  BY <1>2 DEF Boot, Start
<1>3. ASSUME NEW a \in Acceptors, DestroyServer(a) \/ Operate(a) \/ Accept(a)
      PROVE  OneServer'
  BY <1>3 DEF DestroyServer, Destroy, Operate, Operation, CreateInstance, ConnectInstance,
     Assign, Finish, Accept, AcceptHandler
<1>4. CASE \E p \in Pipes : DestroySession(p) \/ ReadHandler(p) \/ WriteHandler(p)
  BY <1>4, <1>1 DEF DestroySession, ReadHandler, WriteHandler, EndSession, Drop, vars, acceptVars
<1>5. CASE \E c \in Clients : ClientNext(c)
  BY <1>5, <1>1, ClientStepEnds DEF vars, acceptVars, ClientConnects, ClientLeaves
<1>6. CASE Stop \/ UNCHANGED echoVars
  BY <1>6, <1>1 DEF Stop, echoVars, vars, acceptVars
<1> QED
  BY <1>2, <1>3, <1>4, <1>5, <1>6 DEF EchoNext

(* The only thread is not inside an operation when it runs a handler.      *)
LEMMA ThreadIsIdle ==
  ASSUME NThreads = 1, OneServer, HasThread
  PROVE  Busy = {}
<1> SUFFICES ASSUME NEW a \in Busy PROVE FALSE
  OBVIOUS
<1>1. Busy = {a}
  BY DEF Busy, OneServer
<1>2. Cardinality(Busy) = 1
  BY <1>1, FS_Singleton
<1> QED
  BY <1>2 DEF HasThread

LEMMA EchoNameStays ==
  ASSUME NThreads = 1, EchoInv, OneServer, [EchoNext]_echoVars, Serving, Up, Serving'
  PROVE  Up'
<1>1. PICK p \in Pipes : ServerOpen(p)
  BY DEF Up
<1>2. CASE \/ UNCHANGED vars
           \/ \E a \in Acceptors : Start(a) \/ Operation(a) \/ AcceptHandler(a)
           \/ \E q \in Pipes : ClientConnects(q) \/ ClientLeaves(q)
  BY <1>1, <1>2, ServerEndStays DEF EchoInv, Up
<1>3. ASSUME NEW q \in Pipes, Drop(q, "gone"), HasThread
      PROVE  Up'
  <2>1. Busy = {} /\ q \in owned
    BY <1>3, ThreadIsIdle DEF Drop
  <2>2. PICK r \in Pipes \ {q} : ServerOpen(r)
    BY <2>1, WaitingHasInstance DEF EchoInv
  <2> QED
    BY <2>2, <1>3, ServerEndStays DEF EchoInv, Up
<1>4. ASSUME NEW a \in Acceptors, DestroyServer(a) PROVE FALSE
  <2>1. pc[a] = "wait" /\ pc' = [pc EXCEPT ![a] = "dead"]
    BY <1>4 DEF DestroyServer, Destroy
  <2> QED
    BY <2>1 DEF OneServer, Serving, EchoInv, IInv, TypeOK
<1>5. CASE \E a \in Acceptors : Boot(a) \/ Operate(a) \/ Accept(a)
  BY <1>5, <1>2 DEF Boot, Operate, Accept
<1>6. CASE \E q \in Pipes : ReadHandler(q) \/ WriteHandler(q)
  BY <1>6, <1>2, <1>3 DEF ReadHandler, WriteHandler, EndSession
<1>7. ~(\E q \in Pipes : DestroySession(q))
  BY DEF DestroySession, Serving
<1>8. CASE \E c \in Clients : ClientNext(c)
  BY <1>8, <1>2, ClientStepEnds DEF EchoInv
<1> QED
  BY <1>2, <1>4, <1>5, <1>6, <1>7, <1>8 DEF EchoNext, Stop, echoVars

(* A program with one thread keeps the name of its pipe while its server   *)
(* runs and no accept fails; EchoTwoThreads.cfg shows that two threads do  *)
(* not.                                                                    *)
THEOREM EchoNameStaysUp ==
  ASSUME NThreads = 1
  PROVE  EchoSpec => NameStaysUp
<1> DEFINE Stays == Serving /\ Up /\ Serving' => Up'
<1>1. EchoInv /\ OneServer /\ [EchoNext]_echoVars => [Stays]_vars
  BY EchoNameStays
<1>2. NameStaysUp <=> [][Stays]_vars
  BY DEF NameStaysUp
<1>3. EchoInit => OneServer
  BY DEF EchoInit, Init, OneServer
<1> HIDE DEF Stays
<1> QED
  BY <1>1, <1>2, <1>3, NextOneServer, EchoInvariance, PTL DEF EchoSpec
=============================================================================
