---------------------------- MODULE ClientProofs ----------------------------
(***************************************************************************)
(* What every server of PipeClients.tla can rely on, for any number of     *)
(* clients: a client's handle is its own, and the buffers of its pipe hold *)
(* its own request or its own reply, never both.                           *)
(***************************************************************************)
EXTENDS PipeClients, PipeAcceptorProofs

HasPipe(c) == cp[c] \in Pipes

(* One connection carries one request and one reply; while it lasts, a     *)
(* client that reads has one of them in its pipe.                          *)
BuffersInv(c) ==
  HasPipe(c) =>
    /\ ClientOpen(cp[c])
    /\ toServer[cp[c]] \in {c, NoMsg} /\ toClient[cp[c]] \in {c, NoMsg}
    /\ cpc[c] \in {"mode", "write"} => toServer[cp[c]] = NoMsg /\ toClient[cp[c]] = NoMsg
    /\ cpc[c] = "read" /\ instance[cp[c]] = "connected" =>
         toServer[cp[c]] = c \/ toClient[cp[c]] = c

ReplyInv(c) ==
  /\ cpc[c] = "close" => reply[c] = c
  /\ result[c] = "ok" => cpc[c] = "done" /\ reply[c] = c

OwnHandle == \A c, d \in Clients : HasPipe(c) /\ cp[c] = cp[d] => c = d
OneMessage == \A p \in Pipes : toServer[p] = NoMsg \/ toClient[p] = NoMsg

ClientInv ==
  /\ ClientTypeOK
  /\ OwnHandle /\ OneMessage /\ OnlyDisconnectedLeaks
  /\ \A c \in Clients : BuffersInv(c) /\ ReplyInv(c)

LEMMA InitClientInv == Init /\ ClientInit => ClientInv
<1> SUFFICES ASSUME Init, ClientInit PROVE ClientInv
  OBVIOUS
<1>1. ClientTypeOK
  BY NoPipeAssumption DEF ClientInit, ClientTypeOK, ClientStep, Result
<1>2. OwnHandle /\ OneMessage
  BY NoPipeAssumption DEF ClientInit, OwnHandle, OneMessage, HasPipe
<1>3. \A c \in Clients : BuffersInv(c) /\ ReplyInv(c)
  BY NoPipeAssumption DEF ClientInit, BuffersInv, ReplyInv, HasPipe
<1>4. OnlyDisconnectedLeaks
  BY DEF Init, KernelInit, OnlyDisconnectedLeaks, ClientOpen
<1> QED
  BY <1>1, <1>2, <1>3, <1>4 DEF ClientInv

(* The invariant gives the properties of the runs, and says where the      *)
(* request of an unanswered client is.                                     *)
LEMMA ClientInvOwnReply == ClientInv => OwnReply
BY DEF ClientInv, ReplyInv, OwnReply

LEMMA UnansweredWritten ==
  ASSUME ClientInv, NEW c \in Clients, Unanswered(c)
  PROVE  HasPipe(c) /\ toServer[cp[c]] = c
<1>1. HasPipe(c)
  BY DEF Unanswered, ClientInv, ClientTypeOK, HasPipe
<1> QED
  BY <1>1, NoMsgAssumption DEF ClientInv, BuffersInv, Unanswered

-----------------------------------------------------------------------------
(* A server step that leaves the clients alone.  It closes instances, but  *)
(* only from its own side, and connects none.                              *)
KeepsClientEnds ==
  \A p \in Pipes :
    /\ ClientOpen(p)' <=> ClientOpen(p)
    /\ instance[p] = "gone" => instance'[p] = "gone"
    /\ instance'[p] = "connected" => instance[p] = "connected"

ServerStep ==
  \/ \E a \in Acceptors : Start(a) \/ Operation(a) \/ AcceptHandler(a) \/ Destroy(a)
  \/ \E p \in Pipes, end \in {"gone", "shut"} : Drop(p, end)

(* A handle that the server closes is open at its end.                     *)
LEMMA ClosedWasOpen ==
  ASSUME IInv, NEW p \in Pipes, ServerOpen(p),
         NEW end \in {"gone", "shut"}, CloseServerEnd(p, end)
  PROVE  KeepsClientEnds
BY DEF IInv, TypeOK, KernelTypeOK, ServerOpen, CloseServerEnd, KeepsClientEnds, ClientOpen

LEMMA ServerKeepsClientEnds == IInv /\ ServerStep => KeepsClientEnds
<1> SUFFICES ASSUME IInv, ServerStep PROVE KeepsClientEnds
  OBVIOUS
<1>1. ASSUME UNCHANGED instance PROVE KeepsClientEnds
  BY <1>1 DEF KeepsClientEnds, ClientOpen
<1>2. ASSUME NEW a \in Acceptors, Start(a) \/ Operation(a) \/ AcceptHandler(a)
      PROVE  KeepsClientEnds
  <2>1. CASE CreateInstance(a)
    <3>1. CASE \E p \in Pipes : CreateNamedPipe(p)
      BY <3>1 DEF CreateNamedPipe, KeepsClientEnds, ClientOpen, IInv, TypeOK, KernelTypeOK
    <3>2. CASE UNCHANGED instance
      BY <3>2, <1>1
    <3> QED
      BY <2>1, <3>1, <3>2 DEF CreateInstance
  <2>2. CASE Start(a) \/ ConnectInstance(a) \/ Assign(a) \/ Finish(a) \/ AcceptHandler(a)
    BY <2>2, <1>1 DEF Start, ConnectInstance, Assign, Finish, AcceptHandler, kernelVars
  <2> QED
    BY <1>2, <2>1, <2>2 DEF Operation
<1>3. ASSUME NEW a \in Acceptors, Destroy(a) PROVE KeepsClientEnds
  <2>1. CASE holder[a] = NoPipe
    BY <2>1, <1>1, <1>3 DEF Destroy
  <2>2. CASE holder[a] # NoPipe
    <3>1. holder[a] \in Pipes /\ ServerOpen(holder[a])
      BY <2>2, <1>3 DEF Destroy, IInv, AcceptorInv, Waiting, Accepting, Pending
    <3> QED
      BY <3>1, <2>2, <1>3, ClosedWasOpen DEF Destroy
  <2> QED
    BY <2>1, <2>2
<1>4. ASSUME NEW p \in Pipes, NEW end \in {"gone", "shut"}, Drop(p, end)
      PROVE  KeepsClientEnds
  <2>1. ServerOpen(p)
    BY <1>4 DEF Drop, IInv, PipeInv, Arrived, ServerOpen
  <2> QED
    BY <2>1, <1>4, ClosedWasOpen DEF Drop
<1> QED
  BY <1>2, <1>3, <1>4 DEF ServerStep

(* ... and moves a request from one buffer into the other, or drops it     *)
(* when its client has left.                                               *)
Moved(p) ==
  /\ toServer[p] # NoMsg
  /\ toServer' = [toServer EXCEPT ![p] = NoMsg]
  /\ \/ toClient' = [toClient EXCEPT ![p] = toServer[p]]
     \/ instance[p] # "connected" /\ UNCHANGED toClient

LEMMA ServerStepClientInv ==
  ASSUME ClientInv, KeepsClientEnds, UNCHANGED clientVars,
         UNCHANGED bufferVars \/ \E p \in Pipes : Moved(p)
  PROVE  ClientInv'
<1> USE DEF clientVars, bufferVars
<1>1. ClientTypeOK'
  BY DEF ClientInv, ClientTypeOK, Moved
<1>2. OwnHandle'
  BY DEF ClientInv, OwnHandle, HasPipe
<1>3. OneMessage'
  BY DEF ClientInv, ClientTypeOK, OneMessage, Moved
<1>4. ASSUME NEW c \in Clients PROVE BuffersInv(c)'
  BY DEF ClientInv, ClientTypeOK, BuffersInv, HasPipe, KeepsClientEnds, Moved
<1>5. ASSUME NEW c \in Clients PROVE ReplyInv(c)'
  BY DEF ClientInv, ReplyInv
<1>6. OnlyDisconnectedLeaks'
  BY DEF ClientInv, OnlyDisconnectedLeaks, KeepsClientEnds
<1> QED
  BY <1>1, <1>2, <1>3, <1>4, <1>5, <1>6 DEF ClientInv

-----------------------------------------------------------------------------
(* The clients' own steps.                                                 *)

(* The clients that do not move, when only pipe q changes and is not       *)
(* theirs.                                                                 *)
LEMMA OtherClient ==
  ASSUME ClientInv, NEW c \in Clients, NEW d \in Clients, c # d,
         cpc'[d] = cpc[d], cp'[d] = cp[d], result'[d] = result[d], reply'[d] = reply[d],
         \A p \in Pipes : cp[d] = p =>
           /\ instance'[p] = instance[p]
           /\ toServer'[p] = toServer[p] /\ toClient'[p] = toClient[p]
  PROVE  BuffersInv(d)' /\ ReplyInv(d)'
BY DEF ClientInv, BuffersInv, ReplyInv, HasPipe, ClientOpen

(* What changes for one client is enough.                                  *)
LEMMA OwnStep ==
  ASSUME ClientInv, NEW c \in Clients, ClientTypeOK', OwnHandle', OneMessage',
         OnlyDisconnectedLeaks', BuffersInv(c)', ReplyInv(c)',
         \A d \in Clients \ {c} :
           /\ cpc'[d] = cpc[d] /\ cp'[d] = cp[d]
           /\ result'[d] = result[d] /\ reply'[d] = reply[d]
           /\ \A p \in Pipes : cp[d] = p =>
                /\ instance'[p] = instance[p]
                /\ toServer'[p] = toServer[p] /\ toClient'[p] = toClient[p]
  PROVE  ClientInv'
<1>1. ASSUME NEW d \in Clients PROVE BuffersInv(d)' /\ ReplyInv(d)'
  <2>1. CASE d = c
    BY <2>1
  <2>2. CASE d # c
    BY <2>2, OtherClient
  <2> QED
    BY <2>1, <2>2
<1> QED
  BY <1>1 DEF ClientInv

LEMMA ConnectStep ==
  ASSUME ClientInv, NEW c \in Clients, Connect(c)
  PROVE  ClientInv'
<1> USE DEF Connect, Goto, vars, kernelVars, bufferVars
<1>1. ClientTypeOK' /\ OwnHandle' /\ OneMessage' /\ OnlyDisconnectedLeaks'
  BY DEF ClientInv, ClientTypeOK, ClientStep, Result, OwnHandle, OneMessage, HasPipe,
     OnlyDisconnectedLeaks, ClientOpen
<1>2. BuffersInv(c)' /\ ReplyInv(c)'
  BY DEF ClientInv, ClientTypeOK, BuffersInv, ReplyInv, HasPipe
<1> QED
  BY <1>1, <1>2, OwnStep DEF ClientInv, ClientTypeOK

(* The instance was listening, so no client had it and its buffers are     *)
(* those of a new connection.                                              *)
LEMMA OpenPipeStep ==
  ASSUME IInv, ClientInv, NEW c \in Clients, OpenPipe(c)
  PROVE  ClientInv'
<1>1. ASSUME cpc[c] = "open", UNCHANGED <<vars, bufferVars, cp, reply>>,
             \/ cpc' = [cpc EXCEPT ![c] = "busy"] /\ result' = result
             \/ cpc' = [cpc EXCEPT ![c] = "done"] /\ result' = [result EXCEPT ![c] = "failed"]
      PROVE  ClientInv'
  <2> USE <1>1 DEF vars, kernelVars, bufferVars
  <2>1. ClientTypeOK' /\ OwnHandle' /\ OneMessage' /\ OnlyDisconnectedLeaks'
    BY DEF ClientInv, ClientTypeOK, ClientStep, Result, OwnHandle, OneMessage, HasPipe,
       OnlyDisconnectedLeaks, ClientOpen
  <2>2. BuffersInv(c)' /\ ReplyInv(c)'
    BY DEF ClientInv, ClientTypeOK, BuffersInv, ReplyInv, HasPipe
  <2> QED
    BY <2>1, <2>2, OwnStep DEF ClientInv, ClientTypeOK
<1>2. ASSUME NEW p \in Pipes, ClientConnects(p),
             cp' = [cp EXCEPT ![c] = p],
             toServer' = [toServer EXCEPT ![p] = NoMsg],
             toClient' = [toClient EXCEPT ![p] = NoMsg],
             cpc' = [cpc EXCEPT ![c] = "mode"],
             UNCHANGED <<result, reply>>, cpc[c] = "open"
      PROVE  ClientInv'
  <2>1. instance[p] = "listening" /\ instance' = [instance EXCEPT ![p] = "connected"]
    BY <1>2 DEF ClientConnects, CreateFile
  <2>2. \A d \in Clients : cp[d] # p
    BY <2>1 DEF ClientInv, BuffersInv, HasPipe, ClientOpen
  <2>3. ClientTypeOK'
    BY <1>2 DEF ClientInv, ClientTypeOK, ClientStep
  <2>4. OwnHandle' /\ OneMessage' /\ OnlyDisconnectedLeaks'
    BY <1>2, <2>1, <2>2 DEF ClientInv, ClientTypeOK, OwnHandle, OneMessage, HasPipe,
       OnlyDisconnectedLeaks, ClientOpen, IInv, TypeOK, KernelTypeOK
  <2>5. BuffersInv(c)' /\ ReplyInv(c)'
    BY <1>2, <2>1 DEF ClientInv, ClientTypeOK, BuffersInv, ReplyInv, HasPipe, ClientOpen,
         IInv, TypeOK, KernelTypeOK
  <2>6. ASSUME NEW d \in Clients \ {c}
        PROVE  /\ cpc'[d] = cpc[d] /\ cp'[d] = cp[d]
               /\ result'[d] = result[d] /\ reply'[d] = reply[d]
               /\ \A q \in Pipes : cp[d] = q =>
                    /\ instance'[q] = instance[q]
                    /\ toServer'[q] = toServer[q] /\ toClient'[q] = toClient[q]
    BY <1>2, <2>1, <2>2 DEF ClientInv, ClientTypeOK, IInv, TypeOK, KernelTypeOK
  <2> QED
    BY <2>3, <2>4, <2>5, <2>6, OwnStep
<1> QED
  BY <1>1, <1>2 DEF OpenPipe, Goto, Return

LEMMA WaitPipeStep ==
  ASSUME ClientInv, NEW c \in Clients, WaitPipe(c)
  PROVE  ClientInv'
<1> USE DEF WaitPipe, Goto, Return, vars, kernelVars, bufferVars
<1>1. ClientTypeOK' /\ OwnHandle' /\ OneMessage' /\ OnlyDisconnectedLeaks'
  BY DEF ClientInv, ClientTypeOK, ClientStep, Result, OwnHandle, OneMessage, HasPipe,
     OnlyDisconnectedLeaks, ClientOpen
<1>2. BuffersInv(c)' /\ ReplyInv(c)'
  BY DEF ClientInv, ClientTypeOK, BuffersInv, ReplyInv, HasPipe
<1> QED
  BY <1>1, <1>2, OwnStep DEF ClientInv, ClientTypeOK

LEMMA SetModeStep ==
  ASSUME ClientInv, NEW c \in Clients, SetMode(c)
  PROVE  ClientInv'
<1> USE DEF SetMode, Goto, Return, vars, kernelVars, bufferVars
<1>1. ClientTypeOK' /\ OwnHandle' /\ OneMessage' /\ OnlyDisconnectedLeaks'
  BY NoPipeAssumption
     DEF ClientInv, ClientTypeOK, ClientStep, Result, OwnHandle, OneMessage, HasPipe,
         OnlyDisconnectedLeaks, ClientOpen
<1>2. BuffersInv(c)' /\ ReplyInv(c)'
  BY NoPipeAssumption DEF ClientInv, ClientTypeOK, BuffersInv, ReplyInv, HasPipe, ClientOpen
<1> QED
  BY <1>1, <1>2, OwnStep DEF ClientInv, ClientTypeOK

(* A call that is over has no handle any more.                             *)
LEMMA ReturnAndCloseStep ==
  ASSUME IInv, ClientInv, NEW c \in Clients, HasPipe(c), NEW r \in {"ok", "failed"},
         r = "ok" => reply[c] = c, ReturnAndClose(c, r)
  PROVE  ClientInv'
<1> USE DEF ReturnAndClose, Return, Goto, ClientLeaves, CloseClientEnd, bufferVars
<1>1. ClientTypeOK' /\ OwnHandle' /\ OneMessage'
  BY NoPipeAssumption
     DEF ClientInv, ClientTypeOK, ClientStep, Result, OwnHandle, OneMessage, HasPipe
<1>2. BuffersInv(c)' /\ ReplyInv(c)'
  BY NoPipeAssumption DEF ClientInv, ClientTypeOK, BuffersInv, ReplyInv, HasPipe
<1>3. OnlyDisconnectedLeaks'
  <2> SUFFICES ASSUME NEW p \in Pipes, ClientOpen(p)', \A d \in Clients : cp'[d] # p
               PROVE  instance'[p] = "gone"
    BY DEF OnlyDisconnectedLeaks
  <2>1. p # cp[c]
    BY DEF ClientOpen, IInv, TypeOK, KernelTypeOK
  <2>2. instance'[p] = instance[p]
    BY <2>1 DEF IInv, TypeOK, KernelTypeOK
  <2>3. \A d \in Clients : cp[d] # p
    BY <2>1 DEF ClientInv, ClientTypeOK
  <2> QED
    BY <2>2, <2>3 DEF ClientInv, OnlyDisconnectedLeaks, ClientOpen
<1> QED
  BY <1>1, <1>2, <1>3, OwnStep
     DEF ClientInv, ClientTypeOK, OwnHandle, HasPipe, IInv, TypeOK, KernelTypeOK

LEMMA WriteStep ==
  ASSUME IInv, ClientInv, NEW c \in Clients, Write(c)
  PROVE  ClientInv'
<1>1. HasPipe(c) /\ cpc[c] = "write"
  BY DEF Write, ClientInv, ClientTypeOK, HasPipe
<1>2. CASE ReturnAndClose(c, "failed")
  BY <1>1, <1>2, ReturnAndCloseStep
<1>3. CASE ~ReturnAndClose(c, "failed")
  <2> USE <1>1, <1>3 DEF Write, Goto, vars, kernelVars
  <2>1. ClientTypeOK' /\ OwnHandle' /\ OneMessage' /\ OnlyDisconnectedLeaks'
    BY DEF ClientInv, ClientTypeOK, ClientStep, OwnHandle, OneMessage, BuffersInv, HasPipe,
       OnlyDisconnectedLeaks, ClientOpen
  <2>2. BuffersInv(c)' /\ ReplyInv(c)'
    BY DEF ClientInv, ClientTypeOK, BuffersInv, ReplyInv, HasPipe, ClientOpen
  <2> QED
    BY <2>1, <2>2, OwnStep DEF ClientInv, ClientTypeOK, OwnHandle, HasPipe
<1> QED
  BY <1>2, <1>3

LEMMA ReadStep ==
  ASSUME IInv, ClientInv, NEW c \in Clients, Read(c)
  PROVE  ClientInv'
<1>1. HasPipe(c) /\ cpc[c] = "read"
  BY DEF Read, ClientInv, ClientTypeOK, HasPipe
<1>2. CASE ReturnAndClose(c, "failed")
  BY <1>1, <1>2, ReturnAndCloseStep
<1>3. CASE ~ReturnAndClose(c, "failed")
  <2> USE <1>1, <1>3 DEF Read, Goto, vars, kernelVars
  <2>1. toClient[cp[c]] = c
    BY DEF ClientInv, BuffersInv
  <2>2. ClientTypeOK' /\ OwnHandle' /\ OneMessage' /\ OnlyDisconnectedLeaks'
    BY DEF ClientInv, ClientTypeOK, ClientStep, OwnHandle, OneMessage, HasPipe,
       OnlyDisconnectedLeaks, ClientOpen
  <2>3. BuffersInv(c)' /\ ReplyInv(c)'
    BY <2>1 DEF ClientInv, ClientTypeOK, BuffersInv, ReplyInv, HasPipe, ClientOpen
  <2> QED
    BY <2>2, <2>3, OwnStep DEF ClientInv, ClientTypeOK, OwnHandle, HasPipe
<1> QED
  BY <1>2, <1>3

(* Whatever a client does next, all clients keep their invariant.          *)
LEMMA ClientStepClientInv ==
  ASSUME IInv, ClientInv, NEW c \in Clients, ClientNext(c)
  PROVE  ClientInv'
<1>1. CASE Close(c)
  <2>1. HasPipe(c) /\ reply[c] = c
    BY <1>1 DEF Close, ClientInv, ClientTypeOK, HasPipe, ReplyInv
  <2> QED
    BY <2>1, <1>1, ReturnAndCloseStep DEF Close
<1>2. CASE Die(c)
  <2>1. HasPipe(c)
    BY <1>2 DEF Die, ClientInv, ClientTypeOK, HasPipe
  <2> QED
    BY <2>1, <1>2, ReturnAndCloseStep DEF Die
<1> QED
  BY <1>1, <1>2, ConnectStep, OpenPipeStep, WaitPipeStep, SetModeStep, WriteStep, ReadStep
     DEF ClientNext, ClientCall

(* Its request is still to be written, or to be read.                      *)
Unserved(c) == HasPipe(c) /\ (cpc[c] \in {"mode", "write"} \/ toServer[cp[c]] = c)

(* A server step makes no client unserved, and serves the one whose        *)
(* request it moves.                                                       *)
LEMMA ServerStepUnserved ==
  ASSUME ClientInv, UNCHANGED clientVars,
         UNCHANGED bufferVars \/ \E p \in Pipes : Moved(p),
         NEW c \in Clients, Unserved(c)'
  PROVE  Unserved(c) /\ ~Moved(cp[c])
<1> USE DEF clientVars, bufferVars
<1>1. HasPipe(c) /\ cp[c] \in Pipes
  BY DEF Unserved, HasPipe
<1>2. ~Moved(cp[c])
  BY <1>1, NoMsgAssumption DEF Moved, Unserved, HasPipe, ClientInv, ClientTypeOK, BuffersInv
<1> QED
  BY <1>1, <1>2, NoMsgAssumption DEF Moved, Unserved, HasPipe, ClientInv, ClientTypeOK

(* A client becomes unserved only on an instance that listened, and so     *)
(* before any session owns it.                                             *)
LEMMA ClientStepUnserved ==
  ASSUME IInv, ClientInv, NEW c \in Clients, ClientNext(c),
         NEW d \in Clients, Unserved(d)', cp'[d] \in owned
  PROVE  Unserved(d) /\ cp'[d] = cp[d]
<1> USE DEF Unserved, HasPipe, Goto, Return
<1>1. CASE Connect(c) \/ WaitPipe(c) \/ SetMode(c)
  BY <1>1, NoPipeAssumption
     DEF Connect, WaitPipe, SetMode, bufferVars, ClientInv, ClientTypeOK
<1>2. CASE OpenPipe(c)
  <2>1. \A p \in owned : instance[p] # "listening"
    BY DEF IInv, TypeOK, PipeInv, Arrived
  <2> QED
    BY <1>2, <2>1 DEF OpenPipe, ClientConnects, CreateFile, bufferVars, ClientInv,
       ClientTypeOK, BuffersInv, ClientOpen
<1>3. ASSUME NEW r, ReturnAndClose(c, r) PROVE Unserved(d) /\ cp'[d] = cp[d]
  BY <1>3, NoPipeAssumption DEF ReturnAndClose, bufferVars, ClientInv, ClientTypeOK
<1>4. CASE Write(c) \/ Read(c) \/ Close(c) \/ Die(c)
  BY <1>3, <1>4, NoPipeAssumption DEF Write, Read, Close, Die, ClientInv, ClientTypeOK,
     OwnHandle
<1> QED
  BY <1>1, <1>2, <1>4 DEF ClientNext, ClientCall

(* A client's step is one of PipeAcceptor, or no step of it.               *)
LEMMA ClientStepNext ==
  ASSUME ClientInv, NEW c \in Clients, ClientNext(c)
  PROVE  [Next]_vars
<1>1. ASSUME NEW r, HasPipe(c), ReturnAndClose(c, r) PROVE Next
  BY <1>1 DEF ReturnAndClose, HasPipe, Next
<1>2. CASE Write(c) \/ Read(c) \/ Close(c) \/ Die(c)
  <2>1. HasPipe(c)
    BY <1>2 DEF Write, Read, Close, Die, ClientInv, ClientTypeOK, HasPipe
  <2> QED
    BY <2>1, <1>1, <1>2 DEF Write, Read, Close, Die
<1>3. CASE Connect(c) \/ WaitPipe(c) \/ SetMode(c)
  BY <1>3 DEF Connect, WaitPipe, SetMode
<1>4. CASE OpenPipe(c)
  BY <1>4 DEF OpenPipe, Next
<1> QED
  BY <1>2, <1>3, <1>4 DEF ClientNext, ClientCall

LEMMA ServerStepNext == ServerStep => Next
BY DEF ServerStep, Next

-----------------------------------------------------------------------------
(* A reply that is still to be read lies in the pipe of a connection.      *)
Unread(p) == instance[p] = "connected" /\ toClient[p] # NoMsg
RepliesOwned == \A p \in Pipes : Unread(p) => p \in owned

(* A server changes an instance that a connection keeps in no way, and     *)
(* connects none.                                                          *)
LEMMA ServerStepInstances ==
  ASSUME IInv, ServerStep, NEW p \in Pipes
  PROVE  /\ instance'[p] = "connected" => instance[p] = "connected"
         /\ p \in owned /\ p \in owned' => instance'[p] = instance[p]
<1>1. ASSUME NEW a \in Acceptors, Start(a) \/ Operation(a) \/ AcceptHandler(a)
      PROVE  instance'[p] = instance[p] \/ (instance[p] = "free" /\ instance'[p] = "listening")
  <2>1. CASE CreateInstance(a)
    BY <2>1 DEF CreateInstance, CreateNamedPipe, IInv, TypeOK, KernelTypeOK
  <2>2. CASE Start(a) \/ ConnectInstance(a) \/ Assign(a) \/ Finish(a) \/ AcceptHandler(a)
    BY <2>2 DEF Start, ConnectInstance, Assign, Finish, AcceptHandler, kernelVars
  <2> QED
    BY <1>1, <2>1, <2>2 DEF Operation
<1>2. ASSUME NEW a \in Acceptors, Destroy(a)
      PROVE  /\ instance'[p] = "connected" => instance[p] = "connected"
             /\ p \in owned => instance'[p] = instance[p]
  <2>1. CASE holder[a] = NoPipe
    BY <2>1, <1>2 DEF Destroy
  <2>2. CASE holder[a] # NoPipe
    <3>1. holder[a] \in Pipes /\ holder[a] \notin owned
      BY <2>2, HeldPipes DEF IInv, TypeOK
    <3> QED
      BY <3>1, <2>2, <1>2 DEF Destroy, CloseServerEnd, IInv, TypeOK, KernelTypeOK
  <2> QED
    BY <2>1, <2>2
<1>3. ASSUME NEW q \in Pipes, NEW end \in {"gone", "shut"}, Drop(q, end)
      PROVE  /\ instance'[p] = "connected" => instance[p] = "connected"
             /\ p \in owned' => instance'[p] = instance[p]
  BY <1>3 DEF Drop, CloseServerEnd, IInv, TypeOK, KernelTypeOK
<1>4. p \in owned => instance[p] # "free"
  BY DEF IInv, PipeInv, Arrived
<1> QED
  BY <1>1, <1>2, <1>3, <1>4 DEF ServerStep

(* A client step touches no owner, disconnects nothing, puts no reply      *)
(* anywhere and opens only an instance that listens.                       *)
LEMMA ClientStepInstances ==
  ASSUME IInv, ClientInv, NEW c \in Clients, ClientNext(c), NEW p \in Pipes
  PROVE  /\ owned' = owned
         /\ instance'[p] = "gone" => instance[p] = "gone"
         /\ instance'[p] = "connected" => instance[p] \in {"connected", "listening"}
         /\ Unread(p)' => Unread(p)
<1>1. CASE UNCHANGED <<vars, toClient>>
  BY <1>1 DEF vars, kernelVars, acceptVars, Unread
<1>2. ASSUME NEW r, HasPipe(c), ReturnAndClose(c, r)
      PROVE  /\ owned' = owned /\ toClient' = toClient
             /\ instance'[p] = instance[p] \/ instance'[p] \in {"closing", "free"}
  BY <1>2 DEF ReturnAndClose, ClientLeaves, CloseClientEnd, HasPipe, bufferVars, acceptVars,
       IInv, TypeOK, KernelTypeOK
<1>3. ASSUME NEW q \in Pipes, ClientConnects(q), toClient' = [toClient EXCEPT ![q] = NoMsg]
      PROVE  /\ owned' = owned
             /\ instance'[p] = "gone" => instance[p] = "gone"
             /\ instance'[p] = "connected" => instance[p] \in {"connected", "listening"}
             /\ Unread(p)' => Unread(p)
  BY <1>3 DEF ClientConnects, CreateFile, acceptVars, Unread, IInv, TypeOK, KernelTypeOK,
       ClientInv, ClientTypeOK
<1>4. ASSUME UNCHANGED vars, toClient' = [toClient EXCEPT ![cp[c]] = NoMsg]
      PROVE  owned' = owned /\ instance' = instance /\ (Unread(p)' => Unread(p))
  BY <1>4 DEF vars, kernelVars, acceptVars, Unread, ClientInv, ClientTypeOK
<1>5. CASE Connect(c) \/ WaitPipe(c) \/ SetMode(c)
  BY <1>5, <1>1 DEF Connect, WaitPipe, SetMode, bufferVars
<1>6. CASE OpenPipe(c)
  BY <1>6, <1>1, <1>3 DEF OpenPipe, bufferVars
<1>7. CASE Write(c) \/ Read(c) \/ Close(c) \/ Die(c)
  <2>1. HasPipe(c)
    BY <1>7 DEF Write, Read, Close, Die, ClientInv, ClientTypeOK, HasPipe
  <2>2. \/ UNCHANGED <<vars, toClient>>
        \/ UNCHANGED vars /\ toClient' = [toClient EXCEPT ![cp[c]] = NoMsg]
        \/ \E r \in {"ok", "failed"} : ReturnAndClose(c, r)
    BY <1>7 DEF Write, Read, Close, Die
  <2> QED
    BY <2>1, <2>2, <1>1, <1>2, <1>4 DEF Unread
<1> QED
  BY <1>5, <1>6, <1>7 DEF ClientNext, ClientCall

(* An operation that waits has an instance of its own, as long as no       *)
(* accept has failed.                                                      *)
LEMMA WaitingHasInstance ==
  ASSUME IInv, Serving, NEW p \in owned, Busy = {}
  PROVE  \E q \in Pipes \ {p} : ServerOpen(q)
<1>1. PICK a \in Acceptors : pc[a] # "dead"
  BY DEF Serving
<1>2. pc[a] = "wait" /\ Waiting(a) /\ ec[a] # "error"
  BY <1>1 DEF Serving, Busy, IInv, TypeOK, Step, AcceptorInv
<1>3. holder[a] \in Pipes
  BY <1>2 DEF Waiting
<1>4. ServerOpen(holder[a]) /\ holder[a] \notin owned
  BY <1>3, HeldPipes
<1> QED
  BY <1>3, <1>4

(* Only the end of a session or of an acceptor closes a server end.        *)
LEMMA ServerEndStays ==
  ASSUME IInv, NEW p \in Pipes, ServerOpen(p),
         \/ UNCHANGED vars
         \/ \E a \in Acceptors : Start(a) \/ Operation(a) \/ AcceptHandler(a)
         \/ \E q \in Pipes : ClientConnects(q) \/ ClientLeaves(q)
         \/ \E q \in Pipes \ {p}, end \in {"gone", "shut"} : Drop(q, end)
  PROVE  ServerOpen(p)'
<1> USE DEF ServerOpen, IInv, TypeOK, KernelTypeOK
<1>1. CASE UNCHANGED instance
  BY <1>1
<1>2. ASSUME NEW a \in Acceptors, CreateInstance(a) PROVE ServerOpen(p)'
  BY <1>2 DEF CreateInstance, CreateNamedPipe
<1>3. CASE \E a \in Acceptors : Start(a) \/ Operation(a) \/ AcceptHandler(a)
  BY <1>1, <1>2, <1>3 DEF Start, Operation, ConnectInstance, Assign, Finish, AcceptHandler,
     kernelVars
<1>4. CASE \E q \in Pipes : ClientConnects(q) \/ ClientLeaves(q)
  BY <1>4 DEF ClientConnects, ClientLeaves, CreateFile, CloseClientEnd, ClientOpen
<1>5. CASE \E q \in Pipes \ {p}, end \in {"gone", "shut"} : Drop(q, end)
  BY <1>5 DEF Drop, CloseServerEnd
<1> QED
  BY <1>1, <1>3, <1>4, <1>5 DEF vars, kernelVars

(* ... and a client's step is not among them.                              *)
LEMMA ClientStepEnds ==
  ASSUME ClientInv, NEW c \in Clients, ClientNext(c)
  PROVE  UNCHANGED vars \/ \E q \in Pipes : ClientConnects(q) \/ ClientLeaves(q)
<1>1. CASE Write(c) \/ Read(c) \/ Close(c) \/ Die(c)
  <2>1. HasPipe(c)
    BY <1>1 DEF Write, Read, Close, Die, ClientInv, ClientTypeOK, HasPipe
  <2> QED
    BY <2>1, <1>1 DEF Write, Read, Close, Die, ReturnAndClose, HasPipe
<1>2. CASE Connect(c) \/ WaitPipe(c) \/ SetMode(c) \/ OpenPipe(c)
  BY <1>2 DEF Connect, WaitPipe, SetMode, OpenPipe
<1> QED
  BY <1>1, <1>2 DEF ClientNext, ClientCall
=============================================================================
