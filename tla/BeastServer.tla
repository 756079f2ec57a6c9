----------------------------- MODULE BeastServer ----------------------------
(***************************************************************************)
(* The http server of examples/http/beast_server.cpp over a named pipe:    *)
(* one thread runs the accept loop and, for each connection, one read, one *)
(* write and a deadline of 60 seconds.  A connection that ends with its    *)
(* pipe open flushes it in ~server_named_pipe, on that thread.             *)
(***************************************************************************)
EXTENDS PipeClients

(* main has one acceptor, and its loop is that of echoserver.hpp.          *)
ASSUME MainAssumption == \A a, b \in Acceptors : a = b /\ Kind[a] = "ref"

VARIABLES
  pending,  \* [Pipes -> PendingOp]: what the connection of a pipe waits for
  timer,    \* [Pipes -> TimerState]: the wait on its deadline_
  flushing  \* the pipe whose destructor holds the thread, or NoPipe

connectionVars == <<pending, timer, flushing>>
beastVars == <<vars, bufferVars, clientVars, connectionVars>>

PendingOp == {"none", "read", "write"}

(* none      no handler of the wait is left                                *)
(* armed     the deadline lies ahead                                       *)
(* expired   the handler is queued with success                            *)
(* canceled  the handler is queued with operation_aborted                  *)
TimerState == {"none", "armed", "expired", "canceled"}

BeastTypeOK ==
  /\ ClientTypeOK
  /\ pending \in [Pipes -> PendingOp]
  /\ timer \in [Pipes -> TimerState]
  /\ flushing \in Pipes \cup {NoPipe}

BeastInit ==
  /\ Init
  /\ ClientInit
  /\ pending = [p \in Pipes |-> "none"]
  /\ timer = [p \in Pipes |-> "none"]
  /\ flushing = NoPipe

Pend(p, operation) == pending' = [pending EXCEPT ![p] = operation]
SetTimer(p, state) == timer' = [timer EXCEPT ![p] = state]

-----------------------------------------------------------------------------
(* The thread and the accept loop.                                         *)

(* Mutant: another thread runs handlers during an operation.               *)
ThreadIsFree_TwoThreads == flushing = NoPipe

ThreadIsFree == Busy = {} /\ flushing = NoPipe

(* main: http_server(acceptor, socket) and then ioc.run().                 *)
Main(a) == Start(a) /\ UNCHANGED <<bufferVars, clientVars, connectionVars>>

Operate(a) == Operation(a) /\ UNCHANGED <<bufferVars, clientVars, connectionVars>>

(* make_shared<http_connection>(std::move(socket))->start(): read_request  *)
(* and check_deadline; then the next accept.                               *)
Accept(a) ==
  /\ ThreadIsFree
  /\ AcceptHandler(a)
  /\ pending' = [p \in Pipes |-> IF p \in owned' \ owned THEN "read" ELSE pending[p]]
  /\ timer' = [p \in Pipes |-> IF p \in owned' \ owned THEN "armed" ELSE timer[p]]
  /\ UNCHANGED <<bufferVars, clientVars, flushing>>

-----------------------------------------------------------------------------
(* A connection.                                                           *)

(* Mutant: the request and the response are shared by the connections.     *)
ReadHandler_SharedRequest(p) ==
  /\ ThreadIsFree
  /\ pending[p] = "read" /\ instance[p] = "connected" /\ toServer[p] # NoMsg
  /\ \E q \in Pipes :
       /\ toServer[q] # NoMsg
       /\ toClient' = [toClient EXCEPT ![p] = toServer[q]]
  /\ toServer' = [toServer EXCEPT ![p] = NoMsg]
  /\ Pend(p, "write")
  /\ UNCHANGED <<vars, clientVars, timer, flushing>>

(* Mutant: the deadline is cancelled as soon as the request is there.      *)
ReadHandler_CancelsDeadline(p) ==
  /\ ThreadIsFree
  /\ pending[p] = "read" /\ toServer[p] \in Clients \ Long
  /\ toServer' = [toServer EXCEPT ![p] = NoMsg]
  /\ IF instance[p] = "connected"
       THEN toClient' = [toClient EXCEPT ![p] = toServer[p]]
       ELSE UNCHANGED toClient
  /\ Pend(p, "write")
  /\ SetTimer(p, IF timer[p] = "armed" THEN "canceled" ELSE timer[p])
  /\ UNCHANGED <<vars, clientVars, flushing>>

(* The handler of async_read.  A whole request is processed and answered,  *)
(* if the client is there to be written to.  After an error, the end of    *)
(* the pipe or a request longer than one read, only the timer still keeps  *)
(* the connection.  The write completes at once: a reply is taken to fit   *)
(* the pipe's quota (bufsize, named_pipe_server_details.hpp:26).           *)
ReadHandler(p) ==
  /\ ThreadIsFree
  /\ pending[p] = "read"
  /\ \/ /\ toServer[p] \in Clients \ Long
        /\ toServer' = [toServer EXCEPT ![p] = NoMsg]
        /\ IF instance[p] = "connected"
             THEN toClient' = [toClient EXCEPT ![p] = toServer[p]]
             ELSE UNCHANGED toClient
        /\ Pend(p, "write")
     \/ /\ toServer[p] \in Long \/ (toServer[p] = NoMsg /\ instance[p] = "closing")
        /\ Pend(p, "none")
        /\ UNCHANGED bufferVars
  /\ UNCHANGED <<vars, clientVars, timer, flushing>>

(* The handler of async_write, whatever the result: deadline_.cancel(),    *)
(* which comes too late for a wait that has expired.                       *)
WriteHandler(p) ==
  /\ ThreadIsFree
  /\ pending[p] = "write"
  /\ Pend(p, "none")
  /\ SetTimer(p, IF timer[p] = "armed" THEN "canceled" ELSE timer[p])
  /\ UNCHANGED <<vars, bufferVars, clientVars, flushing>>

(* Sixty seconds have passed.                                              *)
Expire(p) ==
  /\ timer[p] = "armed"
  /\ SetTimer(p, "expired")
  /\ UNCHANGED <<vars, bufferVars, clientVars, pending, flushing>>

(* Mutant: the pipe is disconnected without a flush.                       *)
DeadlineHandler_NoFlush(p) ==
  /\ ThreadIsFree
  /\ timer[p] \in {"expired", "canceled"}
  /\ SetTimer(p, "none")
  /\ Pend(p, "none")
  /\ Drop(p, IF timer[p] = "expired" THEN "shut" ELSE "gone")
  /\ UNCHANGED <<bufferVars, clientVars, flushing>>

(* Mutant: the deadline passes and the socket stays open.                  *)
DeadlineHandler_KeepsSocket(p) ==
  /\ ThreadIsFree
  /\ \/ /\ timer[p] = "expired"
        /\ SetTimer(p, "none")
        /\ UNCHANGED <<vars, pending, flushing>>
     \/ /\ timer[p] = "canceled"
        /\ SetTimer(p, "none")
        /\ flushing' = p
        /\ UNCHANGED <<vars, pending>>
  /\ UNCHANGED <<bufferVars, clientVars>>

(* Mutant: the deadline destroys the connection's pipe instead of closing  *)
(* it: a disconnect.                                                       *)
DeadlineHandler_Disconnects(p) ==
  /\ ThreadIsFree
  /\ SetTimer(p, "none")
  /\ \/ /\ timer[p] = "expired"
        /\ Drop(p, "gone")
        /\ Pend(p, "none")
        /\ UNCHANGED flushing
     \/ /\ timer[p] = "canceled"
        /\ flushing' = p
        /\ UNCHANGED <<vars, pending>>
  /\ UNCHANGED <<bufferVars, clientVars>>

(* The handler of the wait.  At the deadline it closes the socket, without *)
(* a disconnect; the handler of the operation this aborts, or of one that  *)
(* had just completed, finds nothing left to do.  A cancelled wait was the *)
(* last to hold the connection, whose destructor begins to flush the pipe. *)
DeadlineHandler(p) ==
  /\ ThreadIsFree
  /\ SetTimer(p, "none")
  /\ \/ /\ timer[p] = "expired"
        /\ Drop(p, "shut")
        /\ Pend(p, "none")
        /\ UNCHANGED flushing
     \/ /\ timer[p] = "canceled"
        /\ flushing' = p
        /\ UNCHANGED <<vars, pending>>
  /\ UNCHANGED <<bufferVars, clientVars>>

(* ~server_named_pipe: FlushFileBuffers returns when the client has read   *)
(* everything or has left; then cancel, DisconnectNamedPipe and the close. *)
Flushed(p) ==
  /\ flushing = p
  /\ toClient[p] = NoMsg \/ instance[p] = "closing"
  /\ Drop(p, "gone")
  /\ flushing' = NoPipe
  /\ UNCHANGED <<bufferVars, clientVars, pending, timer>>

-----------------------------------------------------------------------------
BeastNext ==
  \/ \E a \in Acceptors : Main(a) \/ Operate(a) \/ Accept(a)
  \/ \E p \in Pipes :
       ReadHandler(p) \/ WriteHandler(p) \/ Expire(p) \/ DeadlineHandler(p) \/ Flushed(p)
  \/ \E c \in Clients : ClientNext(c) /\ UNCHANGED connectionVars

(* main starts the loop; the thread runs what it is in, and the port hands *)
(* out handlers in order; time passes.  A client goes on with its call,    *)
(* but nobody promises that it ever reads its reply.                       *)
BeastFairness ==
  /\ \A a \in Acceptors : WF_beastVars(Main(a) \/ Operate(a)) /\ SF_beastVars(Accept(a))
  /\ \A p \in Pipes :
       /\ SF_beastVars(ReadHandler(p) \/ WriteHandler(p) \/ DeadlineHandler(p))
       /\ WF_beastVars(Expire(p) \/ Flushed(p))
  /\ \A c \in Clients :
       WF_beastVars(cpc[c] # "read" /\ ClientCall(c) /\ UNCHANGED connectionVars)

BeastSpec == BeastInit /\ [][BeastNext]_beastVars
FairBeastSpec == BeastSpec /\ BeastFairness

-----------------------------------------------------------------------------
(* Properties.                                                             *)

(* A pipe that was accepted is kept by its connection, and the connection  *)
(* by a handler: while it reads or writes a deadline guards it, and when   *)
(* nothing is pending the timer or the destructor still holds the pipe.    *)
DeadlineGuardsConnection ==
  \A p \in Pipes :
    /\ p \in owned <=> timer[p] # "none" \/ flushing = p
    /\ pending[p] # "none" => timer[p] \in {"armed", "expired"}

(* A client that waits has not been forgotten: its request is still in the *)
(* pipe, and its connection has its deadline before it, or the pipe is on  *)
(* its way to a connection.  In particular no flush begins before the      *)
(* reply is written.                                                       *)
UnansweredHasDeadline ==
  \A c \in Clients : Unanswered(c) =>
    /\ toServer[cp[c]] = c
    /\ timer[cp[c]] \in {"armed", "expired"} \/ OnItsWay(cp[c])

(* "The timer for putting a deadline on connection processing."            *)
(* (beast_server.cpp:85): every connection ends, even if its client does   *)
(* nothing.                                                                *)
DeadlineHolds == \A p \in Pipes : p \in owned ~> p \notin owned

(* Only a flush that never returns defeats the deadline: as long as the    *)
(* thread always comes back, every connection ends although its client     *)
(* may neither write, nor read, nor leave.                                 *)
DeadlineHoldsUnlessFlushing == []<>(flushing = NoPipe) => DeadlineHolds

(* ... and every client that wrote a request finds a reply in its pipe, or *)
(* the pipe closed, unless its accept lost the completion.                 *)
Served(c) ==
  cpc[c] = "read" => toClient[cp[c]] # NoMsg \/ instance[cp[c]] # "connected"
ServedUnlessFlushing ==
  []<>(flushing = NoPipe) /\ [](\A a \in Acceptors : ~MissedCompletion(a)) =>
    \A c \in Clients : []<>Served(c)
=============================================================================
