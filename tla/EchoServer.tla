----------------------------- MODULE EchoServer -----------------------------
(***************************************************************************)
(* The echo programs of examples/ and tests/ around the accept path: the   *)
(* sessions, the threads that run the io_context and the shutdown of the   *)
(* server, with the clients of PipeClients.tla.  Every step is a step of   *)
(* PipeAcceptor or leaves its variables alone.                             *)
(***************************************************************************)
EXTENDS PipeClients, FiniteSets

CONSTANT NThreads   \* threads inside io_context.run()

ASSUME NThreadsAssumption == NThreads \in Nat \ {0}

VARIABLES
  stopped,   \* the io_context is stopped, or no server runs
  session    \* [Pipes -> SessionState]: what the session of a pipe waits for

sessionVars == <<stopped, session>>
echoVars == <<vars, bufferVars, clientVars, sessionVars>>

SessionState == {"none", "reading", "writing", "writefail"}

EchoTypeOK ==
  /\ ClientTypeOK
  /\ stopped \in BOOLEAN
  /\ session \in [Pipes -> SessionState]

EchoInit ==
  /\ Init
  /\ ClientInit
  /\ stopped = TRUE
  /\ session = [p \in Pipes |-> "none"]

-----------------------------------------------------------------------------
(* Threads and the life of the server.                                     *)

(* A thread is free, or all are inside an operation.                       *)
HasThread == ~stopped /\ Cardinality(Busy) < NThreads

(* The program runs one of the servers, once the last is gone.  It may run *)
(* another in the same process, as named_pipe_test.cpp does: what leaked   *)
(* stays open.                                                             *)
Boot(a) ==
  /\ stopped
  /\ owned = {} /\ \A b \in Acceptors : pc[b] = "dead"
  /\ Start(a)
  /\ stopped' = FALSE
  /\ UNCHANGED <<session, bufferVars, clientVars>>

(* io_context.stop(), and join() on the threads: no handler is half run.   *)
Stop ==
  /\ ~stopped
  /\ Busy = {}
  /\ stopped' = TRUE
  /\ UNCHANGED <<vars, session, bufferVars, clientVars>>

(* The server object goes before the io_context, whose destructor then     *)
(* closes the pipes of the sessions without disconnecting them.            *)
DestroyServer(a) ==
  /\ stopped
  /\ Destroy(a)
  /\ UNCHANGED <<sessionVars, bufferVars, clientVars>>

DestroySession(p) ==
  /\ stopped
  /\ \A a \in Acceptors : pc[a] = "dead"
  /\ Drop(p, "shut")
  /\ session' = [session EXCEPT ![p] = "none"]
  /\ UNCHANGED <<stopped, bufferVars, clientVars>>

Operate(a) ==
  /\ Operation(a)
  /\ UNCHANGED <<sessionVars, bufferVars, clientVars>>

(* make_shared<session>(std::move(pipe))->start() reads, then do_accept(). *)
Accept(a) ==
  /\ HasThread
  /\ AcceptHandler(a)
  /\ session' = [p \in Pipes |-> IF p \in owned' \ owned THEN "reading" ELSE session[p]]
  /\ UNCHANGED <<stopped, bufferVars, clientVars>>

-----------------------------------------------------------------------------
(* Sessions.  A handler that starts nothing lets the last shared_ptr to    *)
(* its session go, whose pipe then flushes, cancels and disconnects.  The  *)
(* flush never has to wait here, by NoReplyDiscarded.                      *)

(* Mutant: the handler closes the pipe and the session stays.              *)
EndSession_ClosesOnly(p) ==
  /\ p \in owned
  /\ CloseServerEnd(p, "gone")
  /\ session' = [session EXCEPT ![p] = "none"]
  /\ UNCHANGED <<packets, acceptVars, bufferVars>>

EndSession(p) ==
  /\ Drop(p, "gone")
  /\ session' = [session EXCEPT ![p] = "none"]
  /\ UNCHANGED bufferVars

(* Mutant: one data_ for all sessions, overwritten by another read.        *)
ReadHandler_SharedBuffer(p) ==
  /\ HasThread
  /\ session[p] = "reading" /\ instance[p] = "connected" /\ toServer[p] # NoMsg
  /\ \E q \in Pipes :
       /\ toServer[q] # NoMsg
       /\ toClient' = [toClient EXCEPT ![p] = toServer[q]]
  /\ toServer' = [toServer EXCEPT ![p] = NoMsg]
  /\ session' = [session EXCEPT ![p] = "writing"]
  /\ UNCHANGED <<vars, stopped, clientVars>>

(* Mutant: the read handler reads again where it should write.             *)
ReadHandler_ReadsAgain(p) ==
  /\ HasThread
  /\ session[p] = "reading"
  /\ \/ /\ toServer[p] # NoMsg
        /\ toServer' = [toServer EXCEPT ![p] = NoMsg]
        /\ UNCHANGED <<vars, session, toClient>>
     \/ /\ toServer[p] = NoMsg /\ instance[p] = "closing"
        /\ EndSession(p)
  /\ UNCHANGED <<stopped, clientVars>>

(* A read returns what the client wrote even if it has left; a request     *)
(* longer than the buffer is an error (ERROR_MORE_DATA), and so is the end *)
(* of the pipe.  The echo is written if the client is there.               *)
ReadHandler(p) ==
  /\ HasThread
  /\ session[p] = "reading"
  /\ \/ /\ toServer[p] \in Clients \ Long
        /\ toServer' = [toServer EXCEPT ![p] = NoMsg]
        /\ \/ /\ instance[p] = "connected"
              /\ toClient' = [toClient EXCEPT ![p] = toServer[p]]
              /\ session' = [session EXCEPT ![p] = "writing"]
           \/ /\ instance[p] = "closing"
              /\ session' = [session EXCEPT ![p] = "writefail"]
              /\ UNCHANGED toClient
        /\ UNCHANGED vars
     \/ /\ toServer[p] \in Long \/ (toServer[p] = NoMsg /\ instance[p] = "closing")
        /\ EndSession(p)
  /\ UNCHANGED <<stopped, clientVars>>

(* Mutant: after a failed write the pipe is not destroyed.                 *)
WriteHandler_KeepsPipe(p) ==
  /\ HasThread
  /\ session[p] \in {"writing", "writefail"}
  /\ session' = [session EXCEPT ![p] = IF @ = "writing" THEN "reading" ELSE "none"]
  /\ UNCHANGED <<vars, bufferVars, stopped, clientVars>>

(* Mutant: the session ends after one echo, and nothing is flushed.        *)
WriteHandler_OneEcho(p) ==
  /\ HasThread
  /\ session[p] \in {"writing", "writefail"}
  /\ EndSession(p)
  /\ UNCHANGED <<stopped, clientVars>>

WriteHandler(p) ==
  /\ HasThread
  /\ \/ /\ session[p] = "writing"
        /\ session' = [session EXCEPT ![p] = "reading"]
        /\ UNCHANGED <<vars, bufferVars>>
     \/ /\ session[p] = "writefail"
        /\ EndSession(p)
  /\ UNCHANGED <<stopped, clientVars>>

-----------------------------------------------------------------------------
EchoNext ==
  \/ Stop
  \/ \E a \in Acceptors : Boot(a) \/ DestroyServer(a) \/ Operate(a) \/ Accept(a)
  \/ \E p \in Pipes : DestroySession(p) \/ ReadHandler(p) \/ WriteHandler(p)
  \/ \E c \in Clients : ClientNext(c) /\ UNCHANGED sessionVars

(* The completion port hands packets out in order, so no handler that is   *)
(* ready infinitely often waits for ever; a thread finishes the operation  *)
(* it runs, main finishes the shutdown it began, and a client its call.    *)
(* Nobody promises to stop or boot the server, to call it or to die.       *)
EchoFairness ==
  /\ \A a \in Acceptors :
       /\ WF_echoVars(Operate(a) \/ DestroyServer(a))
       /\ SF_echoVars(Accept(a))
  /\ \A p \in Pipes : SF_echoVars(ReadHandler(p) \/ WriteHandler(p) \/ DestroySession(p))
  /\ \A c \in Clients : WF_echoVars(ClientCall(c) /\ UNCHANGED sessionVars)

EchoSpec == EchoInit /\ [][EchoNext]_echoVars
FairEchoSpec == EchoSpec /\ EchoFairness

-----------------------------------------------------------------------------
(* Properties.                                                             *)

(* A session is under way exactly while its pipe is owned: no pipe that    *)
(* left the accept loop is without an operation of its session, and no     *)
(* operation goes on after the pipe was destroyed.  The memory of the      *)
(* session object and of its buffer is not modelled.                       *)
SessionOwnsPipe == \A p \in Pipes : session[p] # "none" <=> p \in owned

(* A client that waits has not been forgotten: its request is still to be  *)
(* read, and a session reads, or the pipe is on its way to one.  No        *)
(* session reads a request and then neither writes nor ends.               *)
UnansweredIsRead ==
  \A c \in Clients : Unanswered(c) =>
    /\ toServer[cp[c]] = c
    /\ session[cp[c]] = "reading" \/ OnItsWay(cp[c])

(* A request that was written is answered, or its call fails, in every     *)
(* behaviour in which no accept loses its completion: sessions, shutdown   *)
(* and the deaths of other clients never leave a client in its read.       *)
AnsweredUnlessMissed ==
  [](\A a \in Acceptors : ~MissedCompletion(a)) =>
    \A c \in Clients : cpc[c] = "read" ~> cpc[c] # "read"
=============================================================================
