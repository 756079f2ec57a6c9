---------------------------- MODULE PipeAcceptor ----------------------------
(***************************************************************************)
(* The accept path of winext: named_pipe_acceptor::async_accept, the two   *)
(* composed operations async_accept_op and async_move_accept_op with       *)
(* accept_detail2, and the accept loop that the servers of examples/ run   *)
(* around them.  Clients only open and close instances here, and a session *)
(* only owns its pipe until it destroys it; EchoServer.tla gives both      *)
(* their code.                                                             *)
(***************************************************************************)
EXTENDS Win32Pipe, Naturals

CONSTANTS
  NoPipe,  \* INVALID_HANDLE_VALUE / a closed server_named_pipe
  Kind     \* [Ops -> Kinds]: the accept loop that runs each operation

Kinds == {"ref", "move", "coro"}  \* echoserver.hpp, echoserver_movable.hpp, echoserver_coro.cpp

ASSUME NoPipeAssumption == NoPipe \notin Pipes
ASSUME KindAssumption == Kind \in [Ops -> Kinds]

(* One accept operation is outstanding per acceptor: an acceptor is its Op. *)
Acceptors == Ops

VARIABLES
  pc,      \* [Acceptors -> Step]: where the accept loop is
  hPipe,   \* [Acceptors -> Pipes \cup {NoPipe}]: local HANDLE of operator()
  ec,      \* [Acceptors -> Ec]: what accept_detail2 left in ec
  holder,  \* [Acceptors -> Pipes \cup {NoPipe}]: handle assigned to *pipe_
  owned    \* pipes that were moved to a session

acceptVars == <<pc, hPipe, ec, holder, owned>>
vars == <<kernelVars, acceptVars>>

Step == {"dead", "create", "connect", "assign", "finish", "wait", "threw"}
Ec == {"none", "connected", "error"}

TypeOK ==
  /\ KernelTypeOK
  /\ pc \in [Acceptors -> Step]
  /\ hPipe \in [Acceptors -> Pipes \cup {NoPipe}]
  /\ ec \in [Acceptors -> Ec]
  /\ holder \in [Acceptors -> Pipes \cup {NoPipe}]
  /\ owned \in SUBSET Pipes

Init ==
  /\ KernelInit
  /\ pc = [a \in Acceptors |-> "dead"]
  /\ hPipe = [a \in Acceptors |-> NoPipe]
  /\ ec = [a \in Acceptors |-> "none"]
  /\ holder = [a \in Acceptors |-> NoPipe]
  /\ owned = {}

-----------------------------------------------------------------------------
(* The operation.                                                          *)

(* The server's constructor calls do_accept.                               *)
Start(a) ==
  /\ pc[a] = "dead"
  /\ pc' = [pc EXCEPT ![a] = "create"]
  /\ UNCHANGED <<kernelVars, hPipe, ec, holder, owned>>

(* accept_detail2 up to the check of CreateNamedPipe, which fails when the *)
(* pool of instances is used up.                                           *)
CreateInstance(a) ==
  /\ pc[a] = "create"
  /\ \/ \E p \in Pipes :
          /\ CreateNamedPipe(p)
          /\ hPipe' = [hPipe EXCEPT ![a] = p]
          /\ pc' = [pc EXCEPT ![a] = "connect"]
          /\ UNCHANGED ec
     \/ /\ \A p \in Pipes : instance[p] # "free"
        /\ ec' = [ec EXCEPT ![a] = "error"]
        /\ pc' = [pc EXCEPT ![a] = "finish"]
        /\ UNCHANGED <<instance, hPipe>>
  /\ UNCHANGED <<listener, associated, packets, holder, owned>>

(* The rest of accept_detail2.  ERROR_IO_PENDING leaves ec alone,          *)
(* ERROR_PIPE_CONNECTED and ERROR_NO_DATA (the client left already) go     *)
(* into ec; only the first two are let through to pipe_->assign.           *)
ConnectInstance(a) ==
  /\ pc[a] = "connect"
  /\ \/ /\ instance[hPipe[a]] = "listening"
        /\ listener' = [listener EXCEPT ![hPipe[a]] = a]
        /\ pc' = [pc EXCEPT ![a] = "assign"]
        /\ UNCHANGED ec
     \/ /\ instance[hPipe[a]] = "connected"
        /\ ec' = [ec EXCEPT ![a] = "connected"]
        /\ pc' = [pc EXCEPT ![a] = "assign"]
        /\ UNCHANGED listener
     \/ /\ instance[hPipe[a]] = "closing"
        /\ ec' = [ec EXCEPT ![a] = "error"]
        /\ pc' = [pc EXCEPT ![a] = "finish"]
        /\ UNCHANGED listener
  /\ UNCHANGED <<instance, associated, packets, hPipe, holder, owned>>

(* pipe_->assign(hPipe) registers the handle with the completion port, and *)
(* throws if the pipe is open already.                                     *)
Assign(a) ==
  /\ pc[a] = "assign"
  /\ IF holder[a] = NoPipe
       THEN /\ holder' = [holder EXCEPT ![a] = hPipe[a]]
            /\ associated' = associated \cup {hPipe[a]}
            /\ pc' = [pc EXCEPT ![a] = "finish"]
       ELSE /\ pc' = [pc EXCEPT ![a] = "threw"]
            /\ UNCHANGED <<holder, associated>>
  /\ UNCHANGED <<instance, listener, packets, hPipe, ec, owned>>

(* Mutant: a pending connect is completed at once, not released.           *)
Finish_CompletesPending(a) ==
  /\ pc[a] = "finish"
  /\ IF ec[a] = "error" THEN Post(a, "error") ELSE Post(a, "ok")
  /\ pc' = [pc EXCEPT ![a] = "wait"]
  /\ hPipe' = [hPipe EXCEPT ![a] = NoPipe]
  /\ UNCHANGED <<instance, listener, associated, ec, holder, owned>>

(* Mutant: ERROR_PIPE_CONNECTED is treated like ERROR_IO_PENDING.          *)
Finish_ReleasesConnected(a) ==
  /\ pc[a] = "finish"
  /\ IF ec[a] = "error" THEN Post(a, "error") ELSE UNCHANGED packets
  /\ pc' = [pc EXCEPT ![a] = "wait"]
  /\ hPipe' = [hPipe EXCEPT ![a] = NoPipe]
  /\ UNCHANGED <<instance, listener, associated, ec, holder, owned>>

(* optr.release() or optr.complete(...); hPipe goes out of scope.          *)
Finish(a) ==
  /\ pc[a] = "finish"
  /\ \/ ec[a] = "none" /\ UNCHANGED packets
     \/ ec[a] = "connected" /\ Post(a, "ok")
     \/ ec[a] = "error" /\ Post(a, "error")
  /\ pc' = [pc EXCEPT ![a] = "wait"]
  /\ hPipe' = [hPipe EXCEPT ![a] = NoPipe]
  /\ UNCHANGED <<instance, listener, associated, ec, holder, owned>>

(* Mutant: the handler does not look at ec.                                *)
AcceptHandler_IgnoresError(a) ==
  /\ pc[a] = "wait"
  /\ packets[a] # << >>
  /\ packets' = [packets EXCEPT ![a] = Tail(@)]
  /\ ec' = [ec EXCEPT ![a] = "none"]
  /\ owned' = owned \cup {holder[a]}
  /\ holder' = [holder EXCEPT ![a] = NoPipe]
  /\ pc' = [pc EXCEPT ![a] = "create"]
  /\ UNCHANGED <<instance, listener, associated, hPipe>>

(* Mutant: the pipe object keeps its handle when it is moved from.         *)
AcceptHandler_Copies(a) ==
  /\ pc[a] = "wait"
  /\ packets[a] # << >>
  /\ packets' = [packets EXCEPT ![a] = Tail(@)]
  /\ ec' = [ec EXCEPT ![a] = "none"]
  /\ owned' = IF Head(packets[a]) = "ok" THEN owned \cup {holder[a]} ELSE owned
  /\ pc' = [pc EXCEPT ![a] = "create"]
  /\ UNCHANGED <<instance, listener, associated, hPipe, holder>>

(* The completion handler.  A packet that is dequeued before the operation *)
(* was released waits for release(), so the handler needs pc "wait".       *)
(* With success the pipe moves to a session and the loop accepts again;    *)
(* with an error the callback loops accept again and the coroutine leaves  *)
(* its loop by the exception.  The next operation starts with ec = {}.     *)
AcceptHandler(a) ==
  /\ pc[a] = "wait"
  /\ packets[a] # << >>
  /\ packets' = [packets EXCEPT ![a] = Tail(@)]
  /\ ec' = [ec EXCEPT ![a] = "none"]
  /\ \/ /\ Head(packets[a]) = "ok"
        /\ owned' = owned \cup {holder[a]}
        /\ holder' = [holder EXCEPT ![a] = NoPipe]
        /\ pc' = [pc EXCEPT ![a] = "create"]
     \/ /\ Head(packets[a]) = "error"
        /\ pc' = [pc EXCEPT ![a] = IF Kind[a] = "coro" THEN "dead" ELSE "create"]
        /\ UNCHANGED <<holder, owned>>
  /\ UNCHANGED <<instance, listener, associated, hPipe>>

-----------------------------------------------------------------------------
(* The session's end, the acceptor's end, and the clients.                 *)

(* The session destroys its pipe: ~server_named_pipe disconnects it, the   *)
(* shutdown of the io_context only closes it.                              *)
Drop(p, end) ==
  /\ p \in owned
  /\ owned' = owned \ {p}
  /\ CloseServerEnd(p, end)
  /\ UNCHANGED <<packets, pc, hPipe, ec, holder>>

(* Mutant: the destructor leaves the handle open.                          *)
Destroy_Leaks(a) ==
  /\ pc[a] = "wait"
  /\ packets' = [packets EXCEPT ![a] = << >>]
  /\ holder' = [holder EXCEPT ![a] = NoPipe]
  /\ ec' = [ec EXCEPT ![a] = "none"]
  /\ pc' = [pc EXCEPT ![a] = "dead"]
  /\ UNCHANGED <<instance, listener, associated, hPipe, owned>>

(* The acceptor is destroyed while its operation is outstanding, after the *)
(* io_context was stopped.  A server object runs ~server_named_pipe, which *)
(* disconnects; the coroutine's frame dies inside ~io_context, which has   *)
(* closed the handle by then.  Queued completions die with the io_context. *)
Destroy(a) ==
  /\ pc[a] = "wait"
  /\ IF holder[a] = NoPipe
       THEN UNCHANGED <<instance, listener, associated>>
       ELSE CloseServerEnd(holder[a], IF Kind[a] = "coro" THEN "shut" ELSE "gone")
  /\ packets' = [packets EXCEPT ![a] = << >>]
  /\ holder' = [holder EXCEPT ![a] = NoPipe]
  /\ ec' = [ec EXCEPT ![a] = "none"]
  /\ pc' = [pc EXCEPT ![a] = "dead"]
  /\ UNCHANGED <<hPipe, owned>>

ClientConnects(p) == CreateFile(p) /\ UNCHANGED acceptVars
ClientLeaves(p) == CloseClientEnd(p) /\ UNCHANGED acceptVars

Operation(a) ==
  \/ CreateInstance(a)
  \/ ConnectInstance(a)
  \/ Assign(a)
  \/ Finish(a)

(* The acceptors whose operation runs on a thread: the handler that begins *)
(* the next operation runs operator() to its end before the thread returns *)
(* to the io_context.                                                      *)
Busy == {a \in Acceptors : pc[a] \in {"create", "connect", "assign", "finish"}}

Next ==
  \/ \E a \in Acceptors : Start(a) \/ Operation(a) \/ AcceptHandler(a) \/ Destroy(a)
  \/ \E p \in Pipes :
       \/ \E end \in {"gone", "shut"} : Drop(p, end)
       \/ ClientConnects(p)
       \/ ClientLeaves(p)

(* Threads inside run() execute a started operation to its end and handle  *)
(* every packet; a destroyed server, a leaving client or a new client are  *)
(* never promised.                                                         *)
Fairness ==
  \A a \in Acceptors : WF_vars(Operation(a)) /\ WF_vars(AcceptHandler(a))

Spec == Init /\ [][Next]_vars
FairSpec == Spec /\ Fairness

-----------------------------------------------------------------------------
(* Properties.                                                             *)

(* The operations whose locals or pipe object hold handle p.               *)
Holders(p) == {a \in Acceptors : p \in {hPipe[a], holder[a]}}

(* A handle has one owner: two accept operations never hold the same       *)
(* instance and a pipe that was moved to a session is not also left in the *)
(* pipe object it was moved from, so no handle is closed or accepted twice *)
(* (the move of the pipe object, the move constructor of server_named_pipe). *)
SoleOwner ==
  \A p \in Pipes :
    /\ \A a, b \in Holders(p) : a = b
    /\ p \in owned => Holders(p) = {}

(* Success is only ever reported for an instance that a client opened and  *)
(* the server still holds: on the IOCP path, and on the                    *)
(* ERROR_PIPE_CONNECTED path that completes without the IOCP.              *)
AcceptedWasConnected ==
  /\ \A p \in owned : instance[p] \in {"connected", "closing"}
  /\ \A a \in Acceptors : \A i \in DOMAIN packets[a] :
       packets[a][i] = "ok" =>
         /\ holder[a] \in Pipes
         /\ instance[holder[a]] \in {"connected", "closing"}

(* An operation completes at most once, by the kernel or by                *)
(* overlapped_ptr::complete but never by both, and no completion outlives  *)
(* its operation: otherwise the port dequeues an OVERLAPPED that is freed. *)
CompletesOnce ==
  \A a \in Acceptors :
    /\ Len(packets[a]) <= 1
    /\ packets[a] # << >> => pc[a] \in {"finish", "wait"}
    /\ packets[a] # << >> /\ pc[a] = "finish" => ec[a] = "none"

(* Whenever an operation is between its start and assign, the pipe object  *)
(* it accepts into is closed, whatever the operation before it ended with, *)
(* so that assign finds it closed and does not throw.                      *)
PipeFreeForNextAccept ==
  \A a \in Acceptors :
    pc[a] \in {"create", "connect", "assign", "threw"} => holder[a] = NoPipe

(* The server ends that nobody will ever close again are exactly those     *)
(* whose client left between CreateNamedPipe and ConnectNamedPipe: every   *)
(* other path of the operation and every destructor closes its handle.     *)
Leaked(p) == ServerOpen(p) /\ p \notin owned /\ Holders(p) = {}
OnlyNoDataLeaks ==
  \A p \in Pipes : Leaked(p) => instance[p] = "closing" /\ p \notin associated

(* "caller is responsible to free the handles"                             *)
(* (named_pipe_server_details.hpp:17): no server end is left that neither  *)
(* an operation nor a session holds.                                       *)
NoHandleLeak == \A p \in Pipes : ~Leaked(p)

(* The client came between ConnectNamedPipe and assign: the connect        *)
(* completed before the handle was registered and no packet was queued.    *)
MissedCompletion(a) ==
  /\ pc[a] = "wait" /\ ec[a] = "none" /\ packets[a] = << >>
  /\ instance[holder[a]] # "listening"

(* A client that is connected and not yet with a session is on its way     *)
(* there: the operation has yet to see it, or has a completion to post or  *)
(* posted; or the completion was lost, or will be, since the operation     *)
(* releases what it believes is pending.                                   *)
Announced(a) ==
  \/ pc[a] = "connect" \/ packets[a] = << "ok" >>
  \/ pc[a] \in {"assign", "finish"} /\ ec[a] = "connected"
Unannounced(a) ==
  pc[a] \in {"assign", "finish", "wait"} /\ ec[a] = "none" /\ packets[a] = << >>
OnItsWay(p) == \E a \in Holders(p) : Announced(a) \/ Unannounced(a)
ConnectedOnItsWay ==
  \A p \in Pipes : instance[p] = "connected" /\ p \notin owned => OnItsWay(p)

(* "OS should have triggered callback"                                     *)
(* (named_pipe_server_details.hpp:75): a client that stays connected is    *)
(* handed to a session.                                                    *)
ConnectedIsAccepted ==
  \A p \in Pipes :
    instance[p] = "connected" ~> (p \in owned \/ instance[p] # "connected")

(* A completion missed before assign is the only thing that can keep a     *)
(* connected client waiting: in every behaviour without one, each client   *)
(* that stays connected is handed to a session.                            *)
AcceptedUnlessMissed ==
  [](\A a \in Acceptors : ~MissedCompletion(a)) => ConnectedIsAccepted

(* The accept loop implements Handoff: an operation offers the instance it *)
(* created until the handler moves it, and hands over that instance, once, *)
(* after a client arrived on it.                                           *)
OfferOf(a) == IF hPipe[a] # NoPipe THEN hPipe[a] ELSE holder[a]
Offers == [a \in Acceptors |-> OfferOf(a)]
ArrivedOffers ==
  {p \in {OfferOf(a) : a \in Acceptors} \ {NoPipe} : instance[p] \in {"connected", "closing"}}
HandoffOf == INSTANCE Handoff WITH offer <- Offers, arrived <- ArrivedOffers, served <- owned
HandoffSpec == HandoffOf!Spec
=============================================================================
