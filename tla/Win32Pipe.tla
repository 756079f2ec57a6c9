----------------------------- MODULE Win32Pipe -----------------------------
(***************************************************************************)
(* What Windows and Boost.Asio do for the named-pipe half of winext: the   *)
(* instances of one pipe name, overlapped connects pending on them, the    *)
(* completion port of the io_context and the packets queued on it.         *)
(*                                                                         *)
(* None of this is code of the repository.  It is modelled from the calls  *)
(* that named_pipe_server_details.hpp, named_pipe.hpp and                  *)
(* named_pipe_client_details.hpp make and the results they handle.         *)
(***************************************************************************)
EXTENDS Sequences

CONSTANTS
  Pipes,   \* handles of pipe instances; the pool bounds the instances that exist at once
  Ops,     \* asynchronous operations: one OVERLAPPED each
  NoOp     \* no operation

ASSUME NoOpAssumption == NoOp \notin Ops

VARIABLES
  instance,    \* [Pipes -> InstanceState]
  listener,    \* [Pipes -> Ops \cup {NoOp}]: whose ConnectNamedPipe is pending on it
  associated,  \* the instances registered with the completion port
  packets      \* [Ops -> Seq(Outcome)]: completions queued and not yet handled

kernelVars == <<instance, listener, associated, packets>>

(***************************************************************************)
(* free        no handle is open, the name has no such instance            *)
(* listening   created by the server, no client                            *)
(* connected   server end and client end are open                          *)
(* closing     the client has closed its end                               *)
(* gone        the server disconnected and closed its end, the client's    *)
(*             handle is dead                                              *)
(* shut        the server closed its end without disconnecting: the client *)
(*             can still read what is buffered                             *)
(***************************************************************************)
InstanceState == {"free", "listening", "connected", "closing", "gone", "shut"}

Outcome == {"ok", "error"}

KernelTypeOK ==
  /\ instance \in [Pipes -> InstanceState]
  /\ listener \in [Pipes -> Ops \cup {NoOp}]
  /\ associated \in SUBSET Pipes
  /\ packets \in [Ops -> Seq(Outcome)]

KernelInit ==
  /\ instance = [p \in Pipes |-> "free"]
  /\ listener = [p \in Pipes |-> NoOp]
  /\ associated = {}
  /\ packets = [o \in Ops |-> << >>]

ServerOpen(p) == instance[p] \in {"listening", "connected", "closing"}
ClientOpen(p) == instance[p] \in {"connected", "gone", "shut"}

(* overlapped_ptr::complete posts the packet itself, the kernel posts it    *)
(* when an overlapped call on an associated handle completes.              *)
Post(o, e) == packets' = [packets EXCEPT ![o] = Append(@, e)]

CreateNamedPipe(p) ==
  /\ instance[p] = "free"
  /\ instance' = [instance EXCEPT ![p] = "listening"]

(***************************************************************************)
(* A client opens an instance.  A pending connect completes; the kernel    *)
(* queues a packet only for a handle that is associated with the port by   *)
(* then.                                                                   *)
(***************************************************************************)
CreateFile(p) ==
  /\ instance[p] = "listening"
  /\ instance' = [instance EXCEPT ![p] = "connected"]
  /\ listener' = [listener EXCEPT ![p] = NoOp]
  /\ IF listener[p] # NoOp /\ p \in associated
       THEN Post(listener[p], "ok")
       ELSE UNCHANGED packets
  /\ UNCHANGED associated

CloseClientEnd(p) ==
  /\ ClientOpen(p)
  /\ instance' = [instance EXCEPT ![p] = IF @ = "connected" THEN "closing" ELSE "free"]
  /\ UNCHANGED <<listener, associated, packets>>

(* The server closes its handle; a connected client is left in state `end'. *)
CloseServerEnd(p, end) ==
  /\ instance' = [instance EXCEPT ![p] = IF @ = "connected" THEN end ELSE "free"]
  /\ listener' = [listener EXCEPT ![p] = NoOp]
  /\ associated' = associated \ {p}
=============================================================================
