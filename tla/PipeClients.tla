---------------------------- MODULE PipeClients -----------------------------
(***************************************************************************)
(* The client half of winext, client_named_pipe::connect with              *)
(* client_connect, in the programs that use it: they open a pipe, write    *)
(* one request, read one reply and close.  What is written and not yet     *)
(* read is kept for each pipe; the servers of EchoServer.tla and           *)
(* BeastServer.tla are at its other end.                                   *)
(***************************************************************************)
EXTENDS PipeAcceptor

CONSTANTS
  Clients,   \* client processes; a client's request and its reply are named by the client
  Long,      \* the clients whose request exceeds the buffer of the server's read
  NoMsg      \* nothing written

ASSUME LongAssumption == Long \subseteq Clients
ASSUME NoMsgAssumption == NoMsg \notin Clients

VARIABLES
  toServer,  \* [Pipes -> Clients \cup {NoMsg}]: written by the client, not yet read
  toClient,  \* [Pipes -> Clients \cup {NoMsg}]: written by the server, not yet read
  cpc,       \* [Clients -> ClientStep]: where the call is
  cp,        \* [Clients -> Pipes \cup {NoPipe}]: the client's open handle
  result,    \* [Clients -> Result]: how the call ended
  reply      \* [Clients -> Clients \cup {NoMsg}]

bufferVars == <<toServer, toClient>>
clientVars == <<cpc, cp, result, reply>>

ClientStep == {"open", "busy", "mode", "write", "read", "close", "done"}
Result == {"none", "ok", "failed"}

ClientTypeOK ==
  /\ toServer \in [Pipes -> Clients \cup {NoMsg}]
  /\ toClient \in [Pipes -> Clients \cup {NoMsg}]
  /\ cpc \in [Clients -> ClientStep]
  /\ cp \in [Clients -> Pipes \cup {NoPipe}]
  /\ result \in [Clients -> Result]
  /\ reply \in [Clients -> Clients \cup {NoMsg}]
  /\ \A c \in Clients : cp[c] \in Pipes <=> cpc[c] \in {"mode", "write", "read", "close"}

ClientInit ==
  /\ toServer = [p \in Pipes |-> NoMsg]
  /\ toClient = [p \in Pipes |-> NoMsg]
  /\ cpc = [c \in Clients |-> "done"]
  /\ cp = [c \in Clients |-> NoPipe]
  /\ result = [c \in Clients |-> "none"]
  /\ reply = [c \in Clients |-> NoMsg]

-----------------------------------------------------------------------------
(* An instance whose server end was disconnected or closed by both is no   *)
(* instance of the name any more.                                          *)
Exists == \E p \in Pipes : instance[p] \notin {"free", "gone"}
Listening == \E p \in Pipes : instance[p] = "listening"

Goto(c, step) == cpc' = [cpc EXCEPT ![c] = step]
Return(c, r) ==
  /\ Goto(c, "done")
  /\ result' = [result EXCEPT ![c] = r]

(* The call begins, on a pipe object that was never open.                  *)
Connect(c) ==
  /\ cpc[c] = "done"
  /\ Goto(c, "open")
  /\ result' = [result EXCEPT ![c] = "none"]
  /\ reply' = [reply EXCEPT ![c] = NoMsg]
  /\ UNCHANGED <<vars, bufferVars, cp>>

(* CreateFile in the loop of client_connect.                               *)
OpenPipe(c) ==
  /\ cpc[c] = "open"
  /\ \/ \E p \in Pipes :
          /\ ClientConnects(p)
          /\ cp' = [cp EXCEPT ![c] = p]
          /\ toServer' = [toServer EXCEPT ![p] = NoMsg]
          /\ toClient' = [toClient EXCEPT ![p] = NoMsg]
          /\ Goto(c, "mode")
          /\ UNCHANGED result
     \/ /\ ~Listening /\ Exists
        /\ Goto(c, "busy")
        /\ UNCHANGED <<vars, bufferVars, cp, result>>
     \/ /\ ~Exists
        /\ Return(c, "failed")
        /\ UNCHANGED <<vars, bufferVars, cp>>
  /\ UNCHANGED reply

(* Mutant: WaitNamedPipe has no time limit.                                *)
WaitPipe_NoTimeout(c) ==
  /\ cpc[c] = "busy"
  /\ \/ Listening /\ Goto(c, "open") /\ UNCHANGED result
     \/ ~Exists /\ Return(c, "failed")
  /\ UNCHANGED <<vars, bufferVars, cp, reply>>

(* WaitNamedPipe: an instance listens; or the name or the time is gone.    *)
WaitPipe(c) ==
  /\ cpc[c] = "busy"
  /\ \/ Listening /\ Goto(c, "open") /\ UNCHANGED result
     \/ ~Listening /\ Return(c, "failed")
  /\ UNCHANGED <<vars, bufferVars, cp, reply>>

(* SetNamedPipeHandleState fails on a disconnected pipe.  client_connect   *)
(* makes ec from last_error, which only a busy round has set; should it be *)
(* zero, connect goes on to assign(NULL), which throws.  Either way the    *)
(* call ends there, and the open handle went out of scope.                 *)
SetMode(c) ==
  /\ cpc[c] = "mode"
  /\ \/ /\ instance[cp[c]] # "gone"
        /\ Goto(c, "write")
        /\ UNCHANGED <<cp, result>>
     \/ /\ instance[cp[c]] = "gone"
        /\ Return(c, "failed")
        /\ cp' = [cp EXCEPT ![c] = NoPipe]
  /\ UNCHANGED <<vars, bufferVars, reply>>

(* Mutant: the pipe of make_client_call has no destructor.                 *)
ReturnAndClose_Leaks(c, r) ==
  /\ Return(c, r)
  /\ UNCHANGED <<vars, bufferVars, cp, reply>>

(* make_client_call returns and the destructor of its pipe closes it.      *)
ReturnAndClose(c, r) ==
  /\ ClientLeaves(cp[c])
  /\ Return(c, r)
  /\ cp' = [cp EXCEPT ![c] = NoPipe]
  /\ UNCHANGED <<bufferVars, reply>>

Write(c) ==
  /\ cpc[c] = "write"
  /\ \/ /\ instance[cp[c]] = "connected"
        /\ toServer' = [toServer EXCEPT ![cp[c]] = c]
        /\ Goto(c, "read")
        /\ UNCHANGED <<vars, toClient, cp, result, reply>>
     \/ /\ instance[cp[c]] # "connected"
        /\ ReturnAndClose(c, "failed")

(* A disconnect discards what was written, a close does not.               *)
Read(c) ==
  /\ cpc[c] = "read"
  /\ \/ /\ instance[cp[c]] # "gone" /\ toClient[cp[c]] # NoMsg
        /\ reply' = [reply EXCEPT ![c] = toClient[cp[c]]]
        /\ toClient' = [toClient EXCEPT ![cp[c]] = NoMsg]
        /\ Goto(c, "close")
        /\ UNCHANGED <<vars, toServer, cp, result>>
     \/ /\ \/ instance[cp[c]] = "gone"
           \/ instance[cp[c]] = "shut" /\ toClient[cp[c]] = NoMsg
        /\ ReturnAndClose(c, "failed")

Close(c) == cpc[c] = "close" /\ ReturnAndClose(c, "ok")

(* The client process ends in the middle of a call.                        *)
Die(c) == cpc[c] \in {"mode", "write", "read"} /\ ReturnAndClose(c, "failed")

-----------------------------------------------------------------------------
ClientCall(c) ==
  OpenPipe(c) \/ WaitPipe(c) \/ SetMode(c) \/ Write(c) \/ Read(c) \/ Close(c)

ClientNext(c) == Connect(c) \/ ClientCall(c) \/ Die(c)

-----------------------------------------------------------------------------
(* Properties of a server and its clients.                                 *)

(* A call that succeeds has its own request answered, however connections, *)
(* instances and buffers were reused (named_pipe_test.cpp:46 and :59).     *)
OwnReply ==
  \A c \in Clients : cpc[c] = "close" \/ result[c] = "ok" => reply[c] = c

(* "Flush is needed since the server might close handle before client      *)
(* read." (named_pipe.hpp:67): no pipe is disconnected under a client that *)
(* has yet to read its reply, on any path on which a server drops it.      *)
NoReplyDiscarded ==
  [][\A p \in Pipes :
       instance[p] = "connected" /\ toClient[p] # NoMsg => instance'[p] # "gone"]_vars

(* While a server runs and no accept fails, its pipe name never ceases to  *)
(* exist: the accept loop creates the next instance before the last can    *)
(* go.  A call made in between would fail with ERROR_FILE_NOT_FOUND        *)
(* ("ASSERT_FALSE(ec.failed())", named_pipe_test.cpp:44).                  *)
Up == \E p \in Pipes : ServerOpen(p)
Serving == (\E a \in Acceptors : pc[a] # "dead") /\ \A a \in Acceptors : ec[a] # "error"
NameStaysUp == [][Serving /\ Up /\ Serving' => Up']_vars

(* "return the ok handle. Caller is responsible for freeing the handle."   *)
(* (named_pipe_client_details.hpp:13): an open client handle is in the     *)
(* hands of a client, whether connect succeeded or not.                    *)
NoClientHandleLeak ==
  \A p \in Pipes : ClientOpen(p) => \E c \in Clients : cp[c] = p

(* Only a disconnected pipe is ever leaked: every other handle a client    *)
(* opened is in its hands until it closes it, on every path of the call.   *)
OnlyDisconnectedLeaks ==
  \A p \in Pipes : ClientOpen(p) /\ (\A c \in Clients : cp[c] # p) => instance[p] = "gone"

(* A client that waits for a reply still in the making.                    *)
Unanswered(c) ==
  cpc[c] = "read" /\ instance[cp[c]] = "connected" /\ toClient[cp[c]] = NoMsg

(* "2 sec timeout" (test_client.hpp:13): while a server is up, connect     *)
(* ends, with a pipe or with an error, unless other clients take the       *)
(* instance after each of its waits, again and again: each wait is         *)
(* limited, the loop is not.                                               *)
InConnect(c) == cpc[c] \in {"open", "busy"}
ConnectEndsUnlessOvertaken ==
  \A c \in Clients :
    <>[](\A d \in Clients \ {c} : cpc[d] # "mode") => (InConnect(c) ~> ~InConnect(c))
=============================================================================
