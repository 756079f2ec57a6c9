------------------------------ MODULE HttpSys ------------------------------
(***************************************************************************)
(* What http.sys and the completion port do for winext's http server: the  *)
(* requests of one URL, the calls that wait on its request queue and the   *)
(* completion packets they leave.  None of this is code of the repository; *)
(* it is modelled from the calls basic_http_handle.hpp and http.hpp make   *)
(* and the results they handle.                                            *)
(***************************************************************************)
EXTENDS Naturals, Sequences

CONSTANTS
  Ops,        \* asynchronous operations: one OVERLAPPED each
  Requests,   \* each client sends one
  NoRequest,
  Size,       \* [Requests -> Nat]: the body in units of the server's body buffer
  Chunked,    \* requests whose end of body arrives on its own
  Big         \* requests whose headers exceed the request buffer

ASSUME NoRequestAssumption == NoRequest \notin Requests
ASSUME WaitAssumption == Requests \cap {"nothing", "request"} = {}
ASSUME SizeAssumption == Size \in [Requests -> Nat]
ASSUME KindsAssumption == Chunked \subseteq Requests /\ Big \subseteq Requests

VARIABLES
  registered, \* the URL is registered on an open request queue
  request,    \* [Requests -> RequestState]
  arrived,    \* [Requests -> Nat]: how much of the body, and its end, has arrived
  answers,    \* [Requests -> Seq(Answer)]: what the client was sent
  waiting,    \* [Ops -> Wait]: what an overlapped call is pending for
  packets     \* [Ops -> Seq(Completion)]: queued and not yet handled

httpSysVars == <<registered, request, arrived, answers, waiting, packets>>

RequestState == {"absent", "queued", "held", "answered", "aborted"}

(* ok, ERROR_MORE_DATA, ERROR_HANDLE_EOF, ERROR_CONNECTION_INVALID         *)
Error == {"ok", "more", "eof", "gone"}
Completion == [ec : Error, req : Requests \cup {NoRequest}, len : Nat]
Result(e, r, n) == [ec |-> e, req |-> r, len |-> n]

(* What a response was made from: the request and the body its handler saw. *)
Answer == [req : Requests, len : Nat]
Wait == Requests \cup {"nothing", "request"}

HttpSysTypeOK ==
  /\ registered \in BOOLEAN
  /\ request \in [Requests -> RequestState]
  /\ arrived \in [Requests -> Nat]
  /\ answers \in [Requests -> Seq(Answer)]
  /\ waiting \in [Ops -> Wait]
  /\ packets \in [Ops -> Seq(Completion)]

HttpSysInit ==
  /\ registered = FALSE
  /\ request = [r \in Requests |-> "absent"]
  /\ arrived = [r \in Requests |-> 0]
  /\ answers = [r \in Requests |-> << >>]
  /\ waiting = [o \in Ops |-> "nothing"]
  /\ packets = [o \in Ops |-> << >>]

Arrivals(r) == IF r \in Chunked THEN Size[r] + 1 ELSE Size[r]
Ended(r) == arrived[r] = Arrivals(r)

(* The port with a packet for o added, or with o's first one taken off.    *)
Posted(port, o, result) == [port EXCEPT ![o] = Append(@, result)]
Taken(port, o) == [port EXCEPT ![o] = Tail(@)]
Await(o, w) == waiting' = [waiting EXCEPT ![o] = w]

(* A request goes to a call that waits for one, or is queued.  The call    *)
(* ends with ERROR_MORE_DATA if its buffer is too small for the headers.   *)
Received(r) == IF r \in Big THEN Result("more", NoRequest, 0) ELSE Result("ok", r, 0)

Arrive(r) ==
  /\ registered /\ request[r] = "absent"
  /\ \/ \E o \in Ops :
          /\ waiting[o] = "request"
          /\ Await(o, "nothing")
          /\ packets' = Posted(packets, o, Received(r))
          /\ request' = [request EXCEPT ![r] = "held"]
     \/ /\ \A o \in Ops : waiting[o] # "request"
        /\ request' = [request EXCEPT ![r] = "queued"]
        /\ UNCHANGED <<waiting, packets>>
  /\ UNCHANGED <<registered, arrived, answers>>

(* The calls that wait for the body of r end with the given result.        *)
Wake(r, result) ==
  /\ waiting' = [o \in Ops |-> IF waiting[o] = r THEN "nothing" ELSE waiting[o]]
  /\ packets' = [o \in Ops |->
       IF waiting[o] = r THEN Append(packets[o], result) ELSE packets[o]]

BodyArrives(r) ==
  /\ request[r] \in {"queued", "held"} /\ ~Ended(r)
  /\ arrived' = [arrived EXCEPT ![r] = @ + 1]
  /\ Wake(r, IF arrived[r] < Size[r] THEN Result("ok", r, 1) ELSE Result("eof", r, 0))
  /\ UNCHANGED <<registered, request, answers>>

(* The client leaves, or http.sys gives it up.                             *)
Abort(r) ==
  /\ request[r] \in {"queued", "held"}
  /\ request' = [request EXCEPT ![r] = "aborted"]
  /\ Wake(r, Result("gone", r, 0))
  /\ UNCHANGED <<registered, arrived, answers>>

(* RemoveUrl and CloseHandle on the queue, and the end of the io_context:  *)
(* what waits is cancelled, what is queued on the port is dropped.         *)
CloseQueue ==
  /\ registered' = FALSE
  /\ request' = [r \in Requests |->
       IF request[r] \in {"queued", "held"} THEN "aborted" ELSE request[r]]
  /\ waiting' = [o \in Ops |-> "nothing"]
  /\ packets' = [o \in Ops |-> << >>]
  /\ UNCHANGED <<arrived, answers>>
=============================================================================
