------------------------------- MODULE Handoff -------------------------------
(***************************************************************************)
(* What an accept loop promises its user, without handles, overlapped      *)
(* operations or packets: each acceptor offers one fresh pipe at a time, a *)
(* client arrives on it, and that pipe, once and only after the arrival,   *)
(* is handed to a session.  An offer may also be given up.                 *)
(***************************************************************************)
CONSTANTS Pipes, Acceptors, NoPipe

VARIABLES
  offer,    \* [Acceptors -> Pipes \cup {NoPipe}]: the pipe offered to the next client
  arrived,  \* offered pipes a client has opened
  served    \* pipes that belong to sessions

vars == <<offer, arrived, served>>

Offered == {offer[a] : a \in Acceptors} \ {NoPipe}

Init ==
  /\ offer = [a \in Acceptors |-> NoPipe]
  /\ arrived = {}
  /\ served = {}

Offer(a, p) ==
  /\ offer[a] = NoPipe
  /\ p \notin Offered \cup served
  /\ offer' = [offer EXCEPT ![a] = p]
  /\ UNCHANGED <<arrived, served>>

Arrive(p) ==
  /\ p \in Offered \ arrived
  /\ arrived' = arrived \cup {p}
  /\ UNCHANGED <<offer, served>>

Serve(a) ==
  /\ offer[a] \in arrived
  /\ offer' = [offer EXCEPT ![a] = NoPipe]
  /\ arrived' = arrived \ {offer[a]}
  /\ served' = served \cup {offer[a]}

GiveUp(a) ==
  /\ offer[a] # NoPipe
  /\ offer' = [offer EXCEPT ![a] = NoPipe]
  /\ arrived' = arrived \ {offer[a]}
  /\ UNCHANGED served

EndSession(p) ==
  /\ p \in served
  /\ served' = served \ {p}
  /\ UNCHANGED <<offer, arrived>>

Next ==
  \/ \E a \in Acceptors : (\E p \in Pipes : Offer(a, p)) \/ Serve(a) \/ GiveUp(a)
  \/ \E p \in Pipes : Arrive(p) \/ EndSession(p)

Spec == Init /\ [][Next]_vars
=============================================================================
