----------------------------- MODULE HttpService ----------------------------
(***************************************************************************)
(* What an http server promises the clients of one URL: a request is       *)
(* served by one connection, once; a connection serves one request at a    *)
(* time; and a request is answered once, by the connection that serves it. *)
(* HttpServer.tla implements this.                                         *)
(***************************************************************************)
CONSTANTS Connections, Requests

VARIABLES
  stage,   \* [Requests -> Stage]
  servers  \* [Requests -> SUBSET Connections]: who serves the request now

serviceVars == <<stage, servers>>

Stage == {"absent", "waiting", "served", "answered", "dropped"}

ServiceInit ==
  /\ stage = [r \in Requests |-> "absent"]
  /\ servers = [r \in Requests |-> {}]

Idle(c) == \A r \in Requests : c \notin servers[r]
Enter(r, s) == stage' = [stage EXCEPT ![r] = s]

Arrive(r) == stage[r] = "absent" /\ Enter(r, "waiting") /\ UNCHANGED servers

(* The only way to a server, open to a request once.                       *)
Assign(r, c) ==
  /\ stage[r] \in {"absent", "waiting"}
  /\ Idle(c)
  /\ Enter(r, "served")
  /\ servers' = [servers EXCEPT ![r] = {c}]

(* The server gives a request up before it serves it.                      *)
Refuse(r) ==
  /\ stage[r] \in {"absent", "waiting"}
  /\ Enter(r, "served")
  /\ UNCHANGED servers

Answer(r) ==
  /\ stage[r] = "served" /\ servers[r] # {}
  /\ Enter(r, "answered")
  /\ UNCHANGED servers

Leave(r) ==
  /\ stage[r] \in {"waiting", "served"}
  /\ Enter(r, "dropped")
  /\ UNCHANGED servers

(* The connection is done with the request, whatever became of it.         *)
LetGo(r) ==
  /\ servers[r] # {}
  /\ servers' = [servers EXCEPT ![r] = {}]
  /\ UNCHANGED stage

Close ==
  /\ stage' = [r \in Requests |->
       IF stage[r] \in {"waiting", "served"} THEN "dropped" ELSE stage[r]]
  /\ servers' = [r \in Requests |-> {}]

ServiceNext ==
  \/ \E r \in Requests : Arrive(r) \/ Refuse(r) \/ Answer(r) \/ Leave(r) \/ LetGo(r)
  \/ \E r \in Requests, c \in Connections : Assign(r, c)
  \/ Close

Spec == ServiceInit /\ [][ServiceNext]_serviceVars
=============================================================================
