---------------------------- MODULE HttpRefinement --------------------------
(***************************************************************************)
(* The http server implements HttpService: its initial states are initial  *)
(* states of HttpService and each of its steps is a step of HttpService or *)
(* a stutter, for any number of requests and connections.                  *)
(***************************************************************************)
EXTENDS HttpProofs

Stages == [r \in Requests |-> StageOf(r)]
ServersOf(r) == {c \in Connections : Serves(c, r)}
Servers == [r \in Requests |-> ServersOf(r)]

Maps == Service!ServiceNext \/ UNCHANGED <<Stages, Servers>>

(* The mapping of one request.                                             *)
LEMMA StageFacts ==
  ASSUME TypeOK, NEW r \in Requests
  PROVE  /\ request[r] = "absent" => StageOf(r) = "absent"
         /\ request[r] = "queued" => StageOf(r) = "waiting"
         /\ request[r] = "held" => StageOf(r) = "served"
         /\ request[r] = "answered" => StageOf(r) = "answered"
         /\ request[r] = "aborted" => StageOf(r) = "dropped"
BY DEF StageOf

LEMMA SameStages == UNCHANGED request => UNCHANGED Stages
BY DEF Stages, StageOf

(* One request enters a state, and with it a stage.                        *)
LEMMA EnterStage ==
  ASSUME TypeOK, TypeOK', NEW r \in Requests, NEW state \in RequestState,
         request' = [request EXCEPT ![r] = state]
  PROVE  Stages' = [Stages EXCEPT ![r] = StageOf(r)']
<1>1. \A q \in Requests \ {r} : request'[q] = request[q]
  BY DEF TypeOK, HttpSysTypeOK
<1>2. \A q \in Requests \ {r} : StageOf(q)' = StageOf(q)
  BY <1>1 DEF StageOf
<1> QED
  BY <1>2 DEF Stages

LEMMA SameServers ==
  ASSUME \A c \in Connections, q \in Requests : Serves(c, q)' <=> Serves(c, q)
  PROVE  UNCHANGED Servers
<1>1. \A q \in Requests : ServersOf(q)' = ServersOf(q)
  BY DEF ServersOf
<1> QED
  BY <1>1 DEF Servers

(* Only connection c changed, and serves nothing, before or after.         *)
LEMMA StillIdle ==
  ASSUME NEW c \in Connections, \A d \in Connections \ {c} : SameConnection(d),
         \A q \in Requests : ~Serves(c, q) /\ ~Serves(c, q)'
  PROVE  UNCHANGED Servers
BY FrameServes, SameServers

(* Only connection c changed: it was idle and serves request r, which no   *)
(* other connection had.                                                   *)
LEMMA BecomesServer ==
  ASSUME HttpInv, NEW c \in Connections, NEW r \in Requests, ~Known(r),
         \A d \in Connections \ {c} : SameConnection(d),
         \A q \in Requests : ~Serves(c, q) /\ (Serves(c, q)' <=> q = r)
  PROVE  Servers' = [Servers EXCEPT ![r] = {c}] /\ Service!Idle(c)
<1>1. \A q \in Requests, d \in Connections \ {c} : Serves(d, q)' <=> Serves(d, q)
  BY FrameServes
<1>2. \A d \in Connections : ~Serves(d, r)
  BY DEF HttpInv, ServesInv
<1>3. ServersOf(r)' = {c}
  BY <1>1, <1>2 DEF ServersOf
<1>4. \A q \in Requests \ {r} : ServersOf(q)' = ServersOf(q)
  BY <1>1 DEF ServersOf
<1>5. Servers' = [Servers EXCEPT ![r] = {c}]
  BY <1>3, <1>4 DEF Servers
<1> QED
  BY <1>5 DEF Service!Idle

LEMMA InitRefines == Init => Service!ServiceInit
<1> SUFFICES ASSUME Init PROVE Service!ServiceInit
  OBVIOUS
<1>1. TypeOK /\ \A r \in Requests : request[r] = "absent"
  BY InitHttpInv DEF HttpInv, Init, HttpSysInit
<1>2. \A r \in Requests, c \in Connections : ~Serves(c, r)
  BY ServesFacts DEF Init
<1> QED
  BY <1>1, <1>2, StageFacts DEF Service!ServiceInit

-----------------------------------------------------------------------------
(* The steps.                                                              *)

(* A request gets to connection c, or c finds it too big.                  *)
LEMMA HeldRefines ==
  ASSUME HttpInv, TypeOK', NEW c \in Connections, NEW r \in Requests,
         request[r] \in {"absent", "queued"},
         request' = [request EXCEPT ![r] = "held"],
         \A d \in Connections \ {c} : SameConnection(d),
         \A q \in Requests : ~Serves(c, q) /\ (Serves(c, q)' <=> q = r /\ r \notin Big)
  PROVE  Maps
<1>1. TypeOK /\ ~Known(r) /\ request'[r] = "held"
  BY DEF HttpInv, Known, TypeOK, HttpSysTypeOK
<1>2. StageOf(r) \in {"absent", "waiting"} /\ StageOf(r)' = "served"
  BY <1>1, StageFacts DEF StageOf
<1>3. Stages[r] \in {"absent", "waiting"} /\ Stages' = [Stages EXCEPT ![r] = "served"]
  BY <1>1, <1>2, EnterStage DEF Stages, RequestState
<1>4. CASE r \in Big
  <2>1. UNCHANGED Servers
    BY <1>4, StillIdle
  <2>2. Service!Refuse(r)
    BY <1>3, <2>1 DEF Service!Refuse, Service!Enter, Stages, Servers, ServersOf
  <2> QED
    BY <2>2 DEF Maps, Service!ServiceNext
<1>5. CASE r \notin Big
  <2>1. Servers' = [Servers EXCEPT ![r] = {c}] /\ Service!Idle(c)
    BY <1>1, <1>5, BecomesServer
  <2>2. Service!Assign(r, c)
    BY <1>3, <2>1 DEF Service!Assign, Service!Enter, Stages, Servers, ServersOf
  <2> QED
    BY <2>2 DEF Maps, Service!ServiceNext
<1> QED
  BY <1>4, <1>5

LEMMA NewConnectionRefines ==
  ASSUME HttpInv, NEW c \in Free, NewConnectionAt(c),
         spawning' \in SUBSET Connections, started' \in BOOLEAN
  PROVE  Maps
<1>1. c \in Connections /\ op[c] = "none"
  BY DEF Free
<1>2. \A q \in Requests : ~Serves(c, q)
  BY <1>1, ServesFacts
<1>3. CASE UNCHANGED request /\ \A q \in Requests : ~Serves(c, q)'
  BY <1>1, <1>2, <1>3, NewConnectionStep, SameStages, StillIdle DEF Maps
<1>4. CASE \E r \in Requests :
             /\ request[r] = "queued"
             /\ request' = [request EXCEPT ![r] = "held"]
             /\ \A q \in Requests : Serves(c, q)' <=> q = r /\ r \notin Big
  BY <1>1, <1>2, <1>4, NewConnectionStep, HeldRefines
<1> QED
  BY <1>3, <1>4, NewConnectionStep

(* A handler that lets its request go.                                     *)
LEMMA LeavesRefines ==
  ASSUME HttpInv, NEW c \in Connections, Leaves(c)
  PROVE  Maps
<1>1. PICK r \in Requests : r = req[c]
  BY DEF Leaves
<1>2. \A q \in Requests : Serves(c, q) <=> q = r
  BY <1>1, ServesFacts DEF Leaves
<1>3. \A q \in Requests, d \in Connections \ {c} : Serves(d, q)' <=> Serves(d, q)
  BY FrameServes DEF Leaves
<1>4. \A q \in Requests : ~Serves(c, q)'
  BY DEF Leaves
<1>5. \A d \in Connections : Serves(d, r) => d = c
  BY <1>2 DEF HttpInv, ServesInv
<1>6. ServersOf(r)' = {} /\ ServersOf(r) # {}
  BY <1>2, <1>3, <1>4, <1>5 DEF ServersOf
<1>7. \A q \in Requests \ {r} : ServersOf(q)' = ServersOf(q)
  BY <1>2, <1>3, <1>4 DEF ServersOf
<1>8. Servers[r] # {} /\ Servers' = [Servers EXCEPT ![r] = {}]
  BY <1>6, <1>7 DEF Servers
<1>9. UNCHANGED Stages
  BY SameStages DEF Leaves
<1>10. Service!LetGo(r)
  BY <1>8, <1>9 DEF Service!LetGo, Stages, Servers, ServersOf
<1> QED
  BY <1>10 DEF Maps, Service!ServiceNext

(* A handler that answers its request, or finds its client gone.           *)
LEMMA BodyHandlerRefines ==
  ASSUME HttpInv, TypeOK', NEW c \in Connections, BodyHandler(c)
  PROVE  Maps
<1>1. CASE Leaves(c)
  BY <1>1, LeavesRefines
<1>2. CASE /\ UNCHANGED request
           /\ \A d \in Connections, q \in Requests : Serves(d, q)' <=> Serves(d, q)
  BY <1>2, SameStages, SameServers DEF Maps
<1>3. CASE /\ req[c] \in Requests /\ Serves(c, req[c]) /\ request[req[c]] = "held"
           /\ request' = [request EXCEPT ![req[c]] = "answered"]
           /\ \A d \in Connections, q \in Requests : Serves(d, q)' <=> Serves(d, q)
  <2>1. PICK r \in Requests :
          /\ Serves(c, r) /\ request[r] = "held"
          /\ request' = [request EXCEPT ![r] = "answered"]
    BY <1>3
  <2>2. TypeOK /\ request'[r] = "answered"
    BY <2>1 DEF HttpInv, TypeOK, HttpSysTypeOK
  <2>3. StageOf(r) = "served" /\ StageOf(r)' = "answered"
    BY <2>1, <2>2 DEF StageOf
  <2>4. Stages[r] = "served" /\ Stages' = [Stages EXCEPT ![r] = "answered"]
    BY <2>1, <2>2, <2>3, EnterStage DEF Stages, RequestState
  <2>5. Servers[r] # {} /\ UNCHANGED Servers
    BY <1>3, <2>1, SameServers DEF Servers, ServersOf
  <2>6. Service!Answer(r)
    BY <2>4, <2>5 DEF Service!Answer, Service!Enter, Stages, Servers, ServersOf
  <2> QED
    BY <2>6 DEF Maps, Service!ServiceNext
<1> QED
  BY <1>1, <1>2, <1>3, BodyHandlerStep

(* A client sends its request, ...                                         *)
LEMMA ArriveRefines ==
  ASSUME HttpInv, TypeOK', NEW r \in Requests, Arrive(r), UNCHANGED connVars
  PROVE  Maps
<1>1. TypeOK /\ request[r] = "absent"
  BY ArriveStep DEF HttpInv
<1>2. CASE /\ request' = [request EXCEPT ![r] = "queued"]
           /\ \A c \in Connections, q \in Requests : Serves(c, q)' <=> Serves(c, q)
  <2>1. request'[r] = "queued"
    BY <1>1, <1>2 DEF TypeOK, HttpSysTypeOK
  <2>2. StageOf(r) = "absent" /\ StageOf(r)' = "waiting"
    BY <1>1, <2>1 DEF StageOf
  <2>3. Stages[r] = "absent" /\ Stages' = [Stages EXCEPT ![r] = "waiting"]
    BY <1>1, <1>2, <2>2, EnterStage DEF Stages, RequestState
  <2>4. UNCHANGED Servers
    BY <1>2, SameServers
  <2>5. Service!Arrive(r)
    BY <2>3, <2>4 DEF Service!Arrive, Service!Enter, Stages, Servers, ServersOf
  <2> QED
    BY <2>5 DEF Maps, Service!ServiceNext
<1>3. CASE /\ request' = [request EXCEPT ![r] = "held"]
           /\ \E c \in Connections :
                /\ \A d \in Connections \ {c} : SameConnection(d)
                /\ \A q \in Requests :
                     ~Serves(c, q) /\ (Serves(c, q)' <=> q = r /\ r \notin Big)
  BY <1>1, <1>3, HeldRefines
<1> QED
  BY <1>2, <1>3, ArriveStep

(* ... and leaves.                                                         *)
LEMMA AbortRefines ==
  ASSUME HttpInv, TypeOK', NEW r \in Requests, Abort(r), UNCHANGED connVars
  PROVE  Maps
<1>1. /\ TypeOK /\ request[r] \in {"queued", "held"}
      /\ request' = [request EXCEPT ![r] = "aborted"] /\ request'[r] = "aborted"
  BY DEF Abort, HttpInv, TypeOK, HttpSysTypeOK
<1>2. StageOf(r) \in {"waiting", "served"} /\ StageOf(r)' = "dropped"
  BY <1>1 DEF StageOf
<1>3. Stages[r] \in {"waiting", "served"} /\ Stages' = [Stages EXCEPT ![r] = "dropped"]
  BY <1>1, <1>2, EnterStage DEF Stages, RequestState
<1>4. UNCHANGED Servers
  BY AbortStep, SameServers
<1>5. Service!Leave(r)
  BY <1>3, <1>4 DEF Service!Leave, Service!Enter, Stages, Servers, ServersOf
<1> QED
  BY <1>5 DEF Maps, Service!ServiceNext

(* The end of the server is the end of the service.                        *)
LEMMA ShutdownRefines ==
  ASSUME HttpInv, Shutdown
  PROVE  Maps
<1>1. TypeOK /\ request' = [r \in Requests |->
        IF request[r] \in {"queued", "held"} THEN "aborted" ELSE request[r]]
  BY DEF HttpInv, Shutdown, CloseQueue
<1>2. ASSUME NEW r \in Requests
      PROVE  StageOf(r)' = IF StageOf(r) \in {"waiting", "served"} THEN "dropped" ELSE StageOf(r)
  <2>1. request[r] \in RequestState
    BY <1>1 DEF TypeOK, HttpSysTypeOK
  <2>2. request'[r] = IF request[r] \in {"queued", "held"} THEN "aborted" ELSE request[r]
    BY <1>1
  <2> QED
    BY <2>1, <2>2 DEF StageOf, RequestState
<1>3. Stages' = [r \in Requests |->
        IF Stages[r] \in {"waiting", "served"} THEN "dropped" ELSE Stages[r]]
  BY <1>2 DEF Stages
<1>4. \A r \in Requests : ServersOf(r)' = {}
  BY DEF ServersOf, Serves, Shutdown
<1>5. Servers' = [r \in Requests |-> {}]
  BY <1>4 DEF Servers
<1>6. Service!Close
  BY <1>3, <1>5 DEF Service!Close, Stages, Servers, ServersOf
<1> QED
  BY <1>6 DEF Maps, Service!ServiceNext

-----------------------------------------------------------------------------
(* The theorem.                                                            *)

LEMMA NextMaps == HttpInv /\ HttpInv' /\ [Next]_vars => Maps
<1> SUFFICES ASSUME HttpInv, HttpInv', [Next]_vars PROVE Maps
  OBVIOUS
<1>1. TypeOK'
  BY DEF HttpInv
<1>2. spawning' \in SUBSET Connections /\ started' \in BOOLEAN
  BY <1>1 DEF TypeOK
<1>3. CASE OpenQueue \/ UNCHANGED vars
  <2>1. UNCHANGED <<request, op, req, packets>>
    BY <1>3 DEF OpenQueue, vars, httpSysVars, connVars
  <2> QED
    BY <2>1, SameStages, SameServers DEF Serves, Maps
<1>4. CASE Start
  BY <1>2, <1>4, TakesFree, NewConnectionRefines DEF Start
<1>5. CASE Shutdown
  BY <1>5, ShutdownRefines
<1>6. ASSUME NEW c \in Connections, Handler(c) PROVE Maps
  <2>1. CASE ReceiveHandler(c)
    BY <2>1, ReceiveHandlerStep, SameStages, SameServers DEF Maps
  <2>2. CASE StartNext(c)
    BY <1>2, <2>2, TakesFree, NewConnectionRefines DEF StartNext
  <2>3. CASE BodyHandler(c)
    BY <1>1, <2>3, BodyHandlerRefines
  <2>4. CASE SendHandler(c)
    BY <2>4, SendHandlerStep, LeavesRefines
  <2> QED
    BY <1>6, <2>1, <2>2, <2>3, <2>4 DEF Handler
<1>7. ASSUME NEW r \in Requests, Client(r), UNCHANGED connVars PROVE Maps
  <2>1. CASE Arrive(r)
    BY <1>1, <1>7, <2>1, ArriveRefines
  <2>2. CASE BodyArrives(r)
    BY <1>7, <2>2, BodyArrivesStep, SameStages, SameServers DEF Maps
  <2>3. CASE Abort(r)
    BY <1>1, <1>7, <2>3, AbortRefines
  <2> QED
    BY <1>7, <2>1, <2>2, <2>3 DEF Client
<1> QED
  BY <1>3, <1>4, <1>5, <1>6, <1>7 DEF Next

(* Whatever threads, clients and shutdowns do between its handlers, the    *)
(* http server gives a request to one connection, once, and only that      *)
(* connection answers it.                                                  *)
THEOREM HttpRefines == Spec => ServiceSpec
<1>1. HttpInv /\ HttpInv' /\ [Next]_vars => [Service!ServiceNext]_(Service!serviceVars)
  BY NextMaps DEF Maps, Service!serviceVars, Stages, Servers, ServersOf
<1> QED
  BY <1>1, InitRefines, HttpInvariance, PTL DEF Spec, ServiceSpec, Service!Spec
=============================================================================
