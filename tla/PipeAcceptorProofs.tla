------------------------- MODULE PipeAcceptorProofs -------------------------
(***************************************************************************)
(* The safety of the accept path, for any number of acceptors, any pool of *)
(* pipe instances and any mix of accept loops.                             *)
(***************************************************************************)
EXTENDS PipeAcceptor, TLAPS

(***************************************************************************)
(* The inductive invariant.  What an acceptor holds depends on where its   *)
(* loop is; each case names the pipe, its kernel state and the packets.    *)
(***************************************************************************)
Arrived(p) == instance[p] \in {"connected", "closing"}

(* The connect of acceptor a is pending on p, or a client came for it.     *)
Pending(a, p) == ServerOpen(p) /\ (instance[p] = "listening" <=> listener[p] = a)

Idle(a) ==
  hPipe[a] = NoPipe /\ holder[a] = NoPipe /\ ec[a] = "none" /\ packets[a] = << >>

Created(a) ==
  /\ hPipe[a] \in Pipes \ associated /\ ServerOpen(hPipe[a]) /\ listener[hPipe[a]] = NoOp
  /\ holder[a] = NoPipe /\ ec[a] = "none" /\ packets[a] = << >>

Connecting(a) ==
  /\ hPipe[a] \in Pipes \ associated
  /\ holder[a] = NoPipe /\ packets[a] = << >>
  /\ \/ ec[a] = "none" /\ Pending(a, hPipe[a])
     \/ ec[a] = "connected" /\ Arrived(hPipe[a])

(* The operation accepts into p; "ok" is on the port only after a client.  *)
Accepting(a, p) ==
  /\ holder[a] = p /\ p \in associated
  /\ Pending(a, p)
  /\ packets[a] = << >> \/ (packets[a] = << "ok" >> /\ Arrived(p))

Finishing(a) ==
  \/ ec[a] = "none" /\ hPipe[a] \in Pipes /\ Accepting(a, hPipe[a])
  \/ /\ ec[a] = "connected" /\ hPipe[a] \in Pipes
     /\ Accepting(a, hPipe[a]) /\ Arrived(hPipe[a]) /\ packets[a] = << >>
  \/ /\ ec[a] = "error" /\ holder[a] = NoPipe /\ packets[a] = << >>
     /\ hPipe[a] # NoPipe => hPipe[a] \notin associated /\ instance[hPipe[a]] = "closing"

Waiting(a) ==
  /\ hPipe[a] = NoPipe
  /\ \/ /\ holder[a] \in Pipes /\ Accepting(a, holder[a])
        /\ ec[a] = "none" \/ (ec[a] = "connected" /\ packets[a] = << "ok" >>)
     \/ holder[a] = NoPipe /\ packets[a] = << "error" >> /\ ec[a] = "error"

AcceptorInv(a) ==
  /\ pc[a] # "threw"
  /\ pc[a] \in {"dead", "create"} => Idle(a)
  /\ pc[a] = "connect" => Created(a)
  /\ pc[a] = "assign" => Connecting(a)
  /\ pc[a] = "finish" => Finishing(a)
  /\ pc[a] = "wait" => Waiting(a)

(* Who knows of an instance: its listener, its holder or its session.      *)
PipeInv(p) ==
  /\ listener[p] # NoOp => instance[p] = "listening" /\ listener[p] \in Holders(p)
  /\ \A a, b \in Holders(p) : a = b
  /\ p \in owned => Holders(p) = {} /\ p \in associated /\ Arrived(p)
  /\ p \in associated => p \in owned \/ \E a \in Acceptors : holder[a] = p
  /\ Leaked(p) => instance[p] = "closing"

IInv ==
  /\ TypeOK
  /\ \A a \in Acceptors : AcceptorInv(a)
  /\ \A p \in Pipes : PipeInv(p)

-----------------------------------------------------------------------------
(* The completion packets of one operation.                                *)

(* Posting on an empty queue and taking the only packet are inverse.       *)
LEMMA OnePacket ==
  ASSUME NEW e \in Outcome
  PROVE  /\ Append(<< >>, e) = << e >>
         /\ Tail(<< e >>) = << >> /\ Head(<< e >>) = e /\ << e >> # << >>
         /\ << >> \in Seq(Outcome) /\ << e >> \in Seq(Outcome)
OBVIOUS

(* The initial states satisfy the invariant.                               *)
LEMMA InitIInv == Init => IInv
<1> SUFFICES ASSUME Init PROVE IInv
  OBVIOUS
<1> USE DEF Init, KernelInit
<1>1. TypeOK
  <2>1. << >> \in Seq(Outcome)
    OBVIOUS
  <2> QED
    BY <2>1, NoPipeAssumption DEF TypeOK, KernelTypeOK, InstanceState, Step, Ec, Acceptors
<1>2. \A a \in Acceptors : AcceptorInv(a)
  BY DEF AcceptorInv, Idle, Acceptors
<1>3. \A p \in Pipes : PipeInv(p)
  BY NoPipeAssumption DEF PipeInv, Holders, Leaked, ServerOpen, Acceptors
<1> QED
  BY <1>1, <1>2, <1>3 DEF IInv

(***************************************************************************)
(* An acceptor that does not move and whose pipes do not change keeps its  *)
(* part of the invariant.                                                  *)
(***************************************************************************)
SamePipe(q) ==
  /\ instance'[q] = instance[q]
  /\ listener'[q] = listener[q]
  /\ q \in associated' <=> q \in associated

SameAcceptor(b) ==
  /\ pc'[b] = pc[b] /\ hPipe'[b] = hPipe[b] /\ ec'[b] = ec[b]
  /\ holder'[b] = holder[b] /\ packets'[b] = packets[b]

LEMMA Frame ==
  ASSUME TypeOK, NEW b \in Acceptors, AcceptorInv(b), SameAcceptor(b),
         \A q \in Pipes : q \in {hPipe[b], holder[b]} => SamePipe(q)
  PROVE  AcceptorInv(b)'
<1> USE DEF SameAcceptor, SamePipe
<1>1. hPipe[b] \in Pipes \cup {NoPipe} /\ holder[b] \in Pipes \cup {NoPipe}
  BY DEF TypeOK
<1>2. Idle(b) => Idle(b)'
  BY DEF Idle
<1>3. Created(b) => Created(b)'
  BY <1>1 DEF Created, ServerOpen
<1>4. Connecting(b) => Connecting(b)'
  BY <1>1 DEF Connecting, Pending, Arrived, ServerOpen
<1>5. Finishing(b) => Finishing(b)'
  BY <1>1 DEF Finishing, Accepting, Pending, Arrived, ServerOpen
<1>6. Waiting(b) => Waiting(b)'
  BY <1>1 DEF Waiting, Accepting, Pending, Arrived, ServerOpen
<1> QED
  BY <1>2, <1>3, <1>4, <1>5, <1>6 DEF AcceptorInv

(* A pipe that keeps its kernel state, its holders and its owner keeps its *)
(* part of the invariant.                                                  *)
SameHolders(p) ==
  /\ \A b \in Acceptors : p \in {hPipe'[b], holder'[b]} <=> p \in {hPipe[b], holder[b]}
  /\ \A b \in Acceptors : holder[b] = p => holder'[b] = p
  /\ p \in owned' <=> p \in owned

LEMMA FramePipe ==
  ASSUME NEW p \in Pipes, PipeInv(p), SamePipe(p), SameHolders(p)
  PROVE  PipeInv(p)'
<1>1. Holders(p)' = Holders(p)
  BY DEF Holders, SameHolders
<1> QED
  BY <1>1 DEF PipeInv, SamePipe, SameHolders, Leaked, ServerOpen, Arrived

(* What an operation holds is an open server end, which no session owns    *)
(* and no other operation holds.                                           *)
LEMMA HeldPipes ==
  ASSUME IInv, NEW a \in Acceptors, NEW p \in Pipes, p \in {hPipe[a], holder[a]}
  PROVE  /\ ServerOpen(p) /\ p \notin owned
         /\ \A b \in Acceptors : p \in {hPipe[b], holder[b]} => b = a
<1>1. AcceptorInv(a) /\ PipeInv(p) /\ a \in Holders(p) /\ pc[a] \in Step
  BY DEF IInv, Holders, TypeOK
<1>2. ServerOpen(p)
  BY <1>1, NoPipeAssumption DEF AcceptorInv, Idle, Created, Connecting, Finishing,
       Waiting, Accepting, Pending, ServerOpen, Arrived, Step
<1> QED
  BY <1>1, <1>2 DEF PipeInv, Holders

-----------------------------------------------------------------------------
(* Every step preserves the invariant, one action at a time.               *)

LEMMA StartStep ==
  ASSUME IInv, NEW a \in Acceptors, Start(a)
  PROVE  IInv'
<1> USE DEF Start, kernelVars
<1>1. TypeOK'
  BY DEF IInv, TypeOK, KernelTypeOK, Step
<1>2. ASSUME NEW b \in Acceptors PROVE AcceptorInv(b)'
  <2>1. CASE b = a
    BY <2>1 DEF IInv, TypeOK, AcceptorInv, Idle
  <2>2. CASE b # a
    BY <2>2, Frame DEF IInv, TypeOK, SameAcceptor, SamePipe
  <2> QED
    BY <2>1, <2>2
<1>3. ASSUME NEW p \in Pipes PROVE PipeInv(p)'
  BY FramePipe DEF IInv, SamePipe, SameHolders
<1> QED
  BY <1>1, <1>2, <1>3 DEF IInv

LEMMA CreateInstanceStep ==
  ASSUME IInv, NEW a \in Acceptors, CreateInstance(a)
  PROVE  IInv'
<1> USE DEF CreateInstance
<1>0. pc[a] = "create" /\ Idle(a) /\ TypeOK
  BY DEF IInv, AcceptorInv
<1>1. CASE \E p \in Pipes : /\ CreateNamedPipe(p)
                            /\ hPipe' = [hPipe EXCEPT ![a] = p]
                            /\ pc' = [pc EXCEPT ![a] = "connect"]
                            /\ UNCHANGED ec
  <2> PICK q \in Pipes : /\ CreateNamedPipe(q)
                         /\ hPipe' = [hPipe EXCEPT ![a] = q]
                         /\ pc' = [pc EXCEPT ![a] = "connect"]
                         /\ UNCHANGED ec
    BY <1>1
  <2>1. /\ \A b \in Acceptors : q # hPipe[b] /\ q # holder[b]
        /\ q \notin owned /\ q \notin associated /\ listener[q] = NoOp
    BY HeldPipes DEF CreateNamedPipe, ServerOpen, IInv, PipeInv, Arrived
  <2>2. TypeOK'
    BY <1>0 DEF TypeOK, KernelTypeOK, CreateNamedPipe, InstanceState, Step
  <2>3. ASSUME NEW b \in Acceptors PROVE AcceptorInv(b)'
    <3>1. CASE b = a
      BY <3>1, <1>0, <2>1 DEF AcceptorInv, Idle, Created, TypeOK, KernelTypeOK,
           CreateNamedPipe, ServerOpen, InstanceState
    <3>2. CASE b # a
      BY <3>2, <2>1, Frame DEF IInv, TypeOK, KernelTypeOK, SameAcceptor, SamePipe,
           CreateNamedPipe
    <3> QED
      BY <3>1, <3>2
  <2>4. ASSUME NEW p \in Pipes PROVE PipeInv(p)'
    <3>1. CASE p = q
      <4>1. Holders(q)' = {a}
        BY <2>1, <1>0 DEF Holders, TypeOK, Idle
      <4> QED
        BY <3>1, <4>1, <2>1, <1>0 DEF PipeInv, Leaked
    <3>2. CASE p # q
      BY <3>2, <1>0, FramePipe, NoPipeAssumption DEF IInv, TypeOK, KernelTypeOK, Idle,
           SamePipe, SameHolders, CreateNamedPipe
    <3> QED
      BY <3>1, <3>2
  <2> QED
    BY <2>2, <2>3, <2>4 DEF IInv
<1>2. CASE /\ \A p \in Pipes : instance[p] # "free"
           /\ ec' = [ec EXCEPT ![a] = "error"]
           /\ pc' = [pc EXCEPT ![a] = "finish"]
           /\ UNCHANGED <<instance, hPipe>>
  <2>1. TypeOK'
    BY <1>0, <1>2 DEF TypeOK, KernelTypeOK, Step, Ec
  <2>2. ASSUME NEW b \in Acceptors PROVE AcceptorInv(b)'
    <3>1. CASE b = a
      BY <3>1, <1>0, <1>2 DEF AcceptorInv, Idle, Finishing, TypeOK
    <3>2. CASE b # a
      BY <3>2, <1>2, Frame DEF IInv, TypeOK, SameAcceptor, SamePipe
    <3> QED
      BY <3>1, <3>2
  <2>3. ASSUME NEW p \in Pipes PROVE PipeInv(p)'
    BY <1>2, FramePipe DEF IInv, SamePipe, SameHolders
  <2> QED
    BY <2>1, <2>2, <2>3 DEF IInv
<1> QED
  BY <1>1, <1>2

LEMMA ConnectInstanceStep ==
  ASSUME IInv, NEW a \in Acceptors, ConnectInstance(a)
  PROVE  IInv'
<1> DEFINE q == hPipe[a]
<1> USE DEF ConnectInstance
<1>1. /\ pc[a] = "connect" /\ Created(a) /\ TypeOK /\ PipeInv(q)
      /\ q \in Pipes /\ q \notin owned /\ a \in Holders(q)
      /\ \A b \in Acceptors : q \in {hPipe[b], holder[b]} => b = a
  BY HeldPipes DEF IInv, AcceptorInv, Created, Holders
<1>2. TypeOK'
  <2>1. KernelTypeOK'
    BY <1>1 DEF TypeOK, KernelTypeOK, Acceptors
  <2>2. pc' \in [Acceptors -> Step] /\ ec' \in [Acceptors -> Ec]
    BY <1>1 DEF TypeOK, Step, Ec
  <2> QED
    BY <2>1, <2>2, <1>1 DEF TypeOK
<1>3. ASSUME NEW b \in Acceptors PROVE AcceptorInv(b)'
  <2>1. CASE b = a
    <3>1. instance[q] = "closing" => Finishing(a)'
      BY <1>1 DEF Finishing, Created, TypeOK
    <3>2. instance[q] # "closing" => Connecting(a)'
      BY <1>1, NoOpAssumption DEF Connecting, Created, TypeOK, KernelTypeOK, Pending,
           ServerOpen, Arrived, Acceptors
    <3> QED
      BY <2>1, <3>1, <3>2, <1>1 DEF AcceptorInv, TypeOK
  <2>2. CASE b # a
    BY <2>2, <1>1, Frame DEF IInv, TypeOK, KernelTypeOK, SameAcceptor, SamePipe
  <2> QED
    BY <2>1, <2>2
<1>4. ASSUME NEW p \in Pipes PROVE PipeInv(p)'
  <2>1. CASE p = q
    <3>1. Holders(q)' = Holders(q)
      BY DEF Holders
    <3> QED
      BY <2>1, <3>1, <1>1 DEF PipeInv, Leaked, ServerOpen, Arrived, TypeOK, KernelTypeOK
  <2>2. CASE p # q
    BY <2>2, <1>1, FramePipe DEF IInv, TypeOK, KernelTypeOK, SamePipe, SameHolders
  <2> QED
    BY <2>1, <2>2
<1> QED
  BY <1>2, <1>3, <1>4 DEF IInv

LEMMA AssignStep ==
  ASSUME IInv, NEW a \in Acceptors, Assign(a)
  PROVE  IInv'
<1> DEFINE q == hPipe[a]
<1> USE DEF Assign
<1>1. /\ pc[a] = "assign" /\ Connecting(a) /\ TypeOK /\ PipeInv(q)
      /\ q \in Pipes /\ q \notin owned /\ a \in Holders(q) /\ holder[a] = NoPipe
      /\ \A b \in Acceptors : q \in {hPipe[b], holder[b]} => b = a
  BY HeldPipes DEF IInv, AcceptorInv, Connecting, Holders
<1>2. /\ holder' = [holder EXCEPT ![a] = q]
      /\ associated' = associated \cup {q}
      /\ pc' = [pc EXCEPT ![a] = "finish"]
  BY <1>1
<1>3. TypeOK'
  BY <1>1, <1>2 DEF TypeOK, KernelTypeOK, Step
<1>4. ASSUME NEW b \in Acceptors PROVE AcceptorInv(b)'
  <2>1. CASE b = a
    <3>1. Pending(a, q) /\ (ec[a] = "connected" => Arrived(q))
      BY <1>1, NoOpAssumption DEF Connecting, Pending, PipeInv, Arrived, ServerOpen, Acceptors
    <3>2. Accepting(a, q)'
      BY <3>1, <1>1, <1>2 DEF Accepting, Connecting, Pending, ServerOpen, TypeOK
    <3>3. Finishing(a)'
      BY <3>1, <3>2, <1>1 DEF Finishing, Connecting, Arrived
    <3> QED
      BY <2>1, <3>3, <1>1, <1>2 DEF AcceptorInv, TypeOK
  <2>2. CASE b # a
    BY <2>2, <1>1, <1>2, Frame DEF IInv, TypeOK, KernelTypeOK, SameAcceptor, SamePipe
  <2> QED
    BY <2>1, <2>2
<1>5. ASSUME NEW p \in Pipes PROVE PipeInv(p)'
  <2>1. CASE p = q
    <3>1. Holders(q)' = Holders(q) /\ holder'[a] = q
      BY <1>1, <1>2 DEF Holders, TypeOK
    <3> QED
      BY <2>1, <3>1, <1>1, <1>2 DEF PipeInv, Leaked, ServerOpen
  <2>2. CASE p # q
    BY <2>2, <1>1, <1>2, NoPipeAssumption, FramePipe DEF IInv, TypeOK, SamePipe, SameHolders
  <2> QED
    BY <2>1, <2>2
<1> QED
  BY <1>3, <1>4, <1>5 DEF IInv

LEMMA FinishStep ==
  ASSUME IInv, NEW a \in Acceptors, Finish(a)
  PROVE  IInv'
<1> USE DEF Finish
<1>1. pc[a] = "finish" /\ Finishing(a) /\ TypeOK
  BY DEF IInv, AcceptorInv
<1>2. /\ ec[a] = "none" => packets' = packets
      /\ ec[a] = "connected" =>
           packets' = [packets EXCEPT ![a] = << "ok" >>] /\ packets[a] = << >>
      /\ ec[a] = "error" =>
           packets' = [packets EXCEPT ![a] = << "error" >>] /\ packets[a] = << >>
  BY <1>1, OnePacket DEF Post, Finishing, Outcome, TypeOK, KernelTypeOK, Acceptors
<1>3. TypeOK'
  BY <1>1, <1>2, OnePacket DEF TypeOK, KernelTypeOK, Step, Outcome, Ec
<1>4. ASSUME NEW b \in Acceptors PROVE AcceptorInv(b)'
  <2>1. CASE b = a
    <3>1. ec[a] = "none" => Waiting(a)'
      BY <1>1, <1>2, OnePacket DEF Finishing, Waiting, Accepting, Pending, ServerOpen,
           Arrived, TypeOK, KernelTypeOK, Acceptors
    <3>2. ec[a] = "connected" => Waiting(a)'
      BY <1>1, <1>2, OnePacket DEF Finishing, Waiting, Accepting, Pending, ServerOpen,
           Arrived, TypeOK, KernelTypeOK, Acceptors
    <3>3. ec[a] = "error" => Waiting(a)'
      BY <1>1, <1>2, OnePacket DEF Finishing, Waiting, TypeOK, KernelTypeOK, Acceptors
    <3> QED
      BY <2>1, <3>1, <3>2, <3>3, <1>1 DEF AcceptorInv, TypeOK, Ec
  <2>2. CASE b # a
    BY <2>2, <1>1, <1>2, Frame DEF IInv, TypeOK, KernelTypeOK, SameAcceptor, SamePipe,
         Ec, Acceptors
  <2> QED
    BY <2>1, <2>2
<1>5. ASSUME NEW p \in Pipes PROVE PipeInv(p)'
  <2>1. CASE p \in {hPipe[a], holder[a]} /\ holder[a] = NoPipe
    (* The client left before the connect: nobody holds the handle now.    *)
    <3>1. p = hPipe[a] /\ ec[a] = "error" /\ p \notin associated /\ instance[p] = "closing"
      BY <2>1, <1>1, NoPipeAssumption DEF Finishing, Accepting
    <3>2. p \notin owned /\ \A b \in Acceptors : p \in {hPipe[b], holder[b]} => b = a
      BY <2>1, HeldPipes
    <3>3. Holders(p)' = {}
      BY <2>1, <3>2, <1>1, NoPipeAssumption DEF Holders, TypeOK
    <3> QED
      BY <3>1, <3>2, <3>3 DEF PipeInv, Leaked, IInv
  <2>2. CASE ~(p \in {hPipe[a], holder[a]} /\ holder[a] = NoPipe)
    <3>1. p \in {hPipe'[a], holder'[a]} <=> p \in {hPipe[a], holder[a]}
      BY <2>2, <1>1, NoPipeAssumption DEF Finishing, Accepting, TypeOK
    <3> QED
      BY <3>1, <1>1, FramePipe DEF IInv, TypeOK, SamePipe, SameHolders
  <2> QED
    BY <2>1, <2>2
<1> QED
  BY <1>3, <1>4, <1>5 DEF IInv

LEMMA AcceptHandlerStep ==
  ASSUME IInv, NEW a \in Acceptors, AcceptHandler(a)
  PROVE  IInv'
<1> USE DEF AcceptHandler
<1>1. pc[a] = "wait" /\ Waiting(a) /\ TypeOK /\ packets[a] # << >>
  BY DEF IInv, AcceptorInv
<1>2. /\ packets[a] \in {<< "ok" >>, << "error" >>}
      /\ packets' = [packets EXCEPT ![a] = << >>]
  BY <1>1, OnePacket DEF Waiting, Accepting, Outcome
<1>3. KernelTypeOK'
  <2>1. << >> \in Seq(Outcome)
    OBVIOUS
  <2>2. packets' \in [Ops -> Seq(Outcome)]
    BY <2>1, <1>1, <1>2 DEF TypeOK, KernelTypeOK
  <2> QED
    BY <2>2, <1>1 DEF TypeOK, KernelTypeOK
<1>4. CASE packets[a] = << "ok" >>
  <2> DEFINE q == holder[a]
  <2>1. /\ q \in Pipes /\ q \in associated /\ Arrived(q) /\ hPipe[a] = NoPipe
        /\ owned' = owned \cup {q}
        /\ holder' = [holder EXCEPT ![a] = NoPipe]
        /\ pc' = [pc EXCEPT ![a] = "create"]
    BY <1>1, <1>4, OnePacket DEF Waiting, Accepting, Outcome
  <2>2. \A b \in Acceptors : q \in {hPipe[b], holder[b]} => b = a
    BY <2>1, HeldPipes
  <2>3. TypeOK'
    BY <1>1, <1>3, <2>1 DEF TypeOK, Step, Ec
  <2>4. ASSUME NEW b \in Acceptors PROVE AcceptorInv(b)'
    <3>1. CASE b = a
      BY <3>1, <1>1, <1>2, <2>1 DEF AcceptorInv, Idle, TypeOK, KernelTypeOK, Acceptors
    <3>2. CASE b # a
      BY <3>2, <1>1, <1>2, <2>1, Frame DEF IInv, TypeOK, KernelTypeOK, SameAcceptor,
           SamePipe, Acceptors
    <3> QED
      BY <3>1, <3>2
  <2>5. ASSUME NEW p \in Pipes PROVE PipeInv(p)'
    <3>1. CASE p = q
      <4>1. Holders(p)' = {}
        BY <3>1, <2>1, <2>2, <1>1, NoPipeAssumption DEF Holders, TypeOK
      <4>2. listener[p] = NoOp
        BY <3>1, <2>1 DEF IInv, PipeInv, Arrived
      <4> QED
        BY <3>1, <4>1, <4>2, <2>1 DEF PipeInv, Leaked, Arrived
    <3>2. CASE p # q
      BY <3>2, <1>1, <2>1, NoPipeAssumption, FramePipe DEF IInv, TypeOK, SamePipe, SameHolders
    <3> QED
      BY <3>1, <3>2
  <2> QED
    BY <2>3, <2>4, <2>5 DEF IInv
<1>5. CASE packets[a] = << "error" >>
  <2>1. /\ UNCHANGED <<holder, owned>>
        /\ pc' = [pc EXCEPT ![a] = IF Kind[a] = "coro" THEN "dead" ELSE "create"]
    BY <1>5, OnePacket DEF Outcome
  <2>2. holder[a] = NoPipe /\ hPipe[a] = NoPipe
    BY <1>1, <1>5, OnePacket DEF Waiting, Accepting
  <2>3. TypeOK'
    BY <1>1, <1>3, <2>1 DEF TypeOK, Step, Ec
  <2>4. ASSUME NEW b \in Acceptors PROVE AcceptorInv(b)'
    <3>1. CASE b = a
      BY <3>1, <1>1, <1>2, <2>1, <2>2 DEF AcceptorInv, Idle, TypeOK, KernelTypeOK, Acceptors
    <3>2. CASE b # a
      BY <3>2, <1>1, <1>2, <2>1, Frame DEF IInv, TypeOK, KernelTypeOK, SameAcceptor,
           SamePipe, Acceptors
    <3> QED
      BY <3>1, <3>2
  <2>5. ASSUME NEW p \in Pipes PROVE PipeInv(p)'
    BY <2>1, FramePipe DEF IInv, SamePipe, SameHolders
  <2> QED
    BY <2>3, <2>4, <2>5 DEF IInv
<1> QED
  BY <1>2, <1>4, <1>5

LEMMA DropStep ==
  ASSUME IInv, NEW p \in Pipes, NEW end \in {"gone", "shut"}, Drop(p, end)
  PROVE  IInv'
<1> USE DEF Drop, CloseServerEnd
<1>1. TypeOK /\ PipeInv(p) /\ p \in owned /\ Holders(p) = {} /\ Arrived(p)
  BY DEF IInv, PipeInv
<1>2. TypeOK'
  BY <1>1 DEF TypeOK, KernelTypeOK, InstanceState
<1>3. ASSUME NEW b \in Acceptors PROVE AcceptorInv(b)'
  BY <1>1, Frame DEF IInv, TypeOK, KernelTypeOK, SameAcceptor, SamePipe, Holders
<1>4. ASSUME NEW q \in Pipes PROVE PipeInv(q)'
  <2>1. CASE q = p
    BY <2>1, <1>1 DEF PipeInv, Leaked, Holders, ServerOpen, Arrived, TypeOK, KernelTypeOK
  <2>2. CASE q # p
    BY <2>2, <1>1, FramePipe DEF IInv, TypeOK, KernelTypeOK, SamePipe, SameHolders
  <2> QED
    BY <2>1, <2>2
<1> QED
  BY <1>2, <1>3, <1>4 DEF IInv

LEMMA DestroyStep ==
  ASSUME IInv, NEW a \in Acceptors, Destroy(a)
  PROVE  IInv'
<1> DEFINE q == holder[a]
<1> USE DEF Destroy, CloseServerEnd
<1>1. pc[a] = "wait" /\ Waiting(a) /\ TypeOK /\ hPipe[a] = NoPipe /\ q \in Pipes \cup {NoPipe}
  BY DEF IInv, AcceptorInv, Waiting, TypeOK
<1>2. q \in Pipes =>
        /\ \A b \in Acceptors : q \in {hPipe[b], holder[b]} => b = a
        /\ q \notin owned /\ ServerOpen(q)
  BY HeldPipes
<1>3. TypeOK'
  <2>1. KernelTypeOK'
    BY <1>1, OnePacket, NoPipeAssumption DEF TypeOK, KernelTypeOK, InstanceState, Outcome
  <2> QED
    BY <2>1, <1>1 DEF TypeOK, Step, Ec
<1>4. \A p \in Pipes : p # q => SamePipe(p)
  BY <1>1 DEF SamePipe, TypeOK, KernelTypeOK
<1>5. ASSUME NEW b \in Acceptors PROVE AcceptorInv(b)'
  <2>1. CASE b = a
    BY <2>1, <1>1 DEF AcceptorInv, Idle, TypeOK, KernelTypeOK, Acceptors
  <2>2. CASE b # a
    BY <2>2, <1>1, <1>2, <1>4, Frame DEF IInv, TypeOK, KernelTypeOK, SameAcceptor, Acceptors
  <2> QED
    BY <2>1, <2>2
<1>6. ASSUME NEW p \in Pipes PROVE PipeInv(p)'
  <2>1. CASE p = q
    <3>1. Holders(p)' = {}
      BY <2>1, <1>1, <1>2, NoPipeAssumption DEF Holders, TypeOK
    <3>2. instance'[p] \in {"free", "gone", "shut"} /\ listener'[p] = NoOp /\ p \notin associated'
      BY <2>1, <1>1, <1>2, NoPipeAssumption DEF TypeOK, KernelTypeOK
    <3> QED
      BY <2>1, <3>1, <3>2, <1>2 DEF PipeInv, Leaked, ServerOpen
  <2>2. CASE p # q
    BY <2>2, <1>1, <1>4, NoPipeAssumption, FramePipe DEF IInv, TypeOK, SameHolders
  <2> QED
    BY <2>1, <2>2
<1> QED
  BY <1>3, <1>5, <1>6 DEF IInv

(* A client opens p: if a connect is pending on p, its acceptor is past    *)
(* ConnectNamedPipe, and past assign if p is associated.                   *)
LEMMA ClientConnectsStep ==
  ASSUME IInv, NEW p \in Pipes, ClientConnects(p)
  PROVE  IInv'
<1> USE DEF ClientConnects, CreateFile, acceptVars
<1>1. TypeOK /\ PipeInv(p) /\ instance[p] = "listening" /\ p \notin owned
  BY DEF IInv, PipeInv, Arrived
<1>2. \A b \in Acceptors : p \in {hPipe[b], holder[b]} =>
        \A c \in Acceptors : p \in {hPipe[c], holder[c]} => b = c
  BY HeldPipes
<1>3. ASSUME NEW b \in Acceptors, listener[p] = b
      PROVE  /\ p \in associated => pc[b] \in {"finish", "wait"}
             /\ packets[b] = << >> /\ holder[b] \in {p, NoPipe}
  <2>1. p \in {hPipe[b], holder[b]} /\ AcceptorInv(b) /\ pc[b] \in Step
    BY <1>1, <1>3, NoOpAssumption DEF PipeInv, Holders, Acceptors, IInv, TypeOK
  <2> QED
    BY <2>1, <1>1, NoPipeAssumption DEF AcceptorInv, Step, Idle, Created, Connecting,
         Finishing, Waiting, Accepting, Arrived
<1>4. packets' = IF listener[p] # NoOp /\ p \in associated
                   THEN [packets EXCEPT ![listener[p]] = << "ok" >>]
                   ELSE packets
  BY <1>1, <1>3, OnePacket DEF Post, TypeOK, KernelTypeOK, Outcome, Acceptors
<1>5. TypeOK'
  <2>1. KernelTypeOK'
    BY <1>1, <1>4, OnePacket DEF TypeOK, KernelTypeOK, InstanceState, Outcome
  <2> QED
    BY <2>1, <1>1 DEF TypeOK
<1>6. ASSUME NEW b \in Acceptors PROVE AcceptorInv(b)'
  <2>1. CASE p \notin {hPipe[b], holder[b]}
    <3>1. listener[p] # b
      BY <2>1, <1>1, NoOpAssumption DEF PipeInv, Holders, Acceptors
    <3> QED
      BY <2>1, <3>1, <1>1, <1>4, Frame DEF IInv, TypeOK, KernelTypeOK, SameAcceptor,
           SamePipe, Acceptors
  <2>2. CASE p \in {hPipe[b], holder[b]}
    <3>1. instance'[p] = "connected" /\ listener'[p] = NoOp /\ b # NoOp
      BY <1>1, NoOpAssumption DEF TypeOK, KernelTypeOK, Acceptors
    <3>2. AcceptorInv(b) /\ pc[b] \in Step /\ holder[b] \in Pipes \cup {NoPipe}
      BY DEF IInv, TypeOK
    <3>3. listener[p] # b => packets'[b] = packets[b]
      BY <1>1, <1>4 DEF TypeOK, KernelTypeOK, Acceptors
    <3>4. listener[p] = b /\ p \notin associated => packets'[b] = packets[b]
      BY <1>4
    <3>5. listener[p] = b /\ p \in associated => packets'[b] = << "ok" >>
      BY <1>1, <1>4, <3>1 DEF TypeOK, KernelTypeOK, Acceptors
    <3>6. pc[b] = "connect" => Created(b)'
      BY <2>2, <1>1, <3>1, <3>2, <3>3, <3>4, NoPipeAssumption DEF AcceptorInv, Created, ServerOpen
    <3>7. pc[b] = "assign" => Connecting(b)'
      BY <2>2, <1>1, <3>1, <3>2, <3>3, <3>4, NoPipeAssumption DEF AcceptorInv, Connecting,
           Pending, Arrived, ServerOpen
    <3>8. pc[b] = "finish" => Finishing(b)'
      BY <2>2, <1>1, <3>1, <3>2, <3>5, NoPipeAssumption DEF AcceptorInv, Finishing,
           Accepting, Pending, Arrived, ServerOpen
    <3>9. pc[b] = "wait" => Waiting(b)'
      BY <2>2, <1>1, <3>1, <3>2, <3>5, NoPipeAssumption DEF AcceptorInv, Waiting,
           Accepting, Pending, Arrived, ServerOpen
    <3>10. pc[b] \notin {"dead", "create"}
      BY <2>2, <3>2, NoPipeAssumption DEF AcceptorInv, Idle
    <3> QED
      BY <3>2, <3>6, <3>7, <3>8, <3>9, <3>10 DEF AcceptorInv
  <2> QED
    BY <2>1, <2>2
<1>7. ASSUME NEW q \in Pipes PROVE PipeInv(q)'
  <2>1. Holders(q)' = Holders(q)
    BY DEF Holders
  <2>2. CASE q = p
    <3>1. instance'[p] = "connected" /\ listener'[p] = NoOp
      BY <1>1 DEF TypeOK, KernelTypeOK
    <3> QED
      BY <2>1, <2>2, <3>1, <1>1 DEF PipeInv, Leaked, ServerOpen
  <2>3. CASE q # p
    BY <2>3, <1>1, FramePipe DEF IInv, TypeOK, KernelTypeOK, SamePipe, SameHolders
  <2> QED
    BY <2>2, <2>3
<1> QED
  BY <1>5, <1>6, <1>7 DEF IInv

LEMMA ClientLeavesStep ==
  ASSUME IInv, NEW p \in Pipes, ClientLeaves(p)
  PROVE  IInv'
<1> USE DEF ClientLeaves, CloseClientEnd, acceptVars
<1>1. /\ TypeOK /\ PipeInv(p) /\ ClientOpen(p)
      /\ instance[p] = "connected" => instance'[p] = "closing"
      /\ instance[p] # "connected" => instance'[p] = "free"
      /\ \A q \in Pipes : q # p => instance'[q] = instance[q]
  BY DEF IInv, TypeOK, KernelTypeOK
<1>2. TypeOK'
  BY <1>1 DEF TypeOK, KernelTypeOK, InstanceState
<1>3. ASSUME NEW b \in Acceptors PROVE AcceptorInv(b)'
  <2>1. CASE p \in {hPipe[b], holder[b]}
    <3>1. instance[p] = "connected" /\ instance'[p] = "closing"
      BY <2>1, <1>1, HeldPipes DEF ServerOpen, ClientOpen
    <3>2. AcceptorInv(b) /\ pc[b] \in Step
      BY DEF IInv, TypeOK
    <3>3. Idle(b) => Idle(b)'
      BY DEF Idle
    <3>4. Created(b) => Created(b)'
      BY <3>1, <1>1 DEF Created, ServerOpen
    <3>5. Connecting(b) => Connecting(b)'
      BY <3>1, <1>1 DEF Connecting, Pending, Arrived, ServerOpen
    <3>6. Finishing(b) => Finishing(b)'
      BY <3>1, <1>1, NoPipeAssumption DEF Finishing, Accepting, Pending, Arrived,
           ServerOpen, IInv, TypeOK
    <3>7. Waiting(b) => Waiting(b)'
      BY <3>1, <1>1 DEF Waiting, Accepting, Pending, Arrived, ServerOpen
    <3> QED
      BY <3>2, <3>3, <3>4, <3>5, <3>6, <3>7 DEF AcceptorInv
  <2>2. CASE p \notin {hPipe[b], holder[b]}
    BY <2>2, <1>1, Frame DEF IInv, SameAcceptor, SamePipe
  <2> QED
    BY <2>1, <2>2
<1>4. ASSUME NEW q \in Pipes PROVE PipeInv(q)'
  <2>1. Holders(q)' = Holders(q)
    BY DEF Holders
  <2>2. CASE q = p
    BY <2>1, <2>2, <1>1 DEF PipeInv, Leaked, ServerOpen, ClientOpen, Arrived
  <2>3. CASE q # p
    BY <2>3, <1>1, FramePipe DEF IInv, SamePipe, SameHolders
  <2> QED
    BY <2>2, <2>3
<1> QED
  BY <1>2, <1>3, <1>4 DEF IInv

-----------------------------------------------------------------------------
(* The theorems.                                                           *)

LEMMA StutterStep ==
  ASSUME IInv, UNCHANGED vars
  PROVE  IInv'
BY DEF vars, kernelVars, acceptVars, IInv, TypeOK, KernelTypeOK, AcceptorInv, Idle, Created,
  Connecting, Finishing, Waiting, Accepting, Pending, Arrived, ServerOpen, PipeInv, Holders, Leaked

LEMMA NextIInv == IInv /\ [Next]_vars => IInv'
<1> SUFFICES ASSUME IInv, [Next]_vars PROVE IInv'
  OBVIOUS
<1>1. ASSUME NEW a \in Acceptors, Start(a) \/ Operation(a) \/ AcceptHandler(a) \/ Destroy(a)
      PROVE  IInv'
  <2>1. CASE Operation(a)
    BY <2>1, CreateInstanceStep, ConnectInstanceStep, AssignStep, FinishStep DEF Operation
  <2> QED
    BY <1>1, <2>1, StartStep, AcceptHandlerStep, DestroyStep
<1>2. ASSUME NEW p \in Pipes,
             (\E end \in {"gone", "shut"} : Drop(p, end)) \/ ClientConnects(p) \/ ClientLeaves(p)
      PROVE  IInv'
  BY <1>2, DropStep, ClientConnectsStep, ClientLeavesStep
<1> QED
  BY <1>1, <1>2, StutterStep DEF Next

(* The invariant says what the safety properties say, and more.            *)
LEMMA IInvSafety ==
  ASSUME IInv
  PROVE  TypeOK /\ SoleOwner /\ AcceptedWasConnected /\ CompletesOnce
           /\ PipeFreeForNextAccept /\ OnlyNoDataLeaks
<1>1. TypeOK /\ SoleOwner
  BY DEF IInv, SoleOwner, PipeInv, TypeOK
<1>2. ASSUME NEW a \in Acceptors
      PROVE  /\ packets[a] \in {<< >>, << "ok" >>, << "error" >>}
             /\ packets[a] = << "ok" >> => holder[a] \in Pipes /\ Arrived(holder[a])
             /\ packets[a] # << >> => pc[a] \in {"finish", "wait"}
             /\ packets[a] # << >> /\ pc[a] = "finish" => ec[a] = "none"
             /\ pc[a] \in {"create", "connect", "assign", "threw"} => holder[a] = NoPipe
  <2>1. AcceptorInv(a) /\ pc[a] \in Step
    BY DEF IInv, TypeOK
  <2>2. CASE pc[a] \in {"dead", "create"}
    BY <2>1, <2>2, OnePacket DEF AcceptorInv, Idle, Outcome
  <2>3. CASE pc[a] = "connect"
    BY <2>1, <2>3, OnePacket DEF AcceptorInv, Created, Outcome
  <2>4. CASE pc[a] = "assign"
    BY <2>1, <2>4, OnePacket DEF AcceptorInv, Connecting, Outcome
  <2>5. CASE pc[a] = "finish"
    <3>1. Finishing(a)
      BY <2>1, <2>5 DEF AcceptorInv
    <3> QED
      BY <3>1, <2>5, OnePacket DEF Finishing, Accepting, Outcome
  <2>6. CASE pc[a] = "wait"
    <3>1. Waiting(a)
      BY <2>1, <2>6 DEF AcceptorInv
    <3>2. << "error" >> # << "ok" >>
      OBVIOUS
    <3> QED
      BY <3>1, <3>2, <2>6, OnePacket DEF Waiting, Accepting, Outcome
  <2> QED
    BY <2>1, <2>2, <2>3, <2>4, <2>5, <2>6 DEF AcceptorInv, Step
<1>3. AcceptedWasConnected
  <2>1. ASSUME NEW p \in owned PROVE instance[p] \in {"connected", "closing"}
    BY <2>1 DEF IInv, TypeOK, PipeInv, Arrived
  <2>2. ASSUME NEW a \in Acceptors, NEW i \in DOMAIN packets[a], packets[a][i] = "ok"
        PROVE  holder[a] \in Pipes /\ instance[holder[a]] \in {"connected", "closing"}
    <3>1. packets[a] = << "ok" >>
      <4>1. packets[a] \in {<< >>, << "ok" >>, << "error" >>}
        BY <1>2
      <4>2. packets[a] # << >> /\ packets[a] # << "error" >>
        BY <2>2
      <4> QED
        BY <4>1, <4>2
    <3> QED
      BY <3>1, <1>2 DEF Arrived
  <2> QED
    BY <2>1, <2>2 DEF AcceptedWasConnected
<1>4. CompletesOnce
  <2>1. \A a \in Acceptors : Len(packets[a]) <= 1
    <3>1. Len(<< >>) <= 1 /\ Len(<< "ok" >>) <= 1 /\ Len(<< "error" >>) <= 1
      OBVIOUS
    <3> QED
      BY <3>1, <1>2
  <2> QED
    BY <2>1, <1>2 DEF CompletesOnce
<1>5. PipeFreeForNextAccept
  BY <1>2 DEF PipeFreeForNextAccept
<1>6. OnlyNoDataLeaks
  BY DEF OnlyNoDataLeaks, IInv, PipeInv, Leaked, Holders
<1> QED
  BY <1>1, <1>3, <1>4, <1>5, <1>6

(* A connected instance that no session owns is held by an operation that  *)
(* knows of the client, or that believes its connect to be pending.        *)
LEMMA IInvOnItsWay ==
  ASSUME IInv
  PROVE  ConnectedOnItsWay
<1> SUFFICES ASSUME NEW p \in Pipes, instance[p] = "connected", p \notin owned
             PROVE  OnItsWay(p)
  BY DEF ConnectedOnItsWay
<1>1. PICK a \in Acceptors : p \in {hPipe[a], holder[a]}
  BY DEF IInv, PipeInv, Leaked, ServerOpen, Holders
<1>2. AcceptorInv(a) /\ pc[a] \in Step /\ p # NoPipe
  BY NoPipeAssumption DEF IInv, TypeOK
<1>3. pc[a] \notin {"dead", "create", "threw"}
  BY <1>1, <1>2 DEF AcceptorInv, Idle
<1>4. pc[a] = "assign" => Announced(a) \/ Unannounced(a)
  BY <1>2 DEF AcceptorInv, Connecting, Announced, Unannounced
<1>5. pc[a] = "finish" => Announced(a) \/ Unannounced(a)
  BY <1>1, <1>2 DEF AcceptorInv, Finishing, Accepting, Announced, Unannounced
<1>6. pc[a] = "wait" => Announced(a) \/ Unannounced(a)
  BY <1>1, <1>2 DEF AcceptorInv, Waiting, Accepting, Announced, Unannounced
<1> QED
  BY <1>1, <1>2, <1>3, <1>4, <1>5, <1>6 DEF OnItsWay, Holders, Announced, Step

(* Every reachable state satisfies the inductive invariant.                *)
THEOREM Invariance == Spec => []IInv
  BY InitIInv, NextIInv, PTL DEF Spec

(* The variables of the accept path keep their types; in particular only   *)
(* open pipes are handed to sessions.                                      *)
THEOREM TypeCorrect == Spec => []TypeOK
  BY Invariance, IInvSafety, PTL

(* A handle has one owner: one operation or one session.                   *)
THEOREM OwnerUnique == Spec => []SoleOwner
  BY Invariance, IInvSafety, PTL

(* Only instances a client has opened are reported as accepted.            *)
THEOREM AcceptSound == Spec => []AcceptedWasConnected
  BY Invariance, IInvSafety, PTL

(* No operation completes twice or after its end.                          *)
THEOREM CompletionUnique == Spec => []CompletesOnce
  BY Invariance, IInvSafety, PTL

(* assign never finds the pipe object open, so it never throws.            *)
THEOREM AssignNeverThrows == Spec => []PipeFreeForNextAccept
  BY Invariance, IInvSafety, PTL

(* Only a client that leaves before ConnectNamedPipe makes a handle leak.  *)
THEOREM LeakBound == Spec => []OnlyNoDataLeaks
  BY Invariance, IInvSafety, PTL

(* A connected client is never forgotten but in one way: the operation     *)
(* that holds its instance released a connect that had completed.          *)
THEOREM ConnectedAnnounced == Spec => []ConnectedOnItsWay
  BY Invariance, IInvOnItsWay, PTL
=============================================================================
