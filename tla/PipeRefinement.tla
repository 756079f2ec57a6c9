--------------------------- MODULE PipeRefinement ---------------------------
(***************************************************************************)
(* The accept path implements Handoff: its initial states are initial      *)
(* states of Handoff and each of its steps is a step of Handoff or a       *)
(* stutter, for every value of the constants.                              *)
(***************************************************************************)
EXTENDS PipeAcceptorProofs

(* What the invariant says of the offered pipes.                           *)
LEMMA OfferFacts ==
  ASSUME IInv, NEW a \in Acceptors
  PROVE  /\ OfferOf(a) \in Pipes \cup {NoPipe}
         /\ OfferOf(a) # NoPipe => ServerOpen(OfferOf(a)) /\ OfferOf(a) \notin owned
         /\ \A b \in Acceptors : OfferOf(b) = OfferOf(a) /\ OfferOf(a) # NoPipe => b = a
<1>1. AcceptorInv(a) /\ pc[a] \in Step /\ OfferOf(a) \in Pipes \cup {NoPipe}
  BY DEF IInv, TypeOK, OfferOf
<1>2. ASSUME OfferOf(a) # NoPipe
      PROVE  ServerOpen(OfferOf(a))
  BY <1>1, <1>2 DEF OfferOf, AcceptorInv, Idle, Created, Connecting, Finishing, Waiting,
       Accepting, Pending, Arrived, ServerOpen, Step
<1>3. ASSUME OfferOf(a) # NoPipe
      PROVE  OfferOf(a) \notin owned /\ \A b \in Acceptors : OfferOf(b) = OfferOf(a) => b = a
  <2>1. OfferOf(a) \in Pipes /\ PipeInv(OfferOf(a)) /\ a \in Holders(OfferOf(a))
    BY <1>1, <1>3 DEF IInv, OfferOf, Holders
  <2>2. \A b \in Acceptors : OfferOf(b) = OfferOf(a) => b \in Holders(OfferOf(a))
    BY DEF OfferOf, Holders
  <2> QED
    BY <2>1, <2>2 DEF PipeInv
<1> QED
  BY <1>1, <1>2, <1>3

(* A step that keeps the offers and what arrived on them is a stutter.     *)
LEMMA SameOffers ==
  ASSUME \A a \in Acceptors : OfferOf(a)' = OfferOf(a),
         \A a \in Acceptors : OfferOf(a) # NoPipe =>
           (instance'[OfferOf(a)] \in {"connected", "closing"} <=> Arrived(OfferOf(a)))
  PROVE  Offers' = Offers /\ ArrivedOffers' = ArrivedOffers
<1>1. Offers' = Offers
  BY DEF Offers
<1>2. ArrivedOffers' = ArrivedOffers
  BY DEF ArrivedOffers, Arrived
<1> QED
  BY <1>1, <1>2

(* Initially nothing is offered.                                           *)
LEMMA InitRefines == Init => HandoffOf!Init
  BY DEF Init, KernelInit, HandoffOf!Init, Offers, OfferOf, ArrivedOffers

-----------------------------------------------------------------------------
(* The steps of an operation.                                              *)

Maps == HandoffOf!Next \/ UNCHANGED <<Offers, ArrivedOffers, owned>>

(* CreateNamedPipe offers the new instance; its failure offers nothing.    *)
LEMMA CreateInstanceRefines ==
  ASSUME IInv, NEW a \in Acceptors, CreateInstance(a)
  PROVE  Maps
<1>1. owned' = owned /\ holder' = holder /\ pc[a] = "create"
  BY DEF CreateInstance
<1>2. CASE hPipe' = hPipe /\ instance' = instance
  <2>1. Offers' = Offers /\ ArrivedOffers' = ArrivedOffers
    BY <1>1, <1>2 DEF OfferOf, Offers, ArrivedOffers
  <2> QED
    BY <2>1, <1>1 DEF Maps
<1>3. ASSUME NEW p \in Pipes, CreateNamedPipe(p), hPipe' = [hPipe EXCEPT ![a] = p]
      PROVE  Maps
  <2>1. OfferOf(a) = NoPipe
    BY <1>1 DEF IInv, AcceptorInv, Idle, OfferOf
  <2>2. p \notin owned /\ \A b \in Acceptors : OfferOf(b) # p
    BY <1>3, OfferFacts, NoPipeAssumption DEF CreateNamedPipe, ServerOpen, IInv, PipeInv, Arrived
  <2>3. Offers' = [Offers EXCEPT ![a] = p]
    BY <1>1, <1>3, NoPipeAssumption DEF Offers, OfferOf, IInv, TypeOK
  <2>4. \A b \in Acceptors : OfferOf(b)' = IF b = a THEN p ELSE OfferOf(b)
    BY <1>1, <1>3, NoPipeAssumption DEF OfferOf, IInv, TypeOK
  <2>5. \A q \in Pipes \ {p} : instance'[q] = instance[q]
    BY <1>3 DEF CreateNamedPipe, IInv, TypeOK, KernelTypeOK
  <2>6. instance'[p] = "listening"
    BY <1>3 DEF CreateNamedPipe, IInv, TypeOK, KernelTypeOK
  <2>7. ArrivedOffers' = ArrivedOffers
    BY <2>1, <2>2, <2>4, <2>5, <2>6, OfferFacts DEF ArrivedOffers
  <2>8. HandoffOf!Offer(a, p)
    BY <2>1, <2>2, <2>3, <2>7, <1>1 DEF HandoffOf!Offer, HandoffOf!Offered, Offers
  <2> QED
    BY <2>8 DEF Maps, HandoffOf!Next
<1> QED
  BY <1>2, <1>3 DEF CreateInstance

(* ConnectNamedPipe and assign keep the offer.                             *)
LEMMA KeepsOfferRefines ==
  ASSUME IInv, NEW a \in Acceptors, Start(a) \/ ConnectInstance(a) \/ Assign(a)
  PROVE  Maps
<1>1. \A b \in Acceptors : OfferOf(b)' = OfferOf(b)
  <2>1. CASE Start(a) \/ ConnectInstance(a)
    BY <2>1 DEF Start, ConnectInstance, OfferOf
  <2>2. CASE Assign(a)
    <3>1. pc[a] = "assign" /\ hPipe[a] \in Pipes
      BY <2>2 DEF Assign, IInv, AcceptorInv, Connecting
    <3> QED
      BY <2>2, <3>1, NoPipeAssumption DEF Assign, OfferOf, IInv, TypeOK
  <2> QED
    BY <2>1, <2>2
<1>2. instance' = instance /\ owned' = owned
  BY DEF Start, ConnectInstance, Assign, kernelVars
<1> QED
  BY <1>1, <1>2, SameOffers DEF Maps, Arrived

(* Releasing or completing keeps the offer, a failed connect gives it up.  *)
LEMMA FinishRefines ==
  ASSUME IInv, NEW a \in Acceptors, Finish(a)
  PROVE  Maps
<1>1. /\ instance' = instance /\ owned' = owned /\ holder' = holder
      /\ hPipe' = [hPipe EXCEPT ![a] = NoPipe]
      /\ Finishing(a)
  BY DEF Finish, IInv, AcceptorInv
<1>2. \A b \in Acceptors : OfferOf(b)' = IF b = a THEN holder[a] ELSE OfferOf(b)
  BY <1>1 DEF OfferOf, IInv, TypeOK
<1>3. CASE holder[a] = OfferOf(a)
  BY <1>1, <1>2, <1>3, SameOffers DEF Maps, Arrived
<1>4. CASE holder[a] # OfferOf(a)
  <2>1. holder[a] = NoPipe /\ OfferOf(a) # NoPipe
    BY <1>1, <1>4 DEF Finishing, Accepting, OfferOf
  <2>2. Offers' = [Offers EXCEPT ![a] = NoPipe]
    BY <1>2, <2>1 DEF Offers
  <2>3. ArrivedOffers' = ArrivedOffers \ {OfferOf(a)}
    BY <1>1, <1>2, <2>1, OfferFacts DEF ArrivedOffers
  <2>4. HandoffOf!GiveUp(a)
    BY <1>1, <2>1, <2>2, <2>3 DEF HandoffOf!GiveUp, Offers
  <2> QED
    BY <2>4 DEF Maps, HandoffOf!Next
<1> QED
  BY <1>3, <1>4

(* The handler serves the arrived pipe; after an error it had no pipe.     *)
LEMMA AcceptHandlerRefines ==
  ASSUME IInv, NEW a \in Acceptors, AcceptHandler(a)
  PROVE  Maps
<1>1. instance' = instance /\ hPipe' = hPipe /\ Waiting(a) /\ hPipe[a] = NoPipe
  BY DEF AcceptHandler, IInv, AcceptorInv, Waiting
<1>2. CASE holder' = holder /\ owned' = owned
  <2>1. \A b \in Acceptors : OfferOf(b)' = OfferOf(b)
    BY <1>1, <1>2 DEF OfferOf
  <2> QED
    BY <1>1, <1>2, <2>1, SameOffers DEF Maps, Arrived
<1>3. CASE /\ Head(packets[a]) = "ok" /\ owned' = owned \cup {holder[a]}
           /\ holder' = [holder EXCEPT ![a] = NoPipe]
  <2>1. packets[a] \in {<< "ok" >>, << "error" >>}
    BY <1>1 DEF AcceptHandler, Waiting, Accepting
  <2>2. packets[a] = << "ok" >>
    BY <1>3, <2>1, OnePacket DEF Outcome
  <2>3. holder[a] \in Pipes /\ Arrived(holder[a])
    <3>1. << "ok" >> # << >> /\ << "ok" >> # << "error" >>
      OBVIOUS
    <3> QED
      BY <1>1, <2>2, <3>1 DEF Waiting, Accepting
  <2>4. OfferOf(a) = holder[a] /\ OfferOf(a) # NoPipe
    BY <1>1, <2>3, NoPipeAssumption DEF OfferOf
  <2>5. \A b \in Acceptors : OfferOf(b)' = IF b = a THEN NoPipe ELSE OfferOf(b)
    BY <1>1, <1>3 DEF OfferOf, IInv, TypeOK
  <2>6. Offers' = [Offers EXCEPT ![a] = NoPipe]
    BY <2>5 DEF Offers
  <2>7. ArrivedOffers' = ArrivedOffers \ {OfferOf(a)}
    BY <1>1, <2>4, <2>5, OfferFacts DEF ArrivedOffers
  <2>8. OfferOf(a) \in ArrivedOffers
    BY <2>3, <2>4 DEF ArrivedOffers, Arrived
  <2>9. HandoffOf!Serve(a)
    BY <1>3, <2>4, <2>6, <2>7, <2>8 DEF HandoffOf!Serve, Offers
  <2> QED
    BY <2>9 DEF Maps, HandoffOf!Next
<1> QED
  BY <1>2, <1>3 DEF AcceptHandler

-----------------------------------------------------------------------------
(* Ends and clients.                                                       *)

(* A session's end touches a pipe that is not on offer.                    *)
LEMMA DropRefines ==
  ASSUME IInv, NEW p \in Pipes, NEW end \in {"gone", "shut"}, Drop(p, end)
  PROVE  Maps
<1>1. /\ p \in owned /\ owned' = owned \ {p} /\ hPipe' = hPipe /\ holder' = holder
      /\ \A q \in Pipes \ {p} : instance'[q] = instance[q]
  BY DEF Drop, CloseServerEnd, IInv, TypeOK, KernelTypeOK
<1>2. \A b \in Acceptors : OfferOf(b)' = OfferOf(b)
  BY <1>1 DEF OfferOf
<1>3. \A b \in Acceptors : OfferOf(b) # NoPipe => OfferOf(b) \in Pipes \ {p}
  BY <1>1, OfferFacts
<1>4. Offers' = Offers /\ ArrivedOffers' = ArrivedOffers
  BY <1>1, <1>2, <1>3, SameOffers DEF Arrived
<1>5. HandoffOf!EndSession(p)
  BY <1>1, <1>4 DEF HandoffOf!EndSession
<1> QED
  BY <1>5 DEF Maps, HandoffOf!Next

(* A destroyed acceptor gives up its offer, if it had one.                 *)
LEMMA DestroyRefines ==
  ASSUME IInv, NEW a \in Acceptors, Destroy(a)
  PROVE  Maps
<1>1. /\ owned' = owned /\ hPipe' = hPipe /\ hPipe[a] = NoPipe
      /\ holder' = [holder EXCEPT ![a] = NoPipe]
  BY DEF Destroy, IInv, AcceptorInv, Waiting
<1>2. \A b \in Acceptors : OfferOf(b)' = IF b = a THEN NoPipe ELSE OfferOf(b)
  BY <1>1 DEF OfferOf, IInv, TypeOK
<1>3. OfferOf(a) = holder[a]
  BY <1>1 DEF OfferOf
<1>4. CASE holder[a] = NoPipe
  <2>1. instance' = instance
    BY <1>4 DEF Destroy
  <2> QED
    BY <1>1, <1>2, <1>3, <1>4, <2>1, SameOffers DEF Maps, Arrived
<1>5. CASE holder[a] # NoPipe
  <2>1. \A q \in Pipes \ {holder[a]} : instance'[q] = instance[q]
    BY <1>5 DEF Destroy, CloseServerEnd, IInv, TypeOK, KernelTypeOK
  <2>2. Offers' = [Offers EXCEPT ![a] = NoPipe]
    BY <1>2 DEF Offers
  <2>3. \A b \in Acceptors \ {a} : OfferOf(b) # NoPipe =>
          OfferOf(b) # OfferOf(a) /\ instance'[OfferOf(b)] = instance[OfferOf(b)]
    BY <1>3, <1>5, <2>1, OfferFacts
  <2>4. ArrivedOffers' = ArrivedOffers \ {OfferOf(a)}
    BY <1>2, <1>3, <1>5, <2>3 DEF ArrivedOffers
  <2>5. HandoffOf!GiveUp(a)
    BY <1>1, <1>3, <1>5, <2>2, <2>4 DEF HandoffOf!GiveUp, Offers
  <2> QED
    BY <2>5 DEF Maps, HandoffOf!Next
<1> QED
  BY <1>4, <1>5

(* A listening instance is on offer; a client that opens it arrives.       *)
LEMMA ClientConnectsRefines ==
  ASSUME IInv, NEW p \in Pipes, ClientConnects(p)
  PROVE  Maps
<1>1. /\ owned' = owned /\ hPipe' = hPipe /\ holder' = holder
      /\ instance[p] = "listening" /\ instance' = [instance EXCEPT ![p] = "connected"]
  BY DEF ClientConnects, CreateFile, acceptVars
<1>2. \A b \in Acceptors : OfferOf(b)' = OfferOf(b)
  BY <1>1 DEF OfferOf
<1>3. PICK a \in Acceptors : a \in Holders(p)
  <2>1. Holders(p) # {}
    BY <1>1 DEF IInv, PipeInv, Leaked, ServerOpen, Arrived
  <2> QED
    BY <2>1 DEF Holders
<1>4. p = OfferOf(a) /\ p # NoPipe
  <2>1. AcceptorInv(a) /\ pc[a] \in Step /\ p \in {hPipe[a], holder[a]}
    BY <1>3 DEF IInv, TypeOK, Holders
  <2> QED
    BY <2>1, NoPipeAssumption DEF OfferOf, AcceptorInv, Idle, Created, Connecting, Finishing,
         Waiting, Accepting, Step
<1>5. Offers' = Offers
  BY <1>2 DEF Offers
<1>6. \A q \in Pipes : instance'[q] = IF q = p THEN "connected" ELSE instance[q]
  BY <1>1 DEF IInv, TypeOK, KernelTypeOK
<1>7. ArrivedOffers' = ArrivedOffers \cup {p}
  BY <1>2, <1>4, <1>6, OfferFacts DEF ArrivedOffers
<1>8. HandoffOf!Arrive(p)
  BY <1>1, <1>4, <1>5, <1>7 DEF HandoffOf!Arrive, HandoffOf!Offered, Offers, ArrivedOffers
<1> QED
  BY <1>8 DEF Maps, HandoffOf!Next

(* A client that leaves has arrived before, and its arrival stays known.   *)
LEMMA ClientLeavesRefines ==
  ASSUME IInv, NEW p \in Pipes, ClientLeaves(p)
  PROVE  Maps
<1>1. /\ owned' = owned /\ hPipe' = hPipe /\ holder' = holder /\ ClientOpen(p)
      /\ instance' = [instance EXCEPT ![p] = IF @ = "connected" THEN "closing" ELSE "free"]
  BY DEF ClientLeaves, CloseClientEnd, acceptVars
<1>2. \A b \in Acceptors : OfferOf(b)' = OfferOf(b)
  BY <1>1 DEF OfferOf
<1>3. \A q \in Pipes : ServerOpen(q) =>
        (instance'[q] \in {"connected", "closing"} <=> Arrived(q))
  BY <1>1 DEF IInv, TypeOK, KernelTypeOK, ServerOpen, ClientOpen, Arrived
<1> QED
  BY <1>1, <1>2, <1>3, OfferFacts, SameOffers DEF Maps

-----------------------------------------------------------------------------
(* Every step of the accept path is a step of Handoff or a stutter.        *)
LEMMA NextRefines == IInv /\ [Next]_vars => [HandoffOf!Next]_(HandoffOf!vars)
<1> SUFFICES ASSUME IInv, [Next]_vars PROVE Maps
  BY DEF Maps, HandoffOf!vars
<1>1. ASSUME NEW a \in Acceptors, Start(a) \/ Operation(a) \/ AcceptHandler(a) \/ Destroy(a)
      PROVE  Maps
  BY <1>1, KeepsOfferRefines, CreateInstanceRefines, FinishRefines, AcceptHandlerRefines,
     DestroyRefines DEF Operation
<1>2. ASSUME NEW p \in Pipes,
             (\E end \in {"gone", "shut"} : Drop(p, end)) \/ ClientConnects(p) \/ ClientLeaves(p)
      PROVE  Maps
  BY <1>2, DropRefines, ClientConnectsRefines, ClientLeavesRefines
<1>3. CASE UNCHANGED vars
  BY <1>3 DEF vars, kernelVars, acceptVars, Maps, Offers, OfferOf, ArrivedOffers
<1> QED
  BY <1>1, <1>2, <1>3 DEF Next

(* The accept loops hand every arrived pipe to one session, once, and hand *)
(* over no other pipe.                                                     *)
THEOREM Refinement == Spec => HandoffSpec
  BY InitRefines, NextRefines, Invariance, PTL DEF Spec, HandoffSpec, HandoffOf!Spec
=============================================================================
