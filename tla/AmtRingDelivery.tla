-------------------------- MODULE AmtRingDelivery --------------------------
(***************************************************************************)
(* Proofs that the AMT ring loses no event, for any finite set of threads, *)
(* any ring size and any number of claims: it implements the bounded       *)
(* buffer of EventBuffer, and when the monitor thread has stopped every    *)
(* MPI call has its row or is counted as dropped.                          *)
(***************************************************************************)
EXTENDS AmtRingProofs, FiniteSetTheorems

(* The threads whose step is in T.                                         *)
At(f, T) == {p \in Producers : f[p] \in T}

(* The calls that have begun and have no ticket and no scratch entry yet.  *)
Undecided == {"tail", "cas", "drop"}
Counted == claims = head + dropped + Cardinality(At(pc, Undecided))

(* A ticket of the window is visible or in the hands of its claimer: no    *)
(* slot that the monitor thread will never get past.                       *)
Visible ==
  \A k \in tail..(head - 1) :
    states[Slot(k)] = "ACTIVE" \/ \E p \in Producers : pc[p] \in Claiming /\ h[p] = k

(* Every ticket that was consumed left one row.                            *)
OneRowEach == Len(out) = tail + IF mon = "free" THEN 1 ELSE 0

(* The order of the shutdown: the calls end, then the monitor thread is    *)
(* told, then it drains by force until nothing is left.                    *)
Closing ==
  /\ ~run_thread => \A p \in Producers : pc[p] = "idle"
  /\ force => ~run_thread
  /\ mon = "stopped" => force /\ tail = head

Delivery == Counted /\ Visible /\ OneRowEach /\ Closing

-----------------------------------------------------------------------------
(* How the number of threads in T changes when thread p moves.             *)
Changes(f, g, p, T) ==
  /\ Cardinality(At(f, T)) \in Nat /\ Cardinality(At(g, T)) \in Nat
  /\ (g[p] \in T) = (f[p] \in T) => Cardinality(At(g, T)) = Cardinality(At(f, T))
  /\ g[p] \in T /\ f[p] \notin T => Cardinality(At(g, T)) = Cardinality(At(f, T)) + 1
  /\ g[p] \notin T /\ f[p] \in T => Cardinality(At(g, T)) = Cardinality(At(f, T)) - 1

(* When one thread moves, a count of threads changes by that thread only.  *)
LEMMA CountMoves ==
  ASSUME NEW f, NEW g, NEW p \in Producers, NEW T,
         \A q \in Producers \ {p} : g[q] = f[q]
  PROVE  Changes(f, g, p, T)
<1>1. IsFiniteSet(At(f, T)) /\ IsFiniteSet(At(g, T))
  BY FiniteProducers, FS_Subset DEF At
<1>2. Cardinality(At(f, T)) \in Nat /\ Cardinality(At(g, T)) \in Nat
  BY <1>1, FS_CardinalityType
<1>3. ASSUME (g[p] \in T) = (f[p] \in T) PROVE At(g, T) = At(f, T)
  BY <1>3 DEF At
<1>4. ASSUME g[p] \in T, f[p] \notin T
      PROVE  Cardinality(At(g, T)) = Cardinality(At(f, T)) + 1
  <2>1. p \notin At(f, T) /\ At(g, T) = At(f, T) \cup {p} BY <1>4 DEF At
  <2> QED BY <1>1, <2>1, FS_AddElement
<1>5. ASSUME g[p] \notin T, f[p] \in T
      PROVE  Cardinality(At(g, T)) = Cardinality(At(f, T)) - 1
  <2>1. p \in At(f, T) /\ At(g, T) = At(f, T) \ {p} BY <1>5 DEF At
  <2> QED BY <1>1, <2>1, FS_RemoveElement
<1> QED BY <1>2, <1>3, <1>4, <1>5 DEF Changes

(* No thread is there: the count is 0.                                     *)
LEMMA CountNone ==
  ASSUME NEW f, NEW T, \A p \in Producers : f[p] \notin T
  PROVE  Cardinality(At(f, T)) = 0
<1>1. At(f, T) = {} BY DEF At
<1> QED BY <1>1, FS_EmptySet

(* A step of an MPI thread moves that thread only.                         *)
LEMMA ProduceMoves ==
  ASSUME TypeOK, NEW p \in Producers, Produce(p)
  PROVE  \A q \in Producers \ {p} : pc'[q] = pc[q] /\ h'[q] = h[q]
<1> USE DEF TypeOK
<1>1. \E l : pc' = [pc EXCEPT ![p] = l]
  BY Zenon DEF Produce, LoadHead, LoadTail, Drop, TakeTicket, ResetSlot,
     Activate, InitEntry, WriteEnd, ReturnEarly, Return, Goto
<1>2. UNCHANGED h \/ \E n : h' = [h EXCEPT ![p] = n]
  BY Zenon DEF Produce, LoadHead, LoadTail, Drop, TakeTicket, ResetSlot,
     Activate, InitEntry, WriteEnd, ReturnEarly, Return
<1> QED BY <1>1, <1>2

-----------------------------------------------------------------------------
(* A step of the bounded buffer, or none, under the refinement mapping.    *)
AbstractStep == [Buffer!Next]_<<head, tail, dropped + Cardinality(Dropping)>>

(* The steps of an MPI thread: a refusal is decided by the load of tail,   *)
(* an acceptance by the compare-and-swap; the others are no abstract step. *)
LEMMA ProduceRefines ==
  ASSUME RingInv, NEW p \in Producers, Produce(p)
  PROVE  AbstractStep
<1>1. /\ head \in Nat /\ tail \in Nat /\ dropped \in Nat /\ h[p] \in Nat
      /\ pc \in [Producers -> Pcs] /\ Size \in Nat \ {0}
      /\ head - tail <= Size
      /\ pc[p] \in {"tail", "cas"} => h[p] <= head
      /\ pc[p] = "cas" => h[p] - tail < Size
  BY SizeAssumption DEF RingInv, TypeOK, Window, Copies
<1>2. \A q \in Producers \ {p} : pc'[q] = pc[q]
  BY ProduceMoves DEF RingInv
<1>3. Changes(pc, pc', p, {"drop"}) BY <1>2, CountMoves, Zenon
<1>4. /\ Cardinality(Dropping) \in Nat /\ Cardinality(Dropping') \in Nat
      /\ (pc'[p] = "drop") = (pc[p] = "drop") => Cardinality(Dropping') = Cardinality(Dropping)
      /\ pc'[p] = "drop" /\ pc[p] # "drop" => Cardinality(Dropping') = Cardinality(Dropping) + 1
      /\ pc'[p] # "drop" /\ pc[p] = "drop" => Cardinality(Dropping') = Cardinality(Dropping) - 1
  <2>1. Dropping = At(pc, {"drop"}) /\ Dropping' = At(pc', {"drop"})
    BY DEF Dropping, At
  <2> QED BY <1>3, <2>1 DEF Changes
<1>5. ASSUME UNCHANGED <<head, tail, dropped>>, pc[p] # "drop", pc'[p] # "drop"
      PROVE  AbstractStep
  BY <1>4, <1>5 DEF AbstractStep
<1>6. CASE LoadTail(p)
  <2>1. UNCHANGED <<head, tail, dropped>> /\ pc[p] = "tail"
        /\ pc'[p] = IF h[p] - tail >= Size THEN "drop" ELSE "cas"
    BY <1>1, <1>6 DEF LoadTail, Goto, ringVars
  <2>2. CASE h[p] - tail >= Size
    <3>1. head - tail = Size BY <1>1, <2>1, <2>2
    <3>2. (dropped + Cardinality(Dropping))' = (dropped + Cardinality(Dropping)) + 1
      BY <1>1, <1>4, <2>1, <2>2
    <3> QED BY <2>1, <3>1, <3>2 DEF AbstractStep, Buffer!Next, Buffer!Refuse
  <2>3. CASE ~(h[p] - tail >= Size) BY <1>5, <2>1, <2>3
  <2> QED BY <2>2, <2>3
<1>7. CASE Drop(p)
  <2>1. /\ UNCHANGED <<head, tail>> /\ dropped' = dropped + 1
        /\ pc[p] = "drop" /\ pc'[p] = "claimed"
    BY <1>1, <1>7 DEF Drop, Goto
  <2> QED BY <1>1, <1>4, <2>1 DEF AbstractStep
<1>8. CASE TakeTicket(p)
  <2>1. UNCHANGED <<tail, dropped>> /\ pc[p] = "cas" /\ pc'[p] \in {"reset", "tail"}
    BY <1>1, <1>8 DEF TakeTicket, Goto
  <2>2. CASE head = h[p] /\ head' = head + 1
    <3>1. head - tail < Size BY <1>1, <2>1, <2>2
    <3>2. UNCHANGED (dropped + Cardinality(Dropping)) BY <1>4, <2>1
    <3> QED BY <2>1, <2>2, <3>1, <3>2 DEF AbstractStep, Buffer!Next, Buffer!Accept
  <2>3. CASE UNCHANGED head BY <1>5, <2>1, <2>3
  <2> QED BY <1>8, <2>2, <2>3 DEF TakeTicket
<1>9. CASE LoadHead(p) BY <1>1, <1>5, <1>9 DEF LoadHead, Goto, ringVars
<1>10. CASE ResetSlot(p) BY <1>1, <1>5, <1>10 DEF ResetSlot, Goto
<1>11. CASE Activate(p) BY <1>1, <1>5, <1>11 DEF Activate, Goto
<1>12. CASE InitEntry(p)
  <2>1. UNCHANGED <<head, tail, dropped>> /\ pc[p] = "claimed" /\ Goto(p, "own")
    BY <1>12, Zenon DEF InitEntry
  <2> QED BY <1>1, <1>5, <2>1 DEF Goto
<1>13. CASE WriteEnd(p)
  <2>1. /\ UNCHANGED <<head, tail, dropped>> /\ pc[p] \in {"own", "tv_nsec"}
        /\ Goto(p, "tv_nsec") \/ Goto(p, "idle")
    BY <1>13, Zenon DEF WriteEnd, Return
  <2> QED BY <1>1, <1>5, <2>1 DEF Goto
<1>14. CASE ReturnEarly(p) BY <1>1, <1>5, <1>14 DEF ReturnEarly, Return, Goto, ringVars
<1> QED BY <1>6, <1>7, <1>8, <1>9, <1>10, <1>11, <1>12, <1>13, <1>14 DEF Produce

(* The only abstract step of the monitor thread is FreeSlot.               *)
LEMMA DrainRefines ==
  ASSUME RingInv, Drain
  PROVE  AbstractStep
<1>1. UNCHANGED <<head, dropped, pc>>
  BY Zenon DEF Drain, Peek, Inspect, CheckFinishing, TryAbandon, Emit, FreeSlot,
     Shutdown, Stop, ringVars, prodVars
<1>2. UNCHANGED (dropped + Cardinality(Dropping)) BY <1>1 DEF Dropping
<1>3. CASE FreeSlot
  <2>1. tail' = tail + 1 /\ tail < head BY <1>3 DEF FreeSlot, RingInv, InHand
  <2> QED BY <1>1, <1>2, <2>1 DEF AbstractStep, Buffer!Next, Buffer!Consume
<1>4. CASE ~FreeSlot
  <2>1. UNCHANGED tail
    BY <1>4, Zenon DEF Drain, Peek, Inspect, CheckFinishing, TryAbandon, Emit,
       Shutdown, Stop, ringVars
  <2> QED BY <1>1, <1>2, <2>1 DEF AbstractStep
<1> QED BY <1>3, <1>4

(* For every finite set of threads, ring size and number of claims, the    *)
(* ring of edumpi_amt_ring_claim and edumpi_amt_ring_drain implements the  *)
(* bounded buffer: it takes an event or, only when it is full, refuses and *)
(* counts it, and never holds more than its capacity.                      *)
THEOREM RingImplementsBuffer == Spec => ImplementsBuffer
<1>1. Init => Buffer!Init
  <2> SUFFICES ASSUME Init PROVE Buffer!Init OBVIOUS
  <2>1. Dropping = {} BY DEF Init, Dropping
  <2>2. dropped + Cardinality(Dropping) = 0 BY <2>1, FS_EmptySet DEF Init
  <2> QED BY <2>2 DEF Init, Buffer!Init
<1>2. RingInv /\ [Next]_vars => [Buffer!Next]_Buffer!bufferVars
  <2> SUFFICES ASSUME RingInv, [Next]_vars PROVE AbstractStep
    BY DEF AbstractStep, Buffer!bufferVars
  <2>1. ASSUME UNCHANGED <<head, tail, dropped, pc>> PROVE AbstractStep
    BY <2>1 DEF AbstractStep, Dropping
  <2>2. ASSUME NEW p \in Producers, Produce(p) PROVE AbstractStep
    BY <2>2, ProduceRefines
  <2>3. ASSUME NEW i \in Index, PmlStore(i) PROVE AbstractStep
    <3>1. UNCHANGED <<head, tail, dropped, pc>> BY <2>3, Zenon DEF PmlStore, prodVars
    <3> QED BY <2>1, <3>1
  <2>4. CASE Finalize BY <2>1, <2>4 DEF Finalize, ringVars, prodVars
  <2>5. CASE Drain BY <2>5, DrainRefines
  <2>6. CASE UNCHANGED vars BY <2>1, <2>6 DEF vars, ringVars, prodVars
  <2> QED BY <2>2, <2>3, <2>4, <2>5, <2>6 DEF Next, Terminated
<1> QED BY <1>1, <1>2, Invariance, PTL DEF Spec, ImplementsBuffer, Buffer!Spec

-----------------------------------------------------------------------------
(* Delivery, action by action.                                             *)
LEMMA InitDelivery == Init => Delivery
<1> SUFFICES ASSUME Init PROVE Delivery OBVIOUS
<1>1. Cardinality(At(pc, Undecided)) = 0
  BY CountNone DEF Init, Undecided
<1>2. Counted BY <1>1 DEF Init, Counted
<1>3. Visible BY DEF Init, Visible
<1>4. OneRowEach /\ Closing BY DEF Init, OneRowEach, Closing
<1> QED BY <1>2, <1>3, <1>4 DEF Delivery

(* A call is counted once: when its claim ends it has a ticket or is in    *)
(* dropped, however often the compare-and-swap failed.                     *)
LEMMA ProduceCounted ==
  ASSUME TypeOK, Counted, NEW p \in Producers, Produce(p)
  PROVE  Counted'
<1>1. /\ head \in Nat /\ dropped \in Nat /\ claims \in Nat
      /\ pc \in [Producers -> Pcs]
  BY DEF TypeOK
<1>2. Changes(pc, pc', p, Undecided) BY ProduceMoves, CountMoves, Zenon
<1>3. ASSUME UNCHANGED <<head, dropped, claims>>,
             (pc'[p] \in Undecided) = (pc[p] \in Undecided)
      PROVE  Counted'
  BY <1>2, <1>3 DEF Counted, Changes
<1> USE DEF Undecided, Goto, ringVars
<1>4. CASE LoadHead(p)
  <2>1. /\ UNCHANGED <<head, dropped>> /\ claims' = claims + 1
        /\ pc[p] \notin Undecided /\ pc'[p] \in Undecided
    BY <1>1, <1>4 DEF LoadHead
  <2> QED BY <1>1, <1>2, <2>1 DEF Counted, Changes
<1>5. CASE LoadTail(p) BY <1>1, <1>3, <1>5 DEF LoadTail
<1>6. CASE Drop(p)
  <2>1. /\ UNCHANGED <<head, claims>> /\ dropped' = dropped + 1
        /\ pc[p] \in Undecided /\ pc'[p] \notin Undecided
    BY <1>1, <1>6 DEF Drop
  <2> QED BY <1>1, <1>2, <2>1 DEF Counted, Changes
<1>7. CASE TakeTicket(p)
  <2>1. UNCHANGED <<dropped, claims>> /\ pc[p] \in Undecided BY <1>7 DEF TakeTicket
  <2>2. CASE head' = head + 1 /\ Goto(p, "reset")
    <3>1. pc'[p] \notin Undecided BY <1>1, <2>2
    <3> QED BY <1>1, <1>2, <2>1, <2>2, <3>1 DEF Counted, Changes
  <2>3. CASE UNCHANGED head /\ Goto(p, "tail") BY <1>1, <1>3, <2>1, <2>3
  <2> QED BY <1>7, <2>2, <2>3 DEF TakeTicket
<1>8. CASE ResetSlot(p) BY <1>1, <1>3, <1>8 DEF ResetSlot
<1>9. CASE Activate(p) BY <1>1, <1>3, <1>9 DEF Activate
<1>10. CASE InitEntry(p)
  <2>1. UNCHANGED <<head, dropped, claims>> /\ pc[p] = "claimed" /\ Goto(p, "own")
    BY <1>10, Zenon DEF InitEntry
  <2> QED BY <1>1, <1>3, <2>1
<1>11. CASE WriteEnd(p)
  <2>1. /\ UNCHANGED <<head, dropped, claims>> /\ pc[p] \in {"own", "tv_nsec"}
        /\ Goto(p, "tv_nsec") \/ Goto(p, "idle")
    BY <1>11, Zenon DEF WriteEnd, Return
  <2> QED BY <1>1, <1>3, <2>1
<1>12. CASE ReturnEarly(p) BY <1>1, <1>3, <1>12 DEF ReturnEarly, Return
<1> QED BY <1>4, <1>5, <1>6, <1>7, <1>8, <1>9, <1>10, <1>11, <1>12 DEF Produce

(* A ticket that is taken is in its claimer's hands until the slot is      *)
(* ACTIVE, and nothing but FreeSlot takes that back.                       *)
LEMMA ProduceVisible ==
  ASSUME TypeOK, Shape, Visible, NEW p \in Producers, Produce(p)
  PROVE  Visible'
<1>1. /\ head \in Nat /\ tail \in Nat /\ h \in [Producers -> Nat]
      /\ pc \in [Producers -> Pcs] /\ states \in [Index -> {"FREE", "ACTIVE"}]
  BY DEF TypeOK
<1>2. \A q \in Producers \ {p} : pc'[q] = pc[q] /\ h'[q] = h[q] BY ProduceMoves
<1>3. UNCHANGED tail
  BY Zenon DEF Produce, LoadHead, LoadTail, Drop, TakeTicket, ResetSlot, Activate,
     InitEntry, WriteEnd, ReturnEarly, ringVars
<1>4. ASSUME UNCHANGED <<head, states>>,
             pc[p] \notin Claiming \/ (pc'[p] \in Claiming /\ h'[p] = h[p])
      PROVE  Visible'
  <2> SUFFICES ASSUME NEW k \in tail..(head - 1)
               PROVE  states[Slot(k)] = "ACTIVE"
                      \/ \E q \in Producers : pc'[q] \in Claiming /\ h'[q] = k
    BY <1>3, <1>4 DEF Visible
  <2>1. CASE states[Slot(k)] = "ACTIVE" BY <2>1
  <2>2. CASE \E q \in Producers : pc[q] \in Claiming /\ h[q] = k
    <3>1. PICK q \in Producers : pc[q] \in Claiming /\ h[q] = k BY <2>2
    <3>2. pc'[q] \in Claiming /\ h'[q] = k BY <1>2, <1>4, <3>1
    <3> QED BY <3>2
  <2> QED BY <2>1, <2>2 DEF Visible
<1> USE DEF Claiming, Goto, ringVars
<1>5. CASE LoadHead(p) BY <1>4, <1>5 DEF LoadHead
<1>6. CASE LoadTail(p) BY <1>4, <1>6 DEF LoadTail
<1>7. CASE Drop(p) BY <1>4, <1>7 DEF Drop
<1>8. CASE TakeTicket(p)
  <2>1. UNCHANGED states /\ pc[p] = "cas" BY <1>8 DEF TakeTicket
  <2>2. CASE head = h[p] /\ head' = head + 1 /\ Goto(p, "reset") /\ UNCHANGED h
    <3> SUFFICES ASSUME NEW k \in tail..head
                 PROVE  states[Slot(k)] = "ACTIVE"
                        \/ \E q \in Producers : pc'[q] \in Claiming /\ h[q] = k
      BY <1>1, <1>3, <2>1, <2>2 DEF Visible
    <3>1. CASE k = head
      <4>1. pc'[p] \in Claiming /\ h[p] = k BY <1>1, <2>2, <3>1
      <4> QED BY <4>1
    <3>2. CASE k # head
      <4>1. k \in tail..(head - 1) BY <1>1, <3>2
      <4>2. CASE states[Slot(k)] = "ACTIVE" BY <4>2
      <4>3. CASE \E q \in Producers : pc[q] \in Claiming /\ h[q] = k
        <5>1. PICK q \in Producers : pc[q] \in Claiming /\ h[q] = k BY <4>3
        <5>2. pc'[q] \in Claiming BY <1>2, <2>1, <5>1
        <5> QED BY <5>1, <5>2
      <4> QED BY <4>1, <4>2, <4>3 DEF Visible
    <3> QED BY <3>1, <3>2
  <2>3. CASE UNCHANGED head BY <1>4, <2>1, <2>3
  <2> QED BY <1>8, <2>2, <2>3 DEF TakeTicket
<1>9. CASE ResetSlot(p) BY <1>1, <1>4, <1>9 DEF ResetSlot
<1>10. CASE Activate(p)
  <2>1. /\ UNCHANGED <<head, h>> /\ states' = [states EXCEPT ![Slot(h[p])] = "ACTIVE"]
    BY <1>10 DEF Activate
  <2> SUFFICES ASSUME NEW k \in tail..(head - 1)
               PROVE  states'[Slot(k)] = "ACTIVE"
                      \/ \E q \in Producers : pc'[q] \in Claiming /\ h[q] = k
    BY <1>3, <2>1 DEF Visible
  <2>2. Slot(k) \in Index BY <1>1, SlotType
  <2>3. CASE states[Slot(k)] = "ACTIVE" \/ k = h[p] BY <1>1, <2>1, <2>2, <2>3
  <2>4. CASE k # h[p] /\ \E q \in Producers : pc[q] \in Claiming /\ h[q] = k
    <3>1. PICK q \in Producers : pc[q] \in Claiming /\ h[q] = k BY <2>4
    <3>2. pc'[q] \in Claiming BY <1>2, <2>4, <3>1
    <3> QED BY <3>1, <3>2
  <2> QED BY <2>3, <2>4 DEF Visible
<1>11. CASE InitEntry(p)
  <2>1. UNCHANGED <<head, states>> /\ pc[p] = "claimed" BY <1>11, Zenon DEF InitEntry
  <2> QED BY <1>4, <2>1
<1>12. CASE WriteEnd(p)
  <2>1. UNCHANGED <<head, states>> /\ pc[p] \in {"own", "tv_nsec"}
    BY <1>12, Zenon DEF WriteEnd
  <2> QED BY <1>4, <2>1
<1>13. CASE ReturnEarly(p) BY <1>4, <1>13 DEF ReturnEarly
<1> QED BY <1>5, <1>6, <1>7, <1>8, <1>9, <1>10, <1>11, <1>12, <1>13 DEF Produce

(* A step of an MPI thread keeps all of Delivery; none is taken after      *)
(* MPI_Finalize.                                                           *)
LEMMA ProduceDelivery ==
  ASSUME TypeOK, Shape, Delivery, NEW p \in Producers, Produce(p)
  PROVE  Delivery'
<1>1. Counted' BY ProduceCounted DEF Delivery
<1>2. Visible' BY ProduceVisible DEF Delivery
<1>3. UNCHANGED <<out, mon, force, run_thread, tail>>
  BY Zenon DEF Produce, LoadHead, LoadTail, Drop, TakeTicket, ResetSlot, Activate,
     InitEntry, WriteEnd, ReturnEarly, ringVars, monVars
<1>4. OneRowEach' BY <1>3 DEF Delivery, OneRowEach
<1>5. run_thread
  <2>1. run_thread \/ pc[p] # "idle"
    BY Zenon DEF Produce, LoadTail, Drop, TakeTicket, ResetSlot, Activate,
       InitEntry, WriteEnd, ReturnEarly
  <2> QED BY <2>1 DEF Delivery, Closing
<1>6. Closing' BY <1>3, <1>5 DEF Delivery, Closing
<1> QED BY <1>1, <1>2, <1>4, <1>6 DEF Delivery

(* The monitor thread: one row per ticket, and it stops only when no       *)
(* ticket is left, because after MPI_Finalize every ticket is visible.     *)
LEMMA DrainDelivery ==
  ASSUME TypeOK, Shape, Delivery, Drain
  PROVE  Delivery'
<1>1. /\ head \in Nat /\ tail \in Nat /\ h \in [Producers -> Nat] /\ out \in Seq(Row)
      /\ states \in [Index -> {"FREE", "ACTIVE"}] /\ Size \in Nat \ {0}
      /\ tail <= head /\ head - tail <= Size
  BY SizeAssumption DEF TypeOK, Shape, Window
<1>2. UNCHANGED <<head, dropped, claims, pc, h, run_thread>>
  BY Zenon DEF Drain, Peek, Inspect, CheckFinishing, TryAbandon, Emit, FreeSlot,
     Shutdown, Stop, ringVars, prodVars
<1>3. Counted' BY <1>2 DEF Delivery, Counted
<1>4. ASSUME UNCHANGED <<tail, states>> PROVE Visible'
  BY <1>2, <1>4 DEF Delivery, Visible
<1>5. ASSUME UNCHANGED <<tail, out, force>>, mon # "free", mon' \notin {"free", "stopped"}
      PROVE  OneRowEach' /\ Closing'
  BY <1>2, <1>5 DEF Delivery, OneRowEach, Closing
<1>6. ASSUME NEW reason, NEW open, Dispose(reason, open), UNCHANGED <<tail, force>>,
             mon # "free", mon' = "free"
      PROVE  OneRowEach' /\ Closing'
  <2>1. Len(out') = Len(out) + 1 BY <1>1, <1>6 DEF Dispose
  <2> QED BY <1>1, <1>2, <1>6, <2>1 DEF Delivery, OneRowEach, Closing
<1>7. CASE Peek
  <2>1. UNCHANGED <<tail, states, out, force>> /\ mon = "peek" /\ mon' = "inspect"
    BY <1>7 DEF Peek, ringVars
  <2> QED BY <1>3, <1>4, <1>5, <2>1 DEF Delivery
<1>8. ASSUME NEW elapsed \in BOOLEAN, Inspect(elapsed) PROVE Delivery'
  <2>1. /\ UNCHANGED <<tail, states, out, force>> /\ mon = "inspect"
        /\ mon' \in {"emit", "lifecycle", "peek"}
    BY <1>8 DEF Inspect, Take, Break, ringVars
  <2> QED BY <1>3, <1>4, <1>5, <2>1 DEF Delivery
<1>9. CASE CheckFinishing
  <2>1. /\ UNCHANGED <<tail, states, out, force>> /\ mon = "lifecycle"
        /\ mon' \in {"abandon", "peek"}
    BY <1>9 DEF CheckFinishing, ringVars
  <2> QED BY <1>3, <1>4, <1>5, <2>1 DEF Delivery
<1>10. CASE TryAbandon(CallOpen)
  <2>1. UNCHANGED <<tail, states, force>> /\ mon = "abandon"
    BY <1>10, Zenon DEF TryAbandon
  <2>2. CASE Dispose("abandoned", CallOpen) /\ mon' = "free"
    BY <1>3, <1>4, <1>6, <2>1, <2>2 DEF Delivery
  <2>3. CASE mon' = "emit" /\ UNCHANGED out
    BY <1>3, <1>4, <1>5, <2>1, <2>3 DEF Delivery
  <2> QED BY <1>10, <2>2, <2>3, Zenon DEF TryAbandon, Take
<1>11. CASE Emit(CallOpen)
  <2>1. /\ UNCHANGED <<tail, states, force>> /\ mon = "emit" /\ mon' = "free"
        /\ Dispose(why, CallOpen)
    BY <1>11 DEF Emit, ringVars
  <2> QED BY <1>3, <1>4, <1>6, <2>1 DEF Delivery
<1>12. CASE FreeSlot
  <2>1. /\ UNCHANGED <<out, force>> /\ mon = "free" /\ mon' = "peek" /\ tail' = tail + 1
        /\ states' = [states EXCEPT ![Slot(tail)] = "FREE"]
    BY <1>12 DEF FreeSlot
  <2>2. OneRowEach' /\ Closing' BY <1>1, <1>2, <2>1 DEF Delivery, OneRowEach, Closing
  <2>3. ASSUME NEW k \in (tail + 1)..(head - 1)
        PROVE  states'[Slot(k)] = "ACTIVE"
               \/ \E p \in Producers : pc[p] \in Claiming /\ h[p] = k
    <3>1. k \in Nat /\ k \in tail..(head - 1) /\ Slot(k) # Slot(tail)
      BY <1>1, SlotDistinct
    <3>2. Slot(k) \in Index BY <3>1, SlotType
    <3>3. states'[Slot(k)] = states[Slot(k)] BY <1>1, <2>1, <3>1, <3>2
    <3> QED BY <3>1, <3>3 DEF Delivery, Visible
  <2>4. Visible' BY <1>2, <2>1, <2>3 DEF Visible
  <2> QED BY <1>3, <2>2, <2>4 DEF Delivery
<1>13. CASE Shutdown
  <2>1. UNCHANGED <<tail, states, out, mon>> /\ mon = "peek" /\ ~run_thread /\ force'
    BY <1>13 DEF Shutdown, ringVars
  <2>2. OneRowEach' /\ Closing' BY <1>2, <2>1 DEF Delivery, OneRowEach, Closing
  <2> QED BY <1>3, <1>4, <2>1, <2>2 DEF Delivery
<1>14. CASE Stop
  <2>1. /\ UNCHANGED <<tail, states, out, force>> /\ mon = "peek" /\ mon' = "stopped"
        /\ force /\ ~Peekable
    BY <1>14 DEF Stop, ringVars
  <2>2. \A p \in Producers : pc[p] = "idle" BY <2>1 DEF Delivery, Closing
  <2>3. tail = head
    <3> SUFFICES ASSUME tail < head PROVE FALSE BY <1>1
    <3>1. tail \in tail..(head - 1) BY <1>1
    <3>2. states[Slot(tail)] = "ACTIVE"
      BY <2>2, <3>1 DEF Delivery, Visible, Claiming
    <3> QED BY <2>1, <3>2 DEF Peekable
  <2>4. OneRowEach' /\ Closing'
    BY <1>2, <2>1, <2>3 DEF Delivery, OneRowEach, Closing
  <2> QED BY <1>3, <1>4, <2>1, <2>4 DEF Delivery
<1> QED BY <1>7, <1>8, <1>9, <1>10, <1>11, <1>12, <1>13, <1>14 DEF Drain

(* Delivery is an invariant.                                               *)
LEMMA DeliveryInvariance == Spec => []Delivery
<1>1. Init => Delivery BY InitDelivery
<1>2. RingInv /\ Delivery /\ [Next]_vars => Delivery'
  <2> SUFFICES ASSUME RingInv, Delivery, [Next]_vars PROVE Delivery' OBVIOUS
  <2>1. TypeOK /\ Shape BY DEF RingInv, Shape
  <2>2. ASSUME UNCHANGED <<head, tail, states, dropped, claims, pc, h, mon, force, out>>,
               UNCHANGED run_thread \/ \A p \in Producers : pc[p] = "idle",
               run_thread' => run_thread
        PROVE  Delivery'
    <3>1. Counted' BY <2>2 DEF Delivery, Counted
    <3>2. Visible' BY <2>2 DEF Delivery, Visible
    <3>3. OneRowEach' BY <2>2 DEF Delivery, OneRowEach
    <3>4. Closing' BY <2>2 DEF Delivery, Closing
    <3> QED BY <3>1, <3>2, <3>3, <3>4 DEF Delivery
  <2>3. ASSUME NEW p \in Producers, Produce(p) PROVE Delivery'
    BY <2>1, <2>3, ProduceDelivery
  <2>4. ASSUME NEW i \in Index, PmlStore(i) PROVE Delivery'
    <3>1. /\ UNCHANGED <<head, tail, states, dropped, claims, pc, h, mon, force, out>>
          /\ UNCHANGED run_thread
      BY <2>4, Zenon DEF PmlStore, prodVars, monVars
    <3> QED BY <2>2, <3>1
  <2>5. CASE Finalize BY <2>2, <2>5 DEF Finalize, ringVars, prodVars, monVars
  <2>6. CASE Drain BY <2>1, <2>6, DrainDelivery
  <2>7. CASE UNCHANGED vars BY <2>2, <2>7 DEF vars, ringVars, prodVars, monVars
  <2> QED BY <2>3, <2>4, <2>5, <2>6, <2>7 DEF Next, Terminated
<1> QED BY <1>1, <1>2, Invariance, PTL DEF Spec

(* When the monitor thread has stopped, tail has reached head, and every   *)
(* call of edumpi_amt_ring_claim left one row or was counted as dropped.   *)
THEOREM EveryCallAccounted == Spec => []AllAccounted
<1>1. RingInv /\ Delivery => AllAccounted
  <2> SUFFICES ASSUME RingInv, Delivery, mon = "stopped"
               PROVE  tail = head /\ claims = Len(out) + dropped
    BY DEF AllAccounted
  <2>1. tail = head /\ \A p \in Producers : pc[p] = "idle" BY DEF Delivery, Closing
  <2>2. Cardinality(At(pc, Undecided)) = 0 BY <2>1, CountNone DEF Undecided
  <2>3. head \in Nat /\ tail \in Nat /\ dropped \in Nat BY DEF RingInv, TypeOK
  <2> QED BY <2>1, <2>2, <2>3 DEF Delivery, Counted, OneRowEach
<1> QED BY <1>1, Invariance, DeliveryInvariance, PTL
=============================================================================
