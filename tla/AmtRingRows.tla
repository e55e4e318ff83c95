---------------------------- MODULE AmtRingRows ----------------------------
(***************************************************************************)
(* Proof that the rows of the AMT ring describe the calls they stand for,  *)
(* for any finite set of threads, any ring size and any number of claims.  *)
(* The hard part are the stale pointers: a call whose entry was taken out  *)
(* early goes on writing to the slot, whoever owns it by then.             *)
(***************************************************************************)
EXTENDS AmtRingDelivery

(* The producer has a pointer to a slot of the ring, or is about to.       *)
InRing(p) == pc[p] \in Claiming \/ (pc[p] \in Owning /\ entry[p] # p)

(* The slot of ticket k was never taken from a running call before.        *)
Clean(k) == \A j \in 1..Len(out) : j <= k /\ Slot(j - 1) = Slot(k) => ~out[j].open

(* Pointers belong to tickets, one each; a pointer that outlives the       *)
(* ticket's stay in the ring is known from the row.                        *)
Pointers ==
  /\ \A p \in Producers : pc[p] \in Owning /\ entry[p] # p => entry[p] = Slot(h[p])
  /\ \A p \in Producers : InRing(p) => h[p] < head
  /\ \A p, q \in Producers : p # q /\ InRing(p) /\ InRing(q) => h[p] # h[q]
  /\ \A p \in Producers : InRing(p) /\ h[p] < Len(out) => out[h[p] + 1].open

(* What the slot of a ticket in the window holds, if no stale pointer to   *)
(* it exists: its own call, or no end yet.                                 *)
Content(k) ==
  /\ (\A p \in Producers : InRing(p) => h[p] # k) => slots[Slot(k)].call = k + 1
  /\ \A p \in Producers : InRing(p) /\ h[p] = k =>
       /\ pc[p] \in {"own", "tv_nsec"} => slots[Slot(k)].call = k + 1
       /\ pc[p] \in {"activate", "claimed"} => slots[Slot(k)].end = {}
Contents == \A k \in tail..(head - 1) : Clean(k) => Content(k)

(* The entry the monitor thread is about to write as finished.             *)
AboutToWrite ==
  mon = "emit" /\ why = "ready" /\ Clean(tail) => slots[Slot(tail)].call = tail + 1

(* The rows written so far.                                                *)
Written == \A i \in 1..Len(out) : out[i].why = "ready" /\ Clean(i - 1) => out[i].call = i

RowInv == Pointers /\ Contents /\ AboutToWrite /\ Written

-----------------------------------------------------------------------------
(* What the proofs below use of the types and of the shape of the ring.    *)
LEMMA Facts ==
  ASSUME TypeOK, Shape
  PROVE  /\ head \in Nat /\ tail \in Nat /\ tail <= head /\ head - tail <= Size
         /\ Size \in Nat \ {0}
         /\ h \in [Producers -> Nat] /\ pc \in [Producers -> Pcs]
         /\ entry \in [Producers -> Index \cup Producers]
         /\ slots \in [Index \cup Producers -> Entry]
         /\ out \in Seq(Row) /\ Len(out) \in Nat
         /\ \A i \in Index : i \notin Producers
  BY SizeAssumption, ProducersAssumption DEF TypeOK, Shape, Window, Index

(* A pointer into the slot of a ticket of the window, other than the       *)
(* ticket's own, was left behind by an entry taken from a running call.    *)
LEMMA StalePointer ==
  ASSUME TypeOK, Shape, OneRowEach, Pointers, NEW p \in Producers, InRing(p),
         NEW k \in tail..(head - 1), h[p] # k, Slot(h[p]) = Slot(k)
  PROVE  ~Clean(k)
<1>1. /\ head \in Nat /\ tail \in Nat /\ head - tail <= Size /\ Size \in Nat
      /\ h[p] \in Nat /\ h[p] < head /\ k \in Nat
  BY Facts DEF Pointers
<1>2. h[p] < tail BY <1>1, SlotDistinct
<1>3. h[p] < Len(out) /\ Len(out) \in Nat BY <1>1, <1>2, Facts DEF OneRowEach
<1>4. out[h[p] + 1].open BY <1>3 DEF Pointers
<1>5. /\ h[p] + 1 \in 1..Len(out) /\ h[p] + 1 <= k /\ (h[p] + 1) - 1 = h[p]
  BY <1>1, <1>2, <1>3
<1> QED BY <1>4, <1>5 DEF Clean

(* An MPI thread stores into its scratch entry or the slot of its ticket.  *)
LEMMA StoresWhere ==
  ASSUME TypeOK, Shape, Pointers, NEW p \in Producers, Produce(p)
  PROVE  \A i \in Index : slots'[i] = slots[i] \/ (InRing(p) /\ i = Slot(h[p]))
<1>1. /\ slots \in [Index \cup Producers -> Entry] /\ \A i \in Index : i \notin Producers
  BY Facts
<1>2. ASSUME pc[p] \in Owning, \E e : slots' = [slots EXCEPT ![entry[p]] = e]
      PROVE  \A i \in Index : slots'[i] = slots[i] \/ (InRing(p) /\ i = Slot(h[p]))
  <2>1. CASE entry[p] = p BY <1>1, <1>2, <2>1
  <2>2. CASE entry[p] # p
    <3>1. InRing(p) /\ entry[p] = Slot(h[p]) BY <1>2, <2>2 DEF InRing, Pointers
    <3> QED BY <1>1, <1>2, <3>1
  <2> QED BY <2>1, <2>2
<1>3. CASE Drop(p) BY <1>1, <1>3 DEF Drop
<1>4. CASE ResetSlot(p)
  <2>1. InRing(p) BY <1>4 DEF ResetSlot, InRing, Claiming
  <2> QED BY <1>1, <1>4, <2>1 DEF ResetSlot
<1>5. CASE InitEntry(p)
  <2>1. pc[p] \in Owning BY <1>5, Zenon DEF InitEntry, Owning
  <2>2. \E e : slots' = [slots EXCEPT ![entry[p]] = e] BY <1>5, Zenon DEF InitEntry
  <2> QED BY <1>2, <2>1, <2>2
<1>6. CASE WriteEnd(p)
  <2>1. pc[p] \in Owning BY <1>6, Zenon DEF WriteEnd, Owning
  <2>2. \E e : slots' = [slots EXCEPT ![entry[p]] = e] BY <1>6, Zenon DEF WriteEnd
  <2> QED BY <1>2, <2>1, <2>2
<1>7. CASE UNCHANGED slots BY <1>7
<1>8. \/ Drop(p) \/ ResetSlot(p) \/ InitEntry(p) \/ WriteEnd(p) \/ UNCHANGED slots
  BY Zenon DEF Produce, LoadHead, LoadTail, TakeTicket, Activate, ReturnEarly, ringVars
<1> QED BY <1>3, <1>4, <1>5, <1>6, <1>7, <1>8

(* Nothing reaches the slot of a clean ticket but its own call.            *)
LEMMA SlotKept ==
  ASSUME TypeOK, Shape, OneRowEach, Pointers, NEW p \in Producers, Produce(p),
         NEW k \in tail..(head - 1), Clean(k), ~(InRing(p) /\ h[p] = k)
  PROVE  slots'[Slot(k)] = slots[Slot(k)]
<1>1. k \in Nat BY Facts
<1>2. Slot(k) \in Index BY <1>1, SlotType
<1>3. CASE InRing(p) /\ Slot(k) = Slot(h[p]) BY <1>3, StalePointer
<1> QED BY <1>2, <1>3, StoresWhere

-----------------------------------------------------------------------------
(* The steps of an MPI thread that holds a slot of the ring: what it       *)
(* stores there, and where it goes on.                                     *)
HolderStep(p) ==
  LET old == slots[Slot(h[p])]
      new == slots'[Slot(h[p])]
  IN \/ /\ pc[p] = "reset" /\ pc'[p] = "activate" /\ new.end = {}
     \/ /\ pc[p] = "activate" /\ pc'[p] = "claimed" /\ new = old
        /\ entry'[p] = Slot(h[p])
     \/ /\ pc[p] = "claimed" /\ pc'[p] = "own" /\ new.call = h[p] + 1
        /\ UNCHANGED entry
     \/ /\ pc[p] = "own" /\ pc'[p] = "tv_nsec" /\ new.call = old.call
        /\ UNCHANGED entry
     \/ /\ pc[p] \in {"own", "tv_nsec"} /\ pc'[p] = "idle" /\ new.call = old.call

(* A thread with a slot only takes these steps, and head stays.            *)
LEMMA HolderSteps ==
  ASSUME TypeOK, Shape, Pointers, NEW p \in Producers, Produce(p), InRing(p)
  PROVE  HolderStep(p) /\ UNCHANGED head /\ (pc'[p] # "idle" => h'[p] = h[p])
<1>1. /\ pc \in [Producers -> Pcs] /\ h \in [Producers -> Nat]
      /\ entry \in [Producers -> Index \cup Producers]
      /\ slots \in [Index \cup Producers -> Entry]
      /\ Slot(h[p]) \in Index
  BY Facts, SlotType
<1>2. slots[Slot(h[p])] \in Entry BY <1>1
<1>3. pc[p] \in Owning => entry[p] = Slot(h[p])
  BY DEF InRing, Pointers, Claiming, Owning
<1>4. pc[p] \in Claiming \cup Owning BY DEF InRing
<1>5. CASE ResetSlot(p)
  <2>1. /\ pc[p] = "reset" /\ pc'[p] = "activate" /\ UNCHANGED <<head, h>>
        /\ slots' = [slots EXCEPT ![Slot(h[p])] = Reset(h[p] + 1)]
    BY <1>1, <1>5 DEF ResetSlot, Goto
  <2>2. slots'[Slot(h[p])].end = {} BY <1>1, <2>1 DEF Reset
  <2> QED BY <2>1, <2>2 DEF HolderStep
<1>6. CASE Activate(p)
  <2>1. /\ pc[p] = "activate" /\ pc'[p] = "claimed" /\ UNCHANGED <<head, h, slots>>
        /\ entry'[p] = Slot(h[p])
    BY <1>1, <1>6 DEF Activate, Goto
  <2> QED BY <2>1 DEF HolderStep
<1>7. CASE InitEntry(p)
  <2>1. UNCHANGED <<head, h, entry>> /\ pc[p] = "claimed" /\ Goto(p, "own")
    BY <1>7, Zenon DEF InitEntry
  <2>2. PICK request \in BOOLEAN :
          slots' = [slots EXCEPT ![entry[p]] =
                      [@ EXCEPT !.call = h[p] + 1, !.pending_request = request]]
    BY <1>7, Zenon DEF InitEntry
  <2>3. entry[p] = Slot(h[p]) BY <1>3, <2>1 DEF Owning
  <2>4. slots'[Slot(h[p])] =
          [slots[Slot(h[p])] EXCEPT !.call = h[p] + 1, !.pending_request = request]
    BY <1>1, <2>2, <2>3, Zenon
  <2>5. slots'[Slot(h[p])].call = h[p] + 1 BY <1>2, <2>4, Zenon DEF Entry
  <2>6. pc'[p] = "own" BY <1>1, <2>1 DEF Goto
  <2> QED BY <2>1, <2>5, <2>6 DEF HolderStep
<1>8. CASE WriteEnd(p)
  <2>1. PICK half \in Halves : slots' = [slots EXCEPT ![entry[p]].end = @ \cup {half}]
    BY <1>8, Zenon DEF WriteEnd, Halves
  <2>2. UNCHANGED head /\ pc[p] \in {"own", "tv_nsec"} BY <1>8, Zenon DEF WriteEnd
  <2>3. entry[p] = Slot(h[p]) BY <1>3, <2>2 DEF Owning
  <2>4. slots'[Slot(h[p])].call = slots[Slot(h[p])].call
    <3>1. slots'[Slot(h[p])] = [slots[Slot(h[p])] EXCEPT !.end = @ \cup {half}]
      BY <1>1, <2>1, <2>3, Zenon
    <3> QED BY <1>2, <3>1 DEF Entry
  <2>5. \/ pc[p] = "own" /\ Goto(p, "tv_nsec") /\ UNCHANGED <<h, entry>>
        \/ Goto(p, "idle")
    BY <1>8, Zenon DEF WriteEnd, Return
  <2>6. \/ pc[p] = "own" /\ pc'[p] = "tv_nsec" /\ UNCHANGED <<h, entry>>
        \/ pc'[p] = "idle"
    BY <1>1, <2>5 DEF Goto
  <2> QED BY <2>2, <2>4, <2>6 DEF HolderStep
<1>9. CASE ReturnEarly(p)
  <2>1. UNCHANGED <<head, slots>> /\ pc[p] = "own" /\ pc'[p] = "idle"
    BY <1>1, <1>9 DEF ReturnEarly, Return, Goto, ringVars
  <2> QED BY <2>1 DEF HolderStep
<1>10. ~(LoadHead(p) \/ LoadTail(p) \/ Drop(p) \/ TakeTicket(p))
  BY <1>4 DEF Claiming, Owning, LoadHead, LoadTail, Drop, TakeTicket
<1> QED BY <1>5, <1>6, <1>7, <1>8, <1>9, <1>10 DEF Produce

(* A thread without a slot gets one only from its compare-and-swap.        *)
LEMMA NewHolder ==
  ASSUME TypeOK, Shape, NEW p \in Producers, Produce(p), ~InRing(p)
  PROVE  \/ ~InRing(p)' /\ UNCHANGED head
         \/ pc'[p] = "reset" /\ h'[p] = head /\ head' = head + 1
<1>1. /\ pc \in [Producers -> Pcs] /\ h \in [Producers -> Nat]
      /\ entry \in [Producers -> Index \cup Producers]
  BY Facts
<1> USE DEF InRing, Claiming, Owning, Goto, ringVars
<1>2. CASE LoadHead(p) BY <1>1, <1>2 DEF LoadHead
<1>3. CASE LoadTail(p) BY <1>1, <1>3 DEF LoadTail
<1>4. CASE Drop(p) BY <1>1, <1>4 DEF Drop
<1>5. CASE TakeTicket(p) BY <1>1, <1>5 DEF TakeTicket
<1>6. CASE InitEntry(p)
  <2>1. UNCHANGED <<head, entry>> /\ pc[p] = "claimed" /\ Goto(p, "own")
    BY <1>6, Zenon DEF InitEntry
  <2> QED BY <1>1, <2>1
<1>7. CASE WriteEnd(p)
  <2>1. /\ UNCHANGED head /\ pc[p] \in {"own", "tv_nsec"}
        /\ Goto(p, "idle") \/ (Goto(p, "tv_nsec") /\ UNCHANGED entry)
    BY <1>7, Zenon DEF WriteEnd, Return
  <2> QED BY <1>1, <2>1
<1>8. CASE ReturnEarly(p) BY <1>1, <1>8 DEF ReturnEarly, Return
<1>9. ~(ResetSlot(p) \/ Activate(p)) BY DEF ResetSlot, Activate
<1> QED BY <1>2, <1>3, <1>4, <1>5, <1>6, <1>7, <1>8, <1>9 DEF Produce

-----------------------------------------------------------------------------
(* An empty ring has no rows and no pointers into it.                      *)
LEMMA InitRows == Init => RowInv
<1> SUFFICES ASSUME Init PROVE RowInv OBVIOUS
<1>1. \A p \in Producers : ~InRing(p) /\ pc[p] \notin Owning
  BY DEF Init, InRing, Claiming, Owning
<1>2. Pointers BY <1>1 DEF Pointers
<1>3. Contents BY DEF Init, Contents
<1>4. AboutToWrite /\ Written BY DEF Init, AboutToWrite, Written
<1> QED BY <1>2, <1>3, <1>4 DEF RowInv

(* A step of an MPI thread keeps pointers and tickets together.            *)
LEMMA ProducePointers ==
  ASSUME TypeOK, Shape, OneRowEach, InHand, Pointers, NEW p \in Producers, Produce(p),
         UNCHANGED out
  PROVE  Pointers'
<1>1. /\ pc \in [Producers -> Pcs] /\ h \in [Producers -> Nat] /\ head \in Nat
      /\ tail \in Nat /\ tail <= head /\ Len(out) \in Nat
  BY Facts
<1>2. \A q \in Producers \ {p} : pc'[q] = pc[q] /\ h'[q] = h[q] BY ProduceMoves
<1>3. \A q \in Producers \ {p} : entry'[q] = entry[q]
  <2>1. UNCHANGED entry \/ \E e : entry' = [entry EXCEPT ![p] = e]
    BY Zenon DEF Produce, LoadHead, LoadTail, Drop, TakeTicket, ResetSlot, Activate,
       InitEntry, WriteEnd, ReturnEarly, Return
  <2>2. entry \in [Producers -> Index \cup Producers] BY Facts
  <2> QED BY <2>1, <2>2
<1>4. \A q \in Producers \ {p} : InRing(q)' = InRing(q) BY <1>2, <1>3 DEF InRing
<1>5. Len(out) <= head BY <1>1 DEF OneRowEach, InHand
<1>6. \/ ~InRing(p)' /\ UNCHANGED head
      \/ InRing(p) /\ h'[p] = h[p] /\ UNCHANGED head
      \/ h'[p] = head /\ head' = head + 1
  <2>1. CASE InRing(p)
    <3>1. HolderStep(p) /\ UNCHANGED head /\ (pc'[p] # "idle" => h'[p] = h[p])
      BY <2>1, HolderSteps
    <3>2. pc'[p] = "idle" => ~InRing(p)' BY DEF InRing, Claiming, Owning
    <3> QED BY <2>1, <3>1, <3>2
  <2>2. CASE ~InRing(p) BY <2>2, NewHolder
  <2> QED BY <2>1, <2>2
<1>7. pc'[p] \in Owning /\ entry'[p] # p => entry'[p] = Slot(h'[p])
  <2>1. CASE InRing(p)
    <3>1. HolderStep(p) /\ (pc'[p] # "idle" => h'[p] = h[p]) BY <2>1, HolderSteps
    <3>2. pc[p] \in Owning => entry[p] = Slot(h[p])
      BY <2>1 DEF InRing, Pointers, Claiming, Owning
    <3> QED BY <3>1, <3>2 DEF HolderStep, Owning
  <2>2. CASE ~InRing(p)
    <3>1. ~InRing(p)' \/ pc'[p] = "reset" BY <2>2, NewHolder
    <3> QED BY <3>1 DEF InRing, Owning
  <2> QED BY <2>1, <2>2
<1>8. \A q \in Producers : pc'[q] \in Owning /\ entry'[q] # q => entry'[q] = Slot(h'[q])
  BY <1>2, <1>3, <1>7 DEF Pointers
<1>9. \A q \in Producers : InRing(q)' => h'[q] < head'
  BY <1>1, <1>2, <1>4, <1>6 DEF Pointers
<1>10. \A q, r \in Producers : q # r /\ InRing(q)' /\ InRing(r)' => h'[q] # h'[r]
  <2>1. ASSUME NEW q \in Producers \ {p}, InRing(q), InRing(p)' PROVE h[q] # h'[p]
    <3>1. h[q] < head /\ h[q] \in Nat BY <1>1, <2>1 DEF Pointers
    <3>2. CASE h'[p] = head BY <1>1, <3>1, <3>2
    <3>3. CASE InRing(p) /\ h'[p] = h[p] BY <2>1, <3>3 DEF Pointers
    <3> QED BY <1>6, <2>1, <3>2, <3>3
  <2>2. ASSUME NEW q \in Producers, NEW r \in Producers, q # r, InRing(q)', InRing(r)'
        PROVE  h'[q] # h'[r]
    <3>1. CASE q # p /\ r # p BY <1>2, <1>4, <2>2, <3>1 DEF Pointers
    <3>2. CASE q = p BY <1>2, <1>4, <2>1, <2>2, <3>2
    <3>3. CASE r = p BY <1>2, <1>4, <2>1, <2>2, <3>3
    <3> QED BY <3>1, <3>2, <3>3
  <2> QED BY <2>2
<1>11. \A q \in Producers : InRing(q)' /\ h'[q] < Len(out) => out[h'[q] + 1].open
  BY <1>1, <1>2, <1>4, <1>5, <1>6 DEF Pointers
<1> QED BY <1>8, <1>9, <1>10, <1>11 DEF Pointers

(* A step of an MPI thread keeps what the slots of clean tickets hold.     *)
LEMMA ProduceContents ==
  ASSUME TypeOK, Shape, OneRowEach, Pointers, Contents, NEW p \in Producers, Produce(p),
         UNCHANGED <<out, tail>>
  PROVE  Contents'
<1>1. /\ pc \in [Producers -> Pcs] /\ h \in [Producers -> Nat] /\ head \in Nat
      /\ tail \in Nat /\ tail <= head
  BY Facts
<1>2. \A q \in Producers \ {p} : pc'[q] = pc[q] /\ h'[q] = h[q] BY ProduceMoves
<1>3. \A q \in Producers \ {p} : InRing(q)' = InRing(q)
  <2>1. UNCHANGED entry \/ \E e : entry' = [entry EXCEPT ![p] = e]
    BY Zenon DEF Produce, LoadHead, LoadTail, Drop, TakeTicket, ResetSlot, Activate,
       InitEntry, WriteEnd, ReturnEarly, Return
  <2>2. entry \in [Producers -> Index \cup Producers] BY Facts
  <2> QED BY <1>2, <2>1, <2>2 DEF InRing
<1>4. \A k : Clean(k)' = Clean(k) BY DEF Clean
<1>5. ASSUME NEW k \in tail..(head - 1), Clean(k), ~(InRing(p) /\ h[p] = k),
             ~(InRing(p)' /\ h'[p] = k)
      PROVE  Content(k)'
  <2>1. slots'[Slot(k)] = slots[Slot(k)] BY <1>5, SlotKept
  <2>2. Content(k) BY <1>5 DEF Contents
  <2>3. \A q \in Producers : (InRing(q)' /\ h'[q] = k) => q # p /\ InRing(q) /\ h[q] = k
    BY <1>2, <1>3, <1>5
  <2>4. \A q \in Producers : (InRing(q) /\ h[q] = k) => q # p /\ InRing(q)' /\ h'[q] = k
    BY <1>2, <1>3, <1>5
  <2>5. (\A q \in Producers : InRing(q)' => h'[q] # k) => slots'[Slot(k)].call = k + 1
    BY <2>1, <2>2, <2>4 DEF Content
  <2>6. \A q \in Producers : InRing(q)' /\ h'[q] = k =>
          /\ pc'[q] \in {"own", "tv_nsec"} => slots'[Slot(k)].call = k + 1
          /\ pc'[q] \in {"activate", "claimed"} => slots'[Slot(k)].end = {}
    BY <1>2, <2>1, <2>2, <2>3 DEF Content
  <2> QED BY <2>5, <2>6 DEF Content
<1>6. ASSUME NEW k \in tail..(head - 1), Clean(k), InRing(p), h[p] = k
      PROVE  Content(k)'
  <2>1. HolderStep(p) /\ (pc'[p] # "idle" => h'[p] = h[p]) BY <1>6, HolderSteps
  <2>2. Content(k) BY <1>6 DEF Contents
  <2>3. \A q \in Producers \ {p} : InRing(q)' => h'[q] # k
    BY <1>2, <1>3, <1>6 DEF Pointers
  <2>4. /\ pc'[p] \in {"own", "tv_nsec", "idle"} => slots'[Slot(k)].call = k + 1
        /\ pc'[p] \in {"activate", "claimed"} => slots'[Slot(k)].end = {}
    BY <1>6, <2>1, <2>2 DEF HolderStep, Content
  <2>5. (\A q \in Producers : InRing(q)' => h'[q] # k) => slots'[Slot(k)].call = k + 1
    <3>1. CASE pc'[p] = "idle" BY <2>4, <3>1
    <3>2. CASE pc'[p] # "idle"
      <4>1. InRing(p)'
        <5>1. Slot(h[p]) # p BY <1>1, SlotType, Facts
        <5>2. pc[p] \in Owning => entry[p] # p BY <1>6 DEF InRing, Claiming, Owning
        <5> QED BY <2>1, <3>2, <5>1, <5>2 DEF HolderStep, InRing, Claiming, Owning
      <4> QED BY <1>6, <2>1, <3>2, <4>1
    <3> QED BY <3>1, <3>2
  <2>6. \A q \in Producers : InRing(q)' /\ h'[q] = k =>
          /\ pc'[q] \in {"own", "tv_nsec"} => slots'[Slot(k)].call = k + 1
          /\ pc'[q] \in {"activate", "claimed"} => slots'[Slot(k)].end = {}
    BY <2>3, <2>4
  <2> QED BY <2>5, <2>6 DEF Content
<1>7. CASE InRing(p)
  <2>1. UNCHANGED head /\ HolderStep(p) /\ (pc'[p] # "idle" => h'[p] = h[p])
    BY <1>7, HolderSteps
  <2>2. InRing(p)' => h'[p] = h[p] BY <2>1 DEF InRing, Claiming, Owning
  <2> SUFFICES ASSUME NEW k \in tail..(head - 1), Clean(k) PROVE Content(k)'
    BY <1>4, <2>1 DEF Contents
  <2>3. CASE h[p] = k BY <1>6, <1>7, <2>3
  <2>4. CASE h[p] # k BY <1>5, <2>2, <2>4
  <2> QED BY <2>3, <2>4
<1>8. CASE ~InRing(p)
  <2>1. CASE ~InRing(p)' /\ UNCHANGED head
    <3> SUFFICES ASSUME NEW k \in tail..(head - 1), Clean(k) PROVE Content(k)'
      BY <1>4, <2>1 DEF Contents
    <3> QED BY <1>5, <1>8, <2>1
  <2>2. CASE pc'[p] = "reset" /\ h'[p] = head /\ head' = head + 1
    <3>1. InRing(p)' BY <2>2 DEF InRing, Claiming
    <3> SUFFICES ASSUME NEW k \in tail..head, Clean(k) PROVE Content(k)'
      <4>1. (head + 1) - 1 = head BY <1>1
      <4> QED BY <1>4, <2>2, <4>1 DEF Contents
    <3>2. CASE k = head
      <4>1. \A q \in Producers \ {p} : InRing(q)' => h'[q] # k
        BY <1>1, <1>2, <1>3, <3>2 DEF Pointers
      <4> QED BY <2>2, <3>1, <3>2, <4>1 DEF Content
    <3>3. CASE k # head
      <4>1. k \in tail..(head - 1) BY <1>1, <3>3
      <4> QED BY <1>5, <1>8, <2>2, <3>3, <4>1
    <3> QED BY <3>2, <3>3
  <2> QED BY <1>8, <2>1, <2>2, NewHolder
<1> QED BY <1>7, <1>8

(* A step of an MPI thread keeps RowInv.                                   *)
LEMMA ProduceRows ==
  ASSUME TypeOK, Shape, Delivery, RowInv, NEW p \in Producers, Produce(p)
  PROVE  RowInv'
<1>1. UNCHANGED <<out, mon, why, tail>>
  BY Zenon DEF Produce, LoadHead, LoadTail, Drop, TakeTicket, ResetSlot, Activate,
     InitEntry, WriteEnd, ReturnEarly, ringVars, monVars
<1>2. OneRowEach /\ InHand /\ Owned /\ Pointers /\ Contents
  BY DEF Delivery, Shape, RowInv
<1>3. Pointers' BY <1>1, <1>2, ProducePointers
<1>4. Contents' BY <1>1, <1>2, ProduceContents
<1>5. \A k : Clean(k)' = Clean(k) BY <1>1 DEF Clean
<1>6. Written' BY <1>1, <1>5 DEF RowInv, Written
<1>7. AboutToWrite'
  <2> SUFFICES ASSUME mon = "emit", why = "ready", Clean(tail)
               PROVE  slots'[Slot(tail)].call = tail + 1
    BY <1>1, <1>5 DEF AboutToWrite
  <2>1. slots[Slot(tail)].call = tail + 1 BY DEF RowInv, AboutToWrite
  <2>2. tail < head /\ states[Slot(tail)] = "ACTIVE" BY <1>2 DEF InHand
  <2>3. tail \in tail..(head - 1) BY <2>2, Facts
  <2>4. CASE ~(InRing(p) /\ h[p] = tail) BY <1>2, <2>1, <2>3, <2>4, SlotKept
  <2>5. CASE InRing(p) /\ h[p] = tail
    <3>1. HolderStep(p) BY <1>2, <2>5, HolderSteps
    <3>2. pc[p] \notin Claiming BY <1>2, <2>2, <2>5 DEF Owned
    <3> QED BY <2>1, <2>5, <3>1, <3>2 DEF HolderStep, Claiming
  <2> QED BY <2>4, <2>5
<1> QED BY <1>3, <1>4, <1>6, <1>7 DEF RowInv

-----------------------------------------------------------------------------
(* Steps that change neither rows nor pointers, and of the entries neither *)
(* the call nor the end stamp; the window may lose its first ticket.       *)
LEMMA QuietRows ==
  ASSUME TypeOK, Shape, RowInv, UNCHANGED <<head, pc, h, entry, out>>,
         tail' \in {tail, tail + 1},
         \A i \in Index : slots'[i].call = slots[i].call /\ slots'[i].end = slots[i].end
  PROVE  Pointers' /\ Contents' /\ Written'
<1>1. \A p \in Producers : InRing(p)' = InRing(p) BY DEF InRing
<1>2. \A k : Clean(k)' = Clean(k) BY DEF Clean
<1>3. Pointers' BY <1>1 DEF RowInv, Pointers
<1>4. Written' BY <1>2 DEF RowInv, Written
<1>5. head \in Nat /\ tail \in Nat BY Facts
<1>6. ASSUME NEW k \in tail'..(head - 1), Clean(k) PROVE Content(k)'
  <2>1. k \in tail..(head - 1) /\ k \in Nat BY <1>5
  <2>2. Slot(k) \in Index BY <2>1, SlotType
  <2>3. Content(k) BY <1>6, <2>1 DEF RowInv, Contents
  <2> QED BY <1>1, <2>2, <2>3 DEF Content
<1>7. Contents' BY <1>2, <1>6 DEF Contents
<1> QED BY <1>3, <1>4, <1>7

(* An entry leaves the ring: the row is open exactly if the call still has *)
(* its pointer, and it is the row of that call if it was ready.            *)
LEMMA DisposeRows ==
  ASSUME TypeOK, Shape, Delivery, RowInv, NEW reason, Dispose(reason, CallOpen),
         UNCHANGED <<head, tail, pc, h, entry>>, mon \notin {"peek", "stopped", "free"},
         reason = "ready" /\ Clean(tail) => slots[Slot(tail)].call = tail + 1,
         \A i \in Index : slots'[i].call = slots[i].call /\ slots'[i].end = slots[i].end
  PROVE  Pointers' /\ Contents' /\ Written'
<1>1. /\ head \in Nat /\ tail \in Nat /\ h \in [Producers -> Nat]
      /\ out \in Seq(Row) /\ tail < head /\ states[Slot(tail)] = "ACTIVE"
      /\ Len(out) = tail
  BY Facts DEF Shape, InHand, Delivery, OneRowEach
<1> DEFINE row == [call |-> slots[Slot(tail)].call, data |-> slots[Slot(tail)].recvDatasize,
                   why |-> reason, open |-> CallOpen]
<1>2. out' = Append(out, row) BY DEF Dispose
<1>3. /\ Len(out') = tail + 1 /\ out'[tail + 1] = row
      /\ \A j \in 1..tail : out'[j] = out[j]
  <2> HIDE DEF row
  <2> QED BY <1>1, <1>2
<1>4. \A p \in Producers : InRing(p)' = InRing(p) BY DEF InRing
<1>5. ASSUME NEW k, Clean(k)' PROVE Clean(k)
  BY <1>1, <1>3, <1>5 DEF Clean
<1>6. Pointers'
  <2>1. ASSUME NEW p \in Producers, InRing(p), h[p] < tail + 1
        PROVE  out'[h[p] + 1].open
    <3>1. CASE h[p] < tail
      <4>1. out[h[p] + 1].open /\ h[p] + 1 \in 1..tail
        BY <1>1, <2>1, <3>1 DEF RowInv, Pointers
      <4> QED BY <1>3, <4>1
    <3>2. CASE h[p] = tail
      <4>1. pc[p] \notin Claiming BY <1>1, <3>2 DEF Shape, Owned
      <4>2. pc[p] \in Owning /\ entry[p] = Slot(tail)
        BY <2>1, <3>2, <4>1 DEF InRing, RowInv, Pointers
      <4>3. CallOpen BY <3>2, <4>2 DEF CallOpen
      <4> QED BY <1>3, <3>2, <4>3
    <3> QED BY <1>1, <2>1, <3>1, <3>2
  <2> QED BY <1>3, <1>4, <2>1 DEF RowInv, Pointers
<1>7. Contents'
  <2>1. ASSUME NEW k \in tail..(head - 1), Clean(k) PROVE Content(k)'
    <3>1. k \in Nat BY <1>1
    <3>2. Slot(k) \in Index BY <3>1, SlotType
    <3>3. Content(k) BY <2>1 DEF RowInv, Contents
    <3> QED BY <1>4, <3>2, <3>3 DEF Content
  <2> QED BY <1>5, <2>1 DEF Contents
<1>8. Written'
  <2> SUFFICES ASSUME NEW i \in 1..(tail + 1), out'[i].why = "ready", Clean(i - 1)'
               PROVE  out'[i].call = i
    BY <1>3 DEF Written
  <2>1. Clean(i - 1) BY <1>5
  <2>2. CASE i = tail + 1
    <3>1. i - 1 = tail BY <1>1, <2>2
    <3>2. row.why = "ready" BY <1>3, <2>2
    <3>3. reason = "ready" BY <3>2
    <3>4. slots[Slot(tail)].call = tail + 1 BY <2>1, <3>1, <3>3
    <3>5. row.call = tail + 1 BY <3>4
    <3> QED BY <1>3, <2>2, <3>5
  <2>3. CASE i \in 1..tail BY <1>1, <1>3, <2>1, <2>3 DEF RowInv, Written
  <2> QED BY <1>1, <2>2, <2>3
<1> QED BY <1>6, <1>7, <1>8

(* The entry that is found finished is the one of the call of the ticket:  *)
(* in the shutdown because no call is left, before because it has an end.  *)
LEMMA ReadyEntry ==
  ASSUME TypeOK, Shape, Delivery, RowInv, mon = "inspect", Clean(tail),
         force \/ entry_complete(slots[Slot(tail)])
  PROVE  slots[Slot(tail)].call = tail + 1
<1>1. tail < head /\ states[Slot(tail)] = "ACTIVE" BY DEF Shape, InHand
<1>2. tail \in tail..(head - 1) BY <1>1, Facts
<1>3. Content(tail) BY <1>2 DEF RowInv, Contents
<1>4. CASE \E p \in Producers : InRing(p) /\ h[p] = tail
  <2>1. PICK p \in Producers : InRing(p) /\ h[p] = tail BY <1>4
  <2>2. pc[p] \notin Claiming BY <1>1, <2>1 DEF Shape, Owned
  <2>3. pc[p] \in Owning BY <2>1, <2>2 DEF InRing
  <2>4. ~force BY <2>3 DEF Delivery, Closing, Owning
  <2>5. slots[Slot(tail)].end # {} BY <2>4 DEF entry_complete
  <2> QED BY <1>3, <2>1, <2>3, <2>5 DEF Content, Owning
<1>5. CASE ~\E p \in Producers : InRing(p) /\ h[p] = tail BY <1>3, <1>5 DEF Content
<1> QED BY <1>4, <1>5

(* A step of the monitor thread keeps RowInv.                              *)
LEMMA DrainRows ==
  ASSUME TypeOK, Shape, Delivery, RowInv, Drain
  PROVE  RowInv'
<1>1. UNCHANGED <<head, pc, h, entry>>
  BY Zenon DEF Drain, Peek, Inspect, CheckFinishing, TryAbandon, Emit, FreeSlot,
     Shutdown, Stop, ringVars, prodVars
<1>2. tail \in Nat /\ slots \in [Index \cup Producers -> Entry] BY Facts
<1>3. ASSUME UNCHANGED <<slots, out>>, tail' \in {tail, tail + 1},
             mon' # "emit" \/ why' # "ready"
      PROVE  RowInv'
  <2>1. Pointers' /\ Contents' /\ Written' BY <1>1, <1>3, QuietRows
  <2> QED BY <1>3, <2>1 DEF RowInv, AboutToWrite
<1>4. CASE Peek BY <1>3, <1>4 DEF Peek, ringVars
<1>5. ASSUME NEW elapsed \in BOOLEAN, Inspect(elapsed) PROVE RowInv'
  <2>1. UNCHANGED <<slots, out, tail>> /\ mon = "inspect"
    BY <1>5 DEF Inspect, ringVars
  <2>2. CASE mon' # "emit" \/ why' # "ready" BY <1>3, <2>1, <2>2
  <2>3. CASE mon' = "emit" /\ why' = "ready"
    <3>1. force \/ entry_complete(slots[Slot(tail)])
      BY <1>5, <2>3 DEF Inspect, Take, Break
    <3>2. Clean(tail) => slots[Slot(tail)].call = tail + 1 BY <2>1, <3>1, ReadyEntry
    <3>3. Clean(tail)' = Clean(tail) BY <2>1 DEF Clean
    <3>4. AboutToWrite' BY <2>1, <3>2, <3>3 DEF AboutToWrite
    <3>5. Pointers' /\ Contents' /\ Written' BY <1>1, <2>1, QuietRows
    <3> QED BY <3>4, <3>5 DEF RowInv
  <2> QED BY <2>2, <2>3
<1>6. CASE CheckFinishing
  <2>1. UNCHANGED <<slots, out, tail>> /\ mon' # "emit" BY <1>6 DEF CheckFinishing, ringVars
  <2> QED BY <1>3, <2>1
<1>7. CASE TryAbandon(CallOpen)
  <2>1. UNCHANGED tail /\ mon = "abandon" BY <1>7, Zenon DEF TryAbandon
  <2>2. CASE /\ slots' = [slots EXCEPT ![Slot(tail)].lifecycle.state = "ABANDONED"]
             /\ Dispose("abandoned", CallOpen) /\ mon' = "free"
    <3>1. \A i \in Index : slots'[i].call = slots[i].call /\ slots'[i].end = slots[i].end
      BY <1>2, <2>2, SlotType DEF Entry
    <3>2. Pointers' /\ Contents' /\ Written'
      <4>1. mon \notin {"peek", "stopped", "free"} BY <2>1
      <4>2. "abandoned" = "ready" /\ Clean(tail) => slots[Slot(tail)].call = tail + 1
        OBVIOUS
      <4> QED BY <1>1, <2>1, <2>2, <3>1, <4>1, <4>2, DisposeRows, Zenon
    <3> QED BY <2>2, <3>2 DEF RowInv, AboutToWrite
  <2>3. CASE Take("timeout") /\ UNCHANGED <<slots, out>>
    <3>1. why' # "ready" BY <2>3 DEF Take
    <3> QED BY <1>3, <2>1, <2>3, <3>1
  <2> QED BY <1>7, <2>2, <2>3, Zenon DEF TryAbandon
<1>8. CASE Emit(CallOpen)
  <2>1. /\ UNCHANGED <<slots, tail>> /\ mon = "emit" /\ mon' = "free"
        /\ Dispose(why, CallOpen)
    BY <1>8 DEF Emit, ringVars
  <2>2. mon \notin {"peek", "stopped", "free"} BY <2>1
  <2>3. why = "ready" /\ Clean(tail) => slots[Slot(tail)].call = tail + 1
    BY <2>1 DEF RowInv, AboutToWrite
  <2>4. \A i \in Index : slots'[i].call = slots[i].call /\ slots'[i].end = slots[i].end
    BY <2>1
  <2>5. Pointers' /\ Contents' /\ Written'
    BY <1>1, <2>1, <2>2, <2>3, <2>4, DisposeRows, Zenon
  <2> QED BY <2>1, <2>5 DEF RowInv, AboutToWrite
<1>9. CASE FreeSlot
  <2>1. UNCHANGED <<slots, out>> /\ tail' = tail + 1 /\ mon' = "peek" BY <1>9 DEF FreeSlot
  <2> QED BY <1>3, <2>1
<1>10. CASE Shutdown
  <2>1. UNCHANGED <<slots, out, tail, mon>> /\ mon = "peek" BY <1>10 DEF Shutdown, ringVars
  <2> QED BY <1>3, <2>1
<1>11. CASE Stop
  <2>1. UNCHANGED <<slots, out, tail>> /\ mon' = "stopped" BY <1>11 DEF Stop, ringVars
  <2> QED BY <1>3, <2>1
<1> QED BY <1>4, <1>5, <1>6, <1>7, <1>8, <1>9, <1>10, <1>11 DEF Drain

-----------------------------------------------------------------------------
(* Rows leave edumpi_amt_ring_drain in the order of the tickets, one for   *)
(* each, and a row that was finished describes the call that claimed the   *)
(* ticket, unless an earlier entry of the slot was taken from a running    *)
(* call: for every number of threads, ring size and number of claims.      *)
THEOREM RowsAreTheirCalls == Spec => []RowsInClaimOrder
<1>1. Init => RowInv BY InitRows
<1>2. RingInv /\ Delivery /\ RowInv /\ [Next]_vars => RowInv'
  <2> SUFFICES ASSUME RingInv, Delivery, RowInv, [Next]_vars PROVE RowInv' OBVIOUS
  <2>1. TypeOK /\ Shape BY DEF RingInv, Shape
  <2>2. ASSUME UNCHANGED <<head, tail, pc, h, entry, out, mon, why>>,
               \A i \in Index : slots'[i].call = slots[i].call /\ slots'[i].end = slots[i].end
        PROVE  RowInv'
    <3>1. Pointers' /\ Contents' /\ Written' BY <2>1, <2>2, QuietRows
    <3>2. Slot(tail) \in Index BY <2>1, SlotType, Facts
    <3>3. Clean(tail)' = Clean(tail) BY <2>2 DEF Clean
    <3>4. AboutToWrite' BY <2>2, <3>2, <3>3 DEF RowInv, AboutToWrite
    <3> QED BY <3>1, <3>4 DEF RowInv
  <2>3. ASSUME NEW p \in Producers, Produce(p) PROVE RowInv'
    BY <2>1, <2>3, ProduceRows
  <2>4. ASSUME NEW i \in Index, PmlStore(i) PROVE RowInv'
    <3>1. UNCHANGED <<head, tail, pc, h, entry, out, mon, why>>
      BY <2>4, Zenon DEF PmlStore, prodVars, monVars
    <3>2. slots \in [Index \cup Producers -> Entry] BY <2>1, Facts
    <3>3. \/ slots' = [slots EXCEPT ![i].lifecycle.state = "PENDING"]
          \/ slots' = [slots EXCEPT ![i].lifecycle.state = "FINISHING"]
          \/ slots' = [slots EXCEPT ![i].request_done = TRUE]
      BY <2>4, Zenon DEF PmlStore
    <3>4. \A j \in Index : slots'[j].call = slots[j].call /\ slots'[j].end = slots[j].end
      BY <3>2, <3>3 DEF Entry
    <3> QED BY <2>2, <3>1, <3>4
  <2>5. CASE Finalize BY <2>2, <2>5 DEF Finalize, ringVars, prodVars, monVars
  <2>6. CASE Drain BY <2>1, <2>6, DrainRows
  <2>7. CASE UNCHANGED vars BY <2>2, <2>7 DEF vars, ringVars, prodVars, monVars
  <2> QED BY <2>3, <2>4, <2>5, <2>6, <2>7 DEF Next, Terminated
<1>3. RingInv /\ Delivery /\ RowInv => RowsInClaimOrder
  <2> SUFFICES ASSUME RingInv, Delivery, RowInv PROVE RowsInClaimOrder OBVIOUS
  <2>1. Len(out) = tail + IF mon = "free" THEN 1 ELSE 0 BY DEF Delivery, OneRowEach
  <2>2. Len(out) \in Nat BY DEF RingInv, TypeOK
  <2>3. ASSUME NEW i \in 1..Len(out), out[i].why = "ready",
               \A j \in 1..(i - 1) : Slot(j - 1) = Slot(i - 1) => ~out[j].open
        PROVE  out[i].call = i
    <3>1. Clean(i - 1) BY <2>2, <2>3 DEF Clean
    <3> QED BY <2>3, <3>1 DEF RowInv, Written
  <2> QED BY <2>1, <2>3 DEF RowsInClaimOrder
<1> QED BY <1>1, <1>2, <1>3, Invariance, DeliveryInvariance, PTL DEF Spec
=============================================================================
