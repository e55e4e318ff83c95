--------------------------- MODULE AmtRingProofs ---------------------------
(***************************************************************************)
(* Proofs about the AMT ring, for any number of threads, any ring size and *)
(* any number of claims.  RingInv is the inductive invariant: where head,  *)
(* tail, the tickets in the hands of the producers and the slot states are *)
(* relative to each other.                                                 *)
(***************************************************************************)
EXTENDS AmtRing, ModTheorems

(* The tickets in flight are a window [tail, head) no wider than the ring. *)
Window == tail <= head /\ head - tail <= Size

(* A producer's copy of head is never ahead of head, and a producer about  *)
(* to take its ticket saw room for it.                                     *)
Copies ==
  \A p \in Producers :
    /\ pc[p] \in {"tail", "cas"} => h[p] <= head
    /\ pc[p] = "cas" => h[p] - tail < Size

(* A producer in the middle of a claim owns a ticket of the window that no *)
(* other such producer has, and its slot is not yet visible.               *)
Owned ==
  /\ \A p \in Producers : pc[p] \in Claiming =>
       tail <= h[p] /\ h[p] < head /\ states[Slot(h[p])] = "FREE"
  /\ \A p, q \in Producers :
       p # q /\ pc[p] \in Claiming /\ pc[q] \in Claiming => h[p] # h[q]

(* The slots outside of the window are free.                               *)
FreeOutside == \A k \in head..(tail + Size - 1) : states[Slot(k)] = "FREE"

(* The monitor thread works on a visible slot of the window.               *)
InHand == mon \notin {"peek", "stopped"} => tail < head /\ states[Slot(tail)] = "ACTIVE"

RingInv == TypeOK /\ Window /\ Copies /\ Owned /\ FreeOutside /\ InHand

-----------------------------------------------------------------------------
(* Every ticket has a slot.                                                *)
LEMMA SlotType == \A n \in Nat : Slot(n) \in Index
  BY SizeAssumption, DivMod DEF Slot, Index

(* The slots of two tickets less than a ring apart differ.                 *)
LEMMA SlotDistinct ==
  \A a, b \in Nat : a # b /\ a - b < Size /\ b - a < Size => Slot(a) # Slot(b)
<1> SUFFICES ASSUME NEW a \in Nat, NEW b \in Nat, a # b, a - b < Size, b - a < Size
             PROVE  Slot(a) # Slot(b)
  OBVIOUS
<1>1. CASE a < b BY <1>1, SizeAssumption, ModDistinct, Zenon DEF Slot
<1>2. CASE b < a BY <1>2, SizeAssumption, ModDistinct, Zenon DEF Slot
<1> QED BY <1>1, <1>2

(* The slot the monitor thread frees is the slot of the ticket that thereby*)
(* becomes available.                                                      *)
LEMMA SlotPeriod == \A n \in Nat : Slot(n + Size) = Slot(n)
  BY SizeAssumption, ModPeriod, Zenon DEF Slot

(* A reset entry is an entry.                                              *)
LEMMA ResetType == \A t \in Nat : Reset(t) \in Entry
  BY DEF Reset, Entry, LC, LCStates, Halves

(* What the wrappers, the PML and the monitor thread store in an entry.    *)
LEMMA EntryUpdates ==
  ASSUME NEW e \in Entry
  PROVE  /\ \A n \in Nat, b \in BOOLEAN : [e EXCEPT !.call = n, !.pending_request = b] \in Entry
         /\ \A half \in Halves : [e EXCEPT !.end = @ \cup {half}] \in Entry
         /\ \A s \in LCStates : [e EXCEPT !.lifecycle.state = s] \in Entry
         /\ [e EXCEPT !.request_done = TRUE] \in Entry
<1>1. ASSUME NEW s \in LCStates PROVE [e EXCEPT !.lifecycle.state = s] \in Entry
  BY DEF Entry
<1>2. [e EXCEPT !.request_done = TRUE] \in Entry BY Zenon DEF Entry
<1>3. ASSUME NEW n \in Nat, NEW b \in BOOLEAN
      PROVE  [e EXCEPT !.call = n, !.pending_request = b] \in Entry
  BY Zenon DEF Entry
<1>4. ASSUME NEW half \in Halves PROVE [e EXCEPT !.end = @ \cup {half}] \in Entry
  BY DEF Entry
<1> QED BY <1>1, <1>2, <1>3, <1>4, Zenon

(* Storing an entry keeps the entries well typed.                          *)
LEMMA StoreType ==
  ASSUME TypeOK, NEW i \in Index \cup Producers, NEW e \in Entry,
         slots' = [slots EXCEPT ![i] = e]
  PROVE  slots' \in [Index \cup Producers -> Entry]
  BY DEF TypeOK

-----------------------------------------------------------------------------
(* Type correctness, action by action.                                     *)
LEMMA InitType == Init => TypeOK
<1> SUFFICES ASSUME Init PROVE TypeOK OBVIOUS
<1>1. slots \in [Index \cup Producers -> Entry] BY ResetType DEF Init
<1>2. out \in Seq(Row) BY DEF Init
<1> QED BY <1>1, <1>2, Zenon DEF Init, TypeOK, Pcs, Reasons

(* A step of an MPI thread (the claim, and the wrapper around it) keeps    *)
(* the types.                                                              *)
LEMMA ProduceType ==
  ASSUME TypeOK, NEW p \in Producers, Produce(p)
  PROVE  TypeOK'
<1> USE DEF TypeOK, Pcs, Claiming, Owning, Halves, Goto, ringVars, prodVars, monVars
<1>1. CASE LoadHead(p) BY <1>1 DEF LoadHead
<1>2. CASE LoadTail(p) BY <1>2 DEF LoadTail
<1>3. CASE Drop(p)
  <2>1. slots' \in [Index \cup Producers -> Entry] BY <1>3, ResetType DEF Drop
  <2> QED BY <1>3, <2>1 DEF Drop
<1>4. CASE TakeTicket(p)
  <2>1. CASE head' = head + 1 /\ Goto(p, "reset") /\ UNCHANGED h
    BY <1>4, <2>1 DEF TakeTicket
  <2>2. CASE h' = [h EXCEPT ![p] = head] /\ Goto(p, "tail") /\ UNCHANGED head
    BY <1>4, <2>2 DEF TakeTicket
  <2> QED BY <1>4, <2>1, <2>2 DEF TakeTicket
<1>5. CASE ResetSlot(p)
  <2>1. Reset(h[p] + 1) \in Entry BY ResetType
  <2>2. slots' \in [Index \cup Producers -> Entry] BY <1>5, <2>1, Zenon DEF ResetSlot
  <2> QED BY <1>5, <2>2 DEF ResetSlot
<1>6. CASE Activate(p)
  <2>1. Slot(h[p]) \in Index BY SlotType
  <2> QED BY <1>6, <2>1 DEF Activate
<1>7. CASE InitEntry(p)
  <2>1. PICK request \in BOOLEAN :
          slots' = [slots EXCEPT ![entry[p]] =
                      [@ EXCEPT !.call = h[p] + 1, !.pending_request = request]]
    BY <1>7, Zenon DEF InitEntry
  <2>2. slots' \in [Index \cup Producers -> Entry]
    <3>1. slots[entry[p]] \in Entry /\ h[p] + 1 \in Nat /\ entry[p] \in Index \cup Producers
      OBVIOUS
    <3>2. [slots[entry[p]] EXCEPT !.call = h[p] + 1, !.pending_request = request] \in Entry
      BY <3>1, EntryUpdates, Zenon
    <3> QED BY <2>1, <3>1, <3>2, StoreType
  <2> QED BY <1>7, <2>2 DEF InitEntry
<1>8. CASE WriteEnd(p)
  <2>1. PICK half \in Halves : slots' = [slots EXCEPT ![entry[p]].end = @ \cup {half}]
    BY <1>8, Zenon DEF WriteEnd, Halves
  <2>2. slots' \in [Index \cup Producers -> Entry]
    <3>1. slots[entry[p]] \in Entry /\ entry[p] \in Index \cup Producers OBVIOUS
    <3>2. [slots[entry[p]] EXCEPT !.end = @ \cup {half}] \in Entry BY <3>1, EntryUpdates, Zenon
    <3> QED BY <2>1, <3>1, <3>2, StoreType
  <2>3. Return(p) \/ (Goto(p, "tv_nsec") /\ UNCHANGED <<h, entry>>)
    BY <1>8, Zenon DEF WriteEnd
  <2>4. /\ pc' \in [Producers -> Pcs] /\ h' \in [Producers -> Nat]
        /\ entry' \in [Producers -> Index \cup Producers]
        /\ \A q \in Producers : entry'[q] \in Index \cup {q}
    <3>1. CASE Return(p) BY <3>1 DEF Return
    <3>2. CASE Goto(p, "tv_nsec") /\ UNCHANGED <<h, entry>> BY <3>2
    <3> QED BY <2>3, <3>1, <3>2
  <2> QED BY <1>8, <2>2, <2>4 DEF WriteEnd
<1>9. CASE ReturnEarly(p) BY <1>9 DEF ReturnEarly, Return
<1> QED BY <1>1, <1>2, <1>3, <1>4, <1>5, <1>6, <1>7, <1>8, <1>9 DEF Produce

(* What a PML stores into the entry of a pending request keeps the types.  *)
LEMMA PmlType ==
  ASSUME TypeOK, NEW i \in Index, PmlStore(i)
  PROVE  TypeOK'
<1>1. slots' \in [Index \cup Producers -> Entry]
  <2>1. slots \in [Index \cup Producers -> Entry] /\ slots[i] \in Entry BY DEF TypeOK
  <2>2. ASSUME NEW e \in Entry, slots' = [slots EXCEPT ![i] = e]
        PROVE  slots' \in [Index \cup Producers -> Entry]
    BY <2>1, <2>2
  <2>3. /\ [slots[i] EXCEPT !.lifecycle.state = "PENDING"] \in Entry
        /\ [slots[i] EXCEPT !.lifecycle.state = "FINISHING"] \in Entry
        /\ [slots[i] EXCEPT !.request_done = TRUE] \in Entry
    BY <2>1, EntryUpdates, Zenon DEF LCStates
  <2>4. \/ slots' = [slots EXCEPT ![i] = [slots[i] EXCEPT !.lifecycle.state = "PENDING"]]
        \/ slots' = [slots EXCEPT ![i] = [slots[i] EXCEPT !.lifecycle.state = "FINISHING"]]
        \/ slots' = [slots EXCEPT ![i] = [slots[i] EXCEPT !.request_done = TRUE]]
    BY Zenon DEF PmlStore
  <2> QED BY <2>2, <2>3, <2>4, Zenon
<1> QED BY <1>1 DEF PmlStore, TypeOK, prodVars, monVars

(* A step of edumpi_amt_ring_drain or of the shutdown keeps the types.     *)
LEMMA DrainType ==
  ASSUME TypeOK, Drain
  PROVE  TypeOK'
<1> USE DEF TypeOK, Reasons, Break, Take, ringVars, prodVars
<1>1. CASE Peek BY <1>1 DEF Peek
<1>2. ASSUME NEW elapsed \in BOOLEAN, Inspect(elapsed) PROVE TypeOK'
  BY <1>2, Zenon DEF Inspect
<1>3. CASE CheckFinishing BY <1>3 DEF CheckFinishing
<1>4. ASSUME NEW reason \in Reasons, NEW open \in BOOLEAN, Dispose(reason, open)
      PROVE  out' \in Seq(Row)
  <2>1. slots[Slot(tail)] \in Entry BY SlotType
  <2>2. [call |-> slots[Slot(tail)].call, data |-> slots[Slot(tail)].recvDatasize,
         why |-> reason, open |-> open] \in Row
    BY <2>1 DEF Row, Entry
  <2> QED BY <1>4, <2>2 DEF Dispose
<1>5. CallOpen \in BOOLEAN BY DEF CallOpen
<1>6. CASE TryAbandon(CallOpen)
  <2>1. CASE Dispose("abandoned", CallOpen) /\
             slots' = [slots EXCEPT ![Slot(tail)].lifecycle.state = "ABANDONED"]
             /\ stalled' = FALSE /\ mon' = "free" /\ UNCHANGED why
    <3>1. out' \in Seq(Row) BY <2>1, <1>4, <1>5
    <3>2. [slots[Slot(tail)] EXCEPT !.lifecycle.state = "ABANDONED"] \in Entry
      BY EntryUpdates, SlotType, Zenon DEF LCStates
    <3>3. slots' \in [Index \cup Producers -> Entry] BY <2>1, <3>2, Zenon
    <3> QED BY <1>6, <2>1, <3>1, <3>3, Zenon DEF TryAbandon
  <2>2. CASE Take("timeout") /\ UNCHANGED <<slots, stalled, out>>
    BY <1>6, <2>2 DEF TryAbandon
  <2> QED BY <1>6, <2>1, <2>2, Zenon DEF TryAbandon
<1>7. CASE Emit(CallOpen)
  <2>1. out' \in Seq(Row) BY <1>4, <1>5, <1>7 DEF Emit
  <2> QED BY <1>7, <2>1, Zenon DEF Emit
<1>8. CASE FreeSlot BY <1>8, SlotType DEF FreeSlot
<1>9. CASE Shutdown BY <1>9 DEF Shutdown
<1>10. CASE Stop BY <1>10 DEF Stop
<1> QED BY <1>1, <1>2, <1>3, <1>6, <1>7, <1>8, <1>9, <1>10, Zenon DEF Drain

(* Every step keeps the types.                                             *)
LEMMA NextType == TypeOK /\ [Next]_vars => TypeOK'
<1> SUFFICES ASSUME TypeOK, [Next]_vars PROVE TypeOK' OBVIOUS
<1>1. ASSUME NEW p \in Producers, Produce(p) PROVE TypeOK' BY <1>1, ProduceType
<1>2. ASSUME NEW i \in Index, PmlStore(i) PROVE TypeOK' BY <1>2, PmlType
<1>3. CASE Finalize BY <1>3, Zenon DEF Finalize, TypeOK, ringVars, prodVars, monVars
<1>4. CASE Drain BY <1>4, DrainType
<1>5. CASE UNCHANGED vars BY <1>5 DEF TypeOK, vars, ringVars, prodVars, monVars
<1> QED BY <1>1, <1>2, <1>3, <1>4, <1>5 DEF Next, Terminated

-----------------------------------------------------------------------------
(* The shape of the ring.                                                  *)
Shape == Window /\ Copies /\ Owned /\ FreeOutside /\ InHand

(* edumpi_amt_ring_init establishes the shape of the ring.                 *)
LEMMA InitShape == Init => Shape
<1> SUFFICES ASSUME Init PROVE Shape OBVIOUS
<1>1. Window /\ Copies /\ Owned /\ InHand
  BY SizeAssumption DEF Init, Window, Copies, Owned, InHand, Claiming
<1>2. FreeOutside
  BY SizeAssumption, SlotType DEF Init, FreeOutside
<1> QED BY <1>1, <1>2 DEF Shape

(* A step that leaves head, tail and the states alone and takes no producer*)
(* into a claim keeps the shape, if the monitor thread picks up nothing.   *)
LEMMA QuietStep ==
  ASSUME TypeOK, Shape, UNCHANGED <<head, tail, states>>,
         NEW p \in Producers,
         pc' \in [Producers -> Pcs],
         \A q \in Producers \ {p} : pc'[q] = pc[q] /\ h'[q] = h[q],
         pc'[p] \notin {"tail", "cas"} \cup Claiming,
         UNCHANGED mon
  PROVE  Shape'
<1>1. Window' /\ FreeOutside' /\ InHand' BY DEF Shape, Window, FreeOutside, InHand
<1>2. Copies' BY DEF Shape, Copies
<1>3. Owned' BY DEF Shape, Owned
<1> QED BY <1>1, <1>2, <1>3 DEF Shape

(* A step of an MPI thread keeps the shape: a ticket is only taken while   *)
(* fewer than Size are out, so its slot is nobody else's.                  *)
LEMMA ProduceShape ==
  ASSUME TypeOK, Shape, NEW p \in Producers, Produce(p)
  PROVE  Shape'
<1>1. /\ head \in Nat /\ tail \in Nat /\ h \in [Producers -> Nat]
      /\ pc \in [Producers -> Pcs] /\ states \in [Index -> {"FREE", "ACTIVE"}]
      /\ Size \in Nat \ {0}
  BY SizeAssumption DEF TypeOK
<1>2. TypeOK' BY ProduceType
<1>3. CASE LoadHead(p)
  <2>1. /\ UNCHANGED <<head, tail, states, mon>>
        /\ pc' = [pc EXCEPT ![p] = "tail"] /\ h' = [h EXCEPT ![p] = head]
    BY <1>3 DEF LoadHead, Goto, ringVars, monVars
  <2>2. Window' /\ FreeOutside' /\ InHand' BY <2>1 DEF Shape, Window, FreeOutside, InHand
  <2>3. Copies' BY <1>1, <2>1 DEF Shape, Copies
  <2>4. Owned' BY <1>1, <2>1 DEF Shape, Owned, Claiming
  <2> QED BY <2>2, <2>3, <2>4 DEF Shape
<1>4. CASE LoadTail(p)
  <2>1. /\ UNCHANGED <<head, tail, states, mon, h>> /\ pc[p] = "tail"
        /\ pc' = [pc EXCEPT ![p] = IF h[p] - tail >= Size THEN "drop" ELSE "cas"]
    BY <1>4 DEF LoadTail, Goto, ringVars, monVars
  <2>2. Window' /\ FreeOutside' /\ InHand' BY <2>1 DEF Shape, Window, FreeOutside, InHand
  <2>3. Copies' BY <1>1, <2>1 DEF Shape, Copies
  <2>4. Owned' BY <1>1, <2>1 DEF Shape, Owned, Claiming
  <2> QED BY <2>2, <2>3, <2>4 DEF Shape
<1>5. CASE Drop(p)
  BY <1>1, <1>2, <1>5, QuietStep DEF Drop, Goto, monVars, TypeOK, Claiming
<1>6. CASE TakeTicket(p)
  <2>1. UNCHANGED <<tail, states, mon>> /\ pc[p] = "cas"
    BY <1>6 DEF TakeTicket, monVars
  <2>2. CASE head # h[p] /\ UNCHANGED head /\ h' = [h EXCEPT ![p] = head] /\ Goto(p, "tail")
    <3>1. pc' = [pc EXCEPT ![p] = "tail"] BY <2>2 DEF Goto
    <3>2. Window' /\ FreeOutside' /\ InHand'
      BY <2>1, <2>2 DEF Shape, Window, FreeOutside, InHand
    <3>3. Copies' BY <1>1, <2>1, <2>2, <3>1 DEF Shape, Copies
    <3>4. Owned' BY <1>1, <2>1, <2>2, <3>1 DEF Shape, Owned, Claiming
    <3> QED BY <3>2, <3>3, <3>4 DEF Shape
  <2>3. CASE head = h[p] /\ head' = head + 1 /\ Goto(p, "reset") /\ UNCHANGED h
    <3>1. pc' = [pc EXCEPT ![p] = "reset"] BY <2>3 DEF Goto
    <3>2. head - tail < Size BY <2>1, <2>3 DEF Shape, Copies
    <3>3. Window' BY <1>1, <2>1, <2>3, <3>2 DEF Shape, Window
    <3>4. FreeOutside' BY <1>1, <2>1, <2>3 DEF Shape, FreeOutside
    <3>5. InHand' BY <1>1, <2>1, <2>3 DEF Shape, InHand
    <3>6. Copies' BY <1>1, <2>1, <2>3, <3>1 DEF Shape, Copies
    <3>7. states[Slot(head)] = "FREE" BY <1>1, <3>2 DEF Shape, FreeOutside
    <3>8. Owned'
      <4>1. \A q \in Producers : pc'[q] \in Claiming =>
              tail <= h[q] /\ h[q] < head + 1 /\ states[Slot(h[q])] = "FREE"
        BY <1>1, <2>3, <3>1, <3>7 DEF Shape, Owned, Window
      <4>2. \A q, r \in Producers :
              q # r /\ pc'[q] \in Claiming /\ pc'[r] \in Claiming => h[q] # h[r]
        BY <1>1, <2>3, <3>1 DEF Shape, Owned
      <4> QED BY <2>1, <2>3, <4>1, <4>2 DEF Owned
    <3> QED BY <3>3, <3>4, <3>5, <3>6, <3>8 DEF Shape
  <2> QED BY <1>6, <2>2, <2>3 DEF TakeTicket
<1>7. CASE ResetSlot(p)
  <2>1. /\ UNCHANGED <<head, tail, states, mon, h>> /\ pc[p] = "reset"
        /\ pc' = [pc EXCEPT ![p] = "activate"]
    BY <1>7 DEF ResetSlot, Goto, monVars
  <2>2. Window' /\ FreeOutside' /\ InHand' BY <2>1 DEF Shape, Window, FreeOutside, InHand
  <2>3. Copies' BY <1>1, <2>1 DEF Shape, Copies
  <2>4. Owned' BY <1>1, <2>1 DEF Shape, Owned, Claiming
  <2> QED BY <2>2, <2>3, <2>4 DEF Shape
<1>8. CASE Activate(p)
  <2>1. /\ UNCHANGED <<head, tail, mon, h>> /\ pc[p] = "activate"
        /\ pc' = [pc EXCEPT ![p] = "claimed"]
        /\ states' = [states EXCEPT ![Slot(h[p])] = "ACTIVE"]
    BY <1>8 DEF Activate, Goto, monVars
  <2>2. tail <= h[p] /\ h[p] < head /\ head - tail <= Size
    BY <2>1 DEF Shape, Owned, Window, Claiming
  <2>3. Window' BY <2>1 DEF Shape, Window
  <2>4. Copies' BY <1>1, <2>1 DEF Shape, Copies
  <2>5. FreeOutside'
    <3>1. ASSUME NEW k \in head..(tail + Size - 1) PROVE states'[Slot(k)] = "FREE"
      <4>1. k \in Nat /\ Slot(k) # Slot(h[p]) BY <1>1, <2>2, SlotDistinct
      <4>2. Slot(k) \in Index BY <4>1, SlotType
      <4>3. states[Slot(k)] = "FREE" BY DEF Shape, FreeOutside
      <4> QED BY <1>1, <2>1, <4>1, <4>2, <4>3
    <3> QED BY <2>1, <3>1 DEF FreeOutside
  <2>6. InHand'
    <3>1. Slot(tail) \in Index /\ Slot(h[p]) \in Index BY <1>1, SlotType
    <3> QED BY <1>1, <2>1, <3>1 DEF Shape, InHand
  <2>7. Owned'
    <3>1. ASSUME NEW q \in Producers, pc'[q] \in Claiming
          PROVE  q # p /\ pc[q] \in Claiming
      BY <1>1, <2>1, <3>1 DEF Claiming
    <3>2. ASSUME NEW q \in Producers, pc'[q] \in Claiming
          PROVE  tail <= h[q] /\ h[q] < head /\ states'[Slot(h[q])] = "FREE"
      <4>1. q # p /\ pc[q] \in Claiming /\ pc[p] \in Claiming
        BY <2>1, <3>1, <3>2 DEF Claiming
      <4>2. /\ tail <= h[q] /\ h[q] < head /\ states[Slot(h[q])] = "FREE"
            /\ h[q] # h[p]
        BY <4>1 DEF Shape, Owned
      <4>3. Slot(h[q]) # Slot(h[p]) BY <1>1, <2>2, <4>2, SlotDistinct
      <4>4. Slot(h[q]) \in Index BY <1>1, SlotType
      <4> QED BY <1>1, <2>1, <4>2, <4>3, <4>4
    <3>3. ASSUME NEW q \in Producers, NEW r \in Producers, q # r,
                 pc'[q] \in Claiming, pc'[r] \in Claiming
          PROVE  h[q] # h[r]
      BY <3>1, <3>3, SMTT(30) DEF Shape, Owned
    <3> QED BY <2>1, <3>2, <3>3 DEF Owned
  <2> QED BY <2>3, <2>4, <2>5, <2>6, <2>7 DEF Shape
<1>9. CASE InitEntry(p)
  <2>1. /\ UNCHANGED <<head, tail, states, mon, h>> /\ pc' = [pc EXCEPT ![p] = "own"]
    BY <1>9, Zenon DEF InitEntry, Goto, monVars
  <2> QED BY <1>1, <1>2, <2>1, QuietStep DEF TypeOK, Claiming
<1>10. CASE WriteEnd(p)
  <2>1. UNCHANGED <<head, tail, states, mon>> BY <1>10, Zenon DEF WriteEnd, monVars
  <2>2. Return(p) \/ (Goto(p, "tv_nsec") /\ UNCHANGED <<h, entry>>)
    BY <1>10, Zenon DEF WriteEnd
  <2>4. \A q \in Producers \ {p} : pc'[q] = pc[q] /\ h'[q] = h[q]
    BY <1>1, <2>2 DEF Return, Goto
  <2>5. pc'[p] \in {"idle", "tv_nsec"}
    BY <1>1, <2>2, Zenon DEF Return, Goto
  <2>6. pc'[p] \notin {"tail", "cas"} \cup Claiming BY <2>5 DEF Claiming
  <2> QED BY <1>2, <2>1, <2>4, <2>6, QuietStep, Zenon DEF TypeOK
<1>11. CASE ReturnEarly(p)
  <2>1. /\ UNCHANGED <<head, tail, states, mon>> /\ pc' = [pc EXCEPT ![p] = "idle"]
        /\ h' = [h EXCEPT ![p] = 0]
    BY <1>11 DEF ReturnEarly, Return, Goto, ringVars, monVars
  <2> QED BY <1>1, <1>2, <2>1, QuietStep DEF TypeOK, Claiming
<1> QED BY <1>3, <1>4, <1>5, <1>6, <1>7, <1>8, <1>9, <1>10, <1>11 DEF Produce

(* The monitor thread.  Only FreeSlot moves the window: the slot it frees  *)
(* is in no producer's hands, because it was visible.                      *)
LEMMA DrainShape ==
  ASSUME TypeOK, Shape, Drain
  PROVE  Shape'
<1>1. /\ head \in Nat /\ tail \in Nat /\ h \in [Producers -> Nat]
      /\ states \in [Index -> {"FREE", "ACTIVE"}] /\ Size \in Nat \ {0}
  BY SizeAssumption DEF TypeOK
<1>2. CASE FreeSlot
  <2>1. /\ UNCHANGED <<head, pc, h>> /\ mon = "free" /\ mon' = "peek" /\ tail' = tail + 1
        /\ states' = [states EXCEPT ![Slot(tail)] = "FREE"]
    BY <1>2 DEF FreeSlot, prodVars
  <2>2. tail < head /\ states[Slot(tail)] = "ACTIVE" BY <2>1 DEF Shape, InHand
  <2>3. Window' BY <1>1, <2>1, <2>2 DEF Shape, Window
  <2>4. Copies' BY <1>1, <2>1 DEF Shape, Copies
  <2>5. InHand' BY <2>1 DEF InHand
  <2>6. FreeOutside'
    <3>1. ASSUME NEW k \in head..(tail + Size) PROVE states'[Slot(k)] = "FREE"
      <4>1. k \in Nat /\ Slot(k) \in Index BY <1>1, SlotType
      <4>2. CASE k = tail + Size
        <5>1. Slot(k) = Slot(tail) BY <1>1, <4>2, SlotPeriod
        <5> QED BY <1>1, <2>1, <4>1, <5>1
      <4>3. CASE k # tail + Size
        <5>1. states[Slot(k)] = "FREE" BY <1>1, <4>3 DEF Shape, FreeOutside
        <5> QED BY <1>1, <2>1, <4>1, <5>1
      <4> QED BY <4>2, <4>3
    <3>2. (tail + 1) + Size - 1 = tail + Size BY <1>1
    <3> QED BY <2>1, <3>1, <3>2 DEF FreeOutside
  <2>7. Owned'
    <3>1. ASSUME NEW p \in Producers, pc[p] \in Claiming
          PROVE  tail + 1 <= h[p] /\ h[p] < head /\ states'[Slot(h[p])] = "FREE"
      <4>1. tail <= h[p] /\ h[p] < head /\ states[Slot(h[p])] = "FREE"
        BY <3>1 DEF Shape, Owned
      <4>2. h[p] # tail BY <2>2, <4>1
      <4>3. Slot(h[p]) \in Index BY <1>1, SlotType
      <4> QED BY <1>1, <2>1, <4>1, <4>2, <4>3
    <3> QED BY <2>1, <3>1 DEF Shape, Owned
  <2> QED BY <2>3, <2>4, <2>5, <2>6, <2>7 DEF Shape
<1>3. ASSUME UNCHANGED <<head, tail, states, pc, h>>,
             \/ mon' \in {"peek", "stopped"}
             \/ mon \notin {"peek", "stopped"}
             \/ Peekable
      PROVE  Shape'
  <2>1. Window' /\ Copies' /\ Owned' /\ FreeOutside'
    BY <1>3 DEF Shape, Window, Copies, Owned, FreeOutside
  <2>2. InHand' BY <1>3 DEF Shape, InHand, Peekable
  <2> QED BY <2>1, <2>2 DEF Shape
<1>4. CASE Peek BY <1>3, <1>4 DEF Peek, ringVars, prodVars
<1>5. ASSUME NEW elapsed \in BOOLEAN, Inspect(elapsed) PROVE Shape'
  BY <1>3, <1>5 DEF Inspect, ringVars, prodVars
<1>6. CASE CheckFinishing BY <1>3, <1>6 DEF CheckFinishing, ringVars, prodVars
<1>7. CASE TryAbandon(CallOpen)
  <2>1. mon = "abandon" /\ UNCHANGED <<head, tail, states, pc, h>>
    BY <1>7, Zenon DEF TryAbandon, prodVars
  <2> QED BY <1>3, <2>1
<1>8. CASE Emit(CallOpen) BY <1>3, <1>8 DEF Emit, ringVars, prodVars
<1>9. CASE Shutdown BY <1>3, <1>9 DEF Shutdown, ringVars, prodVars
<1>10. CASE Stop BY <1>3, <1>10 DEF Stop, ringVars, prodVars
<1> QED BY <1>2, <1>4, <1>5, <1>6, <1>7, <1>8, <1>9, <1>10 DEF Drain

-----------------------------------------------------------------------------
(* RingInv is an invariant.                                                *)
LEMMA Invariance == Spec => []RingInv
<1>1. Init => RingInv BY InitType, InitShape DEF RingInv, Shape
<1>2. RingInv /\ [Next]_vars => RingInv'
  <2> SUFFICES ASSUME RingInv, [Next]_vars PROVE RingInv' OBVIOUS
  <2>1. TypeOK /\ Shape BY DEF RingInv, Shape
  <2>2. TypeOK' BY <2>1, NextType
  <2>3. Shape'
    <3>1. ASSUME UNCHANGED <<head, tail, states, pc, h, mon>> PROVE Shape'
      BY <2>1, <3>1 DEF Shape, Window, Copies, Owned, FreeOutside, InHand
    <3>2. ASSUME NEW p \in Producers, Produce(p) PROVE Shape'
      BY <2>1, <3>2, ProduceShape
    <3>3. ASSUME NEW i \in Index, PmlStore(i) PROVE Shape'
      <4>1. UNCHANGED <<head, tail, states, pc, h, mon>>
        BY <3>3, Zenon DEF PmlStore, prodVars, monVars
      <4> QED BY <3>1, <4>1
    <3>4. CASE Finalize BY <3>1, <3>4 DEF Finalize, ringVars, prodVars, monVars
    <3>5. CASE Drain BY <2>1, <3>5, DrainShape
    <3>6. CASE UNCHANGED vars BY <3>1, <3>6 DEF vars, ringVars, prodVars, monVars
    <3> QED BY <3>2, <3>3, <3>4, <3>5, <3>6 DEF Next, Terminated
  <2> QED BY <2>2, <2>3 DEF RingInv, Shape
<1> QED BY <1>1, <1>2, PTL DEF Spec

(* For every number of threads, ring size and number of claims, every      *)
(* variable of the ring has its type; in particular the entry that         *)
(* edumpi_amt_ring_claim returns is a slot of the ring or the thread's own *)
(* scratch entry.                                                          *)
THEOREM TypeCorrect == Spec => []TypeOK
<1>1. RingInv => TypeOK BY DEF RingInv
<1> QED BY <1>1, Invariance, PTL

(* No two threads ever zero the same slot in edumpi_amt_ring_claim, and no *)
(* thread zeroes the slot that edumpi_amt_ring_drain is working on.        *)
THEOREM SlotExclusion == Spec => []SlotExclusive
<1>1. RingInv => SlotExclusive
  <2> SUFFICES ASSUME RingInv PROVE SlotExclusive OBVIOUS
  <2>1. /\ head \in Nat /\ tail \in Nat /\ h \in [Producers -> Nat]
        /\ Size \in Nat \ {0} /\ head - tail <= Size
    BY SizeAssumption DEF RingInv, TypeOK, Window
  <2>2. ASSUME NEW p \in Producers, NEW q \in Producers, p # q,
               pc[p] \in Claiming, pc[q] \in Claiming
        PROVE  Slot(h[p]) # Slot(h[q])
    <3>1. /\ tail <= h[p] /\ h[p] < head /\ tail <= h[q] /\ h[q] < head
          /\ h[p] # h[q]
      BY <2>2 DEF RingInv, Owned
    <3> QED BY <2>1, <3>1, SlotDistinct
  <2>3. ASSUME NEW p \in Producers, pc[p] \in Claiming, mon \notin {"peek", "stopped"}
        PROVE  Slot(h[p]) # Slot(tail)
    BY <2>3 DEF RingInv, Owned, InHand
  <2> QED BY <2>2, <2>3 DEF SlotExclusive
<1> QED BY <1>1, Invariance, PTL

(* edumpi_amt_ring_claim drops an event only at a moment when all slots    *)
(* are taken, although the head it compares with may be out of date.       *)
THEOREM DropsOnlyWhenFull == Spec => DropOnlyWhenFull
<1> DEFINE Justified == \A p \in Producers :
             pc[p] = "tail" /\ pc'[p] = "drop" => head - tail = Size
<1>1. RingInv /\ [Next]_vars => [Justified]_vars
  <2> SUFFICES ASSUME RingInv, Next, NEW p \in Producers, pc[p] = "tail", pc'[p] = "drop"
               PROVE  head - tail = Size
    OBVIOUS
  <2>1. /\ head \in Nat /\ tail \in Nat /\ h[p] \in Nat /\ Size \in Nat
        /\ head - tail <= Size /\ h[p] <= head /\ pc \in [Producers -> Pcs]
    BY SizeAssumption DEF RingInv, TypeOK, Window, Copies
  <2>2. h[p] - tail >= Size
    <3>1. ASSUME NEW q \in Producers, Produce(q) PROVE q = p /\ LoadTail(p)
      <4>1. q = p
        <5> SUFFICES ASSUME q # p PROVE pc'[p] = pc[p] OBVIOUS
        <5>1. \E l : pc' = [pc EXCEPT ![q] = l]
          BY <3>1, Zenon DEF Produce, LoadHead, LoadTail, Drop, TakeTicket, ResetSlot,
             Activate, InitEntry, WriteEnd, ReturnEarly, Return, Goto
        <5> QED BY <2>1, <5>1
      <4>2. \/ LoadHead(p) \/ LoadTail(p) \/ Drop(p) \/ TakeTicket(p) \/ ResetSlot(p)
            \/ Activate(p) \/ InitEntry(p) \/ WriteEnd(p) \/ ReturnEarly(p)
        BY <3>1, <4>1 DEF Produce
      <4>3. pc[p] = "tail" => ~(\/ LoadHead(p) \/ Drop(p) \/ TakeTicket(p) \/ ResetSlot(p)
            \/ Activate(p) \/ InitEntry(p) \/ WriteEnd(p) \/ ReturnEarly(p))
        BY DEF LoadHead, Drop, TakeTicket, ResetSlot, Activate, InitEntry, WriteEnd,
           ReturnEarly, Halves
      <4> QED BY <4>1, <4>2, <4>3
    <3>2. UNCHANGED pc => FALSE OBVIOUS
    <3>3. ASSUME NEW i \in Index, PmlStore(i) PROVE FALSE
      BY <3>2, <3>3, Zenon DEF PmlStore, prodVars
    <3>4. CASE Finalize BY <3>2, <3>4 DEF Finalize, prodVars
    <3>5. CASE Drain
      BY <3>2, <3>5, Zenon DEF Drain, Peek, Inspect, CheckFinishing, TryAbandon, Emit,
         FreeSlot, Shutdown, Stop, prodVars
    <3>6. CASE Terminated BY <3>2, <3>6 DEF Terminated, vars, prodVars
    <3>7. ASSUME NEW q \in Producers, Produce(q) PROVE h[p] - tail >= Size
      BY <2>1, <3>1, <3>7 DEF LoadTail, Goto
    <3> QED BY <3>3, <3>4, <3>5, <3>6, <3>7, SMTT(30) DEF Next
  <2> QED BY <2>1, <2>2
<1> QED BY <1>1, Invariance, PTL DEF Spec, DropOnlyWhenFull
=============================================================================
