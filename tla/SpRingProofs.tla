---------------------------- MODULE SpRingProofs ----------------------------
(***************************************************************************)
(* Proofs about the default ring, for any ring size and any number of      *)
(* claims: as long as the writer has not lapped the reader, entries leave  *)
(* the ring in order, none is missing, and the newest one is not written   *)
(* while its call is running.                                              *)
(***************************************************************************)
EXTENDS SpRing, ModTheorems

InHand == {"taken", "caught", "wait", "write"}

(* The frames of the application thread: a callback runs inside of a call, *)
(* and nothing runs after MPI_Finalize.                                    *)
Steps == Running \cup {"idle", "own"}
Stack ==
  /\ pc \in [Frames -> Steps] /\ frame \in Frames
  /\ frame = "call" <=> pc["callback"] = "idle"
  /\ frame = "callback" => pc["call"] \in {"own", "end"}
  /\ ~run_thread => pc["call"] = "idle"

(* The steps of the shutdown, and the positions in the middle of a step.   *)
Control ==
  /\ Stack
  /\ mon \in {"final", "stopped"} => ~run_thread
  /\ mon = "stopped" => reader_pos = writer_pos
  /\ mon \in InHand => reader_pos # -1
  /\ pc[frame] = "advance" => writer_pos \in 0..(N - 2)
  /\ pc[frame] = "zero" => writer_pos = 0

(* Before the first reset nothing was stored.                              *)
Fresh ==
  ticket_counter = 0 => /\ frame = "call" /\ pc["call"] \in {"idle", "claim", "zero"}
                        /\ \A i \in Index : ring[i] = Reset(0)

(* Claims that have begun to use a slot, claims that are published, and    *)
(* entries the reader has moved to.                                        *)
Begun == ticket_counter + IF pc[frame] = "zero" THEN 1 ELSE 0
Published == Begun - IF pc[frame] = "advance" THEN 1 ELSE 0
Reached == Len(out) + IF mon \in InHand THEN 1 ELSE 0

(* The position after k entries.                                           *)
PosAt(k) == IF k = 0 THEN -1 ELSE (k - 1) % N
Positions == writer_pos = PosAt(Published) /\ reader_pos = PosAt(Reached)

(* The slot in the reader's hand is not used again.                        *)
Window ==
  /\ Reached <= Published
  /\ Begun <= N + IF Reached = 0 THEN 0 ELSE Reached - 1

(* Entries from the one in hand on carry their tickets.                    *)
Tickets ==
  \A k \in 1..ticket_counter : k >= Reached => ring[PosAt(k)].lifecycle.ticket = k

(* An entry is only taken before its reset in the first claim, and then    *)
(* not written before it.                                                  *)
Early ==
  /\ Reached <= ticket_counter \/ ticket_counter = 0
  /\ mon = "write" => Reached <= ticket_counter
  /\ mon = "write" => Reached < Published \/ "tv_nsec" \in Item.end \/ ~run_thread

Written == \A i \in 1..Len(out) : out[i].ticket = i /\ ~out[i].open

Unlapped == ~lapped => Positions /\ Window /\ Tickets /\ Early /\ Written

SpInv == TypeOK /\ Control /\ Fresh /\ Unlapped

-----------------------------------------------------------------------------
(* Positions *)

(* The slot after a slot.                                                  *)
LEMMA ModNext ==
  ASSUME NEW S \in Nat \ {0}, NEW a \in Nat
  PROVE  (a + 1) % S = IF a % S = S - 1 THEN 0 ELSE (a % S) + 1
<1> DEFINE x == a \div S
           r == a % S
           y == (a + 1) \div S
           s == (a + 1) % S
<1>1. /\ x \in Int /\ y \in Int /\ r \in 0..(S - 1) /\ s \in 0..(S - 1)
      /\ a = S * x + r /\ a + 1 = S * y + s
  BY DivMod
<1> HIDE DEF x, r, y, s
<1>2. S * (y - x) = r + 1 - s
  <2>1. S * (y - x) = S * y - S * x BY <1>1
  <2> QED BY <1>1, <2>1
<1>3. CASE r # S - 1
  <2>1. y - x = 0 BY <1>1, <1>2, <1>3, SmallMultiple
  <2>2. s = r + 1 BY <1>1, <1>2, <2>1
  <2> QED BY <1>3, <2>2 DEF s, r
<1>4. CASE r = S - 1
  <2>1. S * (y - x - 1) = S * (y - x) - S BY <1>1
  <2>2. S * (y - x - 1) = -s BY <1>1, <1>2, <1>4, <2>1
  <2>3. y - x - 1 = 0 BY <1>1, <2>2, SmallMultiple
  <2>4. s = 0 BY <1>1, <2>2, <2>3
  <2> QED BY <1>4, <2>4 DEF s, r
<1> QED BY <1>3, <1>4

(* Positions move to the next slot, and differ within a round.             *)
LEMMA PosFacts ==
  /\ N \in Nat /\ N > 1
  /\ \A k \in Nat : PosAt(k) \in Index \cup {-1} /\ (PosAt(k) = -1 <=> k = 0)
  /\ \A k \in Nat : PosAt(k + 1) = IF PosAt(k) = N - 1 THEN 0 ELSE PosAt(k) + 1
  /\ \A j, k \in Nat : 0 < j /\ j < k /\ k - j < N => PosAt(j) # PosAt(k)
  /\ \A k \in 0..N : PosAt(k) = k - 1
<1>1. N \in Nat /\ N > 1 BY NAssumption
<1>2. \A k \in Nat : PosAt(k) \in Index \cup {-1} /\ (PosAt(k) = -1 <=> k = 0)
  <2> SUFFICES ASSUME NEW k \in Nat PROVE PosAt(k) \in Index \cup {-1} /\ (PosAt(k) = -1 <=> k = 0)
    OBVIOUS
  <2>1. CASE k = 0 BY <2>1 DEF PosAt
  <2>2. CASE k # 0
    <3>1. k - 1 \in Nat BY <2>2
    <3>2. (k - 1) % N \in 0..(N - 1) BY <1>1, <3>1, DivMod
    <3> QED BY <1>1, <2>2, <3>2 DEF PosAt, Index
  <2> QED BY <2>1, <2>2
<1>3. \A k \in 0..N : PosAt(k) = k - 1
  <2> SUFFICES ASSUME NEW k \in 0..N PROVE PosAt(k) = k - 1 OBVIOUS
  <2>1. CASE k = 0 BY <2>1 DEF PosAt
  <2>2. CASE k # 0
    <3> DEFINE a == k - 1
    <3>1. a \in Int /\ 0 <= a /\ a < N /\ N \in Nat \ {0} BY <1>1, <2>2
    <3>2. PosAt(k) = a % N BY <2>2 DEF PosAt
    <3> HIDE DEF a
    <3>3. a % N = a BY <3>1, ModNear
    <3> QED BY <3>2, <3>3 DEF a
  <2> QED BY <2>1, <2>2
<1>4. \A k \in Nat : PosAt(k + 1) = IF PosAt(k) = N - 1 THEN 0 ELSE PosAt(k) + 1
  <2> SUFFICES ASSUME NEW k \in Nat
               PROVE  PosAt(k + 1) = IF PosAt(k) = N - 1 THEN 0 ELSE PosAt(k) + 1
    OBVIOUS
  <2>1. CASE k = 0 BY <1>1, <1>3, <2>1
  <2>2. CASE k # 0
    <3> DEFINE a == k - 1
    <3>1. a \in Nat /\ a + 1 = k /\ N \in Nat \ {0} BY <1>1, <2>2
    <3>2. PosAt(k) = a % N /\ PosAt(k + 1) = k % N BY <2>2 DEF PosAt
    <3> HIDE DEF a
    <3>3. (a + 1) % N = IF a % N = N - 1 THEN 0 ELSE (a % N) + 1 BY <3>1, ModNext
    <3> QED BY <3>1, <3>2, <3>3
  <2> QED BY <2>1, <2>2
<1>5. ASSUME NEW j \in Nat, NEW k \in Nat, 0 < j, j < k, k - j < N PROVE PosAt(j) # PosAt(k)
  <2> DEFINE a == j - 1
             b == k - 1
  <2>1. a \in Nat /\ b \in Nat /\ a < b /\ b - a < N /\ N \in Nat \ {0} BY <1>1, <1>5
  <2>2. PosAt(j) = a % N /\ PosAt(k) = b % N BY <1>5 DEF PosAt
  <2> HIDE DEF a, b
  <2> QED BY <2>1, <2>2, ModDistinct
<1> QED BY <1>1, <1>2, <1>3, <1>4, <1>5

(* After a round the position is the same.                                 *)
LEMMA PosPeriod ==
  ASSUME NEW k \in Nat, k > 0
  PROVE  PosAt(k + N) = PosAt(k)
<1> DEFINE a == k - 1
<1>1. a \in Nat /\ N \in Nat \ {0} BY NAssumption
<1>2. PosAt(k) = a % N /\ PosAt(k + N) = (a + N) % N
  <2>1. k + N # 0 /\ (k + N) - 1 = a + N BY NAssumption
  <2> QED BY <2>1 DEF PosAt
<1> HIDE DEF a
<1> QED BY <1>1, <1>2, ModPeriod

-----------------------------------------------------------------------------
(* Entries *)

(* A store other than a reset keeps the ticket, and end grows.             *)
Grows(e, f) ==
  f \in Entry /\ f.lifecycle.ticket = e.lifecycle.ticket /\ e.end \subseteq f.end
Kept == ring' \in [Index -> Entry] /\ \A i \in Index : Grows(ring[i], ring'[i])

(* One store to an entry.                                                  *)
LEMMA StoreKept ==
  ASSUME TypeOK, NEW i \in Index, NEW f, Store(i, f), Grows(ring[i], f)
  PROVE  Kept
<1>1. ring \in [Index -> Entry] BY DEF TypeOK
<1>2. \A e \in Entry : Grows(e, e) BY DEF Grows
<1>3. f \in Entry BY DEF Grows
<1> QED BY <1>1, <1>2, <1>3 DEF Store, Kept

(* No store.                                                               *)
LEMMA NothingStored ==
  ASSUME TypeOK, UNCHANGED ring
  PROVE  Kept
  BY DEF TypeOK, Kept, Grows

(* The stores of the application thread and of the monitor thread.         *)
LEMMA Stores ==
  ASSUME NEW e \in Entry
  PROVE  /\ \A c \in Nat, b \in BOOLEAN :
              Grows(e, [e EXCEPT !.call = c, !.pending_request = b])
         /\ \A c \in Nat : Grows(e, [e EXCEPT !.call = c, !.recvDatasize = TRUE])
         /\ Grows(e, [e EXCEPT !.lifecycle = LC(e.lifecycle.ticket, "PENDING")])
         /\ \A s \in LCStates : Grows(e, [e EXCEPT !.lifecycle.state = s])
         /\ Grows(e, [e EXCEPT !.pending_request = FALSE])
         /\ Grows(e, [e EXCEPT !.request_done = TRUE])
         /\ \A half \in Halves : Grows(e, [e EXCEPT !.end = @ \cup {half}])
         /\ Grows(e, [e EXCEPT !.end = Halves, !.recvDatasize = TRUE])
<1>1. ASSUME NEW c \in Nat, NEW b \in BOOLEAN
      PROVE  Grows(e, [e EXCEPT !.call = c, !.pending_request = b])
  BY DEF Grows, Entry
<1>2. ASSUME NEW c \in Nat PROVE Grows(e, [e EXCEPT !.call = c, !.recvDatasize = TRUE])
  BY DEF Grows, Entry
<1>3. Grows(e, [e EXCEPT !.lifecycle = LC(e.lifecycle.ticket, "PENDING")])
  BY DEF Grows, Entry, LC, LCStates
<1>4. ASSUME NEW s \in LCStates PROVE Grows(e, [e EXCEPT !.lifecycle.state = s])
  BY DEF Grows, Entry
<1>5. Grows(e, [e EXCEPT !.pending_request = FALSE]) BY DEF Grows, Entry
<1>6. Grows(e, [e EXCEPT !.request_done = TRUE]) BY DEF Grows, Entry
<1>7. ASSUME NEW half \in Halves PROVE Grows(e, [e EXCEPT !.end = @ \cup {half}])
  BY DEF Grows, Entry
<1>8. Grows(e, [e EXCEPT !.end = Halves, !.recvDatasize = TRUE]) BY DEF Grows, Entry
<1> QED BY <1>1, <1>2, <1>3, <1>4, <1>5, <1>6, <1>7, <1>8

(* The entry of the running claim or call.                                 *)
LEMMA MineFacts ==
  ASSUME TypeOK
  PROVE  /\ pos[frame] \in Index /\ Mine \in Entry /\ pos["call"] \in Index
         /\ recv.q \in Index /\ ring[recv.q] \in Entry /\ recv.call \in Nat
         /\ recv.ticket \in Nat /\ Mine.call \in Nat /\ Mine.lifecycle.ticket \in Nat
<1>1. pos[frame] \in Index /\ pos["call"] \in Index BY DEF TypeOK, Frames
<1>2. recv.q \in Index /\ recv.call \in Nat /\ recv.ticket \in Nat BY DEF TypeOK, Recv
<1>3. ring \in [Index -> Entry] BY DEF TypeOK
<1>4. Mine \in Entry /\ ring[recv.q] \in Entry BY <1>1, <1>2, <1>3 DEF Mine
<1> QED BY <1>1, <1>2, <1>4 DEF Entry

-----------------------------------------------------------------------------
(* Steps of the application thread that claim nothing *)

(* One step of the innermost frame.                                        *)
LEMMA AtMoves ==
  ASSUME Stack, NEW from, NEW to \in Steps, At(from, to),
         from # "idle" \/ run_thread, frame = "callback" => to # "idle",
         UNCHANGED <<frame, run_thread>>
  PROVE  Stack' /\ pc[frame] = from /\ pc'[frame] = to
<1>1. pc[frame] = from /\ pc' = [pc EXCEPT ![frame] = to] BY DEF At
<1>2. pc' \in [Frames -> Steps] /\ pc'[frame] = to BY <1>1 DEF Stack
<1>3. CASE frame = "call"
  <2>1. pc'["call"] = to /\ pc'["callback"] = pc["callback"] BY <1>1, <1>3 DEF Stack, Frames
  <2> QED BY <1>1, <1>2, <1>3, <2>1 DEF Stack
<1>4. CASE frame = "callback"
  <2>1. pc'["callback"] = to /\ pc'["call"] = pc["call"] BY <1>1, <1>4 DEF Stack, Frames
  <2> QED BY <1>1, <1>2, <1>4, <2>1 DEF Stack
<1> QED BY <1>3, <1>4 DEF Stack, Frames

(* The callback ends.                                                      *)
LEMMA BackMoves ==
  ASSUME Stack, NEW from, Back(from), from # "idle", UNCHANGED run_thread
  PROVE  Stack' /\ pc[frame] = from /\ pc'[frame'] \in {"idle", "own", "end"}
<1>1. pc[frame] = from /\ pc' = [pc EXCEPT ![frame] = "idle"] /\ frame' = "call"
  BY DEF Back, At
<1>2. pc' \in [Frames -> Steps] /\ pc'["callback"] = "idle"
  BY <1>1 DEF Stack, Frames, Steps
<1>3. pc'["call"] \in {"idle", "own", "end"} BY <1>1 DEF Stack, Frames
<1>4. ~run_thread => frame = "call" /\ pc["call"] = "idle" BY DEF Stack, Frames
<1> QED BY <1>1, <1>2, <1>3, <1>4 DEF Stack, Frames

(* What the steps of a call that do not belong to a claim change.          *)
InClaim == {"zero", "advance"}
WorkDone ==
  /\ UNCHANGED <<writer_pos, reader_pos, ticket_counter, lapped, mon, held, waited, out>>
  /\ Kept /\ Stack'
  /\ pos' \in [Frames -> Index] /\ recvs' \subseteq Recv /\ recv' \in Recv
  /\ run_thread' \in BOOLEAN /\ (run_thread' => run_thread)
  /\ pc[frame] \notin InClaim /\ pc'[frame'] \notin InClaim
  /\ ticket_counter = 0 =>
       UNCHANGED ring /\ frame' = "call" /\ pc'["call"] \in {"idle", "claim"}

(* A step of a call after its claim.                                       *)
LEMMA AfterClaim ==
  ASSUME SpInv, NEW from, NEW to \in Steps, At(from, to), UNCHANGED <<frame, pos, recvs, recv>>,
         from \notin {"idle", "claim", "zero", "advance"}, to \notin InClaim,
         frame = "callback" => to # "idle", OnlyRing, Kept
  PROVE  WorkDone
<1>1. Stack' /\ pc[frame] = from /\ pc'[frame] = to
  BY AtMoves DEF SpInv, Control, OnlyRing
<1>2. ticket_counter # 0 BY <1>1 DEF SpInv, Fresh
<1> QED BY <1>1, <1>2 DEF WorkDone, OnlyRing, monVars, SpInv, TypeOK, InClaim

(* The last step of the callback.                                          *)
LEMMA AfterBack ==
  ASSUME SpInv, NEW from, Back(from), from \notin {"idle", "claim", "zero", "advance"},
         UNCHANGED <<pos, recvs>>, OnlyRing, Kept
  PROVE  WorkDone
<1>1. Stack' /\ pc[frame] = from /\ pc'[frame'] \in {"idle", "own", "end"}
  BY BackMoves DEF SpInv, Control, OnlyRing
<1>2. ticket_counter # 0 BY <1>1 DEF SpInv, Fresh
<1>3. recv' \in Recv BY NAssumption DEF Back, NoRecv, Recv, Index
<1> QED BY <1>1, <1>2, <1>3 DEF WorkDone, OnlyRing, monVars, SpInv, TypeOK, InClaim

(* The steps of the calls.                                                 *)
LEMMA CallSteps ==
  ASSUME SpInv,
         \/ Begin \/ InitEntry \/ Attach \/ IrecvFails \/ WriteEnd \/ ReturnEarly \/ Finalize
  PROVE  WorkDone
<1> USE DEF Steps, Running, Halves, InClaim
<1>0. TypeOK /\ Stack BY DEF SpInv, Control
<1>1. CASE Begin
  <2>1. /\ run_thread /\ frame = "call" /\ At("idle", "claim")
        /\ UNCHANGED <<ringVars, pos, frame, recvs, recv, monVars, run_thread>>
    BY <1>1 DEF Begin
  <2>2. Stack' /\ pc[frame] = "idle" /\ pc'[frame] = "claim" BY <1>0, <2>1, AtMoves
  <2>3. Kept BY <1>0, <2>1, NothingStored DEF ringVars
  <2> QED BY <1>0, <2>1, <2>2, <2>3 DEF WorkDone, ringVars, monVars, TypeOK
<1>2. CASE InitEntry
  <2>1. PICK request \in BOOLEAN :
          /\ At("claimed", IF request THEN "irecv" ELSE "own")
          /\ Store(pos[frame], [Mine EXCEPT !.call = ticket_counter, !.pending_request = request])
    BY <1>2 DEF InitEntry
  <2>2. frame = "call" /\ OnlyRing /\ UNCHANGED <<pos, frame, recvs, recv>>
    BY <1>2 DEF InitEntry
  <2>3. Kept BY <1>0, <2>1, MineFacts, Stores, StoreKept DEF TypeOK, Mine
  <2> QED BY <2>1, <2>2, <2>3, AfterClaim
<1>3. CASE Attach
  <2> DEFINE r == [call |-> Mine.call, q |-> pos["call"], ticket |-> Mine.lifecycle.ticket]
  <2>1. /\ pc["call"] = "irecv" /\ OnlyRing /\ UNCHANGED pos
        /\ Store(r.q, [Mine EXCEPT !.lifecycle = LC(r.ticket, "PENDING")])
        /\ \/ /\ pc' = [pc EXCEPT !["call"] = "end"]
              /\ recvs' = recvs \cup {r} /\ UNCHANGED <<frame, recv>>
           \/ /\ pc' = [call |-> "end", callback |-> "cas"]
              /\ frame' = "callback" /\ recv' = r /\ UNCHANGED recvs
    BY <1>3 DEF Attach
  <2>2. frame = "call" BY <1>0, <2>1 DEF Stack, Frames
  <2>3. r \in Recv /\ r.q = pos[frame] /\ r.ticket = Mine.lifecycle.ticket
    BY <1>0, <2>2, MineFacts DEF Recv
  <2> HIDE DEF r
  <2>4. Kept BY <1>0, <2>1, <2>3, MineFacts, Stores, StoreKept DEF Mine
  <2>5. ticket_counter # 0 /\ run_thread
    BY <2>1 DEF SpInv, Fresh, Control, Stack
  <2>6. Stack' /\ pc'[frame'] \in {"end", "cas"}
    <3>1. CASE pc' = [pc EXCEPT !["call"] = "end"] /\ UNCHANGED <<frame, recv>>
      <4>1. At("irecv", "end") BY <2>1, <2>2, <3>1 DEF At
      <4> QED BY <1>0, <2>1, <2>2, <3>1, <4>1, AtMoves DEF OnlyRing
    <3>2. CASE pc' = [call |-> "end", callback |-> "cas"] /\ frame' = "callback"
      <4>1. pc' \in [Frames -> Steps] /\ pc'["call"] = "end" /\ pc'["callback"] = "cas"
        BY <3>2 DEF Frames
      <4> QED BY <2>1, <2>5, <3>2, <4>1 DEF Stack, Frames, OnlyRing
    <3> QED BY <2>1, <3>1, <3>2
  <2>7. recvs' \subseteq Recv /\ recv' \in Recv BY <1>0, <2>1, <2>3 DEF TypeOK
  <2> QED BY <1>0, <2>1, <2>2, <2>4, <2>5, <2>6, <2>7 DEF WorkDone, OnlyRing, monVars, TypeOK
<1>4. CASE IrecvFails
  <2>1. /\ At("irecv", "end") /\ OnlyRing /\ UNCHANGED <<pos, frame, recvs, recv>>
        /\ Store(pos[frame], [Mine EXCEPT !.pending_request = FALSE])
    BY <1>4 DEF IrecvFails
  <2>2. Kept BY <1>0, <2>1, MineFacts, Stores, StoreKept DEF Mine
  <2> QED BY <2>1, <2>2, AfterClaim
<1>5. CASE WriteEnd
  <2>1. PICK half \in Halves :
          /\ \/ \E from \in {"own", "end"} : At(from, CHOOSE o \in Halves : o # half)
             \/ At(half, "idle")
          /\ Store(pos[frame], [Mine EXCEPT !.end = @ \cup {half}])
    BY <1>5 DEF WriteEnd
  <2>2. frame = "call" /\ OnlyRing /\ UNCHANGED <<pos, frame, recvs, recv>>
    BY <1>5 DEF WriteEnd
  <2>3. Kept BY <1>0, <2>1, MineFacts, Stores, StoreKept DEF Mine
  <2> DEFINE other == CHOOSE o \in Halves : o # half
  <2>4. other \in Halves
    <3>1. \E o \in Halves : o # half OBVIOUS
    <3> QED BY <3>1
  <2> HIDE DEF other
  <2>5. PICK from, to : /\ At(from, to) /\ from \in {"own", "end"} \cup Halves
                        /\ to \in Halves \cup {"idle"}
    <3>1. (\E from \in {"own", "end"} : At(from, other)) \/ At(half, "idle") BY <2>1 DEF other
    <3> QED BY <2>4, <3>1
  <2> QED BY <2>2, <2>3, <2>5, AfterClaim
<1>6. CASE ReturnEarly
  <2>1. PICK from \in {"own", "irecv"} : At(from, "idle") BY <1>6 DEF ReturnEarly
  <2>2. frame = "call" /\ UNCHANGED <<ringVars, pos, frame, recvs, recv, monVars, run_thread>>
    BY <1>6 DEF ReturnEarly
  <2>3. Kept /\ OnlyRing BY <1>0, <2>2, NothingStored DEF ringVars, OnlyRing
  <2> QED BY <2>1, <2>2, <2>3, AfterClaim
<1>7. CASE Finalize
  <2>1. /\ run_thread /\ pc["call"] = "idle" /\ run_thread' = FALSE
        /\ UNCHANGED <<ringVars, appVars, monVars>>
    BY <1>7 DEF Finalize
  <2>2. Kept BY <1>0, <2>1, NothingStored DEF ringVars
  <2>3. frame = "call" BY <1>0, <2>1 DEF Stack, Frames
  <2>4. Stack' BY <1>0, <2>1 DEF Stack, appVars
  <2> QED BY <1>0, <2>1, <2>2, <2>3, <2>4 DEF WorkDone, ringVars, appVars, monVars, TypeOK
<1> QED BY <1>1, <1>2, <1>3, <1>4, <1>5, <1>6, <1>7

(* The steps of the completion callback.                                   *)
LEMMA CallbackSteps ==
  ASSUME SpInv,
         \/ Callback \/ CompleteCas \/ Stamp \/ RequestDone
         \/ InitRenewed \/ RenewedNsec \/ RenewedSec
  PROVE  WorkDone
<1> USE DEF Steps, Running, Halves, InClaim
<1>0. TypeOK /\ Stack BY DEF SpInv, Control
<1>1. CASE Callback
  <2>1. /\ frame = "call" /\ pc["call"] = "own" /\ recv' \in recvs /\ recvs' \subseteq recvs
        /\ frame' = "callback" /\ pc' = [pc EXCEPT !["callback"] = "cas"]
        /\ UNCHANGED <<ringVars, pos, monVars, run_thread>>
    BY <1>1 DEF Callback
  <2>2. Kept BY <1>0, <2>1, NothingStored DEF ringVars
  <2>3. /\ pc' \in [Frames -> Steps] /\ pc'["callback"] = "cas" /\ pc'["call"] = "own"
        /\ run_thread
    BY <1>0, <2>1 DEF Stack, Frames
  <2>4. Stack' BY <2>1, <2>3 DEF Stack, Frames
  <2>5. ticket_counter # 0 BY <2>1 DEF SpInv, Fresh
  <2> QED BY <1>0, <2>1, <2>2, <2>3, <2>4, <2>5 DEF WorkDone, ringVars, monVars, TypeOK
<1>2. CASE CompleteCas
  <2>1. OnlyRing /\ UNCHANGED <<pos, frame, recvs, recv>> BY <1>2 DEF CompleteCas
  <2>2. CASE At("cas", "stamp")
              /\ Store(recv.q, [ring[recv.q] EXCEPT !.lifecycle.state = "FINISHING"])
    <3>1. "FINISHING" \in LCStates BY DEF LCStates
    <3>2. Kept BY <1>0, <2>2, <3>1, MineFacts, Stores, StoreKept
    <3> QED BY <2>1, <2>2, <3>2, AfterClaim
  <2>3. CASE At("cas", "claim") /\ UNCHANGED ring
    <3>1. Kept BY <1>0, <2>3, NothingStored
    <3> QED BY <2>1, <2>3, <3>1, AfterClaim
  <2> QED BY <1>2, <2>2, <2>3 DEF CompleteCas
<1>3. CASE Stamp
  <2>1. /\ At("stamp", "done") /\ OnlyRing /\ UNCHANGED <<pos, frame, recvs, recv>>
        /\ Store(recv.q, [ring[recv.q] EXCEPT !.end = Halves, !.recvDatasize = TRUE])
    BY <1>3 DEF Stamp
  <2>2. Kept BY <1>0, <2>1, MineFacts, Stores, StoreKept
  <2> QED BY <2>1, <2>2, AfterClaim
<1>4. CASE RequestDone
  <2>1. /\ Back("done") /\ OnlyRing /\ UNCHANGED <<pos, recvs>>
        /\ Store(recv.q, [ring[recv.q] EXCEPT !.request_done = TRUE])
    BY <1>4 DEF RequestDone
  <2>2. Kept BY <1>0, <2>1, MineFacts, Stores, StoreKept
  <2> QED BY <2>1, <2>2, AfterBack
<1>5. CASE InitRenewed
  <2>1. /\ At("claimed", "nsec") /\ OnlyRing /\ UNCHANGED <<pos, frame, recvs, recv>>
        /\ Store(pos[frame], [Mine EXCEPT !.call = recv.call, !.recvDatasize = TRUE])
    BY <1>5 DEF InitRenewed
  <2>2. Kept BY <1>0, <2>1, MineFacts, Stores, StoreKept DEF Mine
  <2> QED BY <2>1, <2>2, AfterClaim
<1>6. CASE RenewedNsec
  <2>1. /\ At("nsec", "sec") /\ OnlyRing /\ UNCHANGED <<pos, frame, recvs, recv>>
        /\ Store(pos[frame], [Mine EXCEPT !.end = @ \cup {"tv_nsec"}])
    BY <1>6 DEF RenewedNsec
  <2>2. Kept BY <1>0, <2>1, MineFacts, Stores, StoreKept DEF Mine
  <2> QED BY <2>1, <2>2, AfterClaim
<1>7. CASE RenewedSec
  <2>1. /\ Back("sec") /\ OnlyRing /\ UNCHANGED <<pos, recvs>>
        /\ Store(pos[frame], [Mine EXCEPT !.end = @ \cup {"tv_sec"}])
    BY <1>7 DEF RenewedSec
  <2>2. Kept BY <1>0, <2>1, MineFacts, Stores, StoreKept DEF Mine
  <2> QED BY <2>1, <2>2, AfterBack
<1> QED BY <1>1, <1>2, <1>3, <1>4, <1>5, <1>6, <1>7

(* They keep the invariant.                                                *)
LEMMA WorkKeeps ==
  ASSUME SpInv, WorkDone
  PROVE  SpInv'
<1>1. TypeOK' BY DEF SpInv, TypeOK, WorkDone, Kept, Stack, Steps
<1>2. Control' BY DEF SpInv, Control, WorkDone, InClaim
<1>3. Fresh'
  <2> SUFFICES ASSUME ticket_counter = 0
               PROVE  /\ frame' = "call" /\ pc'["call"] \in {"idle", "claim"}
                      /\ \A i \in Index : ring'[i] = Reset(0)
    BY DEF Fresh, WorkDone
  <2> QED BY DEF SpInv, Fresh, WorkDone
<1>4. Unlapped'
  <2> SUFFICES ASSUME ~lapped PROVE (Positions /\ Window /\ Tickets /\ Early /\ Written)'
    BY DEF Unlapped, WorkDone
  <2>0. Positions /\ Window /\ Tickets /\ Early /\ Written /\ TypeOK
    BY DEF SpInv, Unlapped
  <2>1. /\ Begun' = Begun /\ Published' = Published /\ Reached' = Reached
        /\ UNCHANGED <<ticket_counter, writer_pos, reader_pos, mon, out>>
    BY DEF WorkDone, InClaim, Begun, Published, Reached
  <2>2. Positions' BY <2>0, <2>1 DEF Positions, PosAt
  <2>3. Window' BY <2>0, <2>1 DEF Window
  <2>4. Tickets'
    <3> SUFFICES ASSUME NEW k \in 1..ticket_counter, k >= Reached
                 PROVE  ring'[PosAt(k)].lifecycle.ticket = k
      BY <2>1 DEF Tickets, PosAt
    <3>1. PosAt(k) \in Index BY <2>0, PosFacts DEF TypeOK
    <3> QED BY <2>0, <3>1 DEF Tickets, WorkDone, Kept, Grows
  <2>5. Early'
    <3>1. mon = "write" => Item.end \subseteq Item'.end
      <4> SUFFICES ASSUME mon = "write" PROVE Item.end \subseteq Item'.end OBVIOUS
      <4>1. reader_pos \in Index BY <2>0 DEF SpInv, Control, InHand, TypeOK
      <4> QED BY <2>1, <4>1 DEF Item, WorkDone, Kept, Grows
    <3> QED BY <2>0, <2>1, <3>1 DEF Early, WorkDone
  <2>6. Written' BY <2>0, <2>1 DEF Written
  <2> QED BY <2>2, <2>3, <2>4, <2>5, <2>6
<1> QED BY <1>1, <1>2, <1>3, <1>4 DEF SpInv

-----------------------------------------------------------------------------
(* Claims *)

(* What is known of the ring while the writer has not lapped the reader.   *)
LEMMA Numbers ==
  ASSUME TypeOK
  PROVE  /\ ticket_counter \in Nat /\ Begun \in Nat /\ Len(out) \in Nat /\ Reached \in Nat
         /\ Published \in Int
         /\ pc[frame] # "zero" => Begun = ticket_counter
         /\ pc[frame] = "zero" => Begun = ticket_counter + 1 /\ Published = Begun
         /\ pc[frame] \notin InClaim => Published = ticket_counter
         /\ pc[frame] = "advance" => Published = ticket_counter - 1
  BY DEF TypeOK, Begun, Published, Reached, InClaim

(* Publishing slot 0: the first claim, and a claim that wraps.             *)
LEMMA ClaimZeroKeeps ==
  ASSUME SpInv, ClaimZero
  PROVE  SpInv'
<1> USE DEF Steps, Running
<1>0. TypeOK /\ Stack BY DEF SpInv, Control
<1>1. /\ At("claim", "zero") /\ writer_pos' = 0
      /\ writer_pos = -1 \/ (NotFull /\ writer_pos = N - 1)
      /\ lapped' = (lapped \/ (writer_pos = N - 1 /\ reader_pos <= 0))
      /\ UNCHANGED <<reader_pos, ring, ticket_counter, pos, frame, recvs, recv, monVars, run_thread>>
  BY DEF ClaimZero
<1>2. Stack' /\ pc[frame] = "claim" /\ pc'[frame'] = "zero" BY <1>0, <1>1, AtMoves
<1>3. TypeOK'
  <2>1. 0 \in Index BY PosFacts DEF Index
  <2>2. lapped' \in BOOLEAN BY <1>0, <1>1 DEF TypeOK
  <2> QED BY <1>0, <1>1, <1>2, <2>1, <2>2 DEF TypeOK, Stack, monVars
<1>4. Control'
  <2>1. mon # "stopped" BY <1>0, <1>2 DEF SpInv, Control, Stack, Frames
  <2> QED BY <1>1, <1>2, <2>1 DEF SpInv, Control, monVars
<1>5. Fresh'
  <2> SUFFICES ASSUME ticket_counter = 0 PROVE Fresh' BY <1>1 DEF Fresh
  <2>1. frame = "call" /\ \A i \in Index : ring[i] = Reset(0) BY DEF SpInv, Fresh
  <2> QED BY <1>1, <1>2, <2>1 DEF Fresh
<1>6. ASSUME ~lapped' PROVE (Positions /\ Window /\ Tickets /\ Early /\ Written)'
  <2>0. Positions /\ Window /\ Tickets /\ Early /\ Written
    BY <1>1, <1>6 DEF SpInv, Unlapped
  <2>1. writer_pos = N - 1 => reader_pos > 0
    <3>1. ~(writer_pos = N - 1 /\ reader_pos <= 0) BY <1>1, <1>6, Zenon
    <3>2. reader_pos \in Int BY <1>0, PosFacts DEF TypeOK, Index
    <3> QED BY <3>1, <3>2
  <2>2. /\ Published = ticket_counter /\ Begun = ticket_counter /\ ticket_counter \in Nat
        /\ Reached \in Nat
    BY <1>0, <1>2, Numbers DEF InClaim
  <2>3. /\ Begun' = ticket_counter + 1 /\ Published' = ticket_counter + 1 /\ Reached' = Reached
        /\ UNCHANGED <<ticket_counter, reader_pos, ring, mon, out, run_thread>>
    BY <1>1, <1>2, <2>2 DEF Begun, Published, Reached, monVars
  <2>4. Positions'
    <3>1. PosAt(ticket_counter + 1) = 0 BY <1>1, <2>0, <2>2, PosFacts DEF Positions
    <3> QED BY <1>1, <2>0, <2>3, <3>1 DEF Positions, PosAt
  <2>5. Window'
    <3>1. CASE writer_pos = -1
      <4>1. PosAt(ticket_counter) = -1 BY <2>0, <2>2, <3>1 DEF Positions
      <4>2. ticket_counter = 0 BY <2>2, <4>1, PosFacts
      <4>3. Reached = 0 BY <2>0, <2>2, <4>2 DEF Window
      <4> QED BY <2>3, <4>2, <4>3, PosFacts DEF Window
    <3>2. CASE writer_pos = N - 1
      <4>1. /\ Reached > 0 /\ PosAt(Reached) > 0 /\ PosAt(ticket_counter + 1) = 0
            /\ ticket_counter <= N + Reached - 1 /\ Reached <= ticket_counter
        BY <2>0, <2>1, <2>2, <3>2, PosFacts DEF Positions, Window
      <4>2. ticket_counter + 1 # N + Reached
        <5> SUFFICES ASSUME ticket_counter + 1 = N + Reached PROVE FALSE OBVIOUS
        <5>1. PosAt(Reached + N) = PosAt(Reached) BY <2>2, <4>1, PosPeriod
        <5> QED BY <2>2, <4>1, <5>1, PosFacts
      <4> QED BY <2>2, <2>3, <4>1, <4>2, PosFacts DEF Window
    <3> QED BY <1>1, <3>1, <3>2
  <2>6. Tickets' BY <2>0, <2>3 DEF Tickets, PosAt
  <2>7. Early' BY <2>0, <2>2, <2>3 DEF Early, Item
  <2>8. Written' BY <2>0, <2>3 DEF Written
  <2> QED BY <2>4, <2>5, <2>6, <2>7, <2>8
<1> QED BY <1>3, <1>4, <1>5, <1>6 DEF SpInv, Unlapped

(* A reset gives the newest ticket to its slot, and leaves the others.     *)
LEMMA ResetTickets ==
  ASSUME TypeOK, Tickets, NEW c \in Nat, c = ticket_counter + 1, ticket_counter' = c,
         ring' = [ring EXCEPT ![PosAt(c)] = Reset(c)], Reached' = Reached,
         c <= N + (IF Reached = 0 THEN 0 ELSE Reached - 1)
  PROVE  Tickets'
<1> SUFFICES ASSUME NEW k \in 1..c, k >= Reached
             PROVE  ring'[PosAt(k)].lifecycle.ticket = k
  BY DEF Tickets, PosAt
<1>1. ring \in [Index -> Entry] /\ Reached \in Nat /\ ticket_counter \in Nat
  BY Numbers DEF TypeOK
<1>2. PosAt(k) \in Index /\ PosAt(c) \in Index BY PosFacts
<1>3. CASE k = c
  <2>1. ring'[PosAt(k)] = Reset(c) BY <1>1, <1>2, <1>3
  <2> QED BY <1>3, <2>1 DEF Reset, LC
<1>4. CASE k < c
  <2>1. PosAt(k) # PosAt(c) BY <1>1, <1>4, PosFacts
  <2>2. ring'[PosAt(k)] = ring[PosAt(k)] BY <1>1, <1>2, <2>1
  <2> QED BY <1>1, <1>4, <2>2 DEF Tickets
<1> QED BY <1>3, <1>4

(* A reset does not touch the entry that is about to be written.           *)
LEMMA ResetEarly ==
  ASSUME TypeOK, Control, Positions, Early, NEW c \in Nat, c = ticket_counter + 1,
         ticket_counter' = c, ring' = [ring EXCEPT ![PosAt(c)] = Reset(c)],
         UNCHANGED <<reader_pos, mon, run_thread>>, Reached' = Reached, Published' = Published,
         c <= N + (IF Reached = 0 THEN 0 ELSE Reached - 1), Reached <= c
  PROVE  Early'
<1>1. ring \in [Index -> Entry] /\ Reached \in Nat /\ ticket_counter \in Nat
  BY Numbers DEF TypeOK
<1>2. ASSUME mon = "write" PROVE Item' = Item
  <2>1. reader_pos = PosAt(Reached) /\ reader_pos # -1 /\ Reached <= ticket_counter
    BY <1>2 DEF Positions, Control, InHand, Early
  <2>2. Reached > 0 /\ PosAt(Reached) # PosAt(c) BY <1>1, <2>1, PosFacts
  <2> QED BY <1>1, <2>1, <2>2, PosFacts DEF Item
<1> QED BY <1>1, <1>2 DEF Early

(* Resetting slot 0 after it was published.                                *)
LEMMA ResetZeroKeeps ==
  ASSUME SpInv, ResetZero
  PROVE  SpInv'
<1> USE DEF Steps, Running
<1> DEFINE c == ticket_counter + 1
<1>0. TypeOK /\ Stack BY DEF SpInv, Control
<1>1. /\ At("zero", "claimed") /\ ticket_counter' = c /\ ring' = [ring EXCEPT ![0] = Reset(c)]
      /\ pos' = [pos EXCEPT ![frame] = 0]
      /\ UNCHANGED <<writer_pos, reader_pos, lapped, frame, recvs, recv, monVars, run_thread>>
  BY DEF ResetZero, Store
<1>2. Stack' /\ pc[frame] = "zero" /\ pc'[frame'] = "claimed" BY <1>0, <1>1, AtMoves
<1>3. TypeOK'
  <2>1. 0 \in Index /\ c \in Nat BY <1>0, PosFacts DEF Index, TypeOK
  <2>2. Reset(c) \in Entry BY <2>1 DEF Reset, Entry, LC, LCStates
  <2>3. ring' \in [Index -> Entry] /\ pos' \in [Frames -> Index]
    BY <1>0, <1>1, <2>1, <2>2 DEF TypeOK
  <2> QED BY <1>0, <1>1, <1>2, <2>1, <2>3 DEF TypeOK, Stack, monVars
<1>4. Control' BY <1>1, <1>2 DEF SpInv, Control, monVars
<1>5. Fresh' BY <1>0, <1>1 DEF Fresh, TypeOK
<1>6. ASSUME ~lapped PROVE (Positions /\ Window /\ Tickets /\ Early /\ Written)'
  <2>0. Positions /\ Window /\ Tickets /\ Early /\ Written /\ Control
    BY <1>6 DEF SpInv, Unlapped
  <2>1. /\ Published = c /\ Begun = c /\ c \in Nat /\ ticket_counter \in Nat
    BY <1>0, <1>2, Numbers
  <2>2. /\ Begun' = c /\ Published' = c /\ Reached' = Reached
        /\ UNCHANGED <<writer_pos, reader_pos, mon, out, run_thread>>
    BY <1>1, <1>2 DEF Begun, Published, Reached, monVars
  <2>3. PosAt(c) = 0 BY <1>2, <2>0, <2>1 DEF Positions, Control
  <2> HIDE DEF c
  <2>4. Positions' BY <2>0, <2>1, <2>2 DEF Positions, PosAt
  <2>5. Window' BY <2>0, <2>1, <2>2 DEF Window
  <2>6. Reached <= c /\ c <= N + (IF Reached = 0 THEN 0 ELSE Reached - 1)
    BY <2>0, <2>1 DEF Window
  <2>7. Tickets' BY <1>0, <1>1, <2>0, <2>1, <2>2, <2>3, <2>6, ResetTickets DEF c
  <2>8. Early' BY <1>0, <1>1, <2>0, <2>1, <2>2, <2>3, <2>6, ResetEarly DEF c
  <2>9. Written' BY <2>0, <2>2 DEF Written
  <2> QED BY <2>4, <2>5, <2>7, <2>8, <2>9
<1> QED BY <1>1, <1>3, <1>4, <1>5, <1>6 DEF SpInv, Unlapped

(* Resetting the next slot before it is published.                         *)
LEMMA ResetNextKeeps ==
  ASSUME SpInv, ResetNext
  PROVE  SpInv'
<1> USE DEF Steps, Running
<1> DEFINE c == ticket_counter + 1
<1>0. TypeOK /\ Stack BY DEF SpInv, Control
<1>1. /\ At("claim", "advance") /\ writer_pos # -1 /\ NotFull /\ writer_pos # N - 1
      /\ ticket_counter' = c /\ ring' = [ring EXCEPT ![writer_pos + 1] = Reset(c)]
      /\ UNCHANGED <<writer_pos, reader_pos, lapped, pos, frame, recvs, recv, monVars, run_thread>>
  BY DEF ResetNext, Store
<1>2. Stack' /\ pc[frame] = "claim" /\ pc'[frame'] = "advance" BY <1>0, <1>1, AtMoves
<1>3. writer_pos \in 0..(N - 2) /\ writer_pos + 1 \in Index
  BY <1>0, <1>1, PosFacts DEF TypeOK, Index
<1>4. TypeOK'
  <2>1. c \in Nat BY <1>0 DEF TypeOK
  <2>2. Reset(c) \in Entry BY <2>1 DEF Reset, Entry, LC, LCStates
  <2>3. ring' \in [Index -> Entry] BY <1>0, <1>1, <1>3, <2>2 DEF TypeOK
  <2> QED BY <1>0, <1>1, <1>2, <2>1, <2>3 DEF TypeOK, Stack, monVars
<1>5. Control' BY <1>1, <1>2, <1>3 DEF SpInv, Control, monVars
<1>6. Fresh' BY <1>0, <1>1 DEF Fresh, TypeOK
<1>7. ASSUME ~lapped PROVE (Positions /\ Window /\ Tickets /\ Early /\ Written)'
  <2>0. Positions /\ Window /\ Tickets /\ Early /\ Written /\ Control
    BY <1>7 DEF SpInv, Unlapped
  <2>1. /\ Published = ticket_counter /\ Begun = ticket_counter /\ ticket_counter \in Nat
        /\ Reached \in Nat /\ c \in Nat
    BY <1>0, <1>2, Numbers DEF InClaim
  <2>2. /\ Begun' = c /\ Published' = Published /\ Reached' = Reached
        /\ UNCHANGED <<writer_pos, reader_pos, mon, out, run_thread>>
    <3>1. Begun' = c /\ Published' = c - 1 /\ Reached' = Reached
      BY <1>1, <1>2 DEF Begun, Published, Reached, monVars
    <3> QED BY <1>1, <2>1, <3>1 DEF monVars
  <2>3. PosAt(c) = writer_pos + 1 BY <1>1, <2>0, <2>1, PosFacts DEF Positions
  <2>4. Reached <= c /\ c <= N + (IF Reached = 0 THEN 0 ELSE Reached - 1)
    <3>0. Reached <= c BY <2>0, <2>1 DEF Window
    <3>1. CASE Reached = 0
      <4>1. ticket_counter <= N BY <2>0, <2>1, <3>1, PosFacts DEF Window
      <4>2. writer_pos = ticket_counter - 1 BY <2>0, <2>1, <4>1, PosFacts DEF Positions
      <4> QED BY <1>3, <2>1, <3>0, <3>1, <4>2, PosFacts
    <3>2. CASE Reached # 0
      <4>1. ticket_counter <= N + Reached - 1 BY <2>0, <2>1, <3>2 DEF Window
      <4>2. c # N + Reached
        <5> SUFFICES ASSUME c = N + Reached PROVE FALSE OBVIOUS
        <5>1. PosAt(Reached + N) = PosAt(Reached) BY <2>1, <3>2, PosPeriod
        <5>2. writer_pos + 1 = reader_pos BY <2>0, <2>1, <2>3, <5>1, PosFacts DEF Positions
        <5> QED BY <1>1, <1>3, <5>2 DEF NotFull
      <4> QED BY <2>1, <3>0, <3>2, <4>1, <4>2, PosFacts
    <3> QED BY <3>1, <3>2
  <2> HIDE DEF c
  <2>5. Positions' BY <2>0, <2>2 DEF Positions, PosAt
  <2>6. Window' BY <2>0, <2>2, <2>4 DEF Window
  <2>7. Tickets' BY <1>0, <1>1, <2>0, <2>1, <2>2, <2>3, <2>4, ResetTickets DEF c
  <2>8. Early' BY <1>0, <1>1, <2>0, <2>1, <2>2, <2>3, <2>4, ResetEarly DEF c
  <2>9. Written' BY <2>0, <2>2 DEF Written
  <2> QED BY <2>5, <2>6, <2>7, <2>8, <2>9
<1> QED BY <1>1, <1>4, <1>5, <1>6, <1>7 DEF SpInv, Unlapped

(* Publishing it.                                                          *)
LEMMA AdvanceKeeps ==
  ASSUME SpInv, Advance
  PROVE  SpInv'
<1> USE DEF Steps, Running
<1>0. TypeOK /\ Stack BY DEF SpInv, Control
<1>1. /\ At("advance", "claimed") /\ writer_pos' = writer_pos + 1
      /\ pos' = [pos EXCEPT ![frame] = writer_pos + 1]
      /\ UNCHANGED <<reader_pos, ring, ticket_counter, lapped, frame, recvs, recv, monVars, run_thread>>
  BY DEF Advance
<1>2. Stack' /\ pc[frame] = "advance" /\ pc'[frame'] = "claimed" BY <1>0, <1>1, AtMoves
<1>3. writer_pos \in 0..(N - 2) /\ writer_pos + 1 \in Index
  BY <1>2, PosFacts DEF SpInv, Control, Index
<1>4. TypeOK'
  <2>1. pos' \in [Frames -> Index] BY <1>0, <1>1, <1>3 DEF TypeOK
  <2> QED BY <1>0, <1>1, <1>2, <1>3, <2>1 DEF TypeOK, Stack, monVars
<1>5. Control'
  <2>1. mon # "stopped" BY <1>0, <1>2 DEF SpInv, Control, Stack, Frames
  <2> QED BY <1>1, <1>2, <2>1 DEF SpInv, Control, monVars
<1>6. Fresh'
  <2>1. ticket_counter # 0
    BY <1>0, <1>2 DEF SpInv, Fresh
  <2> QED BY <1>1, <2>1 DEF Fresh
<1>7. ASSUME ~lapped PROVE (Positions /\ Window /\ Tickets /\ Early /\ Written)'
  <2>0. Positions /\ Window /\ Tickets /\ Early /\ Written
    BY <1>7 DEF SpInv, Unlapped
  <2>1. /\ Published = ticket_counter - 1 /\ Begun = ticket_counter /\ ticket_counter \in Nat
        /\ Reached \in Nat /\ ticket_counter # 0
    <3>1. ticket_counter # 0 BY <1>0, <1>2 DEF SpInv, Fresh
    <3> QED BY <1>0, <1>2, <3>1, Numbers
  <2>2. /\ Begun' = ticket_counter /\ Published' = ticket_counter /\ Reached' = Reached
        /\ UNCHANGED <<ticket_counter, reader_pos, ring, mon, out, run_thread>>
    BY <1>1, <1>2, <2>1 DEF Begun, Published, Reached, monVars
  <2>3. PosAt(ticket_counter) = writer_pos + 1
    <3>1. Published \in Nat /\ Published + 1 = ticket_counter BY <2>1
    <3> QED BY <1>3, <2>0, <3>1, PosFacts DEF Positions
  <2>4. Positions' BY <1>1, <2>0, <2>2, <2>3 DEF Positions, PosAt
  <2>5. Window' BY <2>0, <2>1, <2>2 DEF Window
  <2>6. Tickets' BY <2>0, <2>2 DEF Tickets, PosAt
  <2>7. Early' BY <2>0, <2>1, <2>2 DEF Early, Item
  <2>8. Written' BY <2>0, <2>2 DEF Written
  <2> QED BY <2>4, <2>5, <2>6, <2>7, <2>8
<1> QED BY <1>1, <1>4, <1>5, <1>6, <1>7 DEF SpInv, Unlapped

-----------------------------------------------------------------------------
(* The monitor thread *)

(* A step that neither takes an entry nor writes one.                      *)
LEMMA QuietMonitor ==
  ASSUME SpInv, UNCHANGED <<ringVars, appVars, out, run_thread>>,
         mon' \in {"top", "test", "taken", "caught", "wait", "write", "final", "stopped"},
         held' \in BOOLEAN, waited' \in BOOLEAN,
         mon \in InHand <=> mon' \in InHand, mon' \in {"final", "stopped"} => ~run_thread,
         mon' = "stopped" => reader_pos = writer_pos,
         mon' = "write" /\ ~lapped =>
           /\ Reached <= ticket_counter
           /\ Reached < Published \/ "tv_nsec" \in Item.end \/ ~run_thread
  PROVE  SpInv'
<1>1. TypeOK' BY DEF SpInv, TypeOK, ringVars, appVars
<1>2. Control' BY DEF SpInv, Control, Stack, ringVars, appVars
<1>3. Fresh' BY DEF SpInv, Fresh, ringVars, appVars
<1>4. Reached' = Reached /\ Begun' = Begun /\ Published' = Published
  BY DEF Reached, Begun, Published, ringVars, appVars
<1>5. ASSUME ~lapped PROVE (Positions /\ Window /\ Tickets /\ Early /\ Written)'
  BY <1>4, <1>5
     DEF SpInv, Unlapped, Positions, Window, Tickets, Early, Written, Item, PosAt, ringVars
<1> QED BY <1>1, <1>2, <1>3, <1>5 DEF SpInv, Unlapped, ringVars

(* Looking at the next entry.                                              *)
LEMMA HoldKeeps ==
  ASSUME SpInv, NEW elapsed \in BOOLEAN, Hold(elapsed)
  PROVE  SpInv'
<1>1. /\ mon = "top" /\ mon' \in {"top", "test"}
      /\ UNCHANGED <<ringVars, appVars, out, run_thread>>
  BY DEF Hold
<1>2. held' \in BOOLEAN /\ waited' \in BOOLEAN BY DEF Hold, SpInv, TypeOK
<1>3. mon \notin InHand /\ mon' \notin InHand BY <1>1 DEF InHand
<1> QED BY <1>1, <1>2, <1>3, QuietMonitor

(* How far the reader may be behind.                                       *)
LEMMA Behind ==
  ASSUME SpInv, ~lapped
  PROVE  /\ Reached \in Nat /\ Published \in Int /\ Reached <= Published
         /\ Published <= ticket_counter + 1 /\ ticket_counter \in Nat
         /\ Published > ticket_counter => pc[frame] = "zero" /\ writer_pos = 0
         /\ reader_pos = PosAt(Reached) /\ writer_pos = PosAt(Published)
         /\ reader_pos # writer_pos => Reached < Published
         /\ Reached > 0 /\ Reached < Published => reader_pos # writer_pos
<1>0. TypeOK /\ Positions /\ Window /\ Control BY DEF SpInv, Unlapped
<1>1. /\ Reached \in Nat /\ Published \in Int /\ Reached <= Published
      /\ Published <= Begun /\ Begun \in Nat
  BY <1>0, Numbers DEF Window, Published
<1>2. /\ Published <= ticket_counter + 1 /\ ticket_counter \in Nat
      /\ Published > ticket_counter => pc[frame] = "zero" /\ writer_pos = 0
  BY <1>0, <1>1, Numbers DEF Control
<1>3. reader_pos = PosAt(Reached) /\ writer_pos = PosAt(Published) BY <1>0 DEF Positions
<1>4. reader_pos # writer_pos => Reached < Published BY <1>1, <1>3
<1>5. ASSUME Reached > 0, Reached < Published PROVE reader_pos # writer_pos
  <2>1. Published \in Nat /\ Published - Reached < N
    BY <1>0, <1>1, <1>5, PosFacts DEF Window
  <2> QED BY <1>1, <1>3, <1>5, <2>1, PosFacts
<1> QED BY <1>1, <1>2, <1>3, <1>4, <1>5

(* Taking the next entry.                                                  *)
LEMMA TakeKeeps ==
  ASSUME SpInv, Take
  PROVE  SpInv'
<1>0. TypeOK /\ Control BY DEF SpInv
<1>1. CASE Empty
  <2>1. /\ mon = "test" /\ mon' = "top" /\ UNCHANGED <<held, waited>>
        /\ UNCHANGED <<ringVars, appVars, out, run_thread>>
    BY <1>1 DEF Take, ringVars
  <2> QED BY <1>0, <2>1, QuietMonitor DEF InHand, TypeOK
<1>2. CASE ~Empty
  <2>1. /\ mon = "test" /\ mon' = "taken" /\ reader_pos' = NextPos
        /\ UNCHANGED <<writer_pos, ring, ticket_counter, lapped, appVars, held, waited, out,
                       run_thread>>
    BY <1>2 DEF Take
  <2>2. NextPos \in Index BY <1>0, NAssumption DEF NextPos, TypeOK, Index
  <2>3. TypeOK' BY <1>0, <2>1, <2>2 DEF TypeOK, appVars
  <2>4. Control'
    <3>1. reader_pos' # -1 BY <2>1, <2>2, PosFacts DEF Index
    <3> QED BY <1>0, <2>1, <3>1 DEF Control, Stack, appVars, InHand
  <2>5. Fresh' BY <2>1 DEF SpInv, Fresh, appVars
  <2>6. ASSUME ~lapped PROVE (Positions /\ Window /\ Tickets /\ Early /\ Written)'
    <3>0. Positions /\ Window /\ Tickets /\ Early /\ Written BY <2>6 DEF SpInv, Unlapped
    <3>1. /\ Begun' = Begun /\ Published' = Published
          /\ Reached' = Len(out) + 1 /\ Reached = Len(out) + 0
      BY <2>1 DEF Begun, Published, Reached, appVars, InHand
    <3>2. Reached' = Reached + 1 /\ Len(out) \in Nat BY <1>0, <3>1, Numbers
    <3>3. Reached < Published /\ ~(reader_pos = N - 1 /\ writer_pos = 0)
      BY <1>2, <2>6, Behind DEF Empty
    <3>4. PosAt(Reached + 1) = NextPos BY <2>6, Behind, PosFacts DEF NextPos
    <3>5. Reached + 1 <= ticket_counter \/ ticket_counter = 0
      <4> SUFFICES ASSUME ticket_counter # 0, Reached >= ticket_counter PROVE FALSE
        BY <2>6, Behind
      <4>1. /\ Published = ticket_counter + 1 /\ Reached = ticket_counter /\ writer_pos = 0
        BY <2>6, <3>3, Behind
      <4>2. PosAt(ticket_counter) = N - 1
        <5>1. PosAt(ticket_counter + 1) = 0 /\ ticket_counter \in Nat BY <2>6, <4>1, Behind
        <5>2. PosAt(ticket_counter) # -1 /\ PosAt(ticket_counter) \in Int
          BY <5>1, PosFacts DEF Index
        <5> QED BY <5>1, <5>2, PosFacts
      <4> QED BY <2>6, <3>3, <4>1, <4>2, Behind
    <3>6. Positions' BY <2>1, <3>0, <3>1, <3>2, <3>4 DEF Positions, PosAt
    <3>7. Window'
      <4>1. Reached + 1 <= Published BY <2>6, <3>3, Behind
      <4>2. Begun \in Nat /\ Reached \in Nat BY <1>0, Numbers
      <4> QED BY <3>0, <3>1, <3>2, <4>1, <4>2, NAssumption DEF Window
    <3>8. Tickets' BY <2>1, <2>6, <3>0, <3>2, Behind DEF Tickets, PosAt
    <3>9. Early' BY <2>1, <3>2, <3>5 DEF Early
    <3>10. Written' BY <2>1, <3>0 DEF Written
    <3> QED BY <3>6, <3>7, <3>8, <3>9, <3>10
  <2> QED BY <2>1, <2>3, <2>4, <2>5, <2>6 DEF SpInv, Unlapped
<1> QED BY <1>1, <1>2

(* The row of an entry.                                                    *)
Opened(i) ==
  /\ frame = "call" /\ pc["call"] \in {"zero", "claimed", "irecv", "own", "end"}
  /\ i = writer_pos /\ ~entry_complete(ring[i])
LEMMA RowFacts ==
  ASSUME TypeOK, NEW i \in Index, NEW reason \in {"ready", "early", "abandoned", "final"},
         Dispose(i, reason)
  PROVE  /\ out' \in Seq(Rows) /\ Len(out) \in Nat /\ Len(out') = Len(out) + 1
         /\ \A j \in 1..Len(out) : out'[j] = out[j]
         /\ out'[Len(out) + 1].ticket = ring[i].lifecycle.ticket
         /\ Opened(i) \/ ~out'[Len(out) + 1].open
<1> DEFINE e == ring[i]
           open == Opened(i)
           row == [ticket |-> e.lifecycle.ticket, call |-> e.call,
                   data |-> e.recvDatasize, why |-> reason, open |-> open]
<1>1. e \in Entry /\ out \in Seq(Rows) BY DEF TypeOK
<1>2. out' = Append(out, row) BY DEF Dispose, Opened
<1>3. open \in BOOLEAN BY DEF Opened
<1> HIDE DEF open
<1>4. row \in Rows BY <1>1, <1>3 DEF Rows, Entry
<1>5. row.ticket = e.lifecycle.ticket /\ (row.open = open) OBVIOUS
<1> HIDE DEF row
<1>6. /\ out' \in Seq(Rows) /\ Len(out) \in Nat /\ Len(out') = Len(out) + 1
      /\ \A j \in 1..Len(out) : out'[j] = out[j]
      /\ out'[Len(out) + 1] = row
  BY <1>1, <1>2, <1>4
<1> QED BY <1>5, <1>6 DEF open

(* Writing the entry in hand keeps the order, if it has its ticket and its *)
(* call is not running.                                                    *)
LEMMA RowKeeps ==
  ASSUME SpInv, mon \in InHand, NEW reason \in {"ready", "early", "abandoned", "final"},
         Dispose(reader_pos, reason), mon' = "top", held' = FALSE, Kept,
         UNCHANGED <<writer_pos, reader_pos, ticket_counter, lapped, appVars, waited, run_thread>>,
         ticket_counter = 0 => UNCHANGED ring,
         ~lapped => Reached <= ticket_counter /\ ~Opened(reader_pos)
  PROVE  SpInv'
<1>0. TypeOK /\ Control /\ reader_pos \in Index BY DEF SpInv, Control, TypeOK
<1>1. /\ out' \in Seq(Rows) /\ Len(out) \in Nat /\ Len(out') = Len(out) + 1
      /\ \A j \in 1..Len(out) : out'[j] = out[j]
      /\ out'[Len(out) + 1].ticket = ring[reader_pos].lifecycle.ticket
      /\ Opened(reader_pos) \/ ~out'[Len(out) + 1].open
  BY <1>0, RowFacts
<1>2. TypeOK' BY <1>0, <1>1 DEF TypeOK, Kept, appVars
<1>3. Control' BY <1>0 DEF Control, Stack, appVars, InHand
<1>4. Fresh' BY DEF SpInv, Fresh, appVars
<1>5. ASSUME ~lapped PROVE (Positions /\ Window /\ Tickets /\ Early /\ Written)'
  <2>0. Positions /\ Window /\ Tickets /\ Early /\ Written BY <1>5 DEF SpInv, Unlapped
  <2>1. Reached = Len(out) + 1 /\ Reached' = Len(out) + 1
    BY <1>1 DEF Reached, InHand
  <2>2. /\ Reached' = Reached /\ Begun' = Begun /\ Published' = Published
    BY <2>1 DEF Begun, Published, appVars
  <2>3. Positions' BY <2>0, <2>2 DEF Positions, PosAt
  <2>4. Window' BY <2>0, <2>2 DEF Window
  <2>5. Tickets'
    <3> SUFFICES ASSUME NEW k \in 1..ticket_counter, k >= Reached
                 PROVE  ring'[PosAt(k)].lifecycle.ticket = k
      BY <2>2 DEF Tickets, PosAt
    <3>1. PosAt(k) \in Index BY <1>0, PosFacts DEF TypeOK
    <3> QED BY <2>0, <3>1 DEF Tickets, Kept, Grows
  <2>6. Early' BY <1>5, <2>2 DEF Early
  <2>7. Written'
    <3>1. ring[reader_pos].lifecycle.ticket = Reached
      <4>1. Reached \in 1..ticket_counter /\ reader_pos = PosAt(Reached)
        BY <1>0, <1>1, <1>5, <2>0, <2>1 DEF Positions, TypeOK
      <4> QED BY <2>0, <4>1 DEF Tickets
    <3> QED BY <1>1, <1>5, <2>0, <2>1, <3>1 DEF Written
  <2> QED BY <2>3, <2>4, <2>5, <2>6, <2>7
<1> QED BY <1>2, <1>3, <1>4, <1>5 DEF SpInv, Unlapped

(* Abandoning the entry in hand, or not.                                   *)
LEMMA TryAbandonKeeps ==
  ASSUME SpInv, TryAbandon
  PROVE  SpInv'
<1>0. TypeOK /\ Control /\ mon = "taken" /\ reader_pos \in Index /\ Item \in Entry
  <2>1. TypeOK /\ Control /\ mon = "taken" BY DEF SpInv, TryAbandon
  <2>2. reader_pos \in Index BY <2>1 DEF Control, TypeOK, InHand
  <2> QED BY <2>1, <2>2 DEF TypeOK, Item
<1>1. CASE /\ ~request_ready(Item) /\ entry_complete(Item)
           /\ Store(reader_pos, [Item EXCEPT !.lifecycle.state = "ABANDONED"])
           /\ Dispose(reader_pos, "abandoned")
           /\ held' = FALSE /\ mon' = "top"
  <2>1. UNCHANGED <<writer_pos, reader_pos, ticket_counter, lapped, appVars, waited, run_thread>>
    BY DEF TryAbandon
  <2>2. Kept
    <3>1. "ABANDONED" \in LCStates BY DEF LCStates
    <3> QED BY <1>0, <1>1, <3>1, Stores, StoreKept DEF Item
  <2>3. ticket_counter # 0
    <3> SUFFICES ASSUME ticket_counter = 0 PROVE FALSE OBVIOUS
    <3>1. Item = Reset(0) BY <1>0 DEF SpInv, Fresh, Item
    <3> QED BY <1>1, <3>1 DEF request_ready, Reset
  <2>4. ~lapped => Reached <= ticket_counter BY <2>3 DEF SpInv, Unlapped, Early
  <2>5. ~Opened(reader_pos) BY <1>1 DEF Opened, Item
  <2>6. mon \in InHand BY <1>0 DEF InHand
  <2> QED BY <1>1, <2>1, <2>2, <2>3, <2>4, <2>5, <2>6, RowKeeps
<1>2. CASE mon' = "caught" /\ UNCHANGED <<ring, held, out>>
  <2>1. /\ UNCHANGED <<ringVars, appVars, out, run_thread>> /\ UNCHANGED <<held, waited>>
    BY <1>2 DEF TryAbandon, ringVars
  <2> QED BY <1>0, <1>2, <2>1, QuietMonitor DEF InHand, TypeOK
<1> QED BY <1>1, <1>2 DEF TryAbandon

(* Whether to wait for the end of the call.                                *)
LEMMA CaughtUpKeeps ==
  ASSUME SpInv, CaughtUp
  PROVE  SpInv'
<1>0. TypeOK /\ Control BY DEF SpInv
<1>1. /\ mon = "caught" /\ mon' \in {"wait", "write"} /\ UNCHANGED <<held, waited>>
      /\ mon' = "write" => reader_pos # writer_pos
      /\ UNCHANGED <<ringVars, appVars, out, run_thread>>
  BY DEF CaughtUp
<1>2. ASSUME mon' = "write", ~lapped PROVE Reached <= ticket_counter /\ Reached < Published
  BY <1>1, <1>2, Behind
<1> QED BY <1>0, <1>1, <1>2, QuietMonitor DEF InHand, TypeOK

(* The end of the call is there.                                           *)
LEMMA WaitEndKeeps ==
  ASSUME SpInv, WaitEnd
  PROVE  SpInv'
<1>0. TypeOK /\ Control /\ Stack BY DEF SpInv, Control
<1>1. /\ mon = "wait" /\ mon' = "write" /\ UNCHANGED <<held, waited>>
      /\ "tv_nsec" \in Item.end \/ ~run_thread
      /\ UNCHANGED <<ringVars, appVars, out, run_thread>>
  BY DEF WaitEnd
<1>2. ASSUME ~lapped PROVE Reached <= ticket_counter
  <2> SUFFICES ASSUME ticket_counter = 0 PROVE FALSE
    BY <1>2 DEF SpInv, Unlapped, Early
  <2>1. reader_pos \in Index BY <1>0, <1>1 DEF Control, TypeOK, InHand
  <2>2. Item.end = {} BY <2>1 DEF SpInv, Fresh, Item, Reset
  <2>3. frame = "call" /\ pc["call"] = "idle" BY <1>0, <1>1, <2>2 DEF Stack, Frames
  <2>4. Published = 0 BY <1>0, <2>3, Numbers DEF InClaim
  <2>5. Reached > 0 BY <1>0, <1>1, Numbers DEF Reached, InHand
  <2> QED BY <1>2, <2>4, <2>5, Behind
<1> QED BY <1>0, <1>1, <1>2, QuietMonitor DEF InHand, TypeOK

(* Writing the entry in hand.                                              *)
LEMMA WriteKeeps ==
  ASSUME SpInv, Write
  PROVE  SpInv'
<1>0. TypeOK /\ Control /\ Stack BY DEF SpInv, Control
<1> DEFINE reason == IF request_ready(Item) \/ waited \/ ~run_thread THEN "ready" ELSE "early"
<1>1. /\ mon = "write" /\ Dispose(reader_pos, reason) /\ held' = FALSE /\ mon' = "top"
      /\ UNCHANGED <<ringVars, appVars, waited, run_thread>>
  BY DEF Write
<1>2. reason \in {"ready", "early", "abandoned", "final"} OBVIOUS
<1> HIDE DEF reason
<1>3. Kept BY <1>0, <1>1, NothingStored DEF ringVars
<1>4. ASSUME ~lapped PROVE Reached <= ticket_counter /\ ~Opened(reader_pos)
  <2>1. /\ Reached <= ticket_counter
        /\ Reached < Published \/ "tv_nsec" \in Item.end \/ ~run_thread
    BY <1>1, <1>4 DEF SpInv, Unlapped, Early
  <2>2. CASE Reached < Published
    <3>1. Reached > 0 BY <1>0, <1>1, Numbers DEF Reached, InHand
    <3> QED BY <1>4, <2>1, <2>2, <3>1, Behind DEF Opened
  <2>3. CASE "tv_nsec" \in Item.end BY <2>1, <2>3 DEF Opened, entry_complete, Item
  <2>4. CASE ~run_thread BY <1>0, <2>1, <2>4 DEF Opened, Stack
  <2> QED BY <2>1, <2>2, <2>3, <2>4
<1>5. mon \in InHand BY <1>1 DEF InHand
<1> QED BY <1>1, <1>2, <1>3, <1>4, <1>5, RowKeeps DEF ringVars

(* One entry of the last round.                                            *)
LEMMA FinalKeeps ==
  ASSUME SpInv, Final
  PROVE  SpInv'
<1>0. TypeOK /\ Control /\ Stack BY DEF SpInv, Control
<1>1. /\ mon = "final" /\ reader_pos # writer_pos /\ reader_pos' = NextPos
      /\ Dispose(NextPos, "final")
      /\ UNCHANGED <<writer_pos, ring, ticket_counter, lapped, appVars, mon, held, waited, run_thread>>
  BY DEF Final
<1>2. NextPos \in Index BY <1>0, NAssumption DEF NextPos, TypeOK, Index
<1>3. /\ out' \in Seq(Rows) /\ Len(out) \in Nat /\ Len(out') = Len(out) + 1
      /\ \A j \in 1..Len(out) : out'[j] = out[j]
      /\ out'[Len(out) + 1].ticket = ring[NextPos].lifecycle.ticket
      /\ Opened(NextPos) \/ ~out'[Len(out) + 1].open
  BY <1>0, <1>1, <1>2, RowFacts
<1>4. frame = "call" /\ pc["call"] = "idle" BY <1>0, <1>1 DEF Control, Stack, Frames
<1>5. TypeOK' BY <1>0, <1>1, <1>2, <1>3 DEF TypeOK, appVars
<1>6. Control' BY <1>0, <1>1 DEF Control, Stack, appVars, InHand
<1>7. Fresh' BY <1>1 DEF SpInv, Fresh, appVars
<1>8. ASSUME ~lapped PROVE (Positions /\ Window /\ Tickets /\ Early /\ Written)'
  <2>0. Positions /\ Window /\ Tickets /\ Early /\ Written BY <1>8 DEF SpInv, Unlapped
  <2>1. /\ Begun' = Begun /\ Published' = Published
        /\ Reached' = Len(out) + 1 /\ Reached = Len(out)
    BY <1>1, <1>3 DEF Begun, Published, Reached, appVars, InHand
  <2>2. Published = ticket_counter /\ Begun \in Nat BY <1>0, <1>4, Numbers DEF InClaim
  <2>3. Reached < Published /\ PosAt(Reached + 1) = NextPos
    BY <1>1, <1>8, Behind, PosFacts DEF NextPos
  <2>4. Positions' BY <1>1, <2>0, <2>1, <2>3 DEF Positions, PosAt
  <2>5. Window' BY <1>0, <1>3, <2>0, <2>1, <2>2, <2>3, NAssumption DEF Window, TypeOK
  <2>6. Tickets' BY <1>1, <1>3, <1>8, <2>0, <2>1, Behind DEF Tickets, PosAt
  <2>7. Early' BY <1>0, <1>1, <1>3, <2>1, <2>2, <2>3 DEF Early, TypeOK
  <2>8. Written'
    <3>1. ring[NextPos].lifecycle.ticket = Len(out) + 1
      <4>1. Len(out) + 1 \in 1..ticket_counter
        BY <1>0, <1>3, <2>1, <2>2, <2>3 DEF TypeOK
      <4> QED BY <1>3, <2>0, <2>1, <2>3, <4>1 DEF Tickets
    <3>2. ~Opened(NextPos) BY <1>4 DEF Opened
    <3> QED BY <1>3, <2>0, <3>1, <3>2 DEF Written
  <2> QED BY <2>4, <2>5, <2>6, <2>7, <2>8
<1> QED BY <1>1, <1>5, <1>6, <1>7, <1>8 DEF SpInv, Unlapped

-----------------------------------------------------------------------------
(* The theorems *)

(* The invariant holds when the analysis starts.                           *)
LEMMA InitHolds == Init => SpInv
<1> SUFFICES ASSUME Init PROVE SpInv OBVIOUS
<1>1. N \in Nat /\ N > 1 BY PosFacts
<1>2. TypeOK
  <2>1. Reset(0) \in Entry BY DEF Reset, Entry, LC, LCStates
  <2>2. 0 \in Index /\ NoRecv \in Recv BY <1>1 DEF Index, NoRecv, Recv
  <2>3. ring \in [Index -> Entry] /\ pos \in [Frames -> Index] BY <2>1, <2>2 DEF Init
  <2>4. pc \in [Frames -> Running \cup {"idle", "own"}] /\ pc["callback"] = "idle"
    BY DEF Init, Frames
  <2>5. out \in Seq(Rows) BY DEF Init
  <2> QED BY <2>2, <2>3, <2>4, <2>5 DEF Init, TypeOK, Frames
<1>3. pc["call"] = "idle" /\ frame = "call" BY DEF Init, Frames
<1>4. Control BY <1>2, <1>3 DEF Control, Stack, Steps, TypeOK, Init, InHand
<1>5. Fresh BY <1>3 DEF Fresh, Init
<1>6. Begun = 0 /\ Published = 0 /\ Reached = 0 /\ Len(out) = 0
  BY <1>3 DEF Begun, Published, Reached, Init, InHand
<1>7. Unlapped
  BY <1>1, <1>6 DEF Unlapped, Positions, Window, Tickets, Early, Written, PosAt, Init
<1> QED BY <1>2, <1>4, <1>5, <1>7 DEF SpInv

(* Every step keeps it.                                                    *)
LEMMA NextKeeps == SpInv /\ [Next]_vars => SpInv'
<1> SUFFICES ASSUME SpInv, [Next]_vars PROVE SpInv' OBVIOUS
<1>1. CASE \/ Begin \/ InitEntry \/ Attach \/ IrecvFails \/ WriteEnd \/ ReturnEarly \/ Finalize
  BY <1>1, CallSteps, WorkKeeps
<1>2. CASE \/ Callback \/ CompleteCas \/ Stamp \/ RequestDone
           \/ InitRenewed \/ RenewedNsec \/ RenewedSec
  BY <1>2, CallbackSteps, WorkKeeps
<1>3. CASE Claim
  BY <1>3, ClaimZeroKeeps, ResetZeroKeeps, ResetNextKeeps, AdvanceKeeps DEF Claim
<1>4. CASE Shutdown
  <2>1. /\ mon = "top" /\ mon' = "final" /\ ~run_thread /\ UNCHANGED <<held, waited>>
        /\ UNCHANGED <<ringVars, appVars, out, run_thread>>
    BY <1>4 DEF Shutdown
  <2> QED BY <2>1, QuietMonitor DEF InHand, SpInv, TypeOK
<1>5. CASE Stop
  <2>1. /\ mon = "final" /\ mon' = "stopped" /\ UNCHANGED <<held, waited>>
        /\ reader_pos = writer_pos /\ UNCHANGED <<ringVars, appVars, out, run_thread>>
    BY <1>5 DEF Stop
  <2>2. ~run_thread BY <2>1 DEF SpInv, Control
  <2> QED BY <2>1, <2>2, QuietMonitor DEF InHand, SpInv, TypeOK
<1>6. CASE UNCHANGED vars
  <2>1. /\ UNCHANGED <<mon, held, waited>>
        /\ UNCHANGED <<ringVars, appVars, out, run_thread>>
    BY <1>6 DEF vars, monVars
  <2>2. /\ mon \in {"final", "stopped"} => ~run_thread
        /\ mon = "stopped" => reader_pos = writer_pos
    BY DEF SpInv, Control
  <2>3. mon = "write" /\ ~lapped =>
          /\ Reached <= ticket_counter
          /\ Reached < Published \/ "tv_nsec" \in Item.end \/ ~run_thread
    BY DEF SpInv, Unlapped, Early
  <2>4. TypeOK BY DEF SpInv
  <2> QED BY <2>1, <2>2, <2>3, <2>4, QuietMonitor DEF TypeOK
<1>7. CASE Monitor
  BY <1>4, <1>5, <1>7, HoldKeeps, TakeKeeps, TryAbandonKeeps, CaughtUpKeeps, WaitEndKeeps,
     WriteKeeps, FinalKeeps DEF Monitor
<1> QED BY <1>1, <1>2, <1>3, <1>6, <1>7 DEF Next, Application

(* SpInv holds in every reachable state.                                   *)
LEMMA SpInvariance == Spec => []SpInv
  BY InitHolds, NextKeeps, PTL DEF Spec

(* getWritingRingPos and SQLMonitorFunc keep writer_pos and reader_pos     *)
(* within the ring, and the entries their types, lapped or not.            *)
THEOREM DefaultRingTypeCorrect == Spec => []TypeOK
<1>1. SpInv => TypeOK BY DEF SpInv
<1> QED BY <1>1, SpInvariance, PTL

(* As long as getWritingRingPos has not wrapped onto an unread entry, the  *)
(* loop of SQLMonitorFunc takes out every entry, once and in order.        *)
THEOREM EntriesInOrder == Spec => []InOrderUnlessLapped
<1>1. SpInv => InOrderUnlessLapped
  <2> SUFFICES ASSUME SpInv, ~lapped
               PROVE  EveryEntryRead /\ \A i \in 1..Len(out) : out[i].ticket = i
    BY DEF InOrderUnlessLapped
  <2>1. \A i \in 1..Len(out) : out[i].ticket = i BY DEF SpInv, Unlapped, Written
  <2>2. EveryEntryRead
    <3> SUFFICES ASSUME mon = "stopped" PROVE Len(out) = ticket_counter
      BY DEF EveryEntryRead
    <3>1. TypeOK /\ frame = "call" /\ pc["call"] = "idle" /\ reader_pos = writer_pos
      BY DEF SpInv, Control, Stack, Frames
    <3>2. Published = ticket_counter /\ Reached = Len(out)
      BY <3>1, Numbers DEF InClaim, Reached, InHand
    <3>3. Reached = Published
      <4> SUFFICES ASSUME Reached < Published PROVE FALSE BY Behind
      <4>1. Reached = 0 BY <3>1, Behind
      <4> QED BY <3>1, <4>1, Behind, PosFacts
    <3> QED BY <3>2, <3>3
  <2> QED BY <2>1, <2>2
<1> QED BY <1>1, SpInvariance, PTL

(* The wait for end.tv_nsec in SQLMonitorFunc covers every way in which    *)
(* the newest entry can be taken, in the middle of its claim too.          *)
THEOREM NewestWaits == Spec => []NewestIsWaitedFor
<1>1. SpInv => NewestIsWaitedFor BY DEF SpInv, Unlapped, Written, NewestIsWaitedFor
<1> QED BY <1>1, SpInvariance, PTL

=============================================================================
