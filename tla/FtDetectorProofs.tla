------------------------- MODULE FtDetectorProofs -------------------------
(* Proofs about the failure detector, for any number of processes and of      *)
(* crashes: no live process is taken for dead, and the ring of observers      *)
(* stays a ring. The argument is about distances on the ring: all that lies   *)
(* between an observer and the process it observes is dead.                   *)
EXTENDS FtDetector, ModTheorems

Alive == Ranks \ crashed

\* The steps from a forward to b, and the processes strictly between them.
D(a, b) == IF b >= a THEN b - a ELSE b - a + NumProcs
Between(a, b) == {c \in Ranks : 0 < D(a, c) /\ D(a, c) < D(a, b)}

\* No process knows of its own death or observes itself.
NotOneself == \A p \in Ranks : p \notin failed[p] /\ observing[p] # p

\* Until finalize, only the dead are known or reported to be dead.
Honest ==
    /\ \A p \in Ranks : failed[p] \subseteq crashed
    /\ \A m \in msgs : m.type = "failure" => m.arg \in crashed

\* Until finalize, no process quits.
NobodyQuits ==
    /\ \A m \in msgs : m.type # "heartbeat"
    /\ \A p \in Alive : pc[p] = "running" /\ rank[p] = p

\* Those between a process and the one it observes are known to be dead, those
\* between a process and its observer, or one that asks to be, are dead.
Gaps ==
    /\ \A p \in Alive : observing[p] # ProcNull => Between(observing[p], p) \subseteq failed[p]
    /\ \A q \in Alive : observer[q] # ProcNull =>
          observer[q] # q /\ Between(q, observer[q]) \subseteq crashed
    /\ \A m \in msgs : m.type = "request" =>
          m.arg # m.to /\ Between(m.to, m.arg) \subseteq crashed

\* Who has no observer or sends no heartbeats is the last one alive.
LastOne == \A q \in Alive : observer[q] = ProcNull \/ ~beating[q] => Alive \subseteq {q}

\* Who is observed knows it or will.
Answered ==
    \A p, q \in Alive : observing[p] = q => observer[q] = p \/ Request(p, q) \in msgs

Ring == Honest /\ NobodyQuits /\ Gaps /\ LastOne /\ Answered
Working == ~closing => Ring

\* Without crashes, finalize included, everyone observes its neighbour, which
\* sends heartbeats or has told that it quits.
Prev(p) == IF p = 0 THEN NumProcs - 1 ELSE p - 1
Confirmed(p, q) ==
    \/ pc[q] = "running" /\ rank[q] = q /\ beating[q] /\ observer[q] = p
    \/ pc[q] = "quit" /\ rank[q] = p /\ observer[q] = p
    \/ pc[q] \in {"clear", "wait", "done"} /\ Heartbeat(q, p, p) \in msgs
Undisturbed ==
    /\ \A m \in msgs : m.type = "heartbeat"
    /\ \A p \in Ranks :
          /\ failed[p] = {}
          /\ observing[p] # ProcNull =>
                observing[p] = Prev(p) /\ pc[p] # "done" /\ Confirmed(p, Prev(p))
Calm == crashed = {} => Undisturbed

\* The types of the messages, with what NoSelfReport says of them, and of the
\* other variables.
Good(m) ==
    /\ m.type \in {"request", "heartbeat", "failure"}
    /\ Listening(m.to) /\ m.src \in Ranks /\ m.arg \in Ranks
    /\ m.type = "failure" => m.arg # m.to
MsgsOK == \A m \in msgs : Good(m)
VarsOK ==
    /\ crashed \subseteq Ranks
    /\ failed \in [Ranks -> SUBSET Ranks]
    /\ observing \in [Ranks -> Ranks \cup {ProcNull}]
    /\ observer \in [Ranks -> Ranks \cup {ProcNull}]
    /\ rank \in [Ranks -> Ranks]
    /\ beating \in [Ranks -> BOOLEAN]
    /\ pc \in [Ranks -> {"running", "quit", "clear", "wait", "done"}]
    /\ reported \subseteq crashed
    /\ closing \in BOOLEAN

Basics == VarsOK /\ MsgsOK /\ NotOneself

DetectorInv == Basics /\ Working /\ Calm

-----------------------------------------------------------------------------
(* Distances *)

\* Ranks are integers, and there are at least two.
LEMMA RankFacts ==
    /\ NumProcs \in Nat \ {0, 1} /\ ProcNull \notin Ranks
    /\ \A p \in Ranks : p \in Int /\ 0 <= p /\ p < NumProcs
  BY FtDetectorAssumption DEF Ranks, ProcNull

\* The number computed in fd_heartbeat_request_cb is the distance.
LEMMA CircularIsD ==
    ASSUME NEW p \in Ranks, NEW r \in Ranks
    PROVE  Circular(p, r) = D(p, r)
<1>1. /\ NumProcs - p + r \in Int /\ 0 <= NumProcs - p + r
      /\ NumProcs - p + r < 2 * NumProcs /\ NumProcs \in Nat \ {0}
  BY RankFacts
<1>2. (NumProcs - p + r) % NumProcs =
        IF NumProcs - p + r < NumProcs THEN NumProcs - p + r ELSE (NumProcs - p + r) - NumProcs
  BY <1>1, ModNear
<1> QED BY <1>1, <1>2, RankFacts DEF Circular, D

\* The search of fd_heartbeat_request: the process found is not dead, all those
\* passed over are.
LEMMA NearBack ==
    ASSUME NEW q \in Ranks, NEW dead, q \in dead, NEW p \in Ranks, p \notin dead
    PROVE  /\ Near(q, -1, dead) \in Ranks \ dead
           /\ Between(Near(q, -1, dead), q) \subseteq dead
<1> DEFINE At(k) == (q + (-1) * k) % NumProcs
           live == {k \in 1 .. NumProcs : At(k) \notin dead}
           least == CHOOSE k \in live : \A j \in live : k <= j
<1>1. ASSUME NEW k \in 1 .. NumProcs
      PROVE  At(k) = IF k <= q THEN q - k ELSE q - k + NumProcs
  <2>1. /\ q + (-1) * k = q - k /\ q - k \in Int /\ -NumProcs <= q - k
        /\ q - k < 2 * NumProcs /\ NumProcs \in Nat \ {0}
    BY RankFacts
  <2>2. (q - k) % NumProcs = IF q - k < 0 THEN q - k + NumProcs ELSE q - k
    BY <2>1, ModNear, RankFacts
  <2> QED BY <2>1, <2>2, RankFacts
<1>2. ASSUME NEW c \in Ranks, c # q
      PROVE  D(c, q) \in 1 .. (NumProcs - 1) /\ At(D(c, q)) = c
  <2>1. D(c, q) \in 1 .. (NumProcs - 1) BY <1>2, RankFacts DEF D
  <2>2. D(c, q) \in 1 .. NumProcs BY <2>1, RankFacts
  <2>3. At(D(c, q)) = IF D(c, q) <= q THEN q - D(c, q) ELSE q - D(c, q) + NumProcs
    BY <1>1, <2>2
  <2> HIDE DEF At
  <2> QED BY <2>1, <2>3, RankFacts DEF D
<1>3. live \in SUBSET Nat /\ live # {}
  <2>1. D(p, q) \in live BY <1>2, RankFacts
  <2>2. live \in SUBSET Nat BY RankFacts
  <2> QED BY <2>1, <2>2
<1>4. least \in live /\ \A j \in live : least <= j
  <2>1. \E k \in live : \A j \in live : k <= j BY <1>3, Least, Zenon
  <2> HIDE DEF live
  <2> QED BY <2>1, Zenon DEF least
<1>5. Near(q, -1, dead) = At(least) BY DEF Near
<1> DEFINE n == At(least)
<1>6. least \in 1 .. NumProcs /\ n \notin dead BY <1>4
<1>7. n = IF least <= q THEN q - least ELSE q - least + NumProcs BY <1>1, <1>6
<1> HIDE DEF n, At, least
<1>8. n \in Ranks BY <1>6, <1>7, RankFacts DEF Ranks
<1>9. n # q BY <1>6
<1>10. D(n, q) = least BY <1>6, <1>7, <1>8, <1>9, RankFacts DEF D
<1>11. ASSUME NEW c \in Between(n, q) PROVE c \in dead
  <2>1. c \in Ranks /\ 0 < D(n, c) /\ D(n, c) < D(n, q) BY DEF Between
  <2>2. c # q /\ D(c, q) < D(n, q) BY <1>8, <2>1, RankFacts DEF D
  <2>3. D(c, q) \in 1 .. (NumProcs - 1) /\ At(D(c, q)) = c BY <1>2, <2>1, <2>2
  <2>4. D(c, q) \notin live BY <1>4, <1>6, <1>10, <2>2, <2>3
  <2>5. D(c, q) \in 1 .. NumProcs BY <2>3, RankFacts
  <2> QED BY <2>3, <2>4, <2>5
<1> QED BY <1>5, <1>6, <1>8, <1>11 DEF n

\* Gaps that join make one gap.
LEMMA GapsJoin ==
    ASSUME NEW p \in Ranks, NEW q \in Ranks, NEW n \in Ranks, NEW dead,
           Between(n, q) \subseteq dead, q \in dead, Between(q, p) \subseteq dead,
           p \notin dead
    PROVE  Between(n, p) \subseteq dead
<1> SUFFICES ASSUME NEW c \in Ranks, 0 < D(n, c), D(n, c) < D(n, p), c \notin dead
             PROVE  FALSE
  BY DEF Between
<1>1. c # q /\ p # q OBVIOUS
<1>2. ~(D(n, c) < D(n, q)) BY DEF Between
<1>3. ~(0 < D(n, p) /\ D(n, p) < D(n, q)) BY DEF Between
<1>4. ~(0 < D(q, c) /\ D(q, c) < D(q, p)) BY DEF Between
<1> QED BY <1>1, <1>2, <1>3, <1>4, RankFacts DEF D

\* Two gaps that meet a process from the same side: the nearer end is in the
\* other gap.
LEMMA NearerInGap ==
    ASSUME NEW q \in Ranks, NEW a \in Ranks, NEW b \in Ranks, a # q, D(q, a) < D(q, b)
    PROVE  a \in Between(q, b)
  BY RankFacts DEF Between, D

\* Different processes are at different distances.
LEMMA DInjective ==
    ASSUME NEW q \in Ranks, NEW a \in Ranks, NEW b \in Ranks, a # b
    PROVE  D(q, a) < D(q, b) \/ D(q, b) < D(q, a)
  BY RankFacts DEF D

\* Nobody is alive between a live process and one before it: two that observe
\* the same process cannot both be alive.
LEMMA OneObserver ==
    ASSUME NEW p \in Ranks, NEW r \in Ranks, NEW q \in Ranks, NEW dead,
           p \notin dead, r \notin dead, q # p, q # r,
           Between(q, p) \subseteq dead, Between(q, r) \subseteq dead
    PROVE  p = r
<1> SUFFICES ASSUME p # r PROVE FALSE OBVIOUS
<1>1. CASE D(q, p) < D(q, r) BY <1>1, NearerInGap
<1>2. CASE D(q, r) < D(q, p) BY <1>2, NearerInGap
<1> QED BY <1>1, <1>2, DInjective

\* Who is its own successor in the search has the whole ring as a gap.
LEMMA FullCircle ==
    ASSUME NEW p \in Ranks, NEW q \in Ranks, p # q, NEW dead, q \in dead,
           Between(p, q) \subseteq dead, Between(q, p) \subseteq dead,
           NEW c \in Ranks, c # p
    PROVE  c \in dead
<1>1. CASE c = q BY <1>1
<1>2. CASE c # q
  <2>1. c \in Between(p, q) \/ c \in Between(q, p)
    BY <1>2, RankFacts DEF Between, D
  <2> QED BY <2>1
<1> QED BY <1>1, <1>2

-----------------------------------------------------------------------------
(* Messages *)

\* What ompi_comm_rbcast_send_msg sends of a failure: not to those that are
\* known to be dead, so not to the process it is about.
LEMMA RbcastMsgs ==
    ASSUME NEW p \in Ranks, NEW dead, NEW c \in dead
    PROVE  \A m \in Rbcast(p, dead, c) :
              /\ m.type = "failure" /\ m.src = p /\ m.arg = c
              /\ m.to # c /\ Listening(m.to)
<1> SUFFICES ASSUME NEW m \in Rbcast(p, dead, c)
             PROVE  /\ m.type = "failure" /\ m.src = p /\ m.arg = c
                    /\ m.to # c /\ Listening(m.to)
  OBVIOUS
<1>1. /\ m \in {Failure(p, q, c) : q \in Neighbours(p, dead)}
      /\ m.to \notin dead /\ Listening(m.to)
  BY Zenon DEF Rbcast, Sent
<1>2. PICK q \in Neighbours(p, dead) : m = Failure(p, q, c) BY <1>1, Zenon
<1>3. m.type = "failure" /\ m.src = p /\ m.arg = c BY <1>2 DEF Failure
<1> QED BY <1>1, <1>3

\* A heartbeat that is not a regular one.
LEMMA BeatMsgs ==
    ASSUME NEW p \in Ranks, NEW to
    PROVE  \A m \in Beat(p, to) :
              /\ m.type = "heartbeat" /\ m.src = p /\ m.arg = rank[p]
              /\ Listening(m.to) /\ rank[p] # p
  BY DEF Beat, Sent, Heartbeat

\* A request that is sent.
LEMMA RequestMsgs ==
    ASSUME NEW p \in Ranks, NEW to
    PROVE  /\ \A m \in Sent({Request(p, to)}, {}) :
                 /\ m = Request(p, to) /\ m.type = "request" /\ m.src = p
                 /\ m.arg = p /\ m.to = to /\ Listening(m.to)
           /\ Listening(to) => Request(p, to) \in Sent({Request(p, to)}, {})
  BY DEF Sent, Request

\* Sending good messages keeps the messages good.
LEMMA MoreMsgs ==
    ASSUME MsgsOK, UNCHANGED <<crashed, pc>>, NEW new, \A m \in new : Good(m),
           msgs' \subseteq msgs \cup new
    PROVE  MsgsOK'
<1>1. \A m : Good(m)' <=> Good(m) BY DEF Good, Listening
<1> QED BY <1>1 DEF MsgsOK

-----------------------------------------------------------------------------
(* Types *)

\* The neighbours that ompi_comm_start_detector computes.
LEMMA InitNeighbours ==
    ASSUME Init, NEW p \in Ranks
    PROVE  /\ observing[p] = Prev(p) /\ Prev(p) \in Ranks /\ Prev(p) # p
           /\ observer[Prev(p)] = p
           /\ observer[p] \in Ranks /\ observer[p] # p
           /\ D(Prev(p), p) = 1 /\ D(p, observer[p]) = 1
<1>1. ASSUME NEW q \in Ranks
      PROVE  /\ (NumProcs + q - 1) % NumProcs = IF q = 0 THEN NumProcs - 1 ELSE q - 1
             /\ (NumProcs + q + 1) % NumProcs = IF q = NumProcs - 1 THEN 0 ELSE q + 1
  <2>1. /\ NumProcs + q - 1 \in Int /\ 0 <= NumProcs + q - 1
        /\ NumProcs + q - 1 < 2 * NumProcs /\ NumProcs \in Nat \ {0}
    BY RankFacts
  <2>2. (NumProcs + q - 1) % NumProcs = IF q = 0 THEN NumProcs - 1 ELSE q - 1
    <3>1. (NumProcs + q - 1) % NumProcs =
            IF NumProcs + q - 1 < NumProcs THEN NumProcs + q - 1
            ELSE (NumProcs + q - 1) - NumProcs
      BY <2>1, ModNear
    <3> QED BY <3>1, RankFacts
  <2>3. (NumProcs + q + 1) % NumProcs = IF q = NumProcs - 1 THEN 0 ELSE q + 1
    <3>1. CASE q = NumProcs - 1
      <4>1. NumProcs + q + 1 = NumProcs + NumProcs BY <3>1, RankFacts
      <4>2. (NumProcs + NumProcs) % NumProcs = NumProcs % NumProcs
        BY <2>1, ModPeriod
      <4>3. NumProcs % NumProcs = 0
        <5>1. NumProcs \in Int /\ -NumProcs <= NumProcs /\ NumProcs < 2 * NumProcs
          BY <2>1
        <5> QED BY <2>1, <5>1, ModNear
      <4> QED BY <3>1, <4>1, <4>2, <4>3
    <3>2. CASE q # NumProcs - 1
      <4>1. /\ NumProcs + q + 1 \in Int /\ 0 <= NumProcs + q + 1
            /\ NumProcs + q + 1 < 2 * NumProcs
        BY <3>2, RankFacts
      <4>2. (NumProcs + q + 1) % NumProcs =
              IF NumProcs + q + 1 < NumProcs THEN NumProcs + q + 1
              ELSE (NumProcs + q + 1) - NumProcs
        BY <2>1, <4>1, ModNear
      <4> QED BY <3>2, <4>2, RankFacts
    <3> QED BY <3>1, <3>2
  <2> QED BY <2>2, <2>3
<1>2. \A q \in Ranks : /\ observing[q] = Prev(q)
                       /\ observer[q] = IF q = NumProcs - 1 THEN 0 ELSE q + 1
  BY <1>1 DEF Init, Prev
<1>3. Prev(p) \in Ranks /\ Prev(p) # p BY RankFacts DEF Prev, Ranks
<1>4. observer[p] \in Ranks /\ observer[p] # p BY <1>2, RankFacts DEF Ranks
<1>5. observer[Prev(p)] = p BY <1>2, <1>3, RankFacts DEF Prev
<1>6. D(Prev(p), p) = 1 /\ D(p, observer[p]) = 1 BY <1>2, RankFacts DEF D, Prev
<1> QED BY <1>2, <1>3, <1>4, <1>5, <1>6

\* What a tick works with: the observed process is another one, and so is the
\* process found instead of it.
LEMMA TickFacts ==
    ASSUME Basics, NEW p \in Ranks, Watches(p)
    PROVE  /\ observing[p] \in Ranks /\ observing[p] # p
           /\ p \notin failed[p] \cup {observing[p]}
           /\ LET dead == failed[p] \cup {observing[p]}
                  next == Near(observing[p], -1, dead)
              IN /\ next \in Ranks \ dead
                 /\ Between(next, observing[p]) \subseteq dead
<1>1. observing[p] \in Ranks /\ observing[p] # p BY DEF Watches, Basics, VarsOK, NotOneself
<1>2. p \notin failed[p] \cup {observing[p]} BY <1>1 DEF Basics, NotOneself
<1> QED BY <1>1, <1>2, NearBack

\* ompi_comm_start_detector establishes the types.
LEMMA InitBasics == Init => Basics
<1> SUFFICES ASSUME Init PROVE Basics OBVIOUS
<1>1. \A p \in Ranks : /\ observing[p] \in Ranks /\ observing[p] # p
                       /\ observer[p] \in Ranks
  BY InitNeighbours
<1>2. VarsOK BY <1>1 DEF Init, VarsOK
<1>3. MsgsOK BY DEF Init, MsgsOK
<1>4. NotOneself BY <1>1 DEF Init, NotOneself
<1> QED BY <1>2, <1>3, <1>4 DEF Basics

\* A tick keeps the types.
LEMMA TickBasics ==
    ASSUME Basics, NEW p \in Ranks, Tick(p)
    PROVE  Basics'
<1> DEFINE q == observing[p]
           dead == failed[p] \cup {q}
           next == Near(q, -1, dead)
           news == IF q \in failed[p] THEN {} ELSE Rbcast(p, dead, q)
<1>1. Watches(p) BY Zenon DEF Tick
<1>2. q \in Ranks /\ q # p /\ p \notin dead /\ next \in Ranks \ dead
  BY <1>1, TickFacts, Zenon
<1>3. /\ UNCHANGED <<crashed, reported, rank, pc, closing>>
      /\ failed' = [failed EXCEPT ![p] = dead]
      /\ \/ /\ observing' = [observing EXCEPT ![p] = ProcNull]
            /\ msgs' = msgs \cup news /\ UNCHANGED <<observer, beating>>
         \/ Alone(p)
         \/ next # p /\ Observe(p, next, news)
  BY Zenon DEF Tick
<1>4. \A m \in news : Good(m)
  <2>1. \A m \in Rbcast(p, dead, q) : /\ m.type = "failure" /\ m.src = p /\ m.arg = q
                                      /\ m.to # q /\ Listening(m.to)
    BY RbcastMsgs, Zenon
  <2> HIDE DEF dead, q
  <2> QED BY <1>2, <2>1 DEF Good
<1>5. \A m \in Sent({Request(p, next)}, {}) : Good(m)
  <2> HIDE DEF next
  <2> QED BY RequestMsgs DEF Good
<1> HIDE DEF next, news
<1>6. msgs' \subseteq msgs \cup (news \cup Sent({Request(p, next)}, {}))
  BY <1>3, Zenon DEF Alone, Observe
<1>7. MsgsOK' BY <1>3, <1>4, <1>5, <1>6, MoreMsgs, Zenon DEF Basics
<1>8. \/ observing' = [observing EXCEPT ![p] = ProcNull]
      \/ observing' = [observing EXCEPT ![p] = next] /\ next # p
  BY <1>3, Zenon DEF Alone, Observe
<1>9. /\ observer' = observer \/ observer' = [observer EXCEPT ![p] = ProcNull]
      /\ beating' = beating \/ beating' = [beating EXCEPT ![p] = FALSE]
  BY <1>3, Zenon DEF Alone, Observe
<1>10. VarsOK'
  <2>1. /\ UNCHANGED <<crashed, reported, rank, pc, closing>>
        /\ failed' = [failed EXCEPT ![p] = dead] /\ dead \subseteq Ranks
    BY <1>2, <1>3 DEF Basics, VarsOK
  <2> HIDE DEF dead
  <2>2. failed' \in [Ranks -> SUBSET Ranks] BY <2>1 DEF Basics, VarsOK
  <2>3. observing' \in [Ranks -> Ranks \cup {ProcNull}] BY <1>2, <1>8 DEF Basics, VarsOK
  <2>4. observer' \in [Ranks -> Ranks \cup {ProcNull}] BY <1>9 DEF Basics, VarsOK
  <2>5. beating' \in [Ranks -> BOOLEAN] BY <1>9 DEF Basics, VarsOK
  <2> QED BY <2>1, <2>2, <2>3, <2>4, <2>5 DEF Basics, VarsOK
<1>11. NotOneself' BY <1>2, <1>3, <1>8, RankFacts DEF Basics, VarsOK, NotOneself
<1> QED BY <1>7, <1>10, <1>11 DEF Basics

\* The callbacks of received messages keep the types.
LEMMA ReceiveBasics ==
    ASSUME Basics, NEW p \in Ranks, Receive(p)
    PROVE  Basics'
<1>1. PICK m \in msgs : m.to = p /\ (RequestCb(p, m) \/ HeartbeatCb(p, m) \/ FailureCb(p, m))
  BY DEF Receive
<1>2. Good(m) BY DEF Basics, MsgsOK
<1>3. UNCHANGED <<crashed, reported, rank, beating, pc, closing>>
  BY <1>1 DEF RequestCb, HeartbeatCb, FailureCb
<1>4. CASE RequestCb(p, m)
  <2>1. \A n \in Beat(p, m.arg) : Good(n)
    BY BeatMsgs DEF Good, Basics, VarsOK
  <2>2. msgs' \subseteq msgs \cup Beat(p, m.arg) BY <1>4 DEF RequestCb
  <2>3. MsgsOK' BY <1>3, <2>1, <2>2, MoreMsgs, Zenon DEF Basics
  <2>4. /\ UNCHANGED <<failed, observing>>
        /\ observer' = observer \/ observer' = [observer EXCEPT ![p] = m.arg]
    BY <1>4 DEF RequestCb
  <2>5. VarsOK' BY <1>2, <1>3, <2>4 DEF Basics, VarsOK, Good
  <2>6. NotOneself' BY <2>4 DEF Basics, NotOneself
  <2> QED BY <2>3, <2>5, <2>6 DEF Basics
<1>5. CASE HeartbeatCb(p, m)
  <2>1. msgs' \subseteq msgs BY <1>5 DEF HeartbeatCb
  <2>2. MsgsOK' BY <1>3, <2>1 DEF Basics, MsgsOK, Good, Listening
  <2>3. /\ UNCHANGED <<failed, observer>>
        /\ observing' = [observing EXCEPT ![p] = IF m.arg = p THEN ProcNull ELSE @]
    BY <1>5 DEF HeartbeatCb
  <2>4. VarsOK' BY <1>3, <2>3 DEF Basics, VarsOK
  <2>5. NotOneself' BY <2>3, RankFacts DEF Basics, VarsOK, NotOneself
  <2> QED BY <2>2, <2>4, <2>5 DEF Basics
<1>6. CASE FailureCb(p, m)
  <2>1. \A n \in Forwarded(p, m.arg) : Good(n)
    <3> DEFINE dead == failed[p] \cup {m.arg}
    <3>1. m.arg \in dead OBVIOUS
    <3>2. Forwarded(p, m.arg) \subseteq Rbcast(p, dead, m.arg) BY DEF Forwarded
    <3> HIDE DEF dead
    <3>3. \A n \in Rbcast(p, dead, m.arg) :
             /\ n.type = "failure" /\ n.src = p /\ n.arg = m.arg
             /\ n.to # m.arg /\ Listening(n.to)
      BY <3>1, RbcastMsgs
    <3> QED BY <1>2, <3>2, <3>3 DEF Good
  <2>2. msgs' \subseteq msgs \cup Forwarded(p, m.arg) BY <1>6 DEF FailureCb
  <2>3. MsgsOK' BY <1>3, <2>1, <2>2, MoreMsgs, Zenon DEF Basics
  <2>4. /\ UNCHANGED <<observing, observer>> /\ m.type = "failure"
        /\ failed' = [failed EXCEPT ![p] = @ \cup {m.arg}]
    BY <1>6 DEF FailureCb
  <2>5. VarsOK' BY <1>2, <1>3, <2>4 DEF Basics, VarsOK, Good
  <2>6. m.arg # p BY <1>1, <1>2, <2>4 DEF Good
  <2>7. NotOneself' BY <2>4, <2>6 DEF Basics, VarsOK, NotOneself
  <2> QED BY <2>3, <2>5, <2>7 DEF Basics
<1> QED BY <1>1, <1>4, <1>5, <1>6

\* A report of PMIx keeps the types: it is about a process that crashed.
LEMMA PmixBasics ==
    ASSUME Basics, NEW p \in Ranks, NEW c \in Ranks, PmixNotice(p, c)
    PROVE  Basics'
<1>1. /\ UNCHANGED <<crashed, observing, observer, rank, beating, pc, msgs, reported, closing>>
      /\ failed' = [failed EXCEPT ![p] = @ \cup {c}] /\ c \in crashed /\ p \notin crashed
  BY DEF PmixNotice, Listening, Basics, VarsOK
<1>2. MsgsOK' BY <1>1 DEF Basics, MsgsOK, Good, Listening
<1>3. VarsOK' BY <1>1 DEF Basics, VarsOK
<1>4. NotOneself' BY <1>1 DEF Basics, VarsOK, NotOneself
<1> QED BY <1>2, <1>3, <1>4 DEF Basics

\* A crash keeps the types: what was under way to the process is lost.
LEMMA CrashBasics ==
    ASSUME Basics, NEW p \in Ranks, Crash(p)
    PROVE  Basics'
<1>1. /\ crashed' = crashed \cup {p} /\ reported' \subseteq reported \cup {p}
      /\ failed' = [failed EXCEPT ![p] = {}]
      /\ observing' = [observing EXCEPT ![p] = ProcNull]
      /\ observer' = [observer EXCEPT ![p] = ProcNull]
      /\ rank' = [rank EXCEPT ![p] = p]
      /\ beating' = [beating EXCEPT ![p] = FALSE]
      /\ pc' = [pc EXCEPT ![p] = "done"] /\ UNCHANGED closing
  BY DEF Crash
<1>2. \A m \in msgs' : m \in msgs /\ m.to # p BY DEF Crash
<1>3. VarsOK' BY <1>1 DEF Basics, VarsOK
<1>4. MsgsOK' BY <1>1, <1>2 DEF Basics, MsgsOK, Good, Listening, VarsOK
<1>5. NotOneself' BY <1>1, RankFacts DEF Basics, VarsOK, NotOneself
<1> QED BY <1>3, <1>4, <1>5 DEF Basics

\* The steps of ompi_comm_failure_detector_finalize keep the types.
LEMMA FinalizeBasics ==
    ASSUME Basics, NEW p \in Ranks, Finalizing(p)
    PROVE  Basics'
<1>1. UNCHANGED <<crashed, reported, failed, observing, closing>>
  BY DEF Finalizing, Finalize, Quit, Clear, Close
<1>2. NotOneself' BY <1>1 DEF Basics, NotOneself
<1>3. ASSUME pc' = [pc EXCEPT ![p] = "quit"] \/ pc' = [pc EXCEPT ![p] = "clear"]
             \/ pc' = [pc EXCEPT ![p] = "wait"],
             Listening(p), NEW m, Good(m)
      PROVE  Good(m)'
  BY <1>1, <1>3 DEF Good, Listening, Basics, VarsOK
<1>4. CASE Finalize(p)
  <2>1. VarsOK' BY <1>1, <1>4 DEF Finalize, Basics, VarsOK
  <2>2. MsgsOK' BY <1>3, <1>4 DEF Finalize, Basics, MsgsOK
  <2> QED BY <1>2, <2>1, <2>2 DEF Basics
<1>5. CASE Quit(p)
  <2>1. VarsOK' BY <1>1, <1>5 DEF Quit, Basics, VarsOK
  <2>2. \A m \in Beat(p, observer[p]) : Good(m)
    BY BeatMsgs DEF Good, Basics, VarsOK
  <2>3. msgs' \subseteq msgs \cup Beat(p, observer[p]) BY <1>5 DEF Quit
  <2>4. Listening(p) /\ pc' = [pc EXCEPT ![p] = "clear"] BY <1>5 DEF Quit
  <2>5. MsgsOK' BY <1>3, <2>2, <2>3, <2>4 DEF Basics, MsgsOK
  <2> QED BY <1>2, <2>1, <2>5 DEF Basics
<1>6. CASE Clear(p)
  <2>1. VarsOK' BY <1>1, <1>6 DEF Clear, Basics, VarsOK
  <2>2. MsgsOK' BY <1>3, <1>6 DEF Clear, Basics, MsgsOK
  <2> QED BY <1>2, <2>1, <2>2 DEF Basics
<1>7. CASE Close(p)
  <2>1. VarsOK' BY <1>1, <1>7 DEF Close, Basics, VarsOK
  <2>2. MsgsOK' BY <1>1, <1>7 DEF Close, Basics, MsgsOK, Good, Listening, VarsOK
  <2> QED BY <1>2, <2>1, <2>2 DEF Basics
<1> QED BY <1>4, <1>5, <1>6, <1>7 DEF Finalizing

\* Every step keeps the types.
LEMMA NextBasics ==
    ASSUME Basics, [Next]_vars
    PROVE  Basics'
<1>1. ASSUME UNCHANGED <<crashed, failed, observing, observer, rank, beating, pc, msgs, reported>>,
             closing' \in BOOLEAN
      PROVE  Basics'
  BY <1>1 DEF Basics, VarsOK, MsgsOK, Good, Listening, NotOneself
<1>2. CASE Drain BY <1>1, <1>2 DEF Drain
<1>3. CASE UNCHANGED vars BY <1>1, <1>3 DEF vars, Basics, VarsOK
<1> QED BY <1>2, <1>3, TickBasics, ReceiveBasics, PmixBasics, CrashBasics, FinalizeBasics
        DEF Next, Proceed

-----------------------------------------------------------------------------
(* The ring of observers, until MPI_Finalize *)

\* ompi_comm_start_detector makes a ring.
LEMMA InitRing == Init => Ring
<1> SUFFICES ASSUME Init PROVE Ring OBVIOUS
<1>1. \A p \in Ranks : /\ observing[p] = Prev(p) /\ Prev(p) \in Ranks
                       /\ observer[Prev(p)] = p
                       /\ observer[p] \in Ranks /\ observer[p] # p
                       /\ D(Prev(p), p) = 1 /\ D(p, observer[p]) = 1
  BY InitNeighbours
<1>2. \A a, b \in Ranks : D(a, b) = 1 => Between(a, b) = {}
  BY RankFacts DEF Between, D
<1>3. Honest /\ NobodyQuits BY DEF Init, Honest, NobodyQuits, Alive
<1>4. Gaps
  <2>1. \A p \in Ranks : Between(observing[p], p) = {} /\ Between(p, observer[p]) = {}
    BY <1>1, <1>2
  <2>2. \A p \in Alive : p \in Ranks BY DEF Alive
  <2> QED BY <1>1, <2>1, <2>2 DEF Init, Gaps
<1>5. LastOne
  <2>1. \A q \in Ranks : beating[q] BY Zenon DEF Init
  <2>2. \A q \in Ranks : observer[q] # ProcNull BY <1>1, RankFacts
  <2>3. \A q \in Alive : q \in Ranks BY DEF Alive
  <2> QED BY <2>1, <2>2, <2>3, Zenon DEF LastOne
<1>6. Answered
  <2>1. \A q \in Alive : q \in Ranks BY DEF Alive
  <2>2. \A q \in Alive : observer[observing[q]] = q BY <1>1, <2>1
  <2> QED BY <2>2, Zenon DEF Answered
<1> QED BY <1>3, <1>4, <1>5, <1>6 DEF Ring

\* A tick only finds processes dead that are.
LEMMA TickHonest ==
    ASSUME Basics, Ring, NEW p \in Ranks, Tick(p)
    PROVE  p \in Alive /\ observing[p] \in crashed
<1> DEFINE q == observing[p]
<1>1. p \in Alive BY DEF Tick, Listening, Alive
<1>2. q \in Ranks /\ q # p /\ (q \in failed[p] \/ ~HeardOf(p)) BY TickFacts DEF Tick
<1>3. CASE q \in failed[p] BY <1>1, <1>3 DEF Ring, Honest
<1>4. CASE ~HeardOf(p)
  <2> SUFFICES ASSUME q \notin crashed PROVE FALSE BY <1>1
  <2>1. q \in Alive BY <1>2 DEF Alive
  <2>2. CASE Request(p, q) \in msgs BY <1>4, <2>2 DEF HeardOf
  <2>3. CASE observer[q] = p
    <3>1. pc[q] = "running" /\ rank[q] = q BY <2>1 DEF Ring, NobodyQuits
    <3>2. Listening(q) BY <2>1, <3>1 DEF Listening, Alive
    <3>3. beating[q] BY <1>1, <1>2, <2>1 DEF Ring, LastOne
    <3> QED BY <1>4, <2>3, <3>1, <3>2, <3>3 DEF HeardOf
  <2> QED BY <1>1, <2>1, <2>2, <2>3 DEF Ring, Answered
<1> QED BY <1>1, <1>2, <1>3, <1>4

\* A tick keeps the ring: the observer goes back to the nearest process that may
\* be alive and asks it, or is the last one.
LEMMA TickRing ==
    ASSUME Basics, Ring, NEW p \in Ranks, Tick(p)
    PROVE  Ring'
<1> DEFINE q == observing[p]
           dead == failed[p] \cup {q}
           next == Near(q, -1, dead)
           news == IF q \in failed[p] THEN {} ELSE Rbcast(p, dead, q)
           asked == Sent({Request(p, next)}, {})
<1>1. p \in Alive /\ q \in crashed BY TickHonest
<1>2. /\ q \in Ranks /\ q # p /\ p \notin dead /\ next \in Ranks \ dead
      /\ Between(next, q) \subseteq dead
  <2>1. Watches(p) BY Zenon DEF Tick
  <2> QED BY <2>1, TickFacts, Zenon
<1>3. dead \subseteq crashed /\ Between(q, p) \subseteq dead
  <2>1. q # ProcNull BY <1>2, RankFacts
  <2> QED BY <1>1, <2>1 DEF Ring, Honest, Gaps
<1>4. /\ UNCHANGED <<crashed, rank, pc>>
      /\ failed' = [failed EXCEPT ![p] = dead]
  BY Zenon DEF Tick
<1>5. \/ /\ observer[p] = ProcNull
         /\ observing' = [observing EXCEPT ![p] = ProcNull]
         /\ msgs' = msgs \cup news /\ UNCHANGED <<observer, beating>>
      \/ next = p /\ Alone(p)
      \/ next # p /\ Observe(p, next, news)
  BY Zenon DEF Tick
<1>6. \A m \in news : m.type = "failure" /\ m.arg = q
  <2>1. q \in dead OBVIOUS
  <2>2. news \subseteq Rbcast(p, dead, q) OBVIOUS
  <2> HIDE DEF news, dead, q
  <2> QED BY <2>1, <2>2, RbcastMsgs
<1>7. q \in dead /\ failed[p] \subseteq dead OBVIOUS
<1> HIDE DEF dead, next, news, asked
<1>8. /\ Alive' = Alive /\ Alive \subseteq Ranks /\ failed'[p] = dead
      /\ \A r \in Ranks \ {p} : failed'[r] = failed[r]
  BY <1>4 DEF Alive, Basics, VarsOK
<1>9. CASE next # p /\ Observe(p, next, news)
  <2>1. /\ observing' = [observing EXCEPT ![p] = next] /\ UNCHANGED <<observer, beating>>
        /\ msgs' = msgs \cup news \cup asked
    BY <1>9 DEF Observe, asked
  <2>2. /\ \A m \in asked : m.type = "request" /\ m.arg = p /\ m.to = next
        /\ Listening(next) => Request(p, next) \in asked
    BY RequestMsgs DEF asked
  <2>3. Honest' BY <1>1, <1>3, <1>4, <1>6, <1>8, <2>1, <2>2 DEF Ring, Honest
  <2>4. NobodyQuits' BY <1>4, <1>6, <1>8, <2>1, <2>2 DEF Ring, NobodyQuits
  <2>5. Between(next, p) \subseteq dead BY <1>2, <1>3, <1>7, GapsJoin
  <2>6. Gaps'
    <3>1. \A r \in Alive : observing'[r] # ProcNull => Between(observing'[r], r) \subseteq failed'[r]
      BY <1>8, <2>1, <2>5 DEF Ring, Gaps, Basics, VarsOK
    <3>2. \A m \in msgs' : m.type = "request" =>
             m.arg # m.to /\ Between(m.to, m.arg) \subseteq crashed
      <4> SUFFICES ASSUME NEW m \in msgs', m.type = "request"
                   PROVE  m.arg # m.to /\ Between(m.to, m.arg) \subseteq crashed
        OBVIOUS
      <4>1. CASE m \in msgs BY <4>1 DEF Ring, Gaps
      <4>2. CASE m \in news BY <1>6, <4>2
      <4>3. CASE m \in asked BY <1>3, <1>9, <2>2, <2>5, <4>3
      <4> QED BY <2>1, <4>1, <4>2, <4>3
    <3> QED BY <1>4, <1>8, <2>1, <3>1, <3>2 DEF Ring, Gaps
  <2>7. LastOne' BY <1>8, <2>1 DEF Ring, LastOne
  <2>8. Answered'
    <3> SUFFICES ASSUME NEW r \in Alive, NEW o \in Alive, observing'[r] = o
                 PROVE  observer[o] = r \/ Request(r, o) \in msgs'
      BY <1>8, <2>1 DEF Answered
    <3>1. CASE r = p
      <4>1. o = next BY <1>8, <2>1, <3>1 DEF Basics, VarsOK
      <4>2. Listening(o) BY <1>8 DEF Ring, NobodyQuits, Listening, Alive
      <4> QED BY <2>1, <2>2, <3>1, <4>1, <4>2
    <3>2. CASE r # p
      <4>1. observing[r] = o BY <1>8, <2>1, <3>2 DEF Basics, VarsOK
      <4> QED BY <2>1, <4>1 DEF Ring, Answered
    <3> QED BY <3>1, <3>2
  <2> QED BY <2>3, <2>4, <2>6, <2>7, <2>8 DEF Ring
<1>10. ASSUME observing' = [observing EXCEPT ![p] = ProcNull], Alive \subseteq {p},
              observer' = observer \/ observer' = [observer EXCEPT ![p] = ProcNull],
              msgs \subseteq msgs', msgs' \subseteq msgs \cup news
       PROVE  Ring'
  <2>1. Honest' BY <1>1, <1>3, <1>4, <1>6, <1>8, <1>10 DEF Ring, Honest
  <2>2. NobodyQuits' BY <1>4, <1>6, <1>8, <1>10 DEF Ring, NobodyQuits
  <2>3. Gaps'
    <3>1. observing'[p] = ProcNull /\ observer'[p] \in {observer[p], ProcNull}
      BY <1>10 DEF Basics, VarsOK
    <3>2. \A m \in msgs' : m.type = "request" => m \in msgs BY <1>6, <1>10
    <3>3. \A r \in Alive : r = p BY <1>10
    <3> QED BY <1>1, <1>4, <1>8, <3>1, <3>2, <3>3 DEF Ring, Gaps
  <2>4. LastOne' BY <1>8, <1>10 DEF LastOne
  <2>5. Answered'
    <3>1. observing'[p] = ProcNull /\ \A r \in Alive : r = p /\ r # ProcNull
      BY <1>8, <1>10, RankFacts DEF Basics, VarsOK
    <3> QED BY <1>8, <3>1 DEF Answered
  <2> QED BY <2>1, <2>2, <2>3, <2>4, <2>5 DEF Ring
<1>11. CASE next = p /\ Alone(p)
  <2>1. \A c \in Ranks : c # p => c \in dead
    <3>1. Between(p, q) \subseteq dead BY <1>2, <1>11
    <3> QED BY <1>2, <1>3, <1>7, <3>1, FullCircle
  <2>2. Alive \subseteq {p} BY <1>3, <2>1 DEF Alive
  <2>3. /\ observing' = [observing EXCEPT ![p] = ProcNull] /\ UNCHANGED msgs
        /\ observer' = [observer EXCEPT ![p] = ProcNull]
    BY <1>11 DEF Alone
  <2> QED BY <1>10, <2>2, <2>3
<1>12. CASE /\ observer[p] = ProcNull
            /\ observing' = [observing EXCEPT ![p] = ProcNull]
            /\ msgs' = msgs \cup news /\ UNCHANGED <<observer, beating>>
  <2>1. Alive \subseteq {p} BY <1>1, <1>12 DEF Ring, LastOne
  <2> QED BY <1>10, <1>12, <2>1
<1> QED BY <1>5, <1>9, <1>11, <1>12

\* The request of the process that observes p is never taken for stale, and
\* the requests that would replace it come from the dead and are.
LEMMA RequestRing ==
    ASSUME Basics, Ring, NEW p \in Ranks, NEW m \in msgs, m.to = p, RequestCb(p, m)
    PROVE  Ring'
<1>1. /\ UNCHANGED <<crashed, failed, observing, rank, beating, pc>> /\ m.type = "request"
      /\ p \in Alive /\ m.arg \in Ranks
  BY DEF RequestCb, Listening, Alive, Basics, MsgsOK, Good
<1>2. Alive' = Alive /\ Alive \subseteq Ranks BY <1>1 DEF Alive
<1>3. rank[p] = p BY <1>1 DEF Ring, NobodyQuits
<1>4. Beat(p, m.arg) = {} BY <1>3 DEF Beat
<1>5. m.arg # p /\ Between(p, m.arg) \subseteq crashed BY <1>1 DEF Ring, Gaps
<1>6. /\ msgs' = msgs \ {m}
      /\ \/ Stale(p, m.arg) /\ UNCHANGED observer
         \/ ~Stale(p, m.arg) /\ observer' = [observer EXCEPT ![p] = m.arg]
  BY <1>4 DEF RequestCb
<1>7. Honest' BY <1>1, <1>6 DEF Ring, Honest
<1>8. NobodyQuits' BY <1>1, <1>2, <1>6 DEF Ring, NobodyQuits
<1>9. Gaps'
  <2>1. \A r \in Alive : observer'[r] # ProcNull =>
           observer'[r] # r /\ Between(r, observer'[r]) \subseteq crashed
    <3> SUFFICES ASSUME NEW r \in Alive, observer'[r] # ProcNull
                 PROVE  observer'[r] # r /\ Between(r, observer'[r]) \subseteq crashed
      OBVIOUS
    <3>1. observer'[r] = observer[r] \/ (r = p /\ observer'[r] = m.arg)
      BY <1>2, <1>6 DEF Basics, VarsOK
    <3> QED BY <1>5, <3>1 DEF Ring, Gaps
  <2> QED BY <1>1, <1>2, <1>6, <2>1 DEF Ring, Gaps
<1>10. LastOne'
  <2> SUFFICES ASSUME NEW r \in Alive, observer'[r] = ProcNull \/ ~beating[r]
               PROVE  Alive \subseteq {r}
    BY <1>1, <1>2 DEF LastOne
  <2>1. observer'[r] = observer[r] \/ observer'[r] = m.arg
    BY <1>2, <1>6 DEF Basics, VarsOK
  <2>2. m.arg # ProcNull BY <1>1, RankFacts
  <2> QED BY <2>1, <2>2 DEF Ring, LastOne
<1>11. Answered'
  <2> SUFFICES ASSUME NEW r \in Alive, NEW o \in Alive, observing[r] = o
               PROVE  observer'[o] = r \/ Request(r, o) \in msgs'
    BY <1>1, <1>2 DEF Answered
  <2>1. r \in Ranks /\ r # o /\ r \notin crashed /\ o # ProcNull
    BY <1>2, RankFacts DEF Alive, Basics, NotOneself
  <2>2. Between(o, r) \subseteq crashed BY <2>1 DEF Ring, Gaps, Honest
  <2>3. CASE Request(r, o) \in msgs /\ Request(r, o) # m BY <1>6, <2>3
  <2>4. CASE Request(r, o) = m
    <3>1. o = p /\ r = m.arg BY <2>4 DEF Request
    <3>2. ~Stale(p, m.arg)
      <4>1. observer[p] # ProcNull BY <2>1, <3>1 DEF Ring, LastOne
      <4>2. /\ observer[p] \in Ranks /\ observer[p] # p
            /\ Between(p, observer[p]) \subseteq crashed
        BY <1>1, <4>1 DEF Ring, Gaps, Basics, VarsOK
      <4>3. ~(D(p, m.arg) < D(p, observer[p]))
        BY <1>1, <1>5, <2>1, <3>1, <4>2, NearerInGap
      <4> QED BY <1>1, <4>2, <4>3, CircularIsD DEF Stale
    <3>3. observer'[p] = m.arg BY <1>6, <3>2 DEF Basics, VarsOK
    <3> QED BY <3>1, <3>3
  <2>5. CASE observer[o] = r /\ o # p
    BY <1>2, <1>6, <2>5 DEF Basics, VarsOK
  <2>6. CASE observer[o] = r /\ o = p
    <3>1. CASE m.arg = r
      <4>1. observer'[p] = r BY <1>6, <2>6, <3>1 DEF Basics, VarsOK
      <4> QED BY <2>6, <4>1
    <3>2. CASE m.arg # r
      <4>1. ~(D(p, r) < D(p, m.arg)) BY <1>1, <1>5, <2>1, <2>6, NearerInGap
      <4>2. D(p, m.arg) < D(p, r) BY <1>1, <2>1, <3>2, <4>1, DInjective
      <4>3. Stale(p, m.arg) BY <1>1, <2>1, <2>6, <4>2, CircularIsD DEF Stale
      <4> QED BY <1>6, <2>6, <4>3
    <3> QED BY <3>1, <3>2
  <2> QED BY <2>3, <2>4, <2>5, <2>6 DEF Ring, Answered
<1> QED BY <1>7, <1>8, <1>9, <1>10, <1>11 DEF Ring

\* Learning of a crash, from a message or from PMIx, keeps the ring.
LEMMA LearnRing ==
    ASSUME Basics, Ring, NEW p \in Ranks, NEW c \in crashed,
           failed' = [failed EXCEPT ![p] = @ \cup {c}],
           UNCHANGED <<crashed, observing, observer, rank, beating, pc>>,
           \A m \in msgs' : m \in msgs \/ (m.type = "failure" /\ m.arg = c),
           \A m \in msgs : m.type = "request" => m \in msgs'
    PROVE  Ring'
<1>1. Alive' = Alive /\ Alive \subseteq Ranks BY DEF Alive
<1>2. \A r \in Ranks : failed[r] \subseteq failed'[r] /\ failed'[r] \subseteq failed[r] \cup {c}
  BY DEF Basics, VarsOK
<1>3. Honest' BY <1>2 DEF Ring, Honest
<1>4. NobodyQuits' BY <1>1 DEF Ring, NobodyQuits
<1>5. Gaps'
  <2>1. \A r \in Alive : observing[r] # ProcNull => Between(observing[r], r) \subseteq failed'[r]
    BY <1>1, <1>2 DEF Ring, Gaps
  <2>2. \A m \in msgs' : m.type = "request" => m \in msgs OBVIOUS
  <2> QED BY <1>1, <2>1, <2>2 DEF Ring, Gaps
<1>6. LastOne' BY <1>1 DEF Ring, LastOne
<1>7. Answered'
  <2>1. \A r, o \in Ranks : Request(r, o).type = "request" BY DEF Request
  <2> QED BY <1>1, <2>1 DEF Ring, Answered
<1> QED BY <1>3, <1>4, <1>5, <1>6, <1>7 DEF Ring

\* A failure message is about a process that crashed.
LEMMA FailureRing ==
    ASSUME Basics, Ring, NEW p \in Ranks, NEW m \in msgs, FailureCb(p, m)
    PROVE  Ring'
<1>1. /\ m.type = "failure" /\ failed' = [failed EXCEPT ![p] = @ \cup {m.arg}]
      /\ msgs' = (msgs \ {m}) \cup Forwarded(p, m.arg)
      /\ UNCHANGED <<crashed, observing, observer, rank, beating, pc>>
  BY DEF FailureCb
<1>2. m.arg \in crashed BY <1>1 DEF Ring, Honest
<1>3. \A n \in Forwarded(p, m.arg) : n.type = "failure" /\ n.arg = m.arg
  <2> DEFINE dead == failed[p] \cup {m.arg}
  <2>1. m.arg \in dead OBVIOUS
  <2>2. Forwarded(p, m.arg) \subseteq Rbcast(p, dead, m.arg) BY DEF Forwarded
  <2> HIDE DEF dead
  <2> QED BY <2>1, <2>2, RbcastMsgs
<1>4. \A n \in msgs : n.type = "request" => n \in msgs' BY <1>1
<1> QED BY <1>1, <1>2, <1>3, <1>4, LearnRing

\* A crash keeps the ring, with a gap more.
LEMMA CrashRing ==
    ASSUME Basics, Ring, NEW p \in Ranks, Crash(p)
    PROVE  Ring'
<1>1. /\ crashed' = crashed \cup {p}
      /\ failed' = [failed EXCEPT ![p] = {}]
      /\ observing' = [observing EXCEPT ![p] = ProcNull]
      /\ observer' = [observer EXCEPT ![p] = ProcNull]
      /\ rank' = [rank EXCEPT ![p] = p]
      /\ beating' = [beating EXCEPT ![p] = FALSE]
      /\ pc' = [pc EXCEPT ![p] = "done"]
  BY DEF Crash
<1>2. /\ \A m \in msgs' : m \in msgs
      /\ \A m \in msgs : m.to # p /\ m.src # p => m \in msgs'
  BY DEF Crash
<1>3. /\ Alive' = Alive \ {p} /\ Alive \subseteq Ranks
      /\ \A r \in Ranks \ {p} : /\ failed'[r] = failed[r] /\ observing'[r] = observing[r]
                                /\ observer'[r] = observer[r] /\ rank'[r] = rank[r]
                                /\ beating'[r] = beating[r] /\ pc'[r] = pc[r]
      /\ failed'[p] = {}
  BY <1>1 DEF Alive, Basics, VarsOK
<1>4. Honest' BY <1>1, <1>2, <1>3 DEF Ring, Honest
<1>5. NobodyQuits' BY <1>2, <1>3 DEF Ring, NobodyQuits
<1>6. Gaps'
  <2>1. \A r \in Alive \ {p} : observing'[r] # ProcNull => Between(observing'[r], r) \subseteq failed'[r]
    BY <1>3 DEF Ring, Gaps
  <2>2. \A r \in Alive \ {p} : observer'[r] # ProcNull =>
           observer'[r] # r /\ Between(r, observer'[r]) \subseteq crashed'
    BY <1>1, <1>3 DEF Ring, Gaps
  <2>3. \A m \in msgs' : m.type = "request" =>
           m.arg # m.to /\ Between(m.to, m.arg) \subseteq crashed'
    BY <1>1, <1>2 DEF Ring, Gaps
  <2> QED BY <1>3, <2>1, <2>2, <2>3 DEF Gaps
<1>7. LastOne' BY <1>3 DEF Ring, LastOne
<1>8. Answered'
  <2> SUFFICES ASSUME NEW r \in Alive \ {p}, NEW o \in Alive \ {p}, observing[r] = o
               PROVE  observer[o] = r \/ Request(r, o) \in msgs'
    BY <1>3 DEF Answered
  <2>1. Request(r, o).to = o /\ Request(r, o).src = r BY DEF Request
  <2> QED BY <1>2, <2>1 DEF Ring, Answered
<1> QED BY <1>4, <1>5, <1>6, <1>7, <1>8 DEF Ring

\* Every step before MPI_Finalize keeps the ring.
LEMMA NextWorking ==
    ASSUME Basics, Working, [Next]_vars
    PROVE  Working'
<1> SUFFICES ASSUME ~closing' PROVE Ring' BY DEF Working
<1>1. CASE UNCHANGED vars
  <2>1. Ring BY <1>1 DEF vars, Working
  <2> QED BY <1>1, <2>1 DEF vars, Ring, Honest, NobodyQuits, Gaps, LastOne, Answered, Alive
<1>2. ASSUME NEW p \in Ranks, Tick(p) PROVE Ring'
  <2>1. Ring BY <1>2 DEF Tick, Working
  <2> QED BY <1>2, <2>1, TickRing
<1>3. ASSUME NEW p \in Ranks, Receive(p) PROVE Ring'
  <2>1. PICK m \in msgs : /\ m.to = p
                          /\ RequestCb(p, m) \/ HeartbeatCb(p, m) \/ FailureCb(p, m)
    BY <1>3 DEF Receive
  <2>2. Ring BY <2>1 DEF RequestCb, HeartbeatCb, FailureCb, Working
  <2>3. CASE RequestCb(p, m) BY <2>1, <2>2, <2>3, RequestRing
  <2>4. CASE HeartbeatCb(p, m) BY <2>2, <2>4 DEF HeartbeatCb, Ring, NobodyQuits
  <2>5. CASE FailureCb(p, m) BY <2>2, <2>5, FailureRing
  <2> QED BY <2>1, <2>3, <2>4, <2>5
<1>4. ASSUME NEW p \in Ranks, Finalizing(p) PROVE FALSE
  <2>1. /\ closing' = closing /\ p \in Alive
        /\ closing \/ pc[p] \in {"quit", "clear", "wait"}
    BY <1>4 DEF Finalizing, Finalize, Quit, Clear, Close, Listening, Alive
  <2> QED BY <2>1 DEF Working, Ring, NobodyQuits
<1>5. ASSUME NEW p \in Ranks, NEW c \in Ranks, PmixNotice(p, c) PROVE Ring'
  <2>1. /\ failed' = [failed EXCEPT ![p] = @ \cup {c}] /\ c \in reported
        /\ UNCHANGED <<crashed, observing, observer, rank, beating, pc, msgs, closing>>
    BY <1>5 DEF PmixNotice
  <2>2. Ring BY <2>1 DEF Working
  <2>3. c \in crashed BY <2>1 DEF Basics, VarsOK
  <2> QED BY <2>1, <2>2, <2>3, LearnRing
<1>6. CASE Drain BY <1>6 DEF Drain
<1>7. ASSUME NEW p \in Ranks, Crash(p) PROVE Ring'
  <2>1. Ring BY <1>7 DEF Crash, Working
  <2> QED BY <1>7, <2>1, CrashRing
<1> QED BY <1>1, <1>2, <1>3, <1>4, <1>5, <1>6, <1>7 DEF Next, Proceed

-----------------------------------------------------------------------------
(* MPI_Finalize without crashes *)

\* The ring of ompi_comm_start_detector is undisturbed.
LEMMA InitCalm == Init => Calm
<1> SUFFICES ASSUME Init PROVE Undisturbed BY DEF Calm
<1>1. \A p \in Ranks : /\ observing[p] = Prev(p) /\ Prev(p) \in Ranks
                       /\ observer[Prev(p)] = p
  BY InitNeighbours
<1>2. msgs = {} /\ \A p \in Ranks : failed[p] = {} /\ pc[p] = "running" /\ rank[p] = p
  BY DEF Init
<1>3. \A p \in Ranks : beating[p] BY Zenon DEF Init
<1>4. \A p \in Ranks : Confirmed(p, Prev(p)) BY <1>1, <1>2, <1>3 DEF Confirmed
<1>5. \A p \in Ranks : pc[p] # "done" BY <1>2
<1> QED BY <1>1, <1>2, <1>4, <1>5 DEF Undisturbed

\* While nobody crashes nobody is found dead, and every process that quits tells
\* its observer before it stops sending.
LEMMA NextCalm ==
    ASSUME Basics, Calm, [Next]_vars
    PROVE  Calm'
<1> SUFFICES ASSUME crashed' = {} PROVE Undisturbed' BY DEF Calm
<1>1. crashed = {}
  <2>1. crashed \subseteq crashed'
    BY DEF Next, vars, Proceed, Tick, Receive, RequestCb, HeartbeatCb, FailureCb, Finalizing,
           Finalize, Quit, Clear, Close, PmixNotice, Drain, Crash
  <2> QED BY <2>1
<1>2. Undisturbed BY <1>1 DEF Calm
<1>3. \A p \in Ranks : Prev(p) \in Ranks /\ Prev(p) # p BY RankFacts DEF Prev, Ranks
<1>4. ASSUME UNCHANGED <<failed, observing, observer, rank, beating, pc, msgs>> PROVE Undisturbed'
  BY <1>2, <1>4 DEF Undisturbed, Confirmed
<1>5. CASE UNCHANGED vars \/ Drain BY <1>4, <1>5 DEF vars, Drain
<1>6. ASSUME NEW p \in Ranks, Tick(p) PROVE FALSE
  <2>1. observing[p] # ProcNull /\ (observing[p] \in failed[p] \/ ~HeardOf(p))
    BY <1>6 DEF Tick, Watches
  <2>2. observing[p] = Prev(p) /\ ~HeardOf(p) /\ Confirmed(p, Prev(p))
    BY <1>2, <2>1 DEF Undisturbed
  <2>3. pc[Prev(p)] # "done" => Listening(Prev(p)) BY <1>1, <1>3 DEF Listening
  <2> QED BY <2>2, <2>3 DEF HeardOf, Confirmed
<1>7. ASSUME NEW p \in Ranks, NEW c \in Ranks, PmixNotice(p, c) PROVE FALSE
  BY <1>1, <1>7 DEF PmixNotice, Basics, VarsOK
<1>8. ASSUME NEW p \in Ranks, Crash(p) PROVE FALSE BY <1>8 DEF Crash
<1>9. ASSUME NEW p \in Ranks, Receive(p) PROVE Undisturbed'
  <2>1. PICK m \in msgs : /\ m.to = p
                          /\ RequestCb(p, m) \/ HeartbeatCb(p, m) \/ FailureCb(p, m)
    BY <1>9 DEF Receive
  <2>2. HeartbeatCb(p, m) BY <1>2, <2>1 DEF Undisturbed, RequestCb, FailureCb
  <2>3. /\ msgs' = msgs \ {m} /\ UNCHANGED <<failed, observer, rank, beating, pc>>
        /\ observing' = [observing EXCEPT ![p] = IF m.arg = p THEN ProcNull ELSE @]
    BY <2>2 DEF HeartbeatCb
  <2>4. ASSUME NEW r \in Ranks, observing'[r] # ProcNull
        PROVE  observing'[r] = Prev(r) /\ pc[r] # "done" /\ Confirmed(r, Prev(r))'
    <3>1. observing'[r] = observing[r] /\ (r # p \/ m.arg # r)
      BY <2>3, <2>4 DEF Basics, VarsOK
    <3>2. observing[r] = Prev(r) /\ pc[r] # "done" /\ Confirmed(r, Prev(r))
      BY <1>2, <2>4, <3>1 DEF Undisturbed
    <3>3. Heartbeat(Prev(r), r, r) # m BY <2>1, <3>1 DEF Heartbeat
    <3>4. Prev(r)' = Prev(r) BY DEF Prev
    <3> QED BY <2>3, <3>1, <3>2, <3>3 DEF Confirmed
  <2> QED BY <1>2, <2>3, <2>4 DEF Undisturbed
<1>10. ASSUME NEW p \in Ranks, Finalize(p) PROVE Undisturbed'
  <2>1. UNCHANGED <<failed, observing, observer, beating, msgs>> /\ pc[p] = "running"
    BY <1>10 DEF Finalize
  <2>2. /\ pc'[p] \in {"wait", "quit"}
        /\ observer[p] # ProcNull => pc'[p] = "quit" /\ rank'[p] = observer[p]
        /\ \A r \in Ranks \ {p} : pc'[r] = pc[r] /\ rank'[r] = rank[r]
    BY <1>10 DEF Finalize, Basics, VarsOK
  <2>3. ASSUME NEW r \in Ranks, observing[r] # ProcNull
        PROVE  observing[r] = Prev(r) /\ pc'[r] # "done" /\ Confirmed(r, Prev(r))'
    <3>1. observing[r] = Prev(r) /\ pc[r] # "done" /\ Confirmed(r, Prev(r))
      BY <1>2, <2>3 DEF Undisturbed
    <3>2. CASE Prev(r) = p
      <4>1. observer[p] = r /\ r # ProcNull BY <2>1, <3>1, <3>2, RankFacts DEF Confirmed
      <4>2. pc'[p] = "quit" /\ rank'[p] = r BY <2>2, <4>1
      <4>3. Confirmed(r, p)' BY <2>1, <4>1, <4>2 DEF Confirmed
      <4> QED BY <2>2, <3>1, <3>2, <4>3
    <3>3. CASE Prev(r) # p
      <4>1. Confirmed(r, Prev(r))' BY <1>3, <2>1, <2>2, <3>1, <3>3 DEF Confirmed
      <4> QED BY <2>2, <3>1, <4>1
    <3> QED BY <3>2, <3>3
  <2> QED BY <1>2, <2>1, <2>3 DEF Undisturbed
<1>11. ASSUME NEW p \in Ranks, Quit(p) PROVE Undisturbed'
  <2> DEFINE last == IF observer[p] = ProcNull THEN {} ELSE Beat(p, observer[p])
  <2>1. /\ UNCHANGED <<failed, observing, observer, rank, beating>> /\ pc[p] = "quit"
        /\ msgs' = msgs \cup last
    BY <1>11 DEF Quit
  <2>2. pc'[p] = "clear" /\ \A r \in Ranks \ {p} : pc'[r] = pc[r]
    BY <1>11 DEF Quit, Basics, VarsOK
  <2>3. \A m \in last : m.type = "heartbeat" BY BeatMsgs
  <2>4. ASSUME NEW r \in Ranks, observing[r] # ProcNull
        PROVE  observing[r] = Prev(r) /\ pc'[r] # "done" /\ Confirmed(r, Prev(r))'
    <3>1. observing[r] = Prev(r) /\ pc[r] # "done" /\ Confirmed(r, Prev(r))
      BY <1>2, <2>4 DEF Undisturbed
    <3>2. CASE Prev(r) = p
      <4>1. /\ observer[p] = r /\ rank[p] = r /\ r # ProcNull /\ r # p /\ failed[p] = {}
            /\ Listening(r)
        BY <1>1, <1>2, <1>3, <2>1, <3>1, <3>2, RankFacts DEF Confirmed, Undisturbed, Listening
      <4>2. Heartbeat(p, r, r) \in last BY <4>1 DEF Beat, Sent, Heartbeat
      <4>3. Confirmed(r, p)' BY <2>1, <2>2, <4>2 DEF Confirmed
      <4> QED BY <2>2, <3>1, <3>2, <4>3
    <3>3. CASE Prev(r) # p
      <4>1. Confirmed(r, Prev(r))' BY <1>3, <2>1, <2>2, <3>1, <3>3 DEF Confirmed
      <4> QED BY <2>2, <3>1, <4>1
    <3> QED BY <3>2, <3>3
  <2> HIDE DEF last
  <2>5. \A m \in msgs' : m.type = "heartbeat" BY <1>2, <2>1, <2>3 DEF Undisturbed
  <2> QED BY <1>2, <2>1, <2>4, <2>5 DEF Undisturbed
<1>12. ASSUME NEW p \in Ranks, Clear(p) \/ Close(p) PROVE Undisturbed'
  <2>1. /\ UNCHANGED <<failed, observing, rank>> /\ pc[p] \in {"clear", "wait"}
        /\ \A m \in msgs' : m \in msgs
        /\ \A m \in msgs : m \in msgs' \/ (m.to = p /\ observing[p] = ProcNull)
    BY <1>12 DEF Clear, Close
  <2>2. /\ pc'[p] \in {"wait", "done"} /\ (pc'[p] = "wait" \/ observing[p] = ProcNull)
        /\ \A r \in Ranks \ {p} : pc'[r] = pc[r] /\ observer'[r] = observer[r]
    BY <1>12 DEF Clear, Close, Basics, VarsOK
  <2>3. \A r \in Ranks \ {p} : beating'[r] = beating[r]
    BY <1>12 DEF Clear, Close, Basics, VarsOK
  <2>4. ASSUME NEW r \in Ranks, observing[r] # ProcNull
        PROVE  observing[r] = Prev(r) /\ pc'[r] # "done" /\ Confirmed(r, Prev(r))'
    <3>1. observing[r] = Prev(r) /\ pc[r] # "done" /\ Confirmed(r, Prev(r))
      BY <1>2, <2>4 DEF Undisturbed
    <3>2. pc'[r] # "done" BY <2>2, <2>4, <3>1
    <3>3. ASSUME NEW q, Heartbeat(q, r, r) \in msgs PROVE Heartbeat(q, r, r) \in msgs'
      <4>1. Heartbeat(q, r, r).to = r BY DEF Heartbeat
      <4> QED BY <2>1, <2>4, <3>3, <4>1
    <3>4. CASE Prev(r) = p
      <4>1. Heartbeat(p, r, r) \in msgs BY <2>1, <3>1, <3>4 DEF Confirmed
      <4>2. Confirmed(r, p)' BY <2>2, <3>3, <4>1 DEF Confirmed
      <4> QED BY <3>1, <3>2, <3>4, <4>2
    <3>5. CASE Prev(r) # p
      <4>1. Confirmed(r, Prev(r))' BY <1>3, <2>1, <2>2, <2>3, <3>1, <3>3, <3>5 DEF Confirmed
      <4> QED BY <3>1, <3>2, <4>1
    <3> QED BY <3>4, <3>5
  <2> QED BY <1>2, <2>1, <2>4 DEF Undisturbed
<1>13. ASSUME NEW p \in Ranks, Finalizing(p) PROVE Undisturbed'
  BY <1>10, <1>11, <1>12, <1>13 DEF Finalizing
<1> QED BY <1>5, <1>6, <1>7, <1>8, <1>9, <1>13 DEF Next, Proceed

-----------------------------------------------------------------------------
(* The theorems *)

\* The invariant holds in every reachable state.
LEMMA DetectorInvariance == Spec => []DetectorInv
<1>1. Init => DetectorInv BY InitBasics, InitRing, InitCalm DEF DetectorInv, Working
<1>2. DetectorInv /\ [Next]_vars => DetectorInv'
  BY NextBasics, NextWorking, NextCalm DEF DetectorInv
<1> QED BY <1>1, <1>2, PTL DEF Spec

\* Every message under way goes to a process that still listens, and names ranks
\* of MPI_COMM_WORLD; hb_observing and hb_observer are ranks or MPI_PROC_NULL.
THEOREM DetectorTypeCorrect == Spec => []TypeOK
<1>1. DetectorInv => TypeOK
  BY DEF DetectorInv, Basics, VarsOK, MsgsOK, Good, TypeOK
<1> QED BY <1>1, DetectorInvariance, PTL

\* fd_event_cb, the propagator and PMIx's reports never mark a live process as
\* failed before MPI_Finalize, and never in an MPI_Finalize without crashes.
THEOREM LiveNotSuspected == Spec => []Accurate
<1>1. DetectorInv => Accurate
  <2> SUFFICES ASSUME DetectorInv, ~closing \/ crashed = {},
                      NEW p \in Ranks \ crashed, NEW q \in Ranks
               PROVE  p \notin failed[q]
    BY DEF Accurate
  <2>1. CASE ~closing BY <2>1 DEF DetectorInv, Working, Ring, Honest
  <2>2. CASE crashed = {} BY <2>2 DEF DetectorInv, Calm, Undisturbed
  <2> QED BY <2>1, <2>2
<1> QED BY <1>1, DetectorInvariance, PTL

\* fd_heartbeat_request and fd_heartbeat_request_cb keep the ring of observers
\* before MPI_Finalize, whatever crashes and in whatever order requests arrive.
THEOREM RingOfObservers == Spec => []RingKept
<1>1. DetectorInv => RingKept
  <2> SUFFICES ASSUME DetectorInv, ~closing,
                      NEW p \in Ranks \ crashed, NEW q \in Ranks \ crashed, observing[p] = q,
                      NEW r \in Ranks \ crashed
               PROVE  /\ observer[q] = p \/ Request(p, q) \in msgs
                      /\ observing[r] = q => r = p
    BY DEF RingKept
  <2>1. Ring /\ Basics BY DEF DetectorInv, Working
  <2>2. p \in Alive /\ q \in Alive /\ r \in Alive /\ q # ProcNull BY RankFacts DEF Alive
  <2>3. observer[q] = p \/ Request(p, q) \in msgs BY <2>1, <2>2 DEF Ring, Answered
  <2>4. ASSUME observing[r] = q PROVE r = p
    <3>1. q # p /\ q # r BY <2>1, <2>4 DEF Basics, NotOneself
    <3>2. Between(q, p) \subseteq crashed /\ Between(q, r) \subseteq crashed
      BY <2>1, <2>2, <2>4 DEF Ring, Gaps, Honest
    <3> QED BY <3>1, <3>2, OneObserver
  <2> QED BY <2>3, <2>4
<1> QED BY <1>1, DetectorInvariance, PTL

\* ompi_comm_rbcast_bmg never sends a process the report of its own death, in
\* MPI_Finalize too: it is marked as failed before the report is propagated.
THEOREM NoOwnDeathReport == Spec => []NoSelfReport
<1>1. DetectorInv => NoSelfReport BY DEF DetectorInv, Basics, MsgsOK, Good, NoSelfReport
<1> QED BY <1>1, DetectorInvariance, PTL

=============================================================================
