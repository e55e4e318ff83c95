--------------------------- MODULE CommCidProofs ----------------------------
(* Proofs about CommCid, for all sets of processes and creations, all parents *)
(* and groups, and all ids in use before: types, agreement on the id, and who *)
(* holds which entry of ompi_mpi_communicators.                               *)
EXTENDS CommCid, FiniteSetTheorems, WellFoundedInduction, ModTheorems

Even(n) == \E h \in Int : n = h + h

\* What the members gave to the k-th allreduce of c.
Round(c, k) == {coll[c][q][k] : q \in Members[c]}

\* Odd allreduces propose, even ones vote. A member is at most one ahead of the
\* others, and every vote it has left behind was against the id.
Voting(p, c) ==
    LET n == Len(coll[c][p])
        at == ctx[p][c].at
    IN /\ at = "todo" => n = 0
       /\ at = "getnext" => Even(n) /\ (n > 0 => Complete(p, c) /\ 0 \in Round(c, n))
       /\ at \in {"checkcid", "failed"} => ~Even(n)
       /\ at \in {"check_flag", "done", "freed"} => n > 1 /\ Even(n)
       /\ \A q \in Members[c] : Len(coll[c][q]) >= n - 1
       /\ \A k \in 1 .. n - 1 : Even(k) => 0 \in Round(c, k)

\* What a member knows of the last two allreduces.
Result(p, c) ==
    LET n == Len(coll[c][p])
        at == ctx[p][c].at
    IN /\ at = "check_flag" => /\ coll[c][p][n] = ctx[p][c].flag
                               /\ ctx[p][c].nextcid = Max(Round(c, n - 1))
       /\ at \in {"done", "freed"} =>
             /\ Complete(p, c) /\ 0 \notin Round(c, n)
             /\ p \in Group[c] => ctx[p][c].nextcid = Max(Round(c, n - 1))

VoteInv ==
    \A c \in Creations, p \in Procs :
        /\ p \in Members[c] => Voting(p, c) /\ Result(p, c)
        /\ p \notin Members[c] => ctx[p][c].at = "todo"

\* Entry i of the table of p is held by c.
Holds(p, c, i) ==
    \/ ctx[p][c].at = "checkcid" /\ p \in Group[c] /\ i = ctx[p][c].nextlocal
    \/ ctx[p][c].at = "check_flag" /\ p \in Group[c] /\ ctx[p][c].flag = 1 /\ i = ctx[p][c].nextcid
    \/ ctx[p][c].at = "done" /\ i = ctx[p][c].nextcid

\* The table says the same; the entry behind the last id may have been
\* overwritten by processes outside of the group that had none left.
TableOf(p, c) ==
    /\ \A i \in Cids : table[p][i] = c => Holds(p, c, i)
    /\ \A i \in Cids : i < MaxCid /\ Holds(p, c, i) => table[p][i] = c
    /\ ctx[p][c].at = "checkcid" /\ p \in Group[c] => ctx[p][c].nextlocal < MaxCid

TableInv == \A p \in Procs, c \in Creations : TableOf(p, c)

CidInv == TypeOK /\ VoteInv /\ TableInv

\* The allreduces so far, and possibly one more.
Grows ==
    /\ coll' \in [Creations -> [Procs -> Seq(Cids)]]
    /\ \A c \in Creations, p \in Procs :
          /\ Len(coll'[c][p]) >= Len(coll[c][p])
          /\ \A k \in 1 .. Len(coll[c][p]) : coll'[c][p][k] = coll[c][p][k]

-----------------------------------------------------------------------------
(* Numbers *)

\* A bounded set has a maximum.
LEMMA Greatest ==
    ASSUME NEW n \in Nat, NEW S \in SUBSET (0 .. n), S # {}
    PROVE  Max(S) \in S
<1> DEFINE T == {n - x : x \in S}
<1>1. T \in SUBSET Nat /\ T # {}
  <2>1. \A x \in S : n - x \in Nat
    OBVIOUS
  <2>2. T # {}
    BY Zenon
  <2> QED BY <2>1, <2>2
<1>2. PICK m \in T : \A k \in T : m <= k
  BY <1>1, Least, Zenon
<1>3. PICK x \in S : m = n - x
  OBVIOUS
<1>4. \A y \in S : x >= y
  BY <1>2, <1>3
<1> QED
  BY <1>4, Zenon DEF Max

\* Proposals and votes alternate.
LEMMA EvenSucc ==
    ASSUME NEW n \in Nat
    PROVE  Even(n + 1) <=> ~Even(n)
<1>1. /\ n % 2 \in 0 .. 1 /\ n \div 2 \in Int
      /\ n = 2 * (n \div 2) + (n % 2)
  BY DivMod
<1> DEFINE x == n \div 2
           r == n % 2
<1> HIDE DEF x, r
<1>4. x \in Int /\ r \in 0 .. 1 /\ n = 2 * x + r
  BY <1>1 DEF x, r
<1>2. CASE r = 0
  <2>1. Even(n)
    BY <1>4, <1>2 DEF Even
  <2>2. ~Even(n + 1)
    BY <1>4, <1>2 DEF Even
  <2> QED BY <2>1, <2>2
<1>3. CASE r = 1
  <2>1. n + 1 = (x + 1) + (x + 1)
    BY <1>4, <1>3
  <2>2. Even(n + 1)
    BY <1>4, <2>1 DEF Even
  <2>3. ~Even(n)
    BY <1>4, <1>3 DEF Even
  <2> QED BY <2>2, <2>3
<1> QED
  BY <1>4, <1>2, <1>3

\* The first allreduce, number 1, is a proposal.
LEMMA EvenZero == Even(0)
  BY DEF Even

-----------------------------------------------------------------------------
(* The operators of CommCid *)

\* The maximum of an allreduce is one of the values given.
LEMMA GivenMax ==
    ASSUME TypeOK, NEW c \in Creations, NEW p \in Members[c], Complete(p, c),
           Len(coll[c][p]) > 0
    PROVE  Max(Given(p, c)) \in Cids
<1>1. MaxCid \in Nat /\ Members[c] \subseteq Procs
  BY CommCidAssumption
<1>2. \A q \in Members[c] : coll[c][q][Len(coll[c][p])] \in Cids
  <2> SUFFICES ASSUME NEW q \in Members[c]
               PROVE  coll[c][q][Len(coll[c][p])] \in Cids
    OBVIOUS
  <2>1. coll[c][p] \in Seq(Cids) /\ coll[c][q] \in Seq(Cids)
    BY <1>1 DEF TypeOK
  <2>2. Len(coll[c][q]) >= Len(coll[c][p])
    BY DEF Complete
  <2> QED BY <2>1, <2>2
<1>3. Given(p, c) \in SUBSET (0 .. MaxCid) /\ Given(p, c) # {}
  <2>1. Given(p, c) \in SUBSET (0 .. MaxCid)
    BY <1>2, Zenon DEF Given, Cids
  <2>2. coll[c][p][Len(coll[c][p])] \in Given(p, c)
    BY Zenon DEF Given
  <2> QED BY <2>1, <2>2
<1> QED
  BY <1>1, <1>3, Greatest, Zenon DEF Cids

\* FirstFree finds a free id or none.
LEMMA FirstFreeFinds ==
    ASSUME TypeOK, NEW p \in Procs, NEW start \in Nat
    PROVE  /\ FirstFree(p, start) \in Cids
           /\ FirstFree(p, start) < MaxCid => table[p][FirstFree(p, start)] = Free
<1> DEFINE free == {i \in start .. MaxCid - 1 : table[p][i] = Free}
<1>1. MaxCid \in Nat
  BY CommCidAssumption
<1>2. CASE free = {}
  BY <1>1, <1>2 DEF FirstFree, Cids
<1>3. CASE free # {}
  <2>1. free \in SUBSET Nat
    BY <1>1
  <2>2. \E m \in free : \A k \in free : m <= k
    BY <1>3, <2>1, Least, Zenon
  <2> HIDE DEF free
  <2>3. Min(free) \in free
    BY <2>2 DEF Min
  <2>4. FirstFree(p, start) = Min(free)
    BY <1>3 DEF FirstFree, free
  <2> QED BY <1>1, <2>3, <2>4 DEF free, Cids
<1> QED
  BY <1>2, <1>3

\* A contribution is appended; nothing else changes.
LEMMA ContributeGrows ==
    ASSUME TypeOK, NEW c \in Creations, NEW p \in Procs, NEW v \in Cids, Contribute(p, c, v)
    PROVE  /\ Grows
           /\ \A d \in Creations, q \in Procs : d # c \/ q # p => coll'[d][q] = coll[d][q]
           /\ Len(coll'[c][p]) = Len(coll[c][p]) + 1
           /\ coll'[c][p][Len(coll[c][p]) + 1] = v
<1>1. coll \in [Creations -> [Procs -> Seq(Cids)]]
  BY DEF TypeOK
<1>2. coll' = [coll EXCEPT ![c] = [coll[c] EXCEPT ![p] = Append(coll[c][p], v)]]
  BY <1>1 DEF Contribute
<1>3. coll[c][p] \in Seq(Cids)
  BY <1>1
<1>4. coll'[c][p] = Append(coll[c][p], v)
  BY <1>1, <1>2
<1>5. \A d \in Creations, q \in Procs : d # c \/ q # p => coll'[d][q] = coll[d][q]
  BY <1>1, <1>2
<1>6. /\ coll'[c][p] \in Seq(Cids)
      /\ Len(coll'[c][p]) = Len(coll[c][p]) + 1
      /\ coll'[c][p][Len(coll[c][p]) + 1] = v
      /\ \A k \in 1 .. Len(coll[c][p]) : coll'[c][p][k] = coll[c][p][k]
  BY <1>3, <1>4
<1>7. coll' \in [Creations -> [Procs -> Seq(Cids)]]
  BY <1>1, <1>2, <1>3, <1>4, <1>6
<1>8. \A d \in Creations, q \in Procs :
          /\ Len(coll'[d][q]) >= Len(coll[d][q])
          /\ \A k \in 1 .. Len(coll[d][q]) : coll'[d][q][k] = coll[d][q][k]
  <2> SUFFICES ASSUME NEW d \in Creations, NEW q \in Procs
               PROVE  /\ Len(coll'[d][q]) >= Len(coll[d][q])
                      /\ \A k \in 1 .. Len(coll[d][q]) : coll'[d][q][k] = coll[d][q][k]
    OBVIOUS
  <2>1. coll[d][q] \in Seq(Cids)
    BY <1>1
  <2>2. CASE d # c \/ q # p
    BY <1>5, <2>1, <2>2
  <2>3. CASE d = c /\ q = p
    BY <1>6, <2>1, <2>3
  <2> QED BY <2>2, <2>3
<1> QED
  BY <1>5, <1>6, <1>7, <1>8 DEF Grows

\* Steps without an allreduce.
LEMMA StutterGrows ==
    ASSUME TypeOK, UNCHANGED coll
    PROVE  Grows
<1>1. \A d \in Creations, q \in Procs : Len(coll[d][q]) \in Nat
  BY DEF TypeOK
<1> QED
  BY <1>1 DEF TypeOK, Grows

\* A complete allreduce keeps its values.
LEMMA RoundKept ==
    ASSUME TypeOK, Grows, NEW c \in Creations, NEW k \in Nat \ {0},
           \A q \in Members[c] : Len(coll[c][q]) >= k
    PROVE  Round(c, k)' = Round(c, k)
<1>1. \A q \in Members[c] : q \in Procs /\ Len(coll[c][q]) \in Nat
  BY CommCidAssumption DEF TypeOK
<1>2. \A q \in Members[c] : coll'[c][q][k] = coll[c][q][k]
  BY <1>1 DEF Grows
<1> QED
  BY <1>2, Zenon DEF Round

-----------------------------------------------------------------------------
(* Steps *)

\* The context of a creation in a process.
Context ==
    [at : {"todo", "getnext", "checkcid", "check_flag", "done", "freed", "failed"},
     start : 0 .. MaxCid + 1, nextlocal : Cids, nextcid : Cids, flag : {0, 1}]

\* At most p gave something, to an allreduce of c.
OwnColl(p, c) ==
    \A d \in Creations, q \in Procs : d # c \/ q # p => coll'[d][q] = coll[d][q]

\* What a step of c in p leaves alone.
Frame(p, c) ==
    /\ TypeOK' /\ Grows
    /\ \A d \in Creations, q \in Procs :
          d # c \/ q # p => coll'[d][q] = coll[d][q] /\ ctx'[q][d] = ctx[q][d]
    /\ \A q \in Procs : q # p => table'[q] = table[q]

\* What the proofs need of the constants.
LEMMA Constants ==
    /\ MaxCid \in Nat \ {0} /\ 0 \in Cids /\ 1 \in Cids
    /\ Creations \subseteq Nat
    /\ \A c \in Creations : Group[c] \subseteq Members[c] /\ Members[c] \subseteq Procs
    /\ \A c \in Creations : c # Free /\ c # Other /\ c # NoId
  BY CommCidAssumption DEF Cids, Free, Other, NoId

\* The initial values have their types.
LEMMA InitType == Init => TypeOK
<1> SUFFICES ASSUME Init PROVE TypeOK
  OBVIOUS
<1> USE Constants
<1>1. table \in [Procs -> [Cids -> Creations \cup {Free, Other}]]
  BY DEF Init
<1>2. lowest \in [Procs -> Creations \cup {NoId}]
  BY DEF Init
<1>3. ctx \in [Procs -> [Creations -> Context]]
  BY DEF Init, Context
<1>4. coll \in [Creations -> [Procs -> Seq(Cids)]]
  BY DEF Init
<1> QED
  BY <1>1, <1>2, <1>3, <1>4 DEF TypeOK, Context

\* A step writes one context, one row of the table and one of lowest.
LEMMA StepFrame ==
    ASSUME TypeOK, NEW p \in Procs, NEW c \in Creations, NEW r \in Context,
           NEW t \in [Cids -> Creations \cup {Free, Other}], NEW l \in Creations \cup {NoId},
           ctx' = [ctx EXCEPT ![p] = [ctx[p] EXCEPT ![c] = r]],
           table' = [table EXCEPT ![p] = t], lowest' = [lowest EXCEPT ![p] = l],
           Grows, OwnColl(p, c)
    PROVE  Frame(p, c) /\ ctx'[p][c] = r /\ table'[p] = t
<1>0. /\ table \in [Procs -> [Cids -> Creations \cup {Free, Other}]]
      /\ lowest \in [Procs -> Creations \cup {NoId}]
      /\ ctx \in [Procs -> [Creations -> Context]]
  BY DEF TypeOK, Context
<1>1. /\ ctx' \in [Procs -> [Creations -> Context]] /\ ctx'[p][c] = r
      /\ \A d \in Creations, q \in Procs : d # c \/ q # p => ctx'[q][d] = ctx[q][d]
  BY <1>0
<1>2. /\ table' \in [Procs -> [Cids -> Creations \cup {Free, Other}]] /\ table'[p] = t
      /\ \A q \in Procs : q # p => table'[q] = table[q]
  BY <1>0
<1>3. lowest' \in [Procs -> Creations \cup {NoId}]
  BY <1>0
<1>4. TypeOK'
  BY <1>1, <1>2, <1>3 DEF TypeOK, Context, Grows
<1> QED
  BY <1>1, <1>2, <1>4 DEF Frame, OwnColl

\* Only members of the parent take part.
LEMMA OnlyMembers ==
    ASSUME VoteInv, NEW p \in Procs, NEW c \in Creations, ctx[p][c].at # "todo"
    PROVE  p \in Members[c] /\ Voting(p, c) /\ Result(p, c)
  BY DEF VoteInv

\* What a member that takes no part in a step knows stays true: the others
\* only add to the allreduces.
LEMMA Unmoved ==
    ASSUME TypeOK, Grows, NEW c \in Creations, NEW p \in Members[c],
           ctx'[p][c] = ctx[p][c], coll'[c][p] = coll[c][p], Voting(p, c), Result(p, c)
    PROVE  Voting(p, c)' /\ Result(p, c)'
<1> DEFINE n == Len(coll[c][p])
<1>1. \A q \in Members[c] : q \in Procs /\ Len(coll[c][q]) \in Nat /\ Len(coll'[c][q]) \in Nat
  BY Constants DEF TypeOK, Grows
<1>2. n \in Nat /\ n' = n
  BY <1>1
<1>3. \A q \in Members[c] : Len(coll'[c][q]) >= Len(coll[c][q])
  BY <1>1 DEF Grows
<1>4. \A q \in Members[c] : Len(coll[c][q]) >= n - 1
  BY DEF Voting
<1>5. \A k \in 1 .. n - 1 : Round(c, k)' = Round(c, k)
  <2> SUFFICES ASSUME NEW k \in 1 .. n - 1 PROVE Round(c, k)' = Round(c, k)
    OBVIOUS
  <2>1. k \in Nat \ {0} /\ \A q \in Members[c] : Len(coll[c][q]) >= k
    BY <1>1, <1>2, <1>4
  <2> QED BY <2>1, RoundKept
<1>6. Complete(p, c) => Complete(p, c)'
  BY <1>1, <1>2, <1>3, SMTT(30) DEF Complete
<1>7. Complete(p, c) /\ n > 0 => Round(c, n)' = Round(c, n)
  BY <1>1, <1>2, RoundKept DEF Complete
<1> HIDE DEF n
<1>8. Voting(p, c)'
  <2>1. ASSUME NEW q \in Members[c] PROVE Len(coll'[c][q]) >= n - 1
    <3>1. /\ Len(coll'[c][q]) \in Nat /\ Len(coll[c][q]) \in Nat
          /\ Len(coll'[c][q]) >= Len(coll[c][q]) /\ Len(coll[c][q]) >= n - 1
      BY <1>1, <1>3, <1>4, Zenon
    <3> QED BY <1>2, <3>1
  <2>2. \A k \in 1 .. n - 1 : Even(k) => 0 \in Round(c, k)'
    BY <1>5 DEF Voting, n
  <2>3. ctx[p][c].at = "getnext" => Even(n) /\ (n > 0 => Complete(p, c)' /\ 0 \in Round(c, n)')
    BY <1>6, <1>7 DEF Voting, n
  <2> QED BY <1>2, <2>1, <2>2, <2>3 DEF Voting, n
<1>9. Result(p, c)'
  <2>1. ctx[p][c].at \in {"check_flag", "done", "freed"} => n > 1
    BY DEF Voting, n
  <2>2. n > 1 => Round(c, n - 1)' = Round(c, n - 1)
    BY <1>2, <1>5
  <2>3. ctx[p][c].at = "check_flag" =>
            /\ coll[c][p][n] = ctx[p][c].flag
            /\ ctx[p][c].nextcid = Max(Round(c, n - 1)')
    BY <2>1, <2>2 DEF Result, n
  <2>4. ctx[p][c].at \in {"done", "freed"} =>
             /\ Complete(p, c)' /\ 0 \notin Round(c, n)'
             /\ p \in Group[c] => ctx[p][c].nextcid = Max(Round(c, n - 1)')
    BY <1>2, <1>6, <1>7, <2>1, <2>2 DEF Result, n
  <2> QED BY <1>2, <2>3, <2>4 DEF Result, n
<1> QED
  BY <1>8, <1>9

\* The invariant is kept if the process that moves keeps its part of it, and
\* disturbs no entry of another creation.
LEMMA KeepsInv ==
    ASSUME CidInv, NEW p \in Procs, NEW c \in Creations, Frame(p, c), p \in Members[c],
           Voting(p, c)', Result(p, c)', TableOf(p, c)',
           \A i \in Cids : \A d \in Creations \ {c} :
               /\ table'[p][i] = d => table[p][i] = d
               /\ i < MaxCid /\ table[p][i] = d => table'[p][i] = d
    PROVE  CidInv'
<1> USE Constants
<1>1. TypeOK'
  BY DEF Frame
<1>2. VoteInv'
  <2> SUFFICES ASSUME NEW d \in Creations, NEW q \in Procs
               PROVE  /\ q \in Members[d] => Voting(q, d)' /\ Result(q, d)'
                      /\ q \notin Members[d] => ctx'[q][d].at = "todo"
    BY Zenon DEF VoteInv
  <2>1. CASE d = c /\ q = p
    BY <2>1
  <2>2. CASE d # c \/ q # p
    <3>1. coll'[d][q] = coll[d][q] /\ ctx'[q][d] = ctx[q][d] /\ Grows /\ TypeOK
      BY <2>2 DEF Frame, CidInv
    <3>2. q \in Members[d] => Voting(q, d) /\ Result(q, d)
      BY DEF CidInv, VoteInv
    <3>3. q \notin Members[d] => ctx[q][d].at = "todo"
      BY Zenon DEF CidInv, VoteInv
    <3> QED BY <3>1, <3>2, <3>3, Unmoved
  <2> QED BY <2>1, <2>2
<1>3. TableInv'
  <2> SUFFICES ASSUME NEW d \in Creations, NEW q \in Procs PROVE TableOf(q, d)'
    BY DEF TableInv
  <2>1. CASE d = c /\ q = p
    BY <2>1
  <2>2. CASE d # c \/ q # p
    <3>1. ctx'[q][d] = ctx[q][d] /\ TableOf(q, d)
      BY <2>2 DEF Frame, CidInv, TableInv
    <3>2. \A i \in Cids : Holds(q, d, i)' <=> Holds(q, d, i)
      BY <3>1 DEF Holds
    <3>3. \A i \in Cids : /\ table'[q][i] = d => table[q][i] = d
                          /\ i < MaxCid /\ table[q][i] = d => table'[q][i] = d
      BY <2>2 DEF Frame
    <3> QED BY <3>1, <3>2, <3>3 DEF TableOf
  <2> QED BY <2>1, <2>2
<1> QED
  BY <1>1, <1>2, <1>3 DEF CidInv

-----------------------------------------------------------------------------
(* One lemma per action *)

\* ompi_comm_nextcid_nb keeps the invariant.
LEMMA NextCidKeeps ==
    ASSUME CidInv, NEW p \in Procs, NEW c \in Creations, NextCid(p, c)
    PROVE  CidInv'
<1> USE Constants
<1> DEFINE r == [ctx[p][c] EXCEPT !.at = "getnext", !.start = FirstFree(p, 0)]
<1>1. TypeOK /\ ctx[p][c].at = "todo" /\ p \in Members[c] /\ TableOf(p, c) /\ Voting(p, c)
  BY DEF NextCid, CidInv, TableInv, VoteInv
<1>2. ctx[p][c] \in Context /\ table[p] \in [Cids -> Creations \cup {Free, Other}]
      /\ lowest[p] \in Creations \cup {NoId}
  BY <1>1 DEF TypeOK, Context
<1>3. r \in Context
  <2>1. FirstFree(p, 0) \in 0 .. MaxCid + 1
    BY <1>1, FirstFreeFinds DEF Cids
  <2> QED BY <1>2, <2>1, Zenon DEF Context
<1>4. /\ ctx' = [ctx EXCEPT ![p] = [ctx[p] EXCEPT ![c] = r]] /\ coll' = coll
      /\ table' = [table EXCEPT ![p] = table[p]] /\ lowest' = [lowest EXCEPT ![p] = lowest[p]]
  BY <1>1, Zenon DEF NextCid, TypeOK
<1>5. Frame(p, c) /\ ctx'[p][c] = r /\ table'[p] = table[p]
  <2> HIDE DEF r
  <2>1. Grows /\ OwnColl(p, c)
    BY <1>1, <1>4, StutterGrows DEF OwnColl
  <2> QED BY <1>1, <1>2, <1>3, <1>4, <2>1, StepFrame, Zenon
<1>6. ctx'[p][c].at = "getnext"
  BY <1>2, <1>5 DEF Context
<1> HIDE DEF r
<1>7. Len(coll[c][p]) = 0 /\ \A q \in Members[c] : Len(coll[c][q]) \in Nat
  BY <1>1 DEF Voting, TypeOK
<1>8. Voting(p, c)' /\ Result(p, c)'
  <2>1. Len(coll'[c][p]) = 0 /\ \A q \in Members[c] : Len(coll'[c][q]) >= 0 - 1
    BY <1>4, <1>7
  <2> QED BY <1>6, <2>1, EvenZero DEF Voting, Result
<1>9. TableOf(p, c)'
  BY <1>1, <1>5, <1>6 DEF TableOf, Holds
<1> QED
  BY <1>1, <1>5, <1>8, <1>9, KeepsInv

\* ompi_comm_allreduce_getnextcid keeps the invariant: the last vote was against
\* the id, and the id proposed now was free.
LEMMA GetNextCidKeeps ==
    ASSUME CidInv, NEW p \in Procs, NEW c \in Creations, GetNextCid(p, c)
    PROVE  CidInv'
<1> USE Constants
<1> DEFINE local == IF p \in Group[c] THEN FirstFree(p, ctx[p][c].start) ELSE 0
           r == [ctx[p][c] EXCEPT !.at = IF local = MaxCid THEN "failed" ELSE "checkcid",
                                  !.nextlocal = local]
           taken == p \in Group[c] /\ local # MaxCid
           t == IF taken THEN [table[p] EXCEPT ![local] = c] ELSE table[p]
           l == IF local = MaxCid THEN NoId ELSE c
           n == Len(coll[c][p])
<1>1. TypeOK /\ ctx[p][c].at = "getnext" /\ TableOf(p, c) /\ p \in Members[c] /\ Voting(p, c)
  BY OnlyMembers DEF GetNextCid, CidInv, TableInv
<1>2. /\ ctx[p][c] \in Context /\ ctx[p][c].start \in Nat
      /\ table[p] \in [Cids -> Creations \cup {Free, Other}]
  BY <1>1 DEF TypeOK, Context
<1>3. local \in Cids /\ (taken => table[p][local] = Free)
  <2>1. /\ FirstFree(p, ctx[p][c].start) \in Cids
        /\ FirstFree(p, ctx[p][c].start) < MaxCid => table[p][FirstFree(p, ctx[p][c].start)] = Free
    BY <1>1, <1>2, FirstFreeFinds
  <2> QED BY <2>1 DEF Cids
<1>4. /\ ctx' = [ctx EXCEPT ![p] = [ctx[p] EXCEPT ![c] = r]]
      /\ table' = [table EXCEPT ![p] = t] /\ lowest' = [lowest EXCEPT ![p] = l]
      /\ Contribute(p, c, local)
  <2>1. ctx \in [Procs -> [Creations -> Context]]
        /\ table \in [Procs -> [Cids -> Creations \cup {Free, Other}]]
    BY <1>1 DEF TypeOK, Context
  <2>2. ctx' = [ctx EXCEPT ![p] = [ctx[p] EXCEPT ![c] = r]]
    BY <2>1, Zenon DEF GetNextCid
  <2>3. table' = [table EXCEPT ![p] = t]
    BY <2>1, Zenon DEF GetNextCid
  <2> QED BY <2>2, <2>3, Zenon DEF GetNextCid
<1> HIDE DEF local
<1>5. r \in Context /\ t \in [Cids -> Creations \cup {Free, Other}] /\ l \in Creations \cup {NoId}
  BY <1>2, <1>3, Zenon DEF Context
<1>6. /\ r.at = (IF local = MaxCid THEN "failed" ELSE "checkcid") /\ r.nextlocal = local
      /\ \A i \in Cids : t[i] = IF taken /\ i = local THEN c ELSE table[p][i]
  BY <1>2, <1>3 DEF Context
<1> HIDE DEF r, t, l
<1>7. /\ Grows /\ \A d \in Creations, q \in Procs : d # c \/ q # p => coll'[d][q] = coll[d][q]
      /\ Len(coll'[c][p]) = n + 1
  BY <1>1, <1>3, <1>4, ContributeGrows
<1>8. Frame(p, c) /\ ctx'[p][c] = r /\ table'[p] = t
  <2>1. Grows /\ OwnColl(p, c)
    BY <1>7 DEF OwnColl
  <2> QED BY <1>1, <1>4, <1>5, <2>1, StepFrame, Zenon
<1>9. Voting(p, c)' /\ Result(p, c)'
  <2>1. n \in Nat /\ \A q \in Members[c] : Len(coll[c][q]) \in Nat /\ Len(coll'[c][q]) \in Nat
    BY <1>1, <1>7 DEF TypeOK, Grows
  <2>2. Even(n) /\ (n > 0 => Complete(p, c) /\ 0 \in Round(c, n))
    BY <1>1 DEF Voting
  <2>3. \A q \in Members[c] : Len(coll[c][q]) >= n
    BY <2>1, <2>2 DEF Complete
  <2>4. \A q \in Members[c] : Len(coll'[c][q]) >= n
    BY <1>7, <2>1, <2>3 DEF Grows
  <2>5. \A k \in 1 .. n : Even(k) => 0 \in Round(c, k)'
    <3> SUFFICES ASSUME NEW k \in 1 .. n, Even(k) PROVE 0 \in Round(c, k)'
      OBVIOUS
    <3>1. 0 \in Round(c, k)
      BY <1>1, <2>1, <2>2 DEF Voting
    <3>2. k \in Nat \ {0} /\ \A q \in Members[c] : Len(coll[c][q]) >= k
      BY <2>1, <2>3
    <3> QED BY <1>1, <1>7, <3>1, <3>2, RoundKept
  <2>6. ~Even(n + 1)
    BY <2>1, <2>2, EvenSucc, Zenon
  <2>7. PICK m \in Nat : m = n
    BY <2>1
  <2>8. Len(coll'[c][p]) = m + 1 /\ m + 1 - 1 = m /\ ~Even(m + 1)
    BY <1>7, <2>6, <2>7
  <2>9. ctx'[p][c].at \in {"failed", "checkcid"}
    BY <1>6, <1>8
  <2> QED BY <2>4, <2>5, <2>7, <2>8, <2>9 DEF Voting, Result
<1>10. TableOf(p, c)'
  <2>1. \A i \in Cids : table[p][i] # c
    BY <1>1 DEF TableOf, Holds
  <2>2. \A i \in Cids : table'[p][i] = c => taken /\ i = local
    BY <1>6, <1>8, <2>1
  <2>3. taken => table'[p][local] = c /\ local < MaxCid
    BY <1>3, <1>6, <1>8 DEF Cids
  <2> QED BY <1>3, <1>6, <1>8, <2>2, <2>3 DEF TableOf, Holds
<1>11. \A i \in Cids : \A d \in Creations \ {c} :
          /\ table'[p][i] = d => table[p][i] = d
          /\ i < MaxCid /\ table[p][i] = d => table'[p][i] = d
  BY <1>3, <1>6, <1>8
<1> QED
  BY <1>1, <1>8, <1>9, <1>10, <1>11, KeepsInv

\* ompi_comm_checkcid keeps the invariant: the process moves to the maximum if
\* it is free, and holds nothing otherwise.
LEMMA CheckCidKeeps ==
    ASSUME CidInv, NEW p \in Procs, NEW c \in Creations, CheckCid(p, c)
    PROVE  CidInv'
<1> USE Constants
<1> DEFINE next == Max(Given(p, c))
           local == ctx[p][c].nextlocal
           ok == next = local \/ table[p][next] = Free
           flag == IF p \notin Group[c] \/ ok THEN 1 ELSE 0
           r == [ctx[p][c] EXCEPT !.at = "check_flag", !.nextcid = next, !.flag = flag]
           t == IF p \notin Group[c] THEN table[p]
                ELSE IF ok
                THEN [k \in Cids |-> IF k = next THEN c ELSE IF k = local THEN Free ELSE table[p][k]]
                ELSE [table[p] EXCEPT ![local] = Free]
           n == Len(coll[c][p])
<1>1. /\ TypeOK /\ ctx[p][c].at = "checkcid" /\ TableOf(p, c)
      /\ p \in Members[c] /\ Voting(p, c) /\ Complete(p, c)
  BY OnlyMembers DEF CheckCid, CidInv, TableInv
<1>2. /\ ctx[p][c] \in Context /\ local \in Cids /\ lowest[p] \in Creations \cup {NoId}
      /\ table[p] \in [Cids -> Creations \cup {Free, Other}]
  BY <1>1 DEF TypeOK, Context
<1>3. n \in Nat /\ ~Even(n) /\ n > 0
  BY <1>1, EvenZero DEF Voting, TypeOK
<1>4. next \in Cids /\ flag \in Cids /\ flag \in {0, 1} /\ next = Max(Round(c, n))
  <2>1. Given(p, c) = Round(c, n)
    BY DEF Given, Round
  <2> QED BY <1>1, <1>3, <2>1, GivenMax
<1>5. /\ ctx' = [ctx EXCEPT ![p] = [ctx[p] EXCEPT ![c] = r]]
      /\ table' = [table EXCEPT ![p] = t] /\ lowest' = [lowest EXCEPT ![p] = lowest[p]]
      /\ Contribute(p, c, flag)
  <2>1. ctx \in [Procs -> [Creations -> Context]]
        /\ table \in [Procs -> [Cids -> Creations \cup {Free, Other}]]
        /\ lowest \in [Procs -> Creations \cup {NoId}]
    BY <1>1 DEF TypeOK, Context
  <2>2. ctx' = [ctx EXCEPT ![p] = [ctx[p] EXCEPT ![c] = r]]
    BY <2>1, ZenonT(60) DEF CheckCid
  <2>3. table' = [table EXCEPT ![p] = t]
    BY <2>1, Zenon DEF CheckCid, Move
  <2> QED BY <2>1, <2>2, <2>3, Zenon DEF CheckCid
<1> HIDE DEF next
<1>6. r \in Context /\ t \in [Cids -> Creations \cup {Free, Other}]
  BY <1>2, <1>4, Zenon DEF Context
<1>7. /\ r.at = "check_flag" /\ r.nextcid = next /\ r.flag = flag
      /\ \A i \in Cids : t[i] = IF p \notin Group[c] THEN table[p][i]
                                ELSE IF ok /\ i = next THEN c
                                ELSE IF i = local THEN Free ELSE table[p][i]
  BY <1>2, <1>4, SMTT(30) DEF Context
<1> HIDE DEF r, t
<1>8. /\ Grows /\ \A d \in Creations, q \in Procs : d # c \/ q # p => coll'[d][q] = coll[d][q]
      /\ Len(coll'[c][p]) = n + 1 /\ coll'[c][p][n + 1] = flag
  BY <1>1, <1>4, <1>5, ContributeGrows
<1>9. Frame(p, c) /\ ctx'[p][c] = r /\ table'[p] = t
  <2>1. Grows /\ OwnColl(p, c)
    BY <1>8 DEF OwnColl
  <2> QED BY <1>1, <1>2, <1>5, <1>6, <2>1, StepFrame, Zenon
<1>10. Voting(p, c)' /\ Result(p, c)'
  <2>1. \A q \in Members[c] : Len(coll[c][q]) \in Nat /\ Len(coll'[c][q]) \in Nat
    BY <1>1, <1>8 DEF TypeOK, Grows
  <2>2. \A q \in Members[c] : Len(coll[c][q]) >= n
    BY <1>1 DEF Complete
  <2>3. \A q \in Members[c] : Len(coll'[c][q]) >= n
    BY <1>3, <1>8, <2>1, <2>2 DEF Grows
  <2>4. \A k \in 1 .. n : Round(c, k)' = Round(c, k)
    <3> SUFFICES ASSUME NEW k \in 1 .. n PROVE Round(c, k)' = Round(c, k)
      OBVIOUS
    <3>1. k \in Nat \ {0} /\ \A q \in Members[c] : Len(coll[c][q]) >= k
      BY <1>3, <2>1, <2>2
    <3> QED BY <1>1, <1>8, <3>1, RoundKept
  <2>5. \A k \in 1 .. n : Even(k) => 0 \in Round(c, k)'
    BY <1>1, <1>3, <2>4 DEF Voting
  <2>7. PICK m \in Nat : m = n /\ m > 0 /\ ~Even(m)
    BY <1>3
  <2>6. Even(m + 1)
    BY <2>7, EvenSucc, Zenon
  <2>8. next = Max(Round(c, m)')
    BY <1>4, <2>4, <2>7
  <2>9. Len(coll'[c][p]) = m + 1 /\ m + 1 - 1 = m /\ Even(m + 1) /\ m + 1 > 1
    BY <1>8, <2>6, <2>7
  <2>10. Voting(p, c)'
    BY <1>7, <1>9, <2>3, <2>5, <2>7, <2>9, SMTT(30) DEF Voting
  <2>11. Result(p, c)'
    BY <1>7, <1>8, <1>9, <2>7, <2>8, <2>9 DEF Result
  <2> QED BY <2>10, <2>11
<1>11. p \in Group[c] => local < MaxCid /\ table[p][local] = c
                         /\ \A i \in Cids : table[p][i] = c => i = local
  BY <1>1, <1>2 DEF TableOf, Holds
<1>12. p \notin Group[c] => \A i \in Cids : table[p][i] # c
  BY <1>1 DEF TableOf, Holds
<1>13. TableOf(p, c)'
  <2>1. \A i \in Cids : Holds(p, c, i)' <=> p \in Group[c] /\ flag = 1 /\ i = next
    BY <1>7, <1>9 DEF Holds
  <2>2. \A i \in Cids : table'[p][i] = c <=> p \in Group[c] /\ flag = 1 /\ i = next
    BY <1>7, <1>9, <1>11, <1>12
  <2> QED BY <1>7, <1>9, <2>1, <2>2 DEF TableOf
<1>14. \A i \in Cids : \A d \in Creations \ {c} :
          /\ table'[p][i] = d => table[p][i] = d
          /\ i < MaxCid /\ table[p][i] = d => table'[p][i] = d
  BY <1>7, <1>9, <1>11
<1> QED
  BY <1>1, <1>9, <1>10, <1>13, <1>14, KeepsInv

\* What a step without an allreduce leaves of the actor's votes.
LEMMA QuietVotes ==
    ASSUME TypeOK, NEW c \in Creations, NEW p \in Members[c], coll' = coll
    PROVE  /\ Grows /\ OwnColl(p, c)
           /\ Complete(p, c)' <=> Complete(p, c)
           /\ Given(p, c) = Round(c, Len(coll[c][p]))
           /\ \A k \in Nat : Round(c, k)' = Round(c, k)
<1>1. Grows /\ OwnColl(p, c)
  BY StutterGrows DEF OwnColl
<1>2. Complete(p, c)' <=> Complete(p, c)
  BY DEF Complete
<1>3. \A k \in Nat : Round(c, k)' = Round(c, k)
  BY DEF Round
<1>4. Given(p, c) = Round(c, Len(coll[c][p]))
  BY DEF Given, Round
<1> QED
  BY <1>1, <1>2, <1>3, <1>4

\* The end of a creation keeps the invariant: a process of the group voted for
\* the id, so it holds the entry; one outside of it takes a free id.
LEMMA AgreedKeeps ==
    ASSUME CidInv, NEW p \in Procs, NEW c \in Creations, Agreed(p, c)
    PROVE  CidInv'
<1> USE Constants
<1> DEFINE id == IF p \in Group[c] THEN ctx[p][c].nextcid ELSE FirstFree(p, ctx[p][c].start)
           r == [ctx[p][c] EXCEPT !.at = "done", !.nextcid = id]
           t == [table[p] EXCEPT ![id] = c]
           n == Len(coll[c][p])
<1>1. /\ TypeOK /\ ctx[p][c].at = "check_flag" /\ TableOf(p, c) /\ p \in Members[c]
      /\ Voting(p, c) /\ Result(p, c) /\ Complete(p, c) /\ 0 \notin Given(p, c) /\ coll' = coll
  BY OnlyMembers DEF Agreed, CidInv, TableInv
<1>2. /\ ctx[p][c] \in Context /\ ctx[p][c].start \in Nat /\ ctx[p][c].nextcid \in Cids
      /\ ctx[p][c].flag \in {0, 1}
      /\ table[p] \in [Cids -> Creations \cup {Free, Other}]
  BY <1>1, SMTT(30) DEF TypeOK, Context
<1>3. id \in Cids /\ (p \notin Group[c] /\ id < MaxCid => table[p][id] = Free)
  <2>1. /\ FirstFree(p, ctx[p][c].start) \in Cids
        /\ FirstFree(p, ctx[p][c].start) < MaxCid => table[p][FirstFree(p, ctx[p][c].start)] = Free
    BY <1>1, <1>2, FirstFreeFinds
  <2> QED BY <1>2, <2>1, SMTT(30)
<1>4. /\ ctx' = [ctx EXCEPT ![p] = [ctx[p] EXCEPT ![c] = r]]
      /\ table' = [table EXCEPT ![p] = t] /\ lowest' = [lowest EXCEPT ![p] = NoId]
  <2>1. ctx \in [Procs -> [Creations -> Context]]
        /\ table \in [Procs -> [Cids -> Creations \cup {Free, Other}]]
    BY <1>1 DEF TypeOK, Context
  <2>2. ctx' = [ctx EXCEPT ![p] = [ctx[p] EXCEPT ![c] = r]]
    BY <2>1, Zenon DEF Agreed
  <2>3. table' = [table EXCEPT ![p] = t]
    BY <2>1 DEF Agreed
  <2> QED BY <2>2, <2>3, Zenon DEF Agreed
<1>5. p \in Group[c] => id = ctx[p][c].nextcid
  OBVIOUS
<1> HIDE DEF id
<1>6. r \in Context /\ t \in [Cids -> Creations \cup {Free, Other}]
  BY <1>2, <1>3, Zenon DEF Context
<1>7. /\ r.at = "done" /\ r.nextcid = id
      /\ \A i \in Cids : t[i] = IF i = id THEN c ELSE table[p][i]
  BY <1>2, <1>3 DEF Context
<1> HIDE DEF r, t
<1>8. Frame(p, c) /\ ctx'[p][c] = r /\ table'[p] = t
  <2>1. Grows /\ OwnColl(p, c)
    BY <1>1, QuietVotes, SMTT(30)
  <2> QED BY <1>1, <1>4, <1>6, <2>1, StepFrame, Zenon
<1>9. Voting(p, c)' /\ Result(p, c)'
  <2>1. n \in Nat /\ n > 1 /\ Even(n)
    BY <1>1 DEF Voting, TypeOK
  <2>2. PICK m \in Nat : m = n /\ m > 1 /\ Even(m)
    BY <2>1
  <2>3. /\ Complete(p, c)' /\ 0 \notin Round(c, m)'
        /\ Round(c, m - 1)' = Round(c, m - 1) /\ Len(coll'[c][p]) = m
    BY <1>1, <2>2, QuietVotes, SMTT(30)
  <2>4. /\ \A q \in Members[c] : Len(coll'[c][q]) >= m - 1
        /\ \A k \in 1 .. m - 1 : Even(k) => 0 \in Round(c, k)'
    BY <1>1, <2>2, QuietVotes, SMTT(30) DEF Voting
  <2>5. p \in Group[c] => id = Max(Round(c, m - 1)')
    BY <1>1, <1>5, <2>2, <2>3 DEF Result
  <2>6. Voting(p, c)'
    BY <1>7, <1>8, <2>2, <2>3, <2>4, SMTT(30) DEF Voting
  <2>7. Result(p, c)'
    BY <1>7, <1>8, <2>3, <2>5, SMTT(30) DEF Result
  <2> QED BY <2>6, <2>7
<1>10. p \in Group[c] => ctx[p][c].flag = 1
  <2>1. coll[c][p][n] \in Given(p, c)
    BY <1>1, Zenon DEF Given
  <2>2. coll[c][p][n] = ctx[p][c].flag
    BY <1>1, SMTT(30) DEF Result
  <2> QED BY <1>1, <1>2, <2>1, <2>2
<1>11. p \in Group[c] => /\ id < MaxCid => table[p][id] = c
                         /\ \A i \in Cids : table[p][i] = c => i = id
  BY <1>1, <1>3, <1>5, <1>10, SMTT(30) DEF TableOf, Holds
<1>12. p \notin Group[c] => \A i \in Cids : table[p][i] # c
  BY <1>1 DEF TableOf, Holds
<1>13. TableOf(p, c)'
  <2>1. \A i \in Cids : Holds(p, c, i)' <=> i = id
    BY <1>7, <1>8 DEF Holds
  <2>2. \A i \in Cids : table'[p][i] = c <=> i = id
    BY <1>7, <1>8, <1>11, <1>12
  <2> QED BY <1>7, <1>8, <2>1, <2>2, SMTT(30) DEF TableOf
<1>14. \A i \in Cids : \A d \in Creations \ {c} :
          /\ table'[p][i] = d => table[p][i] = d
          /\ i < MaxCid /\ table[p][i] = d => table'[p][i] = d
  BY <1>3, <1>7, <1>8, <1>11, SMTT(30)
<1> QED
  BY <1>1, <1>8, <1>9, <1>13, <1>14, KeepsInv

\* A failed vote keeps the invariant: who held the id gives it back.
LEMMA AgainKeeps ==
    ASSUME CidInv, NEW p \in Procs, NEW c \in Creations, Again(p, c)
    PROVE  CidInv'
<1> USE Constants
<1> DEFINE mine == p \in Group[c] /\ ctx[p][c].flag # 0
           id == ctx[p][c].nextcid
           r == [ctx[p][c] EXCEPT !.at = "getnext",
                                  !.start = IF mine THEN id + 1 ELSE ctx[p][c].start]
           t == IF mine THEN [table[p] EXCEPT ![id] = Free] ELSE table[p]
           n == Len(coll[c][p])
<1>1. /\ TypeOK /\ ctx[p][c].at = "check_flag" /\ TableOf(p, c) /\ p \in Members[c]
      /\ Voting(p, c) /\ Complete(p, c) /\ 0 \in Given(p, c) /\ coll' = coll
  BY OnlyMembers DEF Again, CidInv, TableInv
<1>2. /\ ctx[p][c] \in Context /\ ctx[p][c].start \in 0 .. MaxCid + 1 /\ id \in Cids
      /\ ctx[p][c].flag \in {0, 1} /\ lowest[p] \in Creations \cup {NoId}
      /\ table[p] \in [Cids -> Creations \cup {Free, Other}]
  BY <1>1 DEF TypeOK, Context
<1>4. /\ ctx' = [ctx EXCEPT ![p] = [ctx[p] EXCEPT ![c] = r]]
      /\ table' = [table EXCEPT ![p] = t] /\ lowest' = [lowest EXCEPT ![p] = lowest[p]]
  <2>1. ctx \in [Procs -> [Creations -> Context]]
        /\ table \in [Procs -> [Cids -> Creations \cup {Free, Other}]]
        /\ lowest \in [Procs -> Creations \cup {NoId}]
    BY <1>1 DEF TypeOK, Context
  <2>2. ctx' = [ctx EXCEPT ![p] = [ctx[p] EXCEPT ![c] = r]]
    BY <2>1, Zenon DEF Again
  <2>3. table' = [table EXCEPT ![p] = t]
    BY <2>1, Zenon DEF Again
  <2> QED BY <2>1, <2>2, <2>3, Zenon DEF Again
<1>6. r \in Context /\ t \in [Cids -> Creations \cup {Free, Other}]
  <2>1. id + 1 \in 0 .. MaxCid + 1
    BY <1>2 DEF Cids
  <2> QED BY <1>2, <2>1, Zenon DEF Context
<1>7. /\ r.at = "getnext"
      /\ \A i \in Cids : t[i] = IF mine /\ i = id THEN Free ELSE table[p][i]
  BY <1>2 DEF Context
<1> HIDE DEF r, t
<1>8. Frame(p, c) /\ ctx'[p][c] = r /\ table'[p] = t
  <2>1. Grows /\ OwnColl(p, c)
    BY <1>1, QuietVotes, SMTT(30)
  <2> QED BY <1>1, <1>2, <1>4, <1>6, <2>1, StepFrame, Zenon
<1>9. Voting(p, c)' /\ Result(p, c)'
  <2>1. PICK m \in Nat : m = n /\ m > 1 /\ Even(m)
    BY <1>1, SMTT(30) DEF Voting, TypeOK
  <2>3. Complete(p, c)' /\ 0 \in Round(c, m)' /\ Len(coll'[c][p]) = m
    BY <1>1, <2>1, QuietVotes, SMTT(30)
  <2>4. /\ \A q \in Members[c] : Len(coll'[c][q]) >= m - 1
        /\ \A k \in 1 .. m - 1 : Even(k) => 0 \in Round(c, k)'
    BY <1>1, <2>1, QuietVotes, SMTT(30) DEF Voting
  <2> QED BY <1>7, <1>8, <2>1, <2>3, <2>4, SMTT(30) DEF Voting, Result
<1>11. mine => /\ id < MaxCid => table[p][id] = c
               /\ \A i \in Cids : table[p][i] = c => i = id
  BY <1>1, <1>2, SMTT(30) DEF TableOf, Holds
<1>12. ~mine => \A i \in Cids : table[p][i] # c
  BY <1>1, <1>2, SMTT(30) DEF TableOf, Holds
<1>13. TableOf(p, c)'
  <2>1. \A i \in Cids : ~Holds(p, c, i)'
    BY <1>7, <1>8 DEF Holds
  <2>2. \A i \in Cids : table'[p][i] # c
    BY <1>7, <1>8, <1>11, <1>12, SMTT(30)
  <2> QED BY <1>7, <1>8, <2>1, <2>2 DEF TableOf
<1>14. \A i \in Cids : \A d \in Creations \ {c} :
          /\ table'[p][i] = d => table[p][i] = d
          /\ i < MaxCid /\ table[p][i] = d => table'[p][i] = d
  BY <1>2, <1>7, <1>8, <1>11, SMTT(30)
<1> QED
  BY <1>1, <1>8, <1>9, <1>13, <1>14, KeepsInv

\* Freeing a communicator keeps the invariant.
LEMMA CommFreeKeeps ==
    ASSUME CidInv, NEW p \in Procs, NEW c \in Creations, CommFree(p, c)
    PROVE  CidInv'
<1> USE Constants
<1> DEFINE id == ctx[p][c].nextcid
           r == [ctx[p][c] EXCEPT !.at = "freed"]
           t == [table[p] EXCEPT ![id] = Free]
           n == Len(coll[c][p])
<1>1. /\ TypeOK /\ ctx[p][c].at = "done" /\ TableOf(p, c) /\ p \in Members[c]
      /\ Voting(p, c) /\ Result(p, c) /\ coll' = coll
  BY OnlyMembers DEF CommFree, CidInv, TableInv
<1>2. /\ ctx[p][c] \in Context /\ id \in Cids /\ lowest[p] \in Creations \cup {NoId}
      /\ table[p] \in [Cids -> Creations \cup {Free, Other}]
  BY <1>1 DEF TypeOK, Context
<1>4. /\ ctx' = [ctx EXCEPT ![p] = [ctx[p] EXCEPT ![c] = r]]
      /\ table' = [table EXCEPT ![p] = t] /\ lowest' = [lowest EXCEPT ![p] = lowest[p]]
  <2>1. ctx \in [Procs -> [Creations -> Context]]
        /\ table \in [Procs -> [Cids -> Creations \cup {Free, Other}]]
        /\ lowest \in [Procs -> Creations \cup {NoId}]
    BY <1>1 DEF TypeOK, Context
  <2>2. ctx' = [ctx EXCEPT ![p] = [ctx[p] EXCEPT ![c] = r]]
    BY <2>1 DEF CommFree
  <2>3. table' = [table EXCEPT ![p] = t]
    BY <2>1 DEF CommFree
  <2> QED BY <2>1, <2>2, <2>3 DEF CommFree
<1>6. r \in Context /\ t \in [Cids -> Creations \cup {Free, Other}]
  BY <1>2 DEF Context
<1>7. /\ r.at = "freed" /\ r.nextcid = id
      /\ \A i \in Cids : t[i] = IF i = id THEN Free ELSE table[p][i]
  BY <1>2 DEF Context
<1> HIDE DEF r, t
<1>8. Frame(p, c) /\ ctx'[p][c] = r /\ table'[p] = t
  <2>1. Grows /\ OwnColl(p, c)
    BY <1>1, QuietVotes, SMTT(30)
  <2> QED BY <1>1, <1>2, <1>4, <1>6, <2>1, StepFrame, Zenon
<1>9. Voting(p, c)' /\ Result(p, c)'
  <2>1. PICK m \in Nat : m = n /\ m > 1 /\ Even(m)
    BY <1>1 DEF Voting, TypeOK
  <2>2. Complete(p, c) /\ 0 \notin Round(c, m)
    BY <1>1, <2>1 DEF Result
  <2>3. /\ Complete(p, c)' /\ 0 \notin Round(c, m)'
        /\ Round(c, m - 1)' = Round(c, m - 1) /\ Len(coll'[c][p]) = m
    BY <1>1, <2>1, <2>2, QuietVotes, SMTT(30)
  <2>4. /\ \A q \in Members[c] : Len(coll'[c][q]) >= m - 1
        /\ \A k \in 1 .. m - 1 : Even(k) => 0 \in Round(c, k)'
    BY <1>1, <2>1, QuietVotes, SMTT(30) DEF Voting
  <2>5. p \in Group[c] => id = Max(Round(c, m - 1)')
    BY <1>1, <2>1, <2>3, SMTT(30) DEF Result
  <2>6. Voting(p, c)'
    BY <1>7, <1>8, <2>1, <2>3, <2>4, SMTT(30) DEF Voting
  <2>7. Result(p, c)'
    BY <1>7, <1>8, <2>3, <2>5, SMTT(30) DEF Result
  <2> QED BY <2>6, <2>7
<1>11. /\ id < MaxCid => table[p][id] = c
       /\ \A i \in Cids : table[p][i] = c => i = id
  BY <1>1, <1>2 DEF TableOf, Holds
<1>13. TableOf(p, c)'
  <2>1. \A i \in Cids : ~Holds(p, c, i)'
    BY <1>7, <1>8 DEF Holds
  <2>2. \A i \in Cids : table'[p][i] # c
    BY <1>7, <1>8, <1>11, SMTT(30)
  <2> QED BY <1>7, <1>8, <2>1, <2>2, SMTT(30) DEF TableOf
<1>14. \A i \in Cids : \A d \in Creations \ {c} :
          /\ table'[p][i] = d => table[p][i] = d
          /\ i < MaxCid /\ table[p][i] = d => table'[p][i] = d
  BY <1>2, <1>7, <1>8, <1>11
<1> QED
  BY <1>1, <1>8, <1>9, <1>13, <1>14, KeepsInv

-----------------------------------------------------------------------------
(* The invariant and what follows from it *)

\* Nobody has started: no allreduce, no entry held.
LEMMA InitInv == Init => CidInv
<1> SUFFICES ASSUME Init PROVE CidInv
  OBVIOUS
<1> USE Constants
<1>1. TypeOK
  BY InitType
<1>2. \A c \in Creations, p \in Procs : ctx[p][c].at = "todo" /\ Len(coll[c][p]) = 0
  BY DEF Init
<1>3. VoteInv
  <2> SUFFICES ASSUME NEW c \in Creations, NEW p \in Procs
               PROVE  /\ p \in Members[c] => Voting(p, c) /\ Result(p, c)
                      /\ p \notin Members[c] => ctx[p][c].at = "todo"
    BY Zenon DEF VoteInv
  <2>1. \A q \in Members[c] : Len(coll[c][q]) >= 0 - 1
    BY <1>2
  <2> QED BY <1>2, <2>1 DEF Voting, Result
<1>4. TableInv
  <2>1. \A p \in Procs : \A i \in Cids : table[p][i] \in {Free, Other}
    BY DEF Init
  <2> SUFFICES ASSUME NEW p \in Procs, NEW c \in Creations PROVE TableOf(p, c)
    BY Zenon DEF TableInv
  <2>2. ctx[p][c].at = "todo"
    BY <1>2
  <2>3. \A i \in Cids : table[p][i] # c
    BY <2>1
  <2>4. \A i \in Cids : ~Holds(p, c, i)
    BY <2>2 DEF Holds
  <2> QED BY <2>2, <2>3, <2>4 DEF TableOf
<1> QED
  BY <1>1, <1>3, <1>4 DEF CidInv

\* Every step keeps the invariant.
LEMMA StepInv == CidInv /\ [Next]_vars => CidInv'
<1>1. ASSUME CidInv, UNCHANGED vars PROVE CidInv'
  <2>1. table' = table /\ lowest' = lowest /\ ctx' = ctx /\ coll' = coll
    BY <1>1 DEF vars
  <2>2. TypeOK'
    BY <1>1, <2>1 DEF CidInv, TypeOK
  <2>3. VoteInv'
    <3> SUFFICES ASSUME NEW c \in Creations, NEW p \in Procs
                 PROVE  /\ p \in Members[c] => Voting(p, c)' /\ Result(p, c)'
                        /\ p \notin Members[c] => ctx'[p][c].at = "todo"
      BY SMTT(30) DEF VoteInv
    <3> QED BY <1>1, <2>1, Unmoved, StutterGrows DEF CidInv, VoteInv
  <2>4. TableInv'
    BY <1>1, <2>1 DEF CidInv, TableInv, TableOf, Holds
  <2> QED BY <2>2, <2>3, <2>4 DEF CidInv
<1>2. ASSUME CidInv, NEW p \in Procs, NEW c \in Creations, Handler(p, c) \/ CommFree(p, c)
      PROVE  CidInv'
  BY <1>2, NextCidKeeps, GetNextCidKeeps, CheckCidKeeps, AgreedKeeps, AgainKeeps, CommFreeKeeps
  DEF Handler
<1> QED
  BY <1>1, <1>2 DEF Next

\* The invariant holds throughout.
LEMMA Invariance == Spec => []CidInv
  BY InitInv, StepInv, PTL DEF Spec

\* Tables, contexts and allreduces keep their types: an id is at most MaxCid,
\* and a search starts at most one further (the handlers of comm_cid.c).
THEOREM CidTypeCorrect == Spec => []TypeOK
<1>1. CidInv => TypeOK
  BY DEF CidInv
<1> QED
  BY <1>1, Invariance, PTL

\* All processes of a new communicator end with the same id. Two that ended did so
\* after the same vote: the one that went on longer would have left behind a
\* vote against the id (ompi_comm_nextcid_check_flag).
THEOREM IdAgreement == Spec => []Agreement
<1>1. ASSUME CidInv PROVE Agreement
  <2> USE Constants
  <2> SUFFICES ASSUME NEW c \in Creations, NEW p \in Group[c], NEW q \in Group[c],
                      ctx[p][c].at \in {"done", "freed"}, ctx[q][c].at \in {"done", "freed"}
               PROVE  ctx[p][c].nextcid = ctx[q][c].nextcid
    BY Zenon DEF Agreement
  <2>1. \A x \in {p, q} : /\ x \in Members[c] /\ x \in Procs
                          /\ Voting(x, c) /\ Result(x, c) /\ Len(coll[c][x]) \in Nat
    BY <1>1, SMTT(30) DEF CidInv, VoteInv, TypeOK
  <2>2. \A x \in {p, q} : /\ Len(coll[c][x]) > 1 /\ Even(Len(coll[c][x]))
                          /\ 0 \notin Round(c, Len(coll[c][x]))
    BY <2>1, SMTT(30) DEF Voting, Result
  <2>3. \A x, y \in {p, q} : ~(Len(coll[c][x]) < Len(coll[c][y]))
    <3> SUFFICES ASSUME NEW x \in {p, q}, NEW y \in {p, q}, Len(coll[c][x]) < Len(coll[c][y])
                 PROVE  FALSE
      OBVIOUS
    <3>1. Len(coll[c][x]) \in 1 .. Len(coll[c][y]) - 1
      BY <2>1, <2>2, SMTT(30)
    <3>2. 0 \in Round(c, Len(coll[c][x]))
      BY <2>1, <2>2, <3>1, SMTT(30) DEF Voting
    <3> QED BY <2>2, <3>2
  <2>4. Len(coll[c][p]) = Len(coll[c][q])
    BY <2>1, <2>3
  <2> QED BY <2>1, <2>4 DEF Result
<1> QED
  BY <1>1, Invariance, PTL

\* In every process the entry of a live communicator's id is that communicator:
\* no other creation, vote or free touches it.
THEOREM IdOwnership == Spec => []OwnId
<1>1. ASSUME CidInv PROVE OwnId
  <2> SUFFICES ASSUME NEW p \in Procs, NEW c \in Creations,
                      ctx[p][c].at = "done", ctx[p][c].nextcid < MaxCid
               PROVE  table[p][ctx[p][c].nextcid] = c
    BY DEF OwnId
  <2>1. ctx[p][c].nextcid \in Cids /\ TableOf(p, c)
    BY <1>1 DEF CidInv, TypeOK, TableInv
  <2> QED BY <2>1 DEF TableOf, Holds
<1> QED
  BY <1>1, Invariance, PTL

\* A creation holds at most one entry, and none while it is not running: failed
\* rounds give back what they took.
THEOREM NoEntryLeaks == Spec => []NoLeak
<1>1. ASSUME CidInv PROVE NoLeak
  <2> SUFFICES ASSUME NEW p \in Procs, NEW c \in Creations
               PROVE  LET held == {i \in Cids : table[p][i] = c} IN
                      /\ Cardinality(held) <= 1
                      /\ ctx[p][c].at \in {"todo", "getnext", "freed", "failed"} => held = {}
    BY DEF NoLeak
  <2> DEFINE held == {i \in Cids : table[p][i] = c}
  <2>1. \A i \in held : Holds(p, c, i)
    BY <1>1 DEF CidInv, TableInv, TableOf
  <2>2. ctx[p][c].at \in {"todo", "getnext", "freed", "failed"} => held = {}
    BY <2>1 DEF Holds
  <2>3. \A i, j \in held : i = j
    BY <2>1 DEF Holds
  <2> HIDE DEF held
  <2>4. Cardinality(held) <= 1
    <3>1. CASE held = {}
      BY <3>1, FS_EmptySet
    <3>2. CASE held # {}
      <4>1. PICK i \in held : TRUE
        BY <3>2
      <4>2. held = {i}
        BY <2>3, <4>1
      <4>3. Cardinality({i}) = 1
        BY FS_Singleton, Zenon
      <4> QED BY <4>2, <4>3
    <3> QED BY <3>1, <3>2
  <2> QED BY <2>2, <2>4 DEF held
<1> QED
  BY <1>1, Invariance, PTL

=============================================================================
