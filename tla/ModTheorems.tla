---------------------------- MODULE ModTheorems ----------------------------
(***************************************************************************)
(* Numbers: what the provers have to know about n % S, the index that      *)
(* edumpi_ring.h computes for ticket n and the neighbour of a rank that    *)
(* comm_ft_detector.c computes, and the least-number principle.            *)
(***************************************************************************)
EXTENDS Integers, NaturalsInduction, WellFoundedInduction, TLAPS

(* Quotient and remainder of a ticket.                                    *)
LEMMA DivMod ==
  ASSUME NEW S \in Nat \ {0}, NEW a \in Nat
  PROVE  /\ a % S \in 0..(S - 1)
         /\ a \div S \in Int
         /\ a = S * (a \div S) + (a % S)
  OBVIOUS

(* The only multiple of S strictly between -S and S is 0.                  *)
LEMMA SmallMultiple ==
  ASSUME NEW S \in Nat \ {0}, NEW d \in Int, -S < S * d, S * d < S
  PROVE  d = 0
<1>1. CASE d >= 1
  <2>1. S * d >= S * 1 BY <1>1
  <2> QED BY <2>1
<1>2. CASE d <= -1
  <2>1. S * d <= S * (-1) BY <1>2
  <2> QED BY <2>1
<1> QED BY <1>1, <1>2

(* Tickets that are less than a ring apart have different slots.           *)
LEMMA ModDistinct ==
  ASSUME NEW S \in Nat \ {0}, NEW a \in Nat, NEW b \in Nat, a < b, b - a < S
  PROVE  a % S # b % S
<1> SUFFICES ASSUME a % S = b % S PROVE FALSE
  OBVIOUS
<1> DEFINE x == a \div S
           y == b \div S
           r == a % S
<1>1. /\ x \in Int /\ y \in Int /\ r \in Int
      /\ a = S * x + r /\ b = S * y + r
  BY DivMod
<1>2. S * (y - x) = b - a
  <2> HIDE DEF x, y, r
  <2>1. S * (y - x) = S * y - S * x BY <1>1
  <2> QED BY <1>1, <2>1
<1>3. y - x = 0
  <2> HIDE DEF x, y, r
  <2> QED BY <1>1, <1>2, SmallMultiple
<1> QED
  <2> HIDE DEF x, y, r
  <2> QED BY <1>1, <1>2, <1>3

(* Tickets that are one ring apart share a slot.                           *)
LEMMA ModPeriod ==
  ASSUME NEW S \in Nat \ {0}, NEW a \in Nat
  PROVE  (a + S) % S = a % S
<1> DEFINE x == a \div S
           y == (a + S) \div S
           r == a % S
           s == (a + S) % S
<1>1. /\ x \in Int /\ y \in Int /\ r \in 0..(S - 1) /\ s \in 0..(S - 1)
      /\ a = S * x + r /\ a + S = S * y + s
  BY DivMod
<1> HIDE DEF x, y, r, s
<1>2. S * (x + 1 - y) = s - r
  <2>1. S * (x + 1 - y) = S * x + S - S * y BY <1>1
  <2> QED BY <1>1, <2>1
<1>3. x + 1 - y = 0
  BY <1>1, <1>2, SmallMultiple
<1>4. s = r
  BY <1>1, <1>2, <1>3
<1> QED BY <1>4 DEF s, r

(* The remainder of a number that is less than one round off.              *)
LEMMA ModNear ==
  ASSUME NEW S \in Nat \ {0}, NEW a \in Int, -S <= a, a < 2 * S
  PROVE  a % S = IF a < 0 THEN a + S ELSE IF a < S THEN a ELSE a - S
<1> DEFINE x == a \div S
           r == a % S
<1>1. x \in Int /\ r \in 0..(S - 1) /\ a = S * x + r OBVIOUS
<1> HIDE DEF x, r
<1>2. CASE a < 0
  <2>1. S * (x + 1) = (a + S) - r BY <1>1
  <2>2. x + 1 = 0 BY <1>1, <1>2, <2>1, SmallMultiple
  <2> QED BY <1>1, <1>2, <2>1, <2>2 DEF r
<1>3. CASE 0 <= a /\ a < S
  <2>1. S * x = a - r BY <1>1
  <2>2. x = 0 BY <1>1, <1>3, <2>1, SmallMultiple
  <2> QED BY <1>1, <1>3, <2>1, <2>2 DEF r
<1>4. CASE S <= a
  <2>1. S * (x - 1) = (a - S) - r BY <1>1
  <2>2. x - 1 = 0 BY <1>1, <1>4, <2>1, SmallMultiple
  <2> QED BY <1>1, <1>4, <2>1, <2>2 DEF r
<1> QED BY <1>2, <1>3, <1>4

(* The least-number principle.                                            *)
LEMMA Least ==
  ASSUME NEW S \in SUBSET Nat, S # {}
  PROVE  \E m \in S : \A k \in S : m <= k
<1>1. \E m \in S : \A k \in S : ~ (<<k, m>> \in OpToRel(<, Nat))
  BY NatLessThanWellFounded, WFMin, Zenon
<1>2. PICK m \in S : \A k \in S : ~ (<<k, m>> \in OpToRel(<, Nat))
  BY <1>1, Zenon
<1>3. \A k \in S : ~(k < m)
  BY <1>2, Zenon DEF OpToRel
<1> QED
  BY <1>3
=============================================================================
