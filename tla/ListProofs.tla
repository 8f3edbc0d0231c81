----------------------------- MODULE ListProofs -----------------------------
(***************************************************************************)
(* Proofs about RegisterList: the walks over a meter's registers never     *)
(* leave the list, for every list.                                         *)
(***************************************************************************)
EXTENDS RegisterList, FiniteSetTheorems, WellFoundedInduction, TLAPS

\* A set of naturals has a least element.  The library states this with an
\* operator for a parameter; here it follows from the intervals below the
\* members, which are finite and so well-founded under inclusion.
LEMMA MinIsLeast ==
  ASSUME NEW S \in SUBSET Nat, S # {}
  PROVE  Min(S) \in S /\ \A y \in S : Min(S) <= y
<1> DEFINE Below(x) == 0 .. (x - 1)
<1>1. PICK n \in S : TRUE
  OBVIOUS
<1> DEFINE U == 0 .. n
           T == {Below(x) : x \in {y \in S : y <= n}}
<1>2. n \in Nat
  BY <1>1
<1>3. IsWellFoundedOn(StrictSubsetOrdering(U), SUBSET U)
  <2>1. IsFiniteSet(U)
    BY <1>2, FS_Interval
  <2> HIDE DEF U
  <2> QED
    BY <2>1, FS_FiniteSubsetsOfFinite, FS_StrictSubsetOrderingWellFounded
<1>4. T \subseteq SUBSET U
  BY <1>2
<1>5. T # {}
  BY <1>1, <1>2
<1>6. PICK A \in T : \A B \in T : <<B, A>> \notin StrictSubsetOrdering(U)
  <2> HIDE DEF U, T
  <2> QED
    BY <1>3, <1>4, <1>5, WFMin
<1>7. PICK x \in S : x <= n /\ A = Below(x)
  BY <1>6
<1>8. \A y \in S : x <= y
  <2>1. SUFFICES ASSUME NEW y \in S, y < x PROVE FALSE
    BY <1>7
  <2>2. y \in Nat /\ x \in Nat /\ y <= n
    BY <1>2, <1>7, <2>1
  <2>3. Below(y) \in T /\ Below(y) \in SUBSET U /\ A \in SUBSET U
    BY <1>4, <1>6, <2>2
  <2>4. Below(y) \subseteq Below(x)
    BY <2>1, <2>2
  <2>5. y \in Below(x) /\ y \notin Below(y)
    BY <2>1, <2>2
  <2> HIDE DEF Below, U, T
  <2>6. Below(y) # A
    BY <1>7, <2>5
  <2>7. <<Below(y), A>> \in StrictSubsetOrdering(U)
    BY <1>7, <2>3, <2>4, <2>6 DEF StrictSubsetOrdering
  <2> QED
    BY <1>6, <2>3, <2>7
<1> QED
  BY <1>8 DEF Min

\* The walks have somewhere to go: every list has fast registers and others.
LEMMA WantedIsThere ==
  ASSUME NEW fast \in BOOLEAN
  PROVE  Wanted(fast) # {} /\ Wanted(fast) \subseteq DOMAIN FastRead
                           /\ Wanted(fast) \subseteq Nat
<1>1. FastRead \in Seq(BOOLEAN) /\ DOMAIN FastRead \subseteq Nat
  BY ListAssumption
<1>2. CASE fast = TRUE
  <2>1. PICK i \in DOMAIN FastRead : FastRead[i]
    BY ListAssumption
  <2>2. FastRead[i] = TRUE
    BY <1>1, <2>1
  <2> QED
    BY <1>1, <1>2, <2>1, <2>2 DEF Wanted
<1>3. CASE fast = FALSE
  <2>1. 1 \in DOMAIN FastRead /\ FastRead[1] = FALSE
    BY <1>1, ListAssumption
  <2> QED
    BY <1>1, <1>3, <2>1 DEF Wanted
<1> QED
  BY <1>2, <1>3

\* The do-while loops of meter_generic_tick and meter_eastron_tick: from any
\* place, a register of the kind looked for is found, the next one if there is
\* one, or else the first of the list; and the walk comes back to a position
\* only at the end marker.
THEOREM WalkStaysInList ==
  ASSUME NEW pos \in DOMAIN FastRead, NEW fast \in BOOLEAN
  PROVE  /\ NextPos(pos, fast) \in Wanted(fast)
         /\ NextPos(pos, fast) \in DOMAIN FastRead
         /\ Wraps(pos, fast) => \A i \in Wanted(fast) : i <= pos /\ NextPos(pos, fast) <= i
         /\ ~Wraps(pos, fast) => \A i \in Wanted(fast) : i <= pos \/ NextPos(pos, fast) <= i
<1> DEFINE later == {i \in Wanted(fast) : i > pos}
           S == IF later # {} THEN later ELSE Wanted(fast)
<1>1. /\ Wanted(fast) # {} /\ Wanted(fast) \subseteq DOMAIN FastRead
      /\ Wanted(fast) \subseteq Nat
  BY WantedIsThere
<1>2. S \in SUBSET Nat /\ S # {} /\ S \subseteq Wanted(fast)
  BY <1>1
<1>3. Min(S) \in S /\ \A y \in S : Min(S) <= y
  <2> HIDE DEF S
  <2> QED
    BY <1>2, MinIsLeast
<1>4. NextPos(pos, fast) = Min(S)
  BY DEF NextPos
<1>5. pos \in Nat
  BY ListAssumption
<1>6. CASE later # {}
  <2>1. S = later
    BY <1>6
  <2> QED
    BY <1>1, <1>3, <1>4, <1>5, <2>1 DEF Wraps
<1>7. CASE later = {}
  <2>1. S = Wanted(fast) /\ \A i \in Wanted(fast) : i <= pos
    BY <1>1, <1>5, <1>7
  <2> QED
    BY <1>1, <1>3, <1>4, <1>5, <2>1 DEF Wraps
<1> QED
  BY <1>6, <1>7
=============================================================================
