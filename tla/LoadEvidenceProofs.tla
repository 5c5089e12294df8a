------------------------- MODULE LoadEvidenceProofs -------------------------
(***************************************************************************)
(* Facts about the two deciders: they agree, they depend on few receipts,  *)
(* and more receipts do not overturn what they have decided.               *)
(***************************************************************************)
EXTENDS LoadEvidence, FiniteSetTheorems, TLAPS

----------------------------------------------------------------------------
\* The receipts that a decision depends on

\* A decision depends on the attempt's own receipts and on the root's selections that they name.
LEMMA FrameDecides ==
  ASSUME NEW c, NEW q, NEW A, NEW B,
         Own(q, A) = Own(q, B),
         \A s \in Selections(q, A) : RootsOf(s, q, A) = RootsOf(s, q, B)
  PROVE  ReceiptChecker(c, q, A) = ReceiptChecker(c, q, B)
<1>1. /\ Selections(q, A) = Selections(q, B)
      /\ Loads(q, A) = Loads(q, B)
      /\ Counts(q, A) = Counts(q, B)
  BY DEF Selections, Loads, Counts
<1>2. Roots(q, A) = Roots(q, B)
  BY <1>1 DEF Roots
<1>3. Expected(c, q, A) = Expected(c, q, B)
  BY <1>1, <1>2 DEF Expected
<1>4. RuleViolation(c, q, A) <=> RuleViolation(c, q, B)
  BY <1>1 DEF RuleViolation
<1>5. Problem(c, q, A) <=> Problem(c, q, B)
  <2>1. Contradictory(q, A) <=> Contradictory(q, B)
    BY <1>1 DEF Contradictory
  <2>2. OutOfBounds(q, A) <=> OutOfBounds(q, B)
    BY <1>1 DEF OutOfBounds
  <2>3. Misjoined(c, q, A) <=> Misjoined(c, q, B)
    BY <1>1 DEF Misjoined
  <2>4. RootProblem(c, q, A) <=> RootProblem(c, q, B)
    BY <1>2 DEF RootProblem
  <2>5. QED
    BY <2>1, <2>2, <2>3, <2>4 DEF Problem
<1>6. Witnessed(q, A) <=> Witnessed(q, B)
  BY <1>1 DEF Witnessed, Closed
<1>7. Violates(c, q, A) <=> Violates(c, q, B)
  BY <1>1, <1>3, <1>4, <1>6 DEF Violates
<1>8. Complies(c, q, A) <=> Complies(c, q, B)
  BY <1>1, <1>3 DEF Complies, Closed
<1>9. QED
  BY <1>1, <1>5, <1>6, <1>7, <1>8 DEF ReceiptChecker

----------------------------------------------------------------------------
\* What the absence of a problem means

LEMMA ReceiptTypes ==
  ASSUME NEW q, NEW R \in SUBSET Records
  PROVE  /\ Loads(q, R) \subseteq R
         /\ Selections(q, R) \subseteq R
         /\ Counts(q, R) \subseteq Nat
<1>1. \A r \in Records : r.count \in Nat \cup {None}
  BY EvidenceAssumption
<1>2. \A r \in Records : r.kind = "closure" => r.count # None
  BY EvidenceAssumption
<1>3. QED
  BY <1>1, <1>2 DEF Loads, Selections, Own, Counts

\* At most two loads are known, and no more than the attempt was closed with.
LEMMA SoundLoads ==
  ASSUME NEW q, NEW R \in SUBSET Records, IsFiniteSet(R), ~OutOfBounds(q, R)
  PROVE  /\ IsFiniteSet(Loads(q, R))
         /\ Cardinality(Loads(q, R)) \in 0..2
         /\ \A k \in Counts(q, R) : k \in 0..2 /\ Cardinality(Loads(q, R)) <= k
<1>1. IsFiniteSet(Loads(q, R))
  BY FS_Subset, ReceiptTypes
<1>2. Cardinality(Loads(q, R)) \in Nat
  BY <1>1, FS_CardinalityType
<1>3. QED
  BY <1>1, <1>2, ReceiptTypes DEF OutOfBounds

\* One selection, one closure and one pin are known at most.
LEMMA SoundBindings ==
  ASSUME NEW c \in Contracts \ {None}, NEW q, NEW R, ~Problem(c, q, R)
  PROVE  /\ \A k, n \in Counts(q, R) : k = n
         /\ \A d, e \in Expected(c, q, R) : d = e
         /\ Expected(c, q, R) \subseteq c.domain
         /\ \A r \in Loads(q, R) : r.digest \in c.domain
<1>1. ~Contradictory(q, R) /\ ~Misjoined(c, q, R) /\ ~RootProblem(c, q, R)
  BY DEF Problem
<1>2. \A k, n \in Counts(q, R) : k = n
  BY <1>1 DEF Contradictory
<1>3. /\ \A r \in Loads(q, R) : r.digest \in c.domain
      /\ \A r \in Selections(q, R) : r.digest \in c.domain
  BY <1>1 DEF Misjoined
<1>4. /\ \A d, e \in Expected(c, q, R) : d = e
      /\ Expected(c, q, R) \subseteq c.domain
  <2>1. CASE Inherits(c, q)
    BY <1>1, <2>1 DEF Expected, RootProblem, RootBinding
  <2>2. CASE ~Inherits(c, q)
    BY <1>1, <1>3, <2>2 DEF Expected, Contradictory, Binding
  <2>3. QED
    BY <2>1, <2>2
<1>5. QED
  BY <1>2, <1>3, <1>4

----------------------------------------------------------------------------
\* More receipts

LEMMA MoreReceipts ==
  ASSUME NEW c, NEW q, NEW R, NEW Q, R \subseteq Q
  PROVE  /\ Own(q, R) \subseteq Own(q, Q)
         /\ Selections(q, R) \subseteq Selections(q, Q)
         /\ Loads(q, R) \subseteq Loads(q, Q)
         /\ Counts(q, R) \subseteq Counts(q, Q)
         /\ \A s : RootsOf(s, q, R) \subseteq RootsOf(s, q, Q)
         /\ Roots(q, R) \subseteq Roots(q, Q)
         /\ Expected(c, q, R) \subseteq Expected(c, q, Q)
         /\ RuleViolation(c, q, R) => RuleViolation(c, q, Q)
         /\ Witnessed(q, R) => Witnessed(q, Q)
         /\ Sufficient(q, R) \subseteq Sufficient(q, Q)
<1>1. /\ Own(q, R) \subseteq Own(q, Q)
      /\ Selections(q, R) \subseteq Selections(q, Q)
      /\ Loads(q, R) \subseteq Loads(q, Q)
  BY DEF Own, Selections, Loads
<1>2. Counts(q, R) \subseteq Counts(q, Q)
  BY <1>1 DEF Counts
<1>3. \A s : RootsOf(s, q, R) \subseteq RootsOf(s, q, Q)
  BY DEF RootsOf
<1>4. Roots(q, R) \subseteq Roots(q, Q)
  BY <1>1, <1>3 DEF Roots
<1>5. Expected(c, q, R) \subseteq Expected(c, q, Q)
  BY <1>1, <1>4 DEF Expected
<1>6. RuleViolation(c, q, R) => RuleViolation(c, q, Q)
  BY <1>1, <1>3 DEF RuleViolation
<1>7. Witnessed(q, R) => Witnessed(q, Q)
  BY <1>1, <1>2 DEF Witnessed, Closed
<1>8. Sufficient(q, R) \subseteq Sufficient(q, Q)
  BY <1>1 DEF Sufficient
<1>9. QED
  BY <1>1, <1>2, <1>3, <1>4, <1>5, <1>6, <1>7, <1>8

\* A problem does not go away.
LEMMA ProblemsStay ==
  ASSUME NEW c, NEW q, NEW R, NEW Q \in SUBSET Records, IsFiniteSet(Q), R \subseteq Q,
         Problem(c, q, R)
  PROVE  Problem(c, q, Q)
<1>1. CASE Contradictory(q, R)
  BY <1>1, MoreReceipts DEF Contradictory, Problem
<1>2. CASE OutOfBounds(q, R)
  <2>1. /\ IsFiniteSet(Loads(q, Q))
        /\ Cardinality(Loads(q, Q)) \in Nat
        /\ Cardinality(Loads(q, R)) \in Nat
        /\ Cardinality(Loads(q, R)) <= Cardinality(Loads(q, Q))
    BY FS_Subset, FS_CardinalityType, ReceiptTypes, MoreReceipts
  <2>2. Counts(q, R) \subseteq Counts(q, Q) /\ Counts(q, Q) \subseteq Nat
    BY MoreReceipts, ReceiptTypes
  <2>3. OutOfBounds(q, Q)
    BY <1>2, <2>1, <2>2 DEF OutOfBounds
  <2>4. QED
    BY <2>3 DEF Problem
<1>3. CASE c # None /\ Misjoined(c, q, R)
  BY <1>3, MoreReceipts DEF Misjoined, Problem
<1>4. CASE c # None /\ RootProblem(c, q, R)
  BY <1>4, MoreReceipts DEF RootProblem, Problem
<1>5. QED
  BY <1>1, <1>2, <1>3, <1>4 DEF Problem

\* A violation that was witnessed stays, and nobody can say any more that nothing was loaded.
LEMMA ViolationsStay ==
  ASSUME NEW c, NEW q, NEW R, NEW Q \in SUBSET Records, IsFiniteSet(Q), R \subseteq Q,
         ~Problem(c, q, Q), 0 \notin Counts(q, R), Violates(c, q, R)
  PROVE  Violates(c, q, Q) /\ 0 \notin Counts(q, Q)
<1>1. ~OutOfBounds(q, Q) /\ ~Contradictory(q, Q)
  BY DEF Problem
<1>2. /\ IsFiniteSet(Loads(q, Q))
      /\ Cardinality(Loads(q, Q)) \in 0..2
      /\ \A k \in Counts(q, Q) : k \in 0..2 /\ Cardinality(Loads(q, Q)) <= k
  BY <1>1, SoundLoads
<1>3. /\ Cardinality(Loads(q, R)) \in Nat
      /\ Cardinality(Loads(q, R)) <= Cardinality(Loads(q, Q))
      /\ IsFiniteSet(Loads(q, R))
  <2>1. Loads(q, R) \in SUBSET Loads(q, Q)
    BY MoreReceipts
  <2>2. /\ IsFiniteSet(Loads(q, R))
        /\ Cardinality(Loads(q, R)) <= Cardinality(Loads(q, Q))
    BY <1>2, <2>1, FS_Subset
  <2>3. QED
    BY <2>2, FS_CardinalityType
<1>4. \A k, n \in Counts(q, Q) : k = n
  BY <1>1 DEF Contradictory
<1>5. Violates(c, q, Q)
  <2>1. CASE RuleViolation(c, q, R) /\ Witnessed(q, R)
    BY <2>1, MoreReceipts DEF Violates
  <2>2. CASE Cardinality(Loads(q, R)) > 1
    BY <2>2, <1>2, <1>3 DEF Violates
  <2>3. CASE 2 \in Counts(q, R)
    BY <2>3, MoreReceipts DEF Violates
  <2>4. CASE \E e \in Expected(c, q, R), r \in Loads(q, R) : r.digest # e
    BY <2>4, MoreReceipts DEF Violates
  <2>5. QED
    BY <2>1, <2>2, <2>3, <2>4 DEF Violates
<1>6. ASSUME 0 \in Counts(q, Q)
      PROVE  FALSE
  <2>1. Cardinality(Loads(q, Q)) = 0
    BY <1>2, <1>6
  <2>2. Loads(q, Q) = {}
    BY <2>1, <1>2, FS_EmptySet
  <2>3. Counts(q, R) = {}
    BY <1>4, <1>6, MoreReceipts
  <2>4. Loads(q, R) = {}
    BY <2>2, MoreReceipts
  <2>5. Cardinality(Loads(q, R)) = 0
    BY <2>4, FS_EmptySet
  <2>6. QED
    BY <2>3, <2>4, <2>5 DEF Violates, Witnessed, Closed
<1>7. QED
  BY <1>5, <1>6

\* An attempt that complied goes on to comply: its loads and its pin are complete.
LEMMA ComplianceStays ==
  ASSUME NEW c \in Contracts \ {None}, NEW q, NEW R, NEW Q \in SUBSET Records, IsFiniteSet(Q),
         R \subseteq Q, ~Problem(c, q, Q), 0 \notin Counts(q, R), ~Violates(c, q, R),
         Complies(c, q, R)
  PROVE  Complies(c, q, Q) /\ ~Violates(c, q, Q) /\ Counts(q, Q) = Counts(q, R)
<1>1. ~OutOfBounds(q, Q) /\ ~Contradictory(q, Q)
  BY DEF Problem
<1>2. /\ IsFiniteSet(Loads(q, Q))
      /\ Cardinality(Loads(q, Q)) \in 0..2
      /\ \A k \in Counts(q, Q) : k \in 0..2 /\ Cardinality(Loads(q, Q)) <= k
  BY <1>1, SoundLoads
<1>3. /\ \A k, n \in Counts(q, Q) : k = n
      /\ \A d, e \in Expected(c, q, Q) : d = e
  BY SoundBindings
<1>4. Complies(c, q, Q)
  BY MoreReceipts DEF Complies, Closed
<1>5. Counts(q, Q) = Counts(q, R)
  BY <1>3, MoreReceipts DEF Complies, Closed
<1>6. 2 \notin Counts(q, Q)
  BY <1>5 DEF Violates
<1>7. Counts(q, Q) = {1}
  BY <1>2, <1>5, <1>6 DEF Complies, Closed
<1>8. Cardinality(Loads(q, Q)) <= 1
  BY <1>2, <1>7
<1>9. Loads(q, Q) = Loads(q, R)
  <2>1. /\ Cardinality(Loads(q, R)) \in Nat
        /\ Cardinality(Loads(q, R)) <= Cardinality(Loads(q, Q))
        /\ IsFiniteSet(Loads(q, R))
        /\ Cardinality(Loads(q, R)) = Cardinality(Loads(q, Q)) => Loads(q, R) = Loads(q, Q)
    BY <1>2, MoreReceipts, FS_Subset, FS_CardinalityType
  <2>2. Cardinality(Loads(q, R)) # 0
    BY <2>1, FS_EmptySet DEF Complies
  <2>3. QED
    BY <2>1, <2>2, <1>2, <1>8
<1>10. Expected(c, q, Q) = Expected(c, q, R)
  BY <1>3, MoreReceipts DEF Complies
<1>11. ~RuleViolation(c, q, R)
  BY DEF Violates, Complies, Witnessed
<1>12. ~RuleViolation(c, q, Q)
  <2>1. SUFFICES ASSUME RuleViolation(c, q, Q) PROVE RuleViolation(c, q, R)
    BY <1>11
  <2>2. PICK s \in Selections(q, Q) :
          \/ s.phase # IF q[2] # 0 THEN c.retry ELSE c.policy
          \/ /\ Inherits(c, q)
             /\ \E r \in RootsOf(s, q, Q) : r.phase = c.policy /\ s.digest # r.digest
    BY <2>1 DEF RuleViolation
  <2>3. PICK p \in Selections(q, R) : TRUE
    BY DEF Complies, Expected, Roots
  <2>4. p.phase = s.phase /\ p.digest = s.digest
    BY <1>1, MoreReceipts DEF Contradictory, Binding
  <2>5. CASE s.phase # IF q[2] # 0 THEN c.retry ELSE c.policy
    BY <2>3, <2>4, <2>5 DEF RuleViolation
  <2>6. ASSUME Inherits(c, q),
               NEW r \in RootsOf(s, q, Q), r.phase = c.policy, s.digest # r.digest
        PROVE  RuleViolation(c, q, R)
    <3>1. PICK t \in Selections(q, R) : \E x \in RootsOf(t, q, R) : x.phase = c.policy
      BY <2>6 DEF Complies, Expected, Roots
    <3>0. PICK u \in RootsOf(t, q, R) : u.phase = c.policy
      BY <3>1
    <3>2. u \in Roots(q, Q) /\ r \in Roots(q, Q)
      <4>1. u \in Roots(q, R)
        BY <3>0 DEF Roots
      <4>2. r \in Roots(q, Q)
        BY <2>2, <2>6 DEF Roots
      <4>3. QED
        BY <4>1, <4>2, MoreReceipts
    <3>3. ~RootProblem(c, q, Q)
      BY DEF Problem
    <3>4. u.digest = r.digest
      BY <3>0, <3>2, <3>3, <2>6 DEF RootProblem, RootBinding
    <3>5. t.digest = s.digest
      BY <3>1, <1>1, MoreReceipts DEF Contradictory, Binding
    <3>6. QED
      BY <3>0, <3>4, <3>5, <2>6 DEF RuleViolation
  <2>7. QED
    BY <2>2, <2>5, <2>6
<1>13. ~Violates(c, q, Q)
  BY <1>6, <1>8, <1>9, <1>10, <1>12, <1>2 DEF Violates
<1>14. QED
  BY <1>4, <1>5, <1>13

\* More receipts leave a verdict other than unknown as it is, or show that they conflict.
LEMMA VerdictsStay ==
  ASSUME NEW c \in Contracts, NEW q, NEW R, NEW Q \in SUBSET Records, IsFiniteSet(Q), R \subseteq Q,
         ReceiptChecker(c, q, R).verdict # "unknown"
  PROVE  ReceiptChecker(c, q, Q) \in {ReceiptChecker(c, q, R), Decided("conflict")}
<1>1. CASE Problem(c, q, R)
  BY <1>1, ProblemsStay DEF ReceiptChecker
<1>2. CASE Problem(c, q, Q)
  BY <1>2 DEF ReceiptChecker
<1>3. CASE ~Problem(c, q, R) /\ ~Problem(c, q, Q)
  <2>1. c # None
    BY <1>3 DEF ReceiptChecker, Unassessed
  <2>2. CASE 0 \in Counts(q, R)
    <3>1. 0 \in Counts(q, Q)
      BY <2>2, MoreReceipts
    <3>2. QED
      BY <1>3, <2>1, <2>2, <3>1 DEF ReceiptChecker
  <2>3. CASE 0 \notin Counts(q, R) /\ Violates(c, q, R)
    <3>1. Violates(c, q, Q) /\ 0 \notin Counts(q, Q)
      BY <1>3, <2>3, ViolationsStay
    <3>2. QED
      BY <1>3, <2>1, <2>3, <3>1 DEF ReceiptChecker
  <2>4. CASE 0 \notin Counts(q, R) /\ ~Violates(c, q, R) /\ Complies(c, q, R)
    <3>1. Complies(c, q, Q) /\ ~Violates(c, q, Q) /\ 0 \notin Counts(q, Q)
      BY <1>3, <2>1, <2>4, ComplianceStays
    <3>2. QED
      BY <1>3, <2>1, <2>4, <3>1 DEF ReceiptChecker
  <2>5. CASE 0 \notin Counts(q, R) /\ ~Violates(c, q, R) /\ ~Complies(c, q, R)
    BY <1>3, <2>1, <2>5 DEF ReceiptChecker, Unassessed, Decided
  <2>6. QED
    BY <2>2, <2>3, <2>4, <2>5
<1>4. QED
  BY <1>1, <1>2, <1>3

----------------------------------------------------------------------------
\* Histories that cover the loads that were seen

LEMMA CoversNone ==
  ASSUME NEW h
  PROVE  Covers(h, {})
<1>1. [r \in {} |-> 0] \in [{} -> DOMAIN h]
  OBVIOUS
<1>2. QED
  BY <1>1 DEF Covers

LEMMA CoversOne ==
  ASSUME NEW h, NEW x, 1 \in DOMAIN h, h[1] = x.digest
  PROVE  Covers(h, {x})
<1>1. [r \in {x} |-> 1] \in [{x} -> DOMAIN h]
  OBVIOUS
<1>2. QED
  BY <1>1 DEF Covers

LEMMA CoversTwo ==
  ASSUME NEW h, NEW x, NEW y, x # y, {1, 2} \subseteq DOMAIN h, h[1] = x.digest, h[2] = y.digest
  PROVE  Covers(h, {x, y})
<1> DEFINE f == [r \in {x, y} |-> IF r = x THEN 1 ELSE 2]
<1>1. f \in [{x, y} -> DOMAIN h]
  OBVIOUS
<1>2. f[x] = 1 /\ f[y] = 2
  OBVIOUS
<1>3. \A r, t \in {x, y} : f[r] = f[t] => r = t
  BY <1>2
<1>4. \A r \in {x, y} : h[f[r]] = r.digest
  BY <1>2
<1> HIDE DEF f
<1>5. QED
  BY <1>1, <1>3, <1>4 DEF Covers

\* Distinct loads are distinct entries of a history.
LEMMA CoversDistinct ==
  ASSUME NEW n \in 0..2, NEW h, DOMAIN h = 1..n, NEW L, NEW x \in L, NEW y \in L, x # y,
         Covers(h, L)
  PROVE  n = 2
<1>1. PICK f \in [L -> DOMAIN h] : f[x] = f[y] => x = y
  BY DEF Covers
<1>2. f[x] \in 1..n /\ f[y] \in 1..n /\ f[x] # f[y]
  BY <1>1
<1>3. QED
  BY <1>2

LEMMA TwoElements ==
  ASSUME NEW L, IsFiniteSet(L), Cardinality(L) = 2
  PROVE  \E x \in L, y \in L : x # y /\ L = {x, y}
<1>1. PICK x : x \in L
  BY FS_EmptySet
<1>2. IsFiniteSet(L \ {x}) /\ Cardinality(L \ {x}) = 1
  BY <1>1, FS_RemoveElement
<1>3. PICK y : L \ {x} = {y}
  BY <1>2, FS_Singleton
<1>4. QED
  BY <1>1, <1>3

\* The loads are none, one or two.
LEMMA LoadCases ==
  ASSUME NEW L, IsFiniteSet(L), Cardinality(L) \in 0..2
  PROVE  \/ Cardinality(L) = 0 /\ L = {}
         \/ Cardinality(L) = 1 /\ \E x : L = {x}
         \/ Cardinality(L) = 2 /\ \E x \in L, y \in L : x # y /\ L = {x, y}
<1>1. Cardinality(L) = 0 => L = {}
  BY FS_EmptySet
<1>2. Cardinality(L) = 1 => \E x : L = {x}
  BY FS_Singleton
<1>3. QED
  BY <1>1, <1>2, TwoElements

\* A history is as long as one likes, if it has room for the loads that were seen.
LEMMA CoverExists ==
  ASSUME NEW D, D # {}, NEW L, IsFiniteSet(L), \A r \in L : r.digest \in D,
         NEW n \in 0..2, Cardinality(L) <= n, Cardinality(L) \in Nat
  PROVE  \E h \in [1..n -> D] : Covers(h, L)
<1>1. PICK d : d \in D
  OBVIOUS
<1>2. CASE L = {}
  <2>1. [k \in 1..n |-> d] \in [1..n -> D]
    BY <1>1
  <2>2. QED
    BY <1>2, <2>1, CoversNone
<1>3. CASE Cardinality(L) = 1 /\ \E x : L = {x}
  <2>1. PICK x : L = {x}
    BY <1>3
  <2>2. [k \in 1..n |-> x.digest] \in [1..n -> D]
    BY <2>1
  <2>3. 1 \in 1..n
    BY <1>3
  <2>4. QED
    BY <2>1, <2>2, <2>3, CoversOne
<1>4. CASE Cardinality(L) = 2 /\ \E x \in L, y \in L : x # y /\ L = {x, y}
  <2>1. PICK x \in L, y \in L : x # y /\ L = {x, y}
    BY <1>4
  <2> DEFINE h == [k \in 1..n |-> IF k = 1 THEN x.digest ELSE y.digest]
  <2>2. n = 2
    BY <1>4
  <2>3. h \in [1..n -> D]
    BY <2>1
  <2>4. {1, 2} \subseteq DOMAIN h /\ h[1] = x.digest /\ h[2] = y.digest
    BY <2>2
  <2>5. Covers(h, {x, y})
    BY <2>1, <2>4, CoversTwo
  <2>6. QED
    BY <2>1, <2>3, <2>5
<1>5. QED
  BY <1>2, <1>3, <1>4, LoadCases

LEMMA AnotherDigest ==
  ASSUME NEW c \in Contracts \ {None}
  PROVE  c.domain # {} /\ \A d : \E e \in c.domain : e # d
<1>1. IsFiniteSet(c.domain) /\ Cardinality(c.domain) >= 2
  BY EvidenceAssumption
<1>2. c.domain # {}
  BY <1>1, FS_EmptySet
<1>3. ASSUME NEW d, c.domain = {d}
      PROVE  FALSE
  <2>1. Cardinality(c.domain) = 1
    BY <1>3, FS_Singleton
  <2>2. QED
    BY <1>1, <2>1
<1>4. QED
  BY <1>2, <1>3

----------------------------------------------------------------------------
\* The two deciders agree

Selectable(c, q, R) == IF Expected(c, q, R) # {} THEN Expected(c, q, R) ELSE c.domain
PossibleCounts(q, R) == IF Closed(q, R) THEN Counts(q, R) ELSE 0..2
World(e, h) == [selected |-> e, loads |-> h]

LEMMA Worlds ==
  ASSUME NEW c, NEW q, NEW R
  PROVE  \A w : w \in Completions(c, q, R) <=>
           \E e \in Selectable(c, q, R), n \in PossibleCounts(q, R) :
             \E h \in [1..n -> c.domain] : Covers(h, Loads(q, R)) /\ w = World(e, h)
BY DEF Completions, Selectable, PossibleCounts, World

\* What is known of the histories when the receipts have no problem.
LEMMA SoundWorlds ==
  ASSUME NEW c \in Contracts \ {None}, NEW q, NEW R \in SUBSET Records, IsFiniteSet(R),
         ~Problem(c, q, R)
  PROVE  /\ IsFiniteSet(Loads(q, R)) /\ Cardinality(Loads(q, R)) \in 0..2
         /\ \A k \in Counts(q, R) : k \in 0..2 /\ Cardinality(Loads(q, R)) <= k
         /\ \A k \in Counts(q, R) : Counts(q, R) = {k}
         /\ \A e \in Expected(c, q, R) : Expected(c, q, R) = {e}
         /\ PossibleCounts(q, R) \subseteq 0..2
         /\ Selectable(c, q, R) # {} /\ Selectable(c, q, R) \subseteq c.domain
         /\ \A r \in Loads(q, R) : r.digest \in c.domain
         /\ \A n \in PossibleCounts(q, R) : Cardinality(Loads(q, R)) <= n =>
              \E h \in [1..n -> c.domain] : Covers(h, Loads(q, R))
<1>1. /\ IsFiniteSet(Loads(q, R))
      /\ Cardinality(Loads(q, R)) \in 0..2
      /\ \A k \in Counts(q, R) : k \in 0..2 /\ Cardinality(Loads(q, R)) <= k
  BY SoundLoads DEF Problem
<1>2. /\ \A k, n \in Counts(q, R) : k = n
      /\ \A d, e \in Expected(c, q, R) : d = e
      /\ Expected(c, q, R) \subseteq c.domain
      /\ \A r \in Loads(q, R) : r.digest \in c.domain
  BY SoundBindings
<1>3. \A k \in Counts(q, R) : Counts(q, R) = {k}
  BY <1>2
<1>4. \A e \in Expected(c, q, R) : Expected(c, q, R) = {e}
  BY <1>2
<1>5. PossibleCounts(q, R) \subseteq 0..2
  BY <1>1 DEF PossibleCounts
<1>6. Selectable(c, q, R) # {} /\ Selectable(c, q, R) \subseteq c.domain
  BY <1>2, AnotherDigest DEF Selectable
<1>7. ASSUME NEW n \in PossibleCounts(q, R), Cardinality(Loads(q, R)) <= n
      PROVE  \E h \in [1..n -> c.domain] : Covers(h, Loads(q, R))
  <2>1. n \in 0..2 /\ c.domain # {} /\ Cardinality(Loads(q, R)) \in Nat
    BY <1>1, <1>5, AnotherDigest
  <2>2. QED
    BY <1>1, <1>2, <1>7, <2>1, CoverExists
<1>8. QED
  BY <1>1, <1>2, <1>3, <1>4, <1>5, <1>6, <1>7

\* Each history has room for the loads that were seen.
LEMMA RoomForLoads ==
  ASSUME NEW L, IsFiniteSet(L), Cardinality(L) \in 0..2, NEW n \in 0..2, NEW h,
         DOMAIN h = 1..n, Covers(h, L)
  PROVE  Cardinality(L) <= n
<1>1. CASE Cardinality(L) = 0
  BY <1>1
<1>2. CASE Cardinality(L) = 1 /\ \E x : L = {x}
  <2>1. PICK x : L = {x}
    BY <1>2
  <2>2. PICK f \in [L -> DOMAIN h] : TRUE
    BY DEF Covers
  <2>3. f[x] \in 1..n
    BY <2>1, <2>2
  <2>4. QED
    BY <1>2, <2>3
<1>3. CASE Cardinality(L) = 2 /\ \E x \in L, y \in L : x # y /\ L = {x, y}
  <2>1. PICK x \in L, y \in L : x # y
    BY <1>3
  <2>2. n = 2
    BY <2>1, CoversDistinct
  <2>3. QED
    BY <1>3, <2>2
<1>4. QED
  BY <1>1, <1>2, <1>3, LoadCases

\* A violation that was witnessed is one of every history.
LEMMA AllBreak ==
  ASSUME NEW c \in Contracts \ {None}, NEW q, NEW R \in SUBSET Records, IsFiniteSet(R),
         ~Problem(c, q, R), 0 \notin Counts(q, R), Violates(c, q, R),
         NEW w \in Completions(c, q, R)
  PROVE  Breaks(c, q, R, w)
<1>1. /\ IsFiniteSet(Loads(q, R)) /\ Cardinality(Loads(q, R)) \in 0..2
      /\ \A k \in Counts(q, R) : k \in 0..2 /\ Counts(q, R) = {k}
      /\ \A e \in Expected(c, q, R) : Expected(c, q, R) = {e}
      /\ PossibleCounts(q, R) \subseteq 0..2
  BY SoundWorlds
<1>2. PICK e \in Selectable(c, q, R), n \in PossibleCounts(q, R) :
        \E h \in [1..n -> c.domain] : Covers(h, Loads(q, R)) /\ w = World(e, h)
  BY Worlds
<1>3. PICK h \in [1..n -> c.domain] : Covers(h, Loads(q, R)) /\ w = World(e, h)
  BY <1>2
<1>4. w.selected = e /\ w.loads = h /\ DOMAIN h = 1..n /\ n \in 0..2
  BY <1>1, <1>3 DEF World
<1>5. Cardinality(Loads(q, R)) <= n
  BY <1>1, <1>3, <1>4, RoomForLoads
<1>6. CASE RuleViolation(c, q, R) /\ Witnessed(q, R)
  <2>1. n # 0
    <3>1. CASE Closed(q, R)
      BY <3>1 DEF PossibleCounts
    <3>2. CASE Loads(q, R) # {}
      BY <3>2, <1>1, <1>5, FS_EmptySet
    <3>3. QED
      BY <1>6, <3>1, <3>2 DEF Witnessed
  <2>2. DOMAIN w.loads # {}
    <3>1. 1 \in 1..n
      BY <1>4, <2>1
    <3>2. QED
      BY <1>4, <3>1
  <2>3. QED
    BY <1>6, <2>2 DEF Breaks
<1>7. CASE Cardinality(Loads(q, R)) > 1
  <2>1. n = 2
    BY <1>1, <1>4, <1>5, <1>7
  <2>2. QED
    BY <1>4, <2>1 DEF Breaks
<1>8. CASE 2 \in Counts(q, R)
  <2>1. n = 2
    BY <1>1, <1>8 DEF PossibleCounts, Closed
  <2>2. QED
    BY <1>4, <2>1 DEF Breaks
<1>9. ASSUME NEW d \in Expected(c, q, R), NEW r \in Loads(q, R), r.digest # d
      PROVE  Breaks(c, q, R, w)
  <2>1. e = d
    BY <1>1, <1>9 DEF Selectable
  <2>2. PICK f \in [Loads(q, R) -> DOMAIN h] : h[f[r]] = r.digest
    BY <1>3 DEF Covers
  <2>3. f[r] \in DOMAIN w.loads /\ w.loads[f[r]] # w.selected
    BY <1>4, <1>9, <2>1, <2>2
  <2>4. QED
    BY <2>3 DEF Breaks
<1>10. QED
  BY <1>6, <1>7, <1>8, <1>9 DEF Violates

\* An attempt that complied did so in every history.
LEMMA NoneBreaks ==
  ASSUME NEW c \in Contracts \ {None}, NEW q, NEW R \in SUBSET Records, IsFiniteSet(R),
         ~Problem(c, q, R), 0 \notin Counts(q, R), ~Violates(c, q, R), Complies(c, q, R),
         NEW w \in Completions(c, q, R)
  PROVE  ~Breaks(c, q, R, w)
<1>1. /\ IsFiniteSet(Loads(q, R)) /\ Cardinality(Loads(q, R)) \in 0..2
      /\ \A k \in Counts(q, R) : k \in 0..2 /\ Counts(q, R) = {k}
      /\ \A e \in Expected(c, q, R) : Expected(c, q, R) = {e}
  BY SoundWorlds
<1>2. Counts(q, R) = {1}
  BY <1>1 DEF Complies, Closed, Violates
<1>3. PICK e \in Selectable(c, q, R), n \in PossibleCounts(q, R) :
        \E h \in [1..n -> c.domain] : Covers(h, Loads(q, R)) /\ w = World(e, h)
  BY Worlds
<1>4. PICK h \in [1..n -> c.domain] : Covers(h, Loads(q, R)) /\ w = World(e, h)
  BY <1>3
<1>5. n = 1 /\ e \in Expected(c, q, R)
  BY <1>2 DEF PossibleCounts, Closed, Selectable, Complies
<1>6. w.selected = e /\ w.loads = h /\ DOMAIN h = {1}
  BY <1>4, <1>5 DEF World
<1>7. PICK r \in Loads(q, R) : TRUE
  BY DEF Complies
<1>8. h[1] = r.digest
  BY <1>4, <1>6, <1>7 DEF Covers
<1>9. r.digest = e
  BY <1>5, <1>7 DEF Violates
<1>10. ~RuleViolation(c, q, R)
  BY DEF Violates, Witnessed, Complies
<1>11. QED
  BY <1>6, <1>8, <1>9, <1>10 DEF Breaks

\* Nothing decides: some history that is possible breaks the contract, and some keeps it.
LEMMA SomeBreakSomeDoNot ==
  ASSUME NEW c \in Contracts \ {None}, NEW q, NEW R \in SUBSET Records, IsFiniteSet(R),
         ~Problem(c, q, R), 0 \notin Counts(q, R), ~Violates(c, q, R), ~Complies(c, q, R)
  PROVE  /\ \E w \in Completions(c, q, R) : Breaks(c, q, R, w)
         /\ \E w \in Completions(c, q, R) : ~Breaks(c, q, R, w)
<1> DEFINE L == Loads(q, R)
<1>1. /\ IsFiniteSet(L) /\ Cardinality(L) \in 0..2
      /\ \A k \in Counts(q, R) : k \in 0..2 /\ Counts(q, R) = {k}
      /\ \A e \in Expected(c, q, R) : Expected(c, q, R) = {e}
      /\ Selectable(c, q, R) # {} /\ Selectable(c, q, R) \subseteq c.domain
      /\ \A r \in L : r.digest \in c.domain
      /\ \A n \in PossibleCounts(q, R) : Cardinality(L) <= n =>
           \E h \in [1..n -> c.domain] : Covers(h, L)
  BY SoundWorlds
<1>2. PossibleCounts(q, R) \in {0..2, {1}}
  BY <1>1 DEF Violates, PossibleCounts, Closed
<1>3. L = {} \/ \E x : L = {x}
  <2>1. ~(Cardinality(L) > 1)
    BY DEF Violates
  <2>2. Cardinality(L) \in 0..2
    BY <1>1
  <2>3. Cardinality(L) # 2
    BY <2>1
  <2>4. QED
    BY <1>1, <2>3, LoadCases
<1>4. Cardinality(L) \in 0..1
  <2>1. CASE L = {}
    BY <2>1, FS_EmptySet
  <2>2. ASSUME NEW x, L = {x}
        PROVE  Cardinality(L) = 1
    BY <2>2, FS_Singleton
  <2>3. QED
    BY <1>3, <2>1, <2>2
<1>5. ASSUME NEW e \in Selectable(c, q, R), NEW n \in PossibleCounts(q, R),
             NEW h \in [1..n -> c.domain], Covers(h, L)
      PROVE  World(e, h) \in Completions(c, q, R)
  BY <1>5, Worlds
<1>6. \A e, h : World(e, h).selected = e /\ World(e, h).loads = h
  BY DEF World
<1> HIDE DEF L
<1>7. PICK s : s \in Selectable(c, q, R)
  BY <1>1
<1>8. CASE PossibleCounts(q, R) = 0..2
  <2>1. 2 \in PossibleCounts(q, R) /\ Cardinality(L) <= 2
    BY <1>4, <1>8
  <2>2. PICK h \in [1..2 -> c.domain] : Covers(h, L)
    BY <1>1, <2>1
  <2>3. World(s, h) \in Completions(c, q, R)
    BY <1>5, <1>7, <2>1, <2>2
  <2>4. 2 \in DOMAIN World(s, h).loads
    BY <1>6, <2>2
  <2>5. \E w \in Completions(c, q, R) : Breaks(c, q, R, w)
    BY <2>3, <2>4 DEF Breaks
  <2>6. CASE L = {}
    <3>1. 0 \in PossibleCounts(q, R) /\ Cardinality(L) <= 0
      BY <1>8, <2>6, FS_EmptySet
    <3>2. PICK g \in [1..0 -> c.domain] : Covers(g, L)
      BY <1>1, <3>1
    <3>3. World(s, g) \in Completions(c, q, R)
      BY <1>5, <1>7, <3>1, <3>2
    <3>4. DOMAIN World(s, g).loads = {}
      <4>1. DOMAIN g = 1..0 /\ 1..0 = {}
        BY <3>2
      <4>2. QED
        BY <1>6, <4>1
    <3>5. ~Breaks(c, q, R, World(s, g))
      BY <3>4 DEF Breaks
    <3>6. QED
      BY <2>5, <3>3, <3>5
  <2>7. ASSUME NEW x, L = {x}
        PROVE  \E w \in Completions(c, q, R) : ~Breaks(c, q, R, w)
    <3> DEFINE g == [k \in 1..1 |-> x.digest]
    <3>1. 1 \in PossibleCounts(q, R)
      BY <1>8
    <3>2. x.digest \in c.domain
      BY <1>1, <2>7
    <3>3. g \in [1..1 -> c.domain] /\ DOMAIN g = {1} /\ g[1] = x.digest
      BY <3>2
    <3>4. x.digest \in Selectable(c, q, R)
      BY <2>7, <3>2 DEF Selectable, Violates, L
    <3> HIDE DEF g
    <3>5. Covers(g, L)
      BY <2>7, <3>3, CoversOne
    <3>6. World(x.digest, g) \in Completions(c, q, R)
      BY <1>5, <3>1, <3>3, <3>4, <3>5
    <3>7. ~RuleViolation(c, q, R)
      BY <2>7 DEF Violates, Witnessed, L
    <3>8. ~Breaks(c, q, R, World(x.digest, g))
      BY <1>6, <3>3, <3>7 DEF Breaks
    <3>9. QED
      BY <3>6, <3>8
  <2>8. QED
    BY <1>3, <2>5, <2>6, <2>7
<1>9. CASE PossibleCounts(q, R) = {1}
  <2>1. Closed(q, R)
    <3>1. 0 \in 0..2
      OBVIOUS
    <3>2. QED
      BY <1>9, <3>1 DEF PossibleCounts
  <2>2. ~RuleViolation(c, q, R)
    BY <2>1 DEF Violates, Witnessed
  <2>3. ASSUME NEW d \in c.domain, NEW e \in Selectable(c, q, R), \A r \in L : r.digest = d
        PROVE  /\ World(e, [k \in 1..1 |-> d]) \in Completions(c, q, R)
               /\ Breaks(c, q, R, World(e, [k \in 1..1 |-> d])) <=> d # e
    <3> DEFINE g == [k \in 1..1 |-> d]
    <3>1. g \in [1..1 -> c.domain] /\ DOMAIN g = {1} /\ g[1] = d
      OBVIOUS
    <3>2. Covers(g, L)
      BY <1>3, <2>3, <3>1, CoversNone, CoversOne
    <3> HIDE DEF g
    <3>3. World(e, g) \in Completions(c, q, R)
      BY <1>5, <1>9, <3>1, <3>2
    <3>4. Breaks(c, q, R, World(e, g)) <=> d # e
      BY <1>6, <2>2, <3>1 DEF Breaks
    <3>5. QED
      BY <3>3, <3>4 DEF g
  <2>4. CASE L = {}
    <3>1. PICK d \in c.domain : d # s
      BY AnotherDigest
    <3>2. s \in c.domain
      BY <1>1, <1>7
    <3>3. QED
      BY <1>7, <2>3, <2>4, <3>1, <3>2
  <2>5. ASSUME NEW x, L = {x}
        PROVE  /\ \E w \in Completions(c, q, R) : Breaks(c, q, R, w)
               /\ \E w \in Completions(c, q, R) : ~Breaks(c, q, R, w)
    <3>1. Expected(c, q, R) = {}
      BY <2>1, <2>5 DEF Complies, L
    <3>2. Selectable(c, q, R) = c.domain
      BY <3>1 DEF Selectable
    <3>3. x.digest \in c.domain
      BY <1>1, <2>5
    <3>4. PICK e \in c.domain : e # x.digest
      BY AnotherDigest
    <3>5. QED
      BY <2>3, <2>5, <3>2, <3>3, <3>4
  <2>6. QED
    BY <1>3, <2>4, <2>5
<1>10. QED
  BY <1>2, <1>8, <1>9

\* S = T: looking for witnesses and enumerating the histories lead to the same decision, of which
\* the monitor is the definition and the checker the one that runs (receipt_checker,
\* completion_monitor).
THEOREM DecidersAgree ==
  ASSUME NEW c \in Contracts, NEW q, NEW R \in SUBSET Records, IsFiniteSet(R)
  PROVE  CompletionMonitor(c, q, R) = ReceiptChecker(c, q, R)
<1> DEFINE W == Completions(c, q, R)
           eligibility == IF \A w \in W : DOMAIN w.loads # {} THEN "load" ELSE "undetermined"
<1>1. CASE Problem(c, q, R) \/ c = None
  BY <1>1 DEF CompletionMonitor, ReceiptChecker
<1>2. CASE ~Problem(c, q, R) /\ c # None
  <2>1. /\ IsFiniteSet(Loads(q, R)) /\ Cardinality(Loads(q, R)) \in 0..2
        /\ \A k \in Counts(q, R) :
             k \in 0..2 /\ Counts(q, R) = {k} /\ Cardinality(Loads(q, R)) <= k
        /\ Selectable(c, q, R) # {}
        /\ PossibleCounts(q, R) \subseteq 0..2
        /\ \A n \in PossibleCounts(q, R) : Cardinality(Loads(q, R)) <= n =>
             \E h \in [1..n -> c.domain] : Covers(h, Loads(q, R))
    BY <1>2, SoundWorlds
  <2>2. \A w \in W : /\ \E n \in PossibleCounts(q, R) : DOMAIN w.loads = 1..n
                    /\ Covers(w.loads, Loads(q, R))
    <3>1. SUFFICES ASSUME NEW w \in W
                   PROVE  /\ \E n \in PossibleCounts(q, R) : DOMAIN w.loads = 1..n
                          /\ Covers(w.loads, Loads(q, R))
      OBVIOUS
    <3>2. PICK e \in Selectable(c, q, R), n \in PossibleCounts(q, R) :
            \E h \in [1..n -> c.domain] : Covers(h, Loads(q, R)) /\ w = World(e, h)
      BY Worlds
    <3>3. PICK h \in [1..n -> c.domain] : Covers(h, Loads(q, R)) /\ w = World(e, h)
      BY <3>2
    <3>4. w.loads = h
      BY <3>3 DEF World
    <3>5. QED
      BY <3>3, <3>4
  <2>3. \A n \in PossibleCounts(q, R) : Cardinality(Loads(q, R)) <= n =>
          \E w \in W : DOMAIN w.loads = 1..n
    <3>1. SUFFICES ASSUME NEW n \in PossibleCounts(q, R), Cardinality(Loads(q, R)) <= n
                   PROVE  \E w \in W : DOMAIN w.loads = 1..n
      OBVIOUS
    <3>2. PICK h \in [1..n -> c.domain] : Covers(h, Loads(q, R))
      BY <2>1, <3>1
    <3>3. PICK e \in Selectable(c, q, R) : TRUE
      BY <2>1
    <3>4. World(e, h) \in W
      BY <3>2, <3>3, Worlds
    <3>5. DOMAIN World(e, h).loads = 1..n
      BY <3>2 DEF World
    <3>6. QED
      BY <3>4, <3>5
  <2> HIDE DEF W
  <2>4. \E n \in PossibleCounts(q, R) : Cardinality(Loads(q, R)) <= n
    <3>1. CASE Closed(q, R)
      BY <2>1, <3>1 DEF PossibleCounts, Closed
    <3>2. CASE ~Closed(q, R)
      BY <2>1, <3>2 DEF PossibleCounts
    <3>3. QED
      BY <3>1, <3>2
  <2>5. W # {}
    BY <2>3, <2>4
  <2>6. \A n \in 0..2 : 1..n = {} <=> n = 0
    OBVIOUS
  <2>7. CASE 0 \in Counts(q, R)
    <3>1. PossibleCounts(q, R) = {0}
      BY <2>1, <2>7 DEF PossibleCounts, Closed
    <3>2. \A w \in W : DOMAIN w.loads = {}
      BY <2>2, <2>6, <3>1
    <3>3. QED
      BY <1>2, <2>5, <2>7, <3>2 DEF CompletionMonitor, ReceiptChecker, W
  <2>8. CASE 0 \notin Counts(q, R)
    <3>1. ~\A w \in W : DOMAIN w.loads = {}
      <4>1. \E n \in PossibleCounts(q, R) : Cardinality(Loads(q, R)) <= n /\ n # 0
        <5>1. CASE Closed(q, R)
          BY <2>1, <2>8, <5>1 DEF PossibleCounts, Closed
        <5>2. CASE ~Closed(q, R)
          BY <2>1, <5>2 DEF PossibleCounts
        <5>3. QED
          BY <5>1, <5>2
      <4>2. PICK n \in PossibleCounts(q, R) : Cardinality(Loads(q, R)) <= n /\ n # 0
        BY <4>1
      <4>3. 1..n # {}
        BY <2>1, <2>6, <4>2
      <4>4. QED
        BY <2>3, <4>2, <4>3
    <3>2. Witnessed(q, R) => eligibility = "load"
      <4>1. SUFFICES ASSUME Witnessed(q, R), NEW w \in W PROVE DOMAIN w.loads # {}
        BY DEF eligibility
      <4>2. PICK n \in PossibleCounts(q, R) : DOMAIN w.loads = 1..n
        BY <2>2
      <4>3. Covers(w.loads, Loads(q, R))
        BY <2>2
      <4>4. n \in 0..2
        BY <2>1
      <4>5. CASE Loads(q, R) # {}
        BY <4>3, <4>5 DEF Covers
      <4>6. CASE Closed(q, R)
        BY <2>6, <2>8, <4>2, <4>4, <4>6 DEF PossibleCounts
      <4>7. QED
        BY <4>1, <4>5, <4>6 DEF Witnessed
    <3>3. ~Witnessed(q, R) => eligibility = "undetermined"
      <4>1. SUFFICES ASSUME ~Witnessed(q, R) PROVE \E w \in W : DOMAIN w.loads = {}
        BY DEF eligibility
      <4>2. Cardinality(Loads(q, R)) = 0 /\ PossibleCounts(q, R) = 0..2
        BY <4>1, FS_EmptySet DEF Witnessed, PossibleCounts
      <4>3. 0 \in PossibleCounts(q, R) /\ Cardinality(Loads(q, R)) <= 0
        BY <4>2
      <4>4. QED
        BY <2>3, <2>6, <4>3
    <3> HIDE DEF eligibility
    <3>4. CASE Violates(c, q, R)
      <4>1. \A w \in W : Breaks(c, q, R, w)
        BY <1>2, <2>8, <3>4, AllBreak DEF W
      <4>2. Witnessed(q, R)
        <5>1. CASE Cardinality(Loads(q, R)) > 1
          <6>1. Cardinality(Loads(q, R)) # 0
            BY <2>1, <5>1
          <6>2. QED
            BY <6>1, FS_EmptySet DEF Witnessed
        <5>2. CASE ~(Cardinality(Loads(q, R)) > 1)
          BY <3>4, <5>2 DEF Violates, Witnessed, Closed
        <5>3. QED
          BY <5>1, <5>2
      <4>3. eligibility = "load"
        BY <3>2, <4>2
      <4>4. QED
        BY <1>2, <2>5, <2>8, <3>1, <3>4, <4>1, <4>3
           DEF CompletionMonitor, ReceiptChecker, Decided, W, eligibility
    <3>5. CASE ~Violates(c, q, R) /\ Complies(c, q, R)
      <4>1. \A w \in W : ~Breaks(c, q, R, w)
        BY <1>2, <2>8, <3>5, NoneBreaks DEF W
      <4>2. eligibility = "load"
        BY <3>2, <3>5 DEF Complies, Witnessed
      <4>3. QED
        BY <1>2, <2>5, <2>8, <3>1, <3>5, <4>1, <4>2
           DEF CompletionMonitor, ReceiptChecker, Decided, W, eligibility
    <3>6. CASE ~Violates(c, q, R) /\ ~Complies(c, q, R)
      <4>1. /\ \E w \in W : Breaks(c, q, R, w)
            /\ \E w \in W : ~Breaks(c, q, R, w)
        BY <1>2, <2>8, <3>6, SomeBreakSomeDoNot DEF W
      <4>2. CompletionMonitor(c, q, R) = [verdict |-> "unknown", eligibility |-> eligibility]
        BY <1>2, <2>5, <3>1, <4>1 DEF CompletionMonitor, W, eligibility
      <4>3. QED
        BY <1>2, <2>8, <3>2, <3>3, <3>6, <4>2 DEF ReceiptChecker, Decided, Unassessed
    <3>7. QED
      BY <3>4, <3>5, <3>6
  <2>9. QED
    BY <2>7, <2>8
<1>3. QED
  BY <1>1, <1>2
=============================================================================
