----------------------- MODULE TemplateRetentionProofs -----------------------
(* The template runtime keeps every template a user may still send a         *)
(* solution for, whatever the cap: counting the newest of a set of ids.      *)
EXTENDS TemplateDistributionProofs, FiniteSetTheorems

----------------------------------------------------------------------------
(* The newest Cap of a set of template ids.                                  *)

Above(S, i) == {j \in S : j > i}

\* A bounded set of numbers has a least and a greatest element.
LEMMA Least ==
    ASSUME NEW S \in SUBSET Nat, S # {}
    PROVE  \E x \in S : \A y \in S : x <= y
  <1>1. PICK x \in S : \A y \in S : ~(<<y, x>> \in OpToRel(<, Nat))
    BY WFMin, NatLessThanWellFounded, Zenon
  <1>2. \A y \in S : ~(y < x)
    BY <1>1, Zenon DEF OpToRel
  <1> QED BY <1>2

\* A bounded set of numbers that is not empty has a greatest element.
LEMMA Greatest ==
    ASSUME NEW n \in Nat, NEW S \in SUBSET (0..n), S # {}
    PROVE  \E x \in S : \A y \in S : x >= y
  <1> DEFINE R == {n - x : x \in S}
  <1>0. \A x \in S : x \in Int /\ n - x \in Nat OBVIOUS
  <1>1. R \in SUBSET Nat /\ R # {} BY <1>0, Zenon
  <1>2. PICK r \in R : \A y \in R : r <= y BY <1>1, Least, Zenon
  <1>3. PICK x \in S : r = n - x OBVIOUS
  <1>4. \A y \in S : x >= y
    <2> SUFFICES ASSUME NEW y \in S PROVE x >= y OBVIOUS
    <2>1. n - y \in R OBVIOUS
    <2>2. n - x <= n - y BY <2>1, <1>2, <1>3, Zenon
    <2> QED BY <2>2, <1>0
  <1> QED BY <1>4

\* Sets of template ids are finite, and so is what is above an id.
LEMMA AboveFinite ==
    ASSUME NEW n \in Nat, NEW S \in SUBSET (0..n), NEW i \in Nat
    PROVE  /\ IsFiniteSet(S) /\ Cardinality(S) \in Nat
           /\ IsFiniteSet(Above(S, i)) /\ Cardinality(Above(S, i)) \in Nat
           /\ Cardinality(Above(S, i)) <= Cardinality(S)
  <1>1. IsFiniteSet(0..n) BY FS_Interval
  <1>2. IsFiniteSet(S) BY <1>1, FS_Subset, Zenon
  <1>3. Above(S, i) \in SUBSET S BY DEF Above
  <1> QED BY <1>2, <1>3, FS_Subset, FS_CardinalityType

\* The larger the set and the smaller the id, the more is above it.
LEMMA AboveGrows ==
    ASSUME NEW n \in Nat, NEW S \in SUBSET (0..n), NEW T \in SUBSET S,
           NEW i \in Nat, NEW j \in Nat, i <= j
    PROVE  Cardinality(Above(T, j)) <= Cardinality(Above(S, i))
  <1>1. Above(T, j) \in SUBSET Above(S, i)
    <2> SUFFICES ASSUME NEW x \in T, x > j PROVE x \in S /\ x > i BY Zenon DEF Above
    <2>1. x \in S OBVIOUS
    <2>2. x \in Nat BY <2>1
    <2> QED BY <2>1, <2>2
  <1> QED BY <1>1, AboveFinite, FS_Subset, Zenon

\* A set with no more than Cap ids is its own newest part.
LEMMA NewestSmall ==
    ASSUME NEW n \in Nat, NEW S \in SUBSET (0..n), Cardinality(S) <= Cap
    PROVE  Newest(S) = S
  <1> SUFFICES ASSUME NEW i \in S PROVE Cardinality(Above(S, i)) < Cap
    BY Zenon DEF Newest, Above
  <1>1. IsFiniteSet(S) /\ Cardinality(S) \in Nat BY AboveFinite, Zenon
  <1>2. Above(S, i) \in SUBSET (S \ {i}) BY DEF Above
  <1>3. IsFiniteSet(S \ {i}) /\ Cardinality(S \ {i}) = Cardinality(S) - 1
    BY <1>1, FS_RemoveElement
  <1>4. Cardinality(Above(S, i)) <= Cardinality(S \ {i}) BY <1>2, <1>3, FS_Subset
  <1>5. Cardinality(Above(S, i)) \in Nat
    <2>1. i \in Nat OBVIOUS
    <2> QED BY <2>1, AboveFinite, Zenon
  <1> QED BY <1>1, <1>3, <1>4, <1>5, CapAssumption

\* No set has more than Cap newest ids.
LEMMA NewestBounded ==
    ASSUME NEW n \in Nat, NEW S \in SUBSET (0..n)
    PROVE  Newest(S) \in SUBSET S /\ Cardinality(Newest(S)) <= Cap
  <1>0. \A x \in S : x \in Nat OBVIOUS
  <1>1. Newest(S) \in SUBSET S /\ Newest(S) \in SUBSET Nat BY <1>0, Zenon DEF Newest
  <1>2. CASE Newest(S) = {} BY <1>1, <1>2, FS_EmptySet, CapAssumption
  <1>3. CASE Newest(S) # {}
    <2>1. PICK m \in Newest(S) : \A y \in Newest(S) : m <= y BY <1>1, <1>3, Least
    <2>2. Cardinality(Above(S, m)) < Cap BY <2>1 DEF Newest, Above
    <2>3. Newest(S) \in SUBSET (Above(S, m) \cup {m}) BY <1>0, <1>1, <2>1 DEF Above
    <2>4. m \in Nat /\ m \notin Above(S, m) BY <1>1, <2>1 DEF Above
    <2>5. /\ IsFiniteSet(Above(S, m) \cup {m})
          /\ Cardinality(Above(S, m) \cup {m}) = Cardinality(Above(S, m)) + 1
      BY <2>4, AboveFinite, FS_AddElement, Zenon
    <2>6. Cardinality(Newest(S)) <= Cardinality(Above(S, m)) + 1 BY <2>3, <2>5, FS_Subset
    <2>7. Cardinality(Newest(S)) \in Nat BY <1>1, AboveFinite
    <2>8. Cardinality(Above(S, m)) \in Nat BY <2>4, AboveFinite, Zenon
    <2> QED BY <1>1, <2>2, <2>6, <2>7, <2>8, CapAssumption
  <1> QED BY <1>1, <1>2, <1>3

\* An id that is not among the newest has Cap newest ids above it.
LEMMA NewestAbove ==
    ASSUME NEW n \in Nat, NEW S \in SUBSET (0..n), NEW r \in S, r \notin Newest(S)
    PROVE  Cardinality(Above(Newest(S), r)) >= Cap
  <1> DEFINE Old == S \ Newest(S)
  <1>1. Old \in SUBSET (0..n) /\ Old # {} BY Zenon
  <1>2. PICK top \in Old : \A y \in Old : top >= y BY <1>1, Greatest, Zenon
  <1>3. top \in Nat /\ r \in Nat /\ r <= top BY <1>1, <1>2
  <1>4. ~(Cardinality(Above(S, top)) < Cap) BY <1>2 DEF Newest, Above
  <1>5. Above(S, top) \in SUBSET Above(Newest(S), r)
    <2> SUFFICES ASSUME NEW j \in S, j > top PROVE j \in Newest(S) /\ j > r BY Zenon DEF Above
    <2>1. j \in Nat OBVIOUS
    <2> QED BY <2>1, <1>2, <1>3
  <1>6. Newest(S) \in SUBSET (0..n) BY Zenon DEF Newest
  <1>7. Cardinality(Above(S, top)) <= Cardinality(Above(Newest(S), r))
    BY <1>3, <1>5, <1>6, AboveFinite, FS_Subset, Zenon
  <1>8. Cardinality(Above(S, top)) \in Nat /\ Cardinality(Above(Newest(S), r)) \in Nat
    BY <1>3, <1>6, AboveFinite, Zenon
  <1> QED BY <1>4, <1>7, <1>8, CapAssumption

\* A reader that keeps the newest ids of what it has heard so far ends with the
\* newest ids of all it will have heard.
LEMMA NewestAbsorbs ==
    ASSUME NEW n \in Nat, NEW X \in SUBSET (0..n), NEW Y \in SUBSET (0..n)
    PROVE  Newest(Newest(X) \cup Y) = Newest(X \cup Y)
  <1> DEFINE A == X \cup Y
             B == Newest(X) \cup Y
  <1>1. B \in SUBSET A /\ A \in SUBSET (0..n) /\ Newest(X) \in SUBSET (0..n) BY Zenon DEF Newest
  <1>0. ASSUME NEW i \in Nat
        PROVE  /\ Cardinality(Above(A, i)) \in Nat /\ Cardinality(Above(B, i)) \in Nat
               /\ Cardinality(Above(X, i)) \in Nat /\ Cardinality(Above(Newest(X), i)) \in Nat
    <2> HIDE DEF A, B
    <2>1. B \in SUBSET (0..n) BY <1>1
    <2> QED BY <1>1, <2>1, AboveFinite, Zenon
  <1>2. ASSUME NEW i \in A, Cardinality(Above(A, i)) < Cap
        PROVE  i \in B /\ Cardinality(Above(B, i)) < Cap
    <2>1. i \in Nat BY <1>1
    <2>0. i <= i BY <2>1
    <2>2. Cardinality(Above(B, i)) <= Cardinality(Above(A, i))
      <3> HIDE DEF A, B
      <3> QED BY <1>1, <2>0, <2>1, AboveGrows, Zenon
    <2>3. ASSUME i \in X PROVE i \in Newest(X)
      <3>0. X \in SUBSET A OBVIOUS
      <3>1. Cardinality(Above(X, i)) <= Cardinality(Above(A, i))
        <4> HIDE DEF A, B
        <4> QED BY <1>1, <2>0, <2>1, <3>0, AboveGrows
      <3>2. Cardinality(Above(X, i)) < Cap BY <1>0, <1>2, <2>1, <3>1, CapAssumption
      <3> QED BY <2>3, <3>2 DEF Newest, Above
    <2>4. Cardinality(Above(B, i)) < Cap
      <3>1. Cardinality(Above(A, i)) \in Nat /\ Cardinality(Above(B, i)) \in Nat BY <1>0, <2>1, Zenon
      <3> HIDE DEF A, B
      <3> QED BY <1>2, <2>2, <3>1, CapAssumption
    <2> QED BY <2>3, <2>4
  <1>3. ASSUME NEW i \in B, Cardinality(Above(B, i)) < Cap
        PROVE  Cardinality(Above(A, i)) < Cap
    <2>1. i \in Nat
      <3>1. i \in 0..n BY <1>1, Zenon
      <3> QED BY <3>1
    <2>2. CASE Above(A, i) \in SUBSET B
      <3>1. Above(A, i) = Above(B, i) BY <2>2, <1>1 DEF Above
      <3> QED BY <3>1, <1>3
    <2>3. CASE ~(Above(A, i) \in SUBSET B)
      <3>1. PICK r \in A : r > i /\ r \notin B BY <2>3, Zenon DEF Above
      <3>2. r \in X /\ r \notin Newest(X) /\ r \in Nat BY <3>1, <1>1
      <3>3. Cardinality(Above(Newest(X), r)) >= Cap BY <3>2, NewestAbove
      <3>4. Cardinality(Above(Newest(X), r)) <= Cardinality(Above(B, i))
        <4>0. i <= r BY <2>1, <3>1, <3>2
        <4>1. i <= r /\ Newest(X) \in SUBSET B /\ B \in SUBSET (0..n) BY <1>1, <4>0, Zenon
        <4> HIDE DEF A, B
        <4> QED BY <2>1, <3>2, <4>1, AboveGrows, Zenon
      <3> QED BY <1>0, <1>3, <2>1, <3>2, <3>3, <3>4, CapAssumption
    <2> QED BY <2>2, <2>3
  <1>4. \A i : i \in Newest(A) <=> i \in Newest(B)
    BY <1>1, <1>2, <1>3, Zenon DEF Newest, Above
  <1> QED BY <1>4

\* retire_templates_beyond_cap leaves the newest Cap of the live templates alive.
LEMMA CapKeepsNewest ==
    ASSUME NEW ret, IsRetained(ret), NEW fut
    PROVE  Live(retire_templates_beyond_cap(Stored(ret, fut)).ret) = Newest(Live(ret))
  <1> DEFINE live == Live(ret)
             s == retire_templates_beyond_cap(Stored(ret, fut))
  <1>0. live \in SUBSET (0..MaxId) /\ MaxId \in Nat BY BoundsAssumption DEF Live, IsRetained
  <1>1. CASE Cardinality(live) <= Cap
    <2>1. s = Stored(ret, fut) BY <1>1 DEF retire_templates_beyond_cap, Stored
    <2>2. Newest(live) = live BY <1>0, <1>1, NewestSmall, Zenon
    <2> QED BY <2>1, <2>2 DEF Stored
  <1>2. CASE ~(Cardinality(live) <= Cap)
    <2> DEFINE From(i) == {j \in live : j >= i}
               Full == {i \in live : Cardinality(From(i)) >= Cap}
               m == OldestKept(live)
               kept == [i \in DOMAIN ret |-> IF i < m THEN Retire(ret[i]) ELSE ret[i]]
    <2>0. \A i \in live : From(i) = Above(live, i) \cup {i} /\ i \notin Above(live, i)
      BY <1>0 DEF Above
    <2>1. \A i \in live : /\ IsFiniteSet(From(i)) /\ Cardinality(From(i)) \in Nat
                          /\ Cardinality(From(i)) = Cardinality(Above(live, i)) + 1
                          /\ Cardinality(Above(live, i)) \in Nat
      <3> SUFFICES ASSUME NEW i \in live
                   PROVE  /\ IsFiniteSet(From(i)) /\ Cardinality(From(i)) \in Nat
                          /\ Cardinality(From(i)) = Cardinality(Above(live, i)) + 1
                          /\ Cardinality(Above(live, i)) \in Nat
        OBVIOUS
      <3>1. i \in Nat BY <1>0
      <3>2. IsFiniteSet(Above(live, i)) /\ Cardinality(Above(live, i)) \in Nat
        <4> HIDE DEF live
        <4> QED BY <1>0, <3>1, AboveFinite, Zenon
      <3>3. From(i) = Above(live, i) \cup {i} /\ i \notin Above(live, i) BY <2>0
      <3>4. /\ IsFiniteSet(Above(live, i) \cup {i})
            /\ Cardinality(Above(live, i) \cup {i}) = Cardinality(Above(live, i)) + 1
        <4> HIDE DEF live
        <4> QED BY <3>2, <3>3, FS_AddElement
      <3> HIDE DEF live, From
      <3> QED BY <3>2, <3>3, <3>4
    <2>2. Full # {}
      <3>1. live # {} BY <1>2, FS_EmptySet, CapAssumption
      <3>2. PICK x \in live : \A y \in live : x <= y BY <1>0, <3>1, Least
      <3>3. From(x) = live BY <1>0, <3>2
      <3>4. Cardinality(live) \in Nat BY <1>0, AboveFinite, Zenon
      <3> QED BY <1>2, <3>2, <3>3, <3>4, CapAssumption
    <2>3. m \in Full /\ \A y \in Full : m >= y
      <3>1. Full \in SUBSET (0..MaxId) BY <1>0
      <3>2. \E x \in Full : \A y \in Full : x >= y BY <1>0, <2>2, <3>1, Greatest, Zenon
      <3> QED BY <3>2, Zenon DEF OldestKept, Max
    <2>4. ASSUME NEW i \in live, i >= m PROVE Cardinality(Above(live, i)) < Cap
      <3>1. CASE i > m
        <4>1. i \notin Full BY <1>0, <2>3, <3>1
        <4> QED BY <2>1, <4>1, CapAssumption
      <3>2. CASE i = m
        <4>0. Cardinality(Above(live, m)) \in Nat BY <3>2, <2>1, Zenon
        <4>1. SUFFICES ASSUME Cardinality(Above(live, m)) >= Cap PROVE FALSE
          BY <3>2, <4>0, CapAssumption
        <4>2. Above(live, m) # {} BY <4>1, FS_EmptySet, CapAssumption
        <4>3. Above(live, m) \in SUBSET Nat BY <1>0 DEF Above
        <4>4. PICK k \in Above(live, m) : \A y \in Above(live, m) : k <= y BY <4>2, <4>3, Least
        <4>5. From(k) = Above(live, m) BY <1>0, <2>3, <4>4 DEF Above
        <4>6. k \in Full BY <4>1, <4>4, <4>5 DEF Above
        <4> QED BY <1>0, <2>3, <4>4, <4>6 DEF Above
      <3> QED BY <1>0, <2>3, <2>4, <3>1, <3>2
    <2>5. ASSUME NEW i \in live, i < m PROVE ~(Cardinality(Above(live, i)) < Cap)
      <3>1. From(m) \in SUBSET Above(live, i) BY <1>0, <2>3, <2>5 DEF Above
      <3>2. Cardinality(From(m)) <= Cardinality(Above(live, i)) 
        <4>1. m \in live /\ i \in Nat BY <1>0, <2>3
        <4>2. IsFiniteSet(Above(live, i))
          <5> HIDE DEF live
          <5> QED BY <1>0, <4>1, AboveFinite, Zenon
        <4> QED BY <3>1, <4>2, FS_Subset
      <3>3. Cardinality(From(m)) \in Nat /\ Cardinality(From(m)) >= Cap BY <2>1, <2>3, Zenon
      <3>4. Cardinality(Above(live, i)) \in Nat BY <2>1, Zenon
      <3> QED BY <3>2, <3>3, <3>4, CapAssumption
    <2>6. \A i \in live : i >= m <=> Cardinality(Above(live, i)) < Cap
      BY <1>0, <2>3, <2>4, <2>5
    <2>7. s = Stored(kept, fut) BY <1>2 DEF retire_templates_beyond_cap, Stored
    <2>9. Live(kept) = {i \in live : i >= m}
      <3>1. m \in Nat BY <1>0, <2>3
      <3> HIDE DEF m
      <3>2. ASSUME NEW i \in DOMAIN ret PROVE kept[i].retired = "no" <=> (ret[i].retired = "no" /\ i >= m)
        <4>1. i \in Nat BY DEF IsRetained
        <4> QED BY <3>1, <4>1 DEF Retire, IsRetained, Retained
      <3> QED BY <3>2 DEF Live
    <2>10. Live(kept) = Newest(live) BY <2>6, <2>9 DEF Newest, Above
    <2> QED BY <2>7, <2>10 DEF Stored
  <1> QED BY <1>1, <1>2

\* The facts about the cap that the steps of the runtime rest on.
LEMMA CapHolds == CapFacts
  <1>1. MaxId \in Nat BY BoundsAssumption
  <1>2. Cardinality({}) <= Cap BY FS_EmptySet, CapAssumption
  <1>3. ASSUME NEW S \in SUBSET (0..MaxId)
        PROVE  Cardinality(Newest(S)) <= Cap /\ (Cardinality(S) <= Cap => Newest(S) = S)
    BY <1>1, NewestBounded, NewestSmall, Zenon
  <1>4. ASSUME NEW X \in SUBSET (0..MaxId), NEW Y \in SUBSET (0..MaxId)
        PROVE  Newest(Newest(X) \cup Y) = Newest(X \cup Y)
    BY <1>1, NewestAbsorbs, Zenon
  <1> QED BY <1>2, <1>3, <1>4, CapKeepsNewest, Zenon DEF CapFacts

----------------------------------------------------------------------------
\* The templates the runtime keeps: a solution for any job the user still has
\* finds its template (the cap on templates covers the user's job history, the
\* grace period what is on its way), no more than Cap templates are live, and
\* those are of the tip and the constraints of the future template.
THEOREM RetentionHolds == Spec => []Retention
  <1>1. FlowInv /\ RetainInv => Retention
    <2> SUFFICES ASSUME FlowInv, RetainInv PROVE Retention OBVIOUS
    <2>1. /\ mon.st \in {"off", "thread", "wait", "fetch", "exit"}
          /\ inc.st \in {"off", "idle", "join", "boot", "data", "submit", "exit"}
          /\ boot.st \in {"off", "create", "fetch"}
      BY DEF FlowInv, Shape, MonShape, IncShape, BootShape
    <2>2. future \in Templates /\ current \in Templates
      <3>1. NoTemplate \in Templates /\ \A t \in Published : t \in Templates
        BY BoundsAssumption DEF Published, NoTemplate, Templates
      <3> QED BY <3>1 DEF FlowInv, Shape
    <2>3. TypeOK
      BY <2>1, <2>2 DEF FlowInv, Shape, TypeOK, IsRetained, Retained
    <2>4. SolutionFindsTemplate /\ LiveWithinCap
      BY DEF RetainInv, LiveInv, NamedSafe, SolutionFindsTemplate, LiveWithinCap
    <2>5. LiveTemplatesCurrent
      BY DEF RetainInv, LiveInv, LiveTemplatesCurrent
    <2> QED BY <2>3, <2>4, <2>5 DEF Retention
  <1> QED BY FlowInit, FlowStep, RetainInit, RetainStep, CapHolds, <1>1, PTL DEF Spec
=============================================================================
