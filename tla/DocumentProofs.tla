-------------------------- MODULE DocumentProofs --------------------------
(***************************************************************************)
(* Proofs about ContractDocuments, for contract files of any documents,    *)
(* any number of catalogs and any bounds, and about ScalarEditor, for a    *)
(* file of any size, any codes to change in it and any entries of the      *)
(* other kit.                                                              *)
(***************************************************************************)
EXTENDS ContractDocuments, ScalarEditor, FoldProofs, FiniteSetTheorems, SequenceTheorems

-----------------------------------------------------------------------------
(* Sequences and the first of several errors *)

\* A sequence of anything is a sequence of its own members.
LEMMA OwnMembers ==
    ASSUME NEW s, NEW n \in Nat, s = [i \in 1..n |-> s[i]]
    PROVE  /\ IsSequence(s) /\ Len(s) = n /\ DOMAIN s = 1..n
           /\ \A i \in 1..n : s[i] \in ToSet(s)
<1>1. DOMAIN s = 1..n OBVIOUS
<1>2. ToSet(s) = {s[i] : i \in 1..n} BY <1>1 DEF ToSet
<1>3. s \in Seq({s[i] : i \in 1..n}) OBVIOUS
<1> QED BY <1>1, <1>2, <1>3 DEF IsSequence

LEMMA Sequenced ==
    ASSUME NEW s, IsSequence(s)
    PROVE  /\ Len(s) \in Nat /\ DOMAIN s = 1..Len(s) /\ s = [i \in 1..Len(s) |-> s[i]]
           /\ \A i \in DOMAIN s : s[i] \in ToSet(s)
           /\ \A x \in ToSet(s) : \E i \in DOMAIN s : s[i] = x
BY DEF IsSequence, ToSet

LEMMA AnySequence ==
    ASSUME NEW S, NEW s \in Seq(S)
    PROVE  /\ IsSequence(s) /\ Len(s) \in Nat /\ DOMAIN s = 1..Len(s)
           /\ ToSet(s) \subseteq S
<1>1. /\ Len(s) \in Nat /\ DOMAIN s = 1..Len(s) /\ s = [i \in 1..Len(s) |-> s[i]]
      /\ \A i \in DOMAIN s : s[i] \in S
  OBVIOUS
<1>2. IsSequence(s) BY <1>1, OwnMembers
<1>3. ToSet(s) = {s[i] : i \in DOMAIN s} BY DEF ToSet
<1> QED BY <1>1, <1>2, <1>3

\* If no error is the first, there is none.
LEMMA FirstError ==
    ASSUME NEW S, NEW errors \in Seq(S), FirstOf(errors) = "none", NEW k \in DOMAIN errors
    PROVE  errors[k] = "none"
<1> SUFFICES ASSUME errors[k] # "none" PROVE FALSE OBVIOUS
<1> DEFINE bad == {i \in DOMAIN errors : errors[i] # "none"}
           Is(i) == errors[i] # "none" /\ \A j \in 1..(i - 1) : errors[j] = "none"
<1>1. DOMAIN errors = 1..Len(errors) /\ Len(errors) \in Nat OBVIOUS
<1>2. PICK i \in bad : \A j \in bad : i <= j
  <2>1. bad \in SUBSET Nat /\ bad # {} BY <1>1
  <2> HIDE DEF bad
  <2> QED BY <2>1, LeastNatural
<1>3. Is(i) BY <1>1, <1>2
<1>4. Is(CHOOSE x \in DOMAIN errors : Is(x)) BY <1>2, <1>3
<1> QED BY <1>4 DEF FirstOf

-----------------------------------------------------------------------------
(* A document without errors *)

\* A function on 1..n with values in a set is a sequence over it.
LEMMA FromElements ==
    ASSUME NEW S, NEW n \in Nat, NEW f, f = [k \in 1..n |-> f[k]], \A k \in 1..n : f[k] \in S
    PROVE  f \in Seq(S)
OBVIOUS

\* Whatever occurs in a sequence occurs in every concatenation it is a part of.
Joined(s, t) == s \o t
LEMMA BothParts ==
    ASSUME NEW S, NEW s \in Seq(S), NEW t \in Seq(S)
    PROVE  /\ \A k \in DOMAIN s : \E j \in DOMAIN Joined(s, t) : Joined(s, t)[j] = s[k]
           /\ \A k \in DOMAIN t : \E j \in DOMAIN Joined(s, t) : Joined(s, t)[j] = t[k]
<1> USE DEF Joined
<1>1. /\ Len(s) \in Nat /\ Len(t) \in Nat /\ DOMAIN s = 1..Len(s) /\ DOMAIN t = 1..Len(t)
      /\ DOMAIN (s \o t) = 1..(Len(s) + Len(t))
  <2>1. s \o t \in Seq(S) /\ Len(s \o t) = Len(s) + Len(t) BY ConcatProperties
  <2> QED BY <2>1
<1>2. \A k \in 1..(Len(s) + Len(t)) : (s \o t)[k] = IF k <= Len(s) THEN s[k] ELSE t[k - Len(s)]
  BY ConcatProperties
<1>3. ASSUME NEW k \in 1..Len(s) PROVE \E j \in DOMAIN (s \o t) : (s \o t)[j] = s[k]
  <2>1. k \in 1..(Len(s) + Len(t)) /\ k <= Len(s) BY <1>1
  <2> QED BY <1>1, <1>2, <2>1
<1>4. ASSUME NEW k \in 1..Len(t) PROVE \E j \in DOMAIN (s \o t) : (s \o t)[j] = t[k]
  <2>1. /\ Len(s) + k \in 1..(Len(s) + Len(t)) /\ ~(Len(s) + k <= Len(s))
        /\ (Len(s) + k) - Len(s) = k BY <1>1
  <2>2. (s \o t)[Len(s) + k] = t[k] BY <1>2, <2>1
  <2> QED BY <1>1, <2>1, <2>2
<1> QED BY <1>1, <1>3, <1>4

LEMMA NoError ==
    ASSUME NEW raw, IsStated(raw), DocumentError(raw) = "none"
    PROVE  /\ \A k \in DOMAIN raw.signatures :
                 DecodeError(raw, k) = "none" /\ SignatureError(raw, k) = "none"
           /\ IsInjective([k \in DOMAIN raw.sketches |-> raw.sketches[k].id])
           /\ \A i \in DOMAIN raw.sketches : SketchError(raw, raw.sketches[i]) = "none"
<1> DEFINE ids == [k \in DOMAIN raw.sketches |-> raw.sketches[k].id]
           decoding == [k \in DOMAIN raw.signatures |-> DecodeError(raw, k)]
           middle == IF raw.root = "" THEN "root" ELSE IF ~IsInjective(ids) THEN "sketch_id" ELSE "none"
           linking == [k \in DOMAIN raw.signatures |-> SignatureError(raw, k)]
           orphans == [k \in DOMAIN raw.sketches |-> SketchError(raw, raw.sketches[k])]
<1>1. PICK n \in Nat, m \in Nat : DOMAIN raw.signatures = 1..n /\ DOMAIN raw.sketches = 1..m
  <2>1. IsSequence(raw.signatures) /\ IsSequence(raw.sketches) BY DEF IsStated
  <2>2. Len(raw.signatures) \in Nat /\ DOMAIN raw.signatures = 1..Len(raw.signatures) BY <2>1, Sequenced
  <2>3. Len(raw.sketches) \in Nat /\ DOMAIN raw.sketches = 1..Len(raw.sketches) BY <2>1, Sequenced
  <2> QED BY <2>2, <2>3
<1>2. PICK S : decoding \in Seq(S) /\ <<middle>> \in Seq(S) /\ linking \in Seq(S) /\ orphans \in Seq(S)
  <2> DEFINE S == {decoding[k] : k \in 1..n} \cup {middle} \cup {linking[k] : k \in 1..n}
                  \cup {orphans[k] : k \in 1..m}
  <2> HIDE DEF middle
  <2>1. \A k \in 1..n : decoding[k] \in S /\ linking[k] \in S OBVIOUS
  <2>2. \A k \in 1..m : orphans[k] \in S OBVIOUS
  <2>3. middle \in S OBVIOUS
  <2>4. DOMAIN decoding = 1..n /\ DOMAIN linking = 1..n /\ DOMAIN orphans = 1..m BY <1>1
  <2>5. decoding = [k \in 1..n |-> decoding[k]] /\ linking = [k \in 1..n |-> linking[k]]
        /\ orphans = [k \in 1..m |-> orphans[k]] BY <1>1
  <2> HIDE DEF S, decoding, linking, orphans
  <2>6. decoding \in Seq(S) BY <1>1, <2>1, <2>5, FromElements
  <2>7. linking \in Seq(S) BY <1>1, <2>1, <2>5, FromElements
  <2>8. orphans \in Seq(S) BY <1>1, <2>2, <2>5, FromElements
  <2>9. <<middle>> \in Seq(S) BY <2>3
  <2> QED BY <2>6, <2>7, <2>8, <2>9
<1>3. FirstOf(decoding \o <<middle>> \o linking \o orphans) = "none" BY DEF DocumentError
<1> HIDE DEF decoding, linking, orphans, middle
<1> DEFINE one == decoding \o <<middle>>
           two == one \o linking
           all == two \o orphans
<1>4. one \in Seq(S) BY <1>2, ConcatProperties
<1> HIDE DEF one
<1>5. two \in Seq(S) BY <1>2, <1>4, ConcatProperties
<1> HIDE DEF two
<1>6. all \in Seq(S) BY <1>2, <1>5, ConcatProperties
<1>7. FirstOf(all) = "none" BY <1>3 DEF one, two
<1>8. \A k \in DOMAIN all : all[k] = "none"
  <2> HIDE DEF all
  <2> QED BY <1>6, <1>7, FirstError
<1>9. (\A k \in DOMAIN two : two[k] = "none") /\ (\A k \in DOMAIN orphans : orphans[k] = "none")
  <2>1. /\ \A k \in DOMAIN two : \E j \in DOMAIN all : all[j] = two[k]
        /\ \A k \in DOMAIN orphans : \E j \in DOMAIN all : all[j] = orphans[k]
    <3>1. all = Joined(two, orphans) BY DEF Joined
    <3> HIDE DEF all
    <3> QED BY <1>2, <1>5, <3>1, BothParts
  <2> HIDE DEF all
  <2> QED BY <1>8, <2>1
<1>10. (\A k \in DOMAIN one : one[k] = "none") /\ (\A k \in DOMAIN linking : linking[k] = "none")
  <2>1. /\ \A k \in DOMAIN one : \E j \in DOMAIN two : two[j] = one[k]
        /\ \A k \in DOMAIN linking : \E j \in DOMAIN two : two[j] = linking[k]
    <3>1. two = Joined(one, linking) BY DEF two, Joined
    <3> QED BY <1>2, <1>4, <3>1, BothParts
  <2> QED BY <1>9, <2>1
<1>11. (\A k \in DOMAIN decoding : decoding[k] = "none") /\ (\A k \in DOMAIN <<middle>> : <<middle>>[k] = "none")
  <2>1. /\ \A k \in DOMAIN decoding : \E j \in DOMAIN one : one[j] = decoding[k]
        /\ \A k \in DOMAIN <<middle>> : \E j \in DOMAIN one : one[j] = <<middle>>[k]
    <3>1. PICK centre : centre = <<middle>> OBVIOUS
    <3>2. one = Joined(decoding, centre) /\ centre \in Seq(S) BY <1>2, <3>1 DEF one, Joined
    <3>3. /\ \A k \in DOMAIN decoding : \E j \in DOMAIN one : one[j] = decoding[k]
          /\ \A k \in DOMAIN centre : \E j \in DOMAIN one : one[j] = centre[k]
      BY <1>2, <3>2, BothParts
    <3> QED BY <3>1, <3>3
  <2> QED BY <1>10, <2>1
<1>12. middle = "none"
  <2>1. 1 \in DOMAIN <<middle>> /\ <<middle>>[1] = middle OBVIOUS
  <2> QED BY <1>11, <2>1
<1>13. \A k \in DOMAIN raw.signatures : DecodeError(raw, k) = "none" /\ SignatureError(raw, k) = "none"
  BY <1>10, <1>11 DEF decoding, linking
<1>14. \A i \in DOMAIN raw.sketches : SketchError(raw, raw.sketches[i]) = "none"
  BY <1>9 DEF orphans
<1>15. IsInjective(ids)
  <2> HIDE DEF ids
  <2> QED BY <1>12 DEF middle
<1> QED BY <1>13, <1>14, <1>15

-----------------------------------------------------------------------------
(* Places *)

LEMMA InPlaces ==
    ASSUME NEW sets, NEW p
    PROVE  p \in Places(sets) <=> p = <<p[1], p[2]>> /\ p[1] \in DOMAIN sets /\ p[2] \in sets[p[1]]
BY DEF Places

LEMMA Intervals ==
    ASSUME NEW n \in Nat
    PROVE  IsFiniteSet(1..n) /\ Cardinality(1..n) = n /\ IsFiniteSet(0..n)
<1>1. IsFiniteSet(1..n) /\ Cardinality(1..n) = IF 1 > n THEN 0 ELSE n - 1 + 1 BY FS_Interval
<1>2. IsFiniteSet(0..n) BY FS_Interval
<1> QED BY <1>1, <1>2

LEMMA PlacesFinite ==
    ASSUME NEW n \in Nat, NEW sets, DOMAIN sets = 1..n, \A k \in 1..n : IsFiniteSet(sets[k])
    PROVE  IsFiniteSet(Places(sets))
<1> DEFINE parts == {{k} \X sets[k] : k \in DOMAIN sets}
           part == [k \in 1..n |-> {k} \X sets[k]]
<1>1. part \in Surjection(1..n, parts) BY DEF Surjection
<1>2. IsFiniteSet(1..n) BY FS_Interval
<1>3. \A T \in parts : IsFiniteSet(T)
  <2> SUFFICES ASSUME NEW k \in 1..n PROVE IsFiniteSet({k} \X sets[k]) OBVIOUS
  <2>1. IsFiniteSet({k}) BY FS_Singleton
  <2> QED BY <2>1, FS_Product
<1> HIDE DEF parts, part
<1>4. IsFiniteSet(parts) BY <1>1, <1>2, FS_Surjection
<1>5. IsFiniteSet(UNION parts) BY <1>3, <1>4, FS_UNION
<1> QED BY <1>5 DEF Places, parts

\* Two disjoint sets and no others count what both count.
LEMMA DisjointSum ==
    ASSUME NEW A, NEW B, IsFiniteSet(A), IsFiniteSet(B), \A x \in A : ~(x \in B)
    PROVE  IsFiniteSet(A \cup B) /\ Cardinality(A \cup B) = Cardinality(A) + Cardinality(B)
<1>1. Cardinality(A) \in Nat /\ Cardinality(B) \in Nat BY FS_CardinalityType
<1>2. Cardinality(A \cap B) = 0
  <2>1. A \cap B = {} OBVIOUS
  <2>2. Cardinality({}) = 0 BY FS_EmptySet
  <2> QED BY <2>1, <2>2, Zenon
<1>3. IsFiniteSet(A \cup B)
      /\ Cardinality(A \cup B) = Cardinality(A) + Cardinality(B) - Cardinality(A \cap B)
  BY FS_Union
<1> QED BY <1>1, <1>2, <1>3

LEMMA PlacesJoined ==
    ASSUME NEW n \in Nat, NEW m \in Nat, NEW s, NEW t, NEW u,
           DOMAIN s = 1..n, DOMAIN t = 1..m, DOMAIN u = 1..(n + m),
           \A k \in 1..n : u[k] = s[k] /\ IsFiniteSet(s[k]),
           \A k \in 1..m : u[n + k] = t[k] /\ IsFiniteSet(t[k])
    PROVE  Cardinality(Places(u)) = Cardinality(Places(s)) + Cardinality(Places(t))
<1> DEFINE shifted == {p \in Places(u) : p[1] > n}
           shift == [p \in Places(t) |-> <<n + p[1], p[2]>>]
<1>1. \A p : p \in Places(s) <=> p = <<p[1], p[2]>> /\ p[1] \in 1..n /\ p[2] \in s[p[1]] BY InPlaces
<1>2. \A p : p \in Places(t) <=> p = <<p[1], p[2]>> /\ p[1] \in 1..m /\ p[2] \in t[p[1]] BY InPlaces
<1>3. \A p : p \in Places(u) <=> p = <<p[1], p[2]>> /\ p[1] \in 1..(n + m) /\ p[2] \in u[p[1]] BY InPlaces
<1>4. IsFiniteSet(Places(s)) /\ IsFiniteSet(Places(t)) BY PlacesFinite
<1>5. shift \in Bijection(Places(t), shifted)
  <2>1. ASSUME NEW p \in Places(t) PROVE shift[p] \in shifted
    <3>1. p = <<p[1], p[2]>> /\ p[1] \in 1..m /\ p[2] \in t[p[1]] BY <1>2
    <3>2. shift[p] = <<n + p[1], p[2]>> OBVIOUS
    <3>3. n + p[1] \in 1..(n + m) /\ n + p[1] > n /\ u[n + p[1]] = t[p[1]] BY <3>1
    <3>4. <<n + p[1], p[2]>> \in Places(u) BY <1>3, <3>1, <3>3
    <3> QED BY <3>2, <3>3, <3>4
  <2>2. ASSUME NEW p \in Places(t), NEW q \in Places(t), shift[p] = shift[q] PROVE p = q
    <3>1. p = <<p[1], p[2]>> /\ p[1] \in 1..m /\ q = <<q[1], q[2]>> /\ q[1] \in 1..m BY <1>2
    <3>2. <<n + p[1], p[2]>> = <<n + q[1], q[2]>> BY <2>2
    <3>3. n + p[1] = n + q[1] /\ p[2] = q[2] BY <3>2
    <3>4. p[1] = q[1] BY <3>1, <3>3
    <3> QED BY <3>1, <3>3, <3>4
  <2>3. ASSUME NEW q \in shifted PROVE \E p \in Places(t) : shift[p] = q
    <3>1. q = <<q[1], q[2]>> /\ q[1] \in 1..(n + m) /\ q[2] \in u[q[1]] /\ q[1] > n BY <1>3
    <3>2. PICK k \in Int : k = q[1] - n BY <3>1
    <3>3. k \in 1..m /\ n + k = q[1] BY <3>1, <3>2
    <3>4. q[2] \in t[k] BY <3>1, <3>3
    <3>5. PICK p : p = <<k, q[2]>> OBVIOUS
    <3>6. p \in Places(t) BY <1>2, <3>3, <3>4, <3>5
    <3>7. shift[p] = <<n + k, q[2]>> BY <3>5, <3>6
    <3> QED BY <3>1, <3>3, <3>6, <3>7
  <2>4. shift \in [Places(t) -> shifted] BY <2>1
  <2> HIDE DEF shift, shifted
  <2>5. shift \in Injection(Places(t), shifted) BY <2>2, <2>4 DEF Injection, IsInjective
  <2>6. shift \in Surjection(Places(t), shifted) BY <2>3, <2>4 DEF Surjection
  <2> QED BY <2>5, <2>6 DEF Bijection
<1>6. IsFiniteSet(shifted) /\ Cardinality(shifted) = Cardinality(Places(t))
  <2> HIDE DEF shift, shifted
  <2>1. ExistsBijection(Places(t), shifted) BY <1>5 DEF ExistsBijection
  <2> QED BY <1>4, <2>1, FS_Bijection
<1>7. Places(u) = Places(s) \cup shifted
  <2>1. ASSUME NEW p \in Places(u) PROVE p \in Places(s) \cup shifted
    <3>1. p = <<p[1], p[2]>> /\ p[1] \in 1..(n + m) /\ p[2] \in u[p[1]] BY <1>3
    <3>2. CASE p[1] > n BY <3>2
    <3>3. CASE ~(p[1] > n)
      <4>1. p[1] \in 1..n BY <3>1, <3>3
      <4> QED BY <1>1, <3>1, <4>1
    <3> QED BY <3>2, <3>3
  <2>2. ASSUME NEW p \in Places(s) PROVE p \in Places(u)
    <3>1. p = <<p[1], p[2]>> /\ p[1] \in 1..n /\ p[2] \in s[p[1]] BY <1>1
    <3>2. p[1] \in 1..(n + m) BY <3>1
    <3> QED BY <1>3, <3>1, <3>2
  <2>3. \A p \in shifted : p \in Places(u) OBVIOUS
  <2> HIDE DEF shifted
  <2> QED BY <2>1, <2>2, <2>3
<1>8. \A p \in Places(s) : ~(p \in shifted)
  <2> SUFFICES ASSUME NEW p \in Places(s) PROVE ~(p \in shifted) OBVIOUS
  <2>1. p[1] \in 1..n BY <1>1
  <2> QED BY <2>1
<1> HIDE DEF shifted
<1> QED BY <1>4, <1>6, <1>7, <1>8, DisjointSum

\* A family of one more set.
LEMMA PlacesAppended ==
    ASSUME NEW n \in Nat, NEW s, NEW u, DOMAIN s = 1..n, DOMAIN u = 1..(n + 1),
           \A k \in 1..n : u[k] = s[k] /\ IsFiniteSet(s[k]), IsFiniteSet(u[n + 1])
    PROVE  Cardinality(Places(u)) = Cardinality(Places(s)) + Cardinality(u[n + 1])
<1> DEFINE added == {n + 1} \X u[n + 1]
<1>1. \A p : p \in Places(s) <=> p = <<p[1], p[2]>> /\ p[1] \in 1..n /\ p[2] \in s[p[1]] BY InPlaces
<1>2. \A p : p \in Places(u) <=> p = <<p[1], p[2]>> /\ p[1] \in 1..(n + 1) /\ p[2] \in u[p[1]] BY InPlaces
<1>3. \A p : p \in added <=> p = <<p[1], p[2]>> /\ p[1] = n + 1 /\ p[2] \in u[n + 1] OBVIOUS
<1>4. IsFiniteSet(added) /\ Cardinality(added) = Cardinality(u[n + 1])
  <2>1. IsFiniteSet({n + 1}) /\ Cardinality({n + 1}) = 1 BY FS_Singleton
  <2>2. Cardinality(u[n + 1]) \in Nat BY FS_CardinalityType
  <2>3. IsFiniteSet(added) /\ Cardinality(added) = Cardinality({n + 1}) * Cardinality(u[n + 1])
    BY <2>1, FS_Product
  <2> HIDE DEF added
  <2> QED BY <2>1, <2>2, <2>3
<1> HIDE DEF added
<1>5. IsFiniteSet(Places(s)) BY PlacesFinite
<1>6. Places(u) = Places(s) \cup added
  <2>1. \A k : k \in 1..(n + 1) <=> k \in 1..n \/ k = n + 1 OBVIOUS
  <2>2. ASSUME NEW p PROVE p \in Places(u) <=> p \in Places(s) \/ p \in added
    BY <1>1, <1>2, <1>3, <2>1
  <2> QED BY <2>2
<1>7. \A p \in Places(s) : ~(p \in added)
  <2> SUFFICES ASSUME NEW p \in Places(s) PROVE ~(p \in added) OBVIOUS
  <2>1. p[1] \in 1..n BY <1>1
  <2> QED BY <1>3, <2>1
<1> QED BY <1>4, <1>5, <1>6, <1>7, DisjointSum

\* A family whose last set has more members.
LEMMA PlacesGrown ==
    ASSUME NEW n \in Nat, NEW s, NEW u, NEW m \in Nat, DOMAIN s = 1..(n + 1), DOMAIN u = 1..(n + 1),
           \A k \in 1..n : u[k] = s[k] /\ IsFiniteSet(s[k]),
           IsFiniteSet(s[n + 1]), IsFiniteSet(u[n + 1]),
           Cardinality(u[n + 1]) = Cardinality(s[n + 1]) + m
    PROVE  Cardinality(Places(u)) = Cardinality(Places(s)) + m
<1> DEFINE before == [k \in 1..n |-> s[k]]
<1>1. DOMAIN before = 1..n /\ \A k \in 1..n : before[k] = s[k] OBVIOUS
<1> HIDE DEF before
<1>2. Cardinality(Places(s)) = Cardinality(Places(before)) + Cardinality(s[n + 1])
  BY <1>1, PlacesAppended
<1>3. Cardinality(Places(u)) = Cardinality(Places(before)) + Cardinality(u[n + 1])
  BY <1>1, PlacesAppended
<1>4. Cardinality(Places(before)) \in Nat
  <2>1. IsFiniteSet(Places(before)) BY <1>1, PlacesFinite
  <2> QED BY <2>1, FS_CardinalityType
<1>5. Cardinality(s[n + 1]) \in Nat BY FS_CardinalityType
<1> QED BY <1>2, <1>3, <1>4, <1>5

-----------------------------------------------------------------------------
(* An admitted document *)

\* A later declaration of an item has a greater occurrence.
LEMMA OccurrenceGrows ==
    ASSUME NEW raw, NEW j \in Nat, NEW k \in Nat, 0 < j, j < k,
           ItemOf(raw, raw.signatures[j]) = ItemOf(raw, raw.signatures[k])
    PROVE  /\ Occurrence(raw, j) \in Nat /\ Occurrence(raw, k) \in Nat
           /\ 0 < Occurrence(raw, j) /\ Occurrence(raw, j) < Occurrence(raw, k)
<1> DEFINE item(i) == ItemOf(raw, raw.signatures[i])
           upTo(n) == {i \in 1..n : item(i) = item(n)}
<1>1. Occurrence(raw, j) = Cardinality(upTo(j)) /\ Occurrence(raw, k) = Cardinality(upTo(k))
  BY DEF Occurrence
<1>2. item(j) = item(k) OBVIOUS
<1> HIDE DEF item
<1>3. IsFiniteSet(1..j) /\ IsFiniteSet(1..k) BY FS_Interval
<1>4. upTo(j) \subseteq upTo(k) /\ k \in upTo(k) /\ ~(k \in upTo(j)) /\ j \in upTo(j) BY <1>2
<1>5. upTo(j) \in SUBSET (1..j) /\ upTo(k) \in SUBSET (1..k) OBVIOUS
<1> HIDE DEF upTo
<1>6. IsFiniteSet(upTo(j)) /\ IsFiniteSet(upTo(k)) BY <1>3, <1>5, FS_Subset
<1>7. Cardinality(upTo(j)) \in Nat /\ Cardinality(upTo(k)) \in Nat BY <1>6, FS_CardinalityType
<1>8. Cardinality(upTo(j)) <= Cardinality(upTo(k))
      /\ Cardinality(upTo(j)) # Cardinality(upTo(k))
  <2>1. upTo(j) \in SUBSET upTo(k) BY <1>4
  <2> QED BY <1>4, <1>6, <2>1, FS_Subset
<1>9. Cardinality(upTo(j)) # 0 BY <1>4, <1>6, FS_EmptySet
<1> QED BY <1>1, <1>7, <1>8, <1>9

LEMMA OneIsSome == \A S : Cardinality(S) = 1 => S # {}
<1> SUFFICES ASSUME NEW S, Cardinality(S) = 1 PROVE ~(S = {}) OBVIOUS
<1>1. PICK n : n = Cardinality({}) OBVIOUS
<1>2. n = 0 BY <1>1, FS_EmptySet
<1>3. S = {} => n = 1 BY <1>1, Zenon
<1>4. 0 # 1 OBVIOUS
<1> QED BY <1>2, <1>3, <1>4, Zenon

\* A crate that is found is one of the document.
LEMMA CrateIsListed ==
    ASSUME NEW document, NEW raw, CrateOf(document, raw) # ""
    PROVE  CrateOf(document, raw) \in document.crates
<1>1. CASE raw.crate \in document.crates BY <1>1 DEF CrateOf
<1>2. CASE ~(raw.crate \in document.crates)
  <2>1. raw.crate = "" /\ Cardinality(document.crates) = 1 BY <1>2 DEF CrateOf
  <2>2. document.crates # {} BY <2>1, OneIsSome, Zenon
  <2>3. CrateOf(document, raw) = CHOOSE c \in document.crates : TRUE BY <1>2, <2>1 DEF CrateOf
  <2> QED BY <2>2, <2>3
<1> QED BY <1>1, <1>2

\* An element and then a sequence.
Prefixed(first, rest) == <<first>> \o rest
LEMMA PrefixedSequence ==
    ASSUME NEW first, NEW rest, IsSequence(rest)
    PROVE  /\ IsSequence(Prefixed(first, rest)) /\ Len(Prefixed(first, rest)) = 1 + Len(rest)
           /\ DOMAIN Prefixed(first, rest) = 1..(1 + Len(rest))
           /\ Prefixed(first, rest)[1] = first /\ Head(Prefixed(first, rest)) = first
           /\ \A i \in 1..Len(rest) : Prefixed(first, rest)[i + 1] = rest[i]
<1> DEFINE entries == Prefixed(first, rest)
           n == Len(rest)
<1>1. PICK S : <<first>> \in Seq(S) /\ rest \in Seq(S)
  <2> DEFINE S == {first} \cup ToSet(rest)
  <2>1. first \in S /\ ToSet(rest) \subseteq S OBVIOUS
  <2>2. rest \in Seq(ToSet(rest)) BY DEF IsSequence
  <2> HIDE DEF S
  <2>3. <<first>> \in Seq(S) BY <2>1
  <2>4. rest \in Seq(S) BY <2>1, <2>2
  <2> QED BY <2>3, <2>4
<1>2. n \in Nat /\ 1 + n \in Nat BY <1>1
<1> HIDE DEF n
<1>3. PICK one : one = <<first>> OBVIOUS
<1>4. Len(one) = 1 /\ one[1] = first /\ one \in Seq(S) BY <1>1, <1>3
<1>5. /\ entries \in Seq(S) /\ Len(entries) = 1 + n
      /\ \A i \in 1..(1 + n) : entries[i] = IF i <= 1 THEN one[i] ELSE rest[i - 1]
  <2>1. entries = one \o rest BY <1>3 DEF Prefixed
  <2>2. /\ one \o rest \in Seq(S) /\ Len(one \o rest) = Len(one) + Len(rest)
        /\ \A i \in 1..(Len(one) + Len(rest)) :
              (one \o rest)[i] = IF i <= Len(one) THEN one[i] ELSE rest[i - Len(one)]
    BY <1>1, <1>4, ConcatProperties
  <2> QED BY <1>4, <2>1, <2>2 DEF n
<1> HIDE DEF entries
<1>6. DOMAIN entries = 1..(1 + n) /\ IsSequence(entries)
  <2>1. entries = [i \in 1..(1 + n) |-> entries[i]] BY <1>2, <1>5
  <2> QED BY <1>2, <2>1, OwnMembers
<1>7. entries[1] = first
  <2>1. 1 \in 1..(1 + n) BY <1>2
  <2> QED BY <1>4, <1>5, <2>1
<1>8. \A i \in 1..n : entries[i + 1] = rest[i]
  <2> SUFFICES ASSUME NEW i \in 1..n PROVE entries[i + 1] = rest[i] OBVIOUS
  <2>1. i + 1 \in 1..(1 + n) /\ ~(i + 1 <= 1) /\ (i + 1) - 1 = i BY <1>2
  <2> QED BY <1>5, <2>1
<1>9. Head(entries) = entries[1] BY <1>2, <1>5
<1> QED BY <1>5, <1>6, <1>7, <1>8, <1>9 DEF entries, n

\* A decoded signature: its declaration, then its implementations.
Declared(raw, k) ==
    [id |-> Identified(ItemOf(raw, raw.signatures[k]), Occurrence(raw, k)),
     shape |-> <<0, raw.signatures[k].members>>]
Implementing(raw, k) == Blocks(ItemOf(raw, raw.signatures[k]), raw.signatures[k].blocks)

LEMMA DecodedEntries ==
    ASSUME NEW raw, NEW k, IsSequence(raw.signatures[k].blocks)
    PROVE  LET n == Len(raw.signatures[k].blocks)
               entries == Decoded(raw, k).entries
           IN  /\ n \in Nat /\ IsSequence(entries) /\ Len(entries) = 1 + n /\ DOMAIN entries = 1..(1 + n)
               /\ entries[1] = Declared(raw, k) /\ Head(entries) = Declared(raw, k)
               /\ \A i \in 1..n : entries[i + 1] = Implementing(raw, k)[i]
<1> DEFINE blocks == raw.signatures[k].blocks
           n == Len(blocks)
           first == Declared(raw, k)
           rest == Implementing(raw, k)
<1>1. n \in Nat /\ DOMAIN blocks = 1..n BY Sequenced
<1>2. rest = [i \in 1..n |-> rest[i]] BY <1>1 DEF Blocks, Implementing
<1>3. Decoded(raw, k).entries = Prefixed(first, rest) BY DEF Decoded, Prefixed, Declared, Implementing
<1> HIDE DEF first, rest, n
<1>5. IsSequence(rest) /\ Len(rest) = n BY <1>1, <1>2, OwnMembers
<1>4. /\ IsSequence(Prefixed(first, rest)) /\ Len(Prefixed(first, rest)) = 1 + n
      /\ DOMAIN Prefixed(first, rest) = 1..(1 + n)
      /\ Prefixed(first, rest)[1] = first /\ Head(Prefixed(first, rest)) = first
      /\ \A i \in 1..n : Prefixed(first, rest)[i + 1] = rest[i]
  BY <1>5, PrefixedSequence
<1> QED BY <1>1, <1>3, <1>4 DEF n, first, rest

LEMMA DecodedFields ==
    ASSUME NEW raw, NEW k
    PROVE  LET s == raw.signatures[k]
               signature == Decoded(raw, k)
           IN  /\ signature.label = s.label /\ signature.file = s.file /\ signature.sketch = s.sketch
               /\ signature.crate = CrateOf(raw, s)
BY DEF Decoded, ItemOf

LEMMA DecodedIds ==
    ASSUME NEW raw, NEW k, IsSequence(raw.signatures[k].blocks)
    PROVE  /\ Primary(Decoded(raw, k)) =
                  Identified(ItemOf(raw, raw.signatures[k]), Occurrence(raw, k))
           /\ Decoded(raw, k).entries[1].id =
                  Identified(ItemOf(raw, raw.signatures[k]), Occurrence(raw, k))
           /\ \A i \in 1..Len(raw.signatures[k].blocks) :
                 Decoded(raw, k).entries[i + 1].id =
                     Identified(ImplItem(ItemOf(raw, raw.signatures[k])), i)
<1> DEFINE blocks == raw.signatures[k].blocks
           item == ItemOf(raw, raw.signatures[k])
<1>1. DOMAIN blocks = 1..Len(blocks) BY Sequenced
<1>2. Declared(raw, k).id = Identified(item, Occurrence(raw, k)) BY DEF Declared
<1>3. \A i \in 1..Len(blocks) : Implementing(raw, k)[i].id = Identified(ImplItem(item), i)
  BY <1>1 DEF Implementing, Blocks
<1>4. /\ Decoded(raw, k).entries[1] = Declared(raw, k)
      /\ Head(Decoded(raw, k).entries) = Declared(raw, k)
      /\ \A i \in 1..Len(blocks) : Decoded(raw, k).entries[i + 1] = Implementing(raw, k)[i]
  BY DecodedEntries
<1> QED BY <1>2, <1>3, <1>4 DEF Primary

\* A document without errors has no two entries with one identity.
LEMMA IdsDiffer ==
    ASSUME NEW raw, NEW at, IsStated(raw),
           \A k \in DOMAIN raw.signatures : DecodeError(raw, k) = "none"
    PROVE  IsInjective(IdsOf(Document(at, raw)))
<1> DEFINE signatures == raw.signatures
           document == Document(at, raw)
           item(k) == ItemOf(raw, signatures[k])
           ids == IdsOf(document)
<1>1. /\ Len(signatures) \in Nat /\ DOMAIN signatures = 1..Len(signatures)
      /\ \A k \in DOMAIN signatures :
            /\ signatures[k].kind # "impl" /\ IsSequence(signatures[k].blocks)
            /\ Len(signatures[k].blocks) \in Nat
            /\ (signatures[k].blocks = <<>> <=> Len(signatures[k].blocks) = 0)
  <2>1. IsSequence(signatures) BY DEF IsStated
  <2>2. \A s \in ToSet(signatures) : s.kind # "impl" /\ IsSequence(s.blocks) BY DEF IsStated
  <2>3. /\ Len(signatures) \in Nat /\ DOMAIN signatures = 1..Len(signatures)
        /\ \A k \in DOMAIN signatures : signatures[k] \in ToSet(signatures) BY <2>1, Sequenced
  <2>4. ASSUME NEW k \in DOMAIN signatures
        PROVE  /\ Len(signatures[k].blocks) \in Nat
               /\ (signatures[k].blocks = <<>> <=> Len(signatures[k].blocks) = 0)
    <3>1. IsSequence(signatures[k].blocks) BY <2>2, <2>3
    <3> QED BY <3>1 DEF IsSequence
  <2> QED BY <2>2, <2>3, <2>4
<1>2. document.signatures = [k \in DOMAIN signatures |-> Decoded(raw, k)] BY DEF Document
<1>3. \A k \in DOMAIN signatures :
         /\ DOMAIN Decoded(raw, k).entries = 1..(1 + Len(signatures[k].blocks))
         /\ Decoded(raw, k).entries[1].id = Identified(item(k), Occurrence(raw, k))
         /\ \A i \in 1..Len(signatures[k].blocks) :
               Decoded(raw, k).entries[i + 1].id = Identified(ImplItem(item(k)), i)
  <2> SUFFICES ASSUME NEW k \in DOMAIN signatures
               PROVE  /\ DOMAIN Decoded(raw, k).entries = 1..(1 + Len(signatures[k].blocks))
                      /\ Decoded(raw, k).entries[1].id = Identified(item(k), Occurrence(raw, k))
                      /\ \A i \in 1..Len(signatures[k].blocks) :
                            Decoded(raw, k).entries[i + 1].id = Identified(ImplItem(item(k)), i)
    OBVIOUS
  <2>1. IsSequence(raw.signatures[k].blocks) BY <1>1
  <2>2. DOMAIN Decoded(raw, k).entries = 1..(1 + Len(signatures[k].blocks))
    BY <2>1, DecodedEntries
  <2>3. Decoded(raw, k).entries[1].id = Identified(item(k), Occurrence(raw, k))
    BY <2>1, DecodedIds
  <2>4. \A i \in 1..Len(signatures[k].blocks) :
           Decoded(raw, k).entries[i + 1].id = Identified(ImplItem(item(k)), i)
    BY <2>1, DecodedIds
  <2> QED BY <2>2, <2>3, <2>4
<1>4. \A k \in DOMAIN signatures :
         /\ item(k).kind = signatures[k].kind /\ ImplItem(item(k)).kind = "impl"
         /\ ImplItem(item(k)).crate = item(k).crate /\ ImplItem(item(k)).path = item(k).path
         /\ ImplItem(item(k)).name = item(k).name
         /\ item(k) = [crate |-> item(k).crate, path |-> item(k).path,
                       kind |-> item(k).kind, name |-> item(k).name]
  BY DEF ItemOf, ImplItem
<1>5. ASSUME NEW k \in DOMAIN signatures
      PROVE  /\ signatures[k].blocks # <<>> => signatures[k].kind = "type"
             /\ Occurrence(raw, k) > 1 => signatures[k].kind \in {"macro", "impl"}
  <2>1. DecodeError(raw, k) = "none" OBVIOUS
  <2>2. signatures[k].blocks # <<>> => signatures[k].kind \in Owns BY <2>1, Zenon DEF DecodeError
  <2>3. Occurrence(raw, k) > 1 => signatures[k].kind \in Repeats BY <2>1, Zenon DEF DecodeError
  <2> QED BY <2>2, <2>3 DEF Owns, Repeats
<1>6. ASSUME NEW j \in DOMAIN signatures, NEW k \in DOMAIN signatures, item(j) = item(k),
             Occurrence(raw, j) = Occurrence(raw, k) \/ signatures[k].kind = "type", j < k
      PROVE  FALSE
  <2>1. j \in Nat /\ k \in Nat /\ 0 < j BY <1>1
  <2>2. /\ Occurrence(raw, j) \in Nat /\ Occurrence(raw, k) \in Nat
        /\ 0 < Occurrence(raw, j) /\ Occurrence(raw, j) < Occurrence(raw, k)
    BY <1>6, <2>1, OccurrenceGrows
  <2>3. signatures[k].kind # "type" BY <1>5, <2>2
  <2> QED BY <1>6, <2>2, <2>3
<1>7. \A p \in DOMAIN ids :
         /\ p = <<p[1], p[2]>> /\ p[1] \in DOMAIN signatures
         /\ p[2] \in 1..(1 + Len(signatures[p[1]].blocks))
         /\ ids[p] = Decoded(raw, p[1]).entries[p[2]].id
  <2> DEFINE at1 == [k \in DOMAIN document.signatures |-> DOMAIN document.signatures[k].entries]
  <2>1. DOMAIN ids = Places(at1) BY DEF IdsOf
  <2>2. DOMAIN at1 = DOMAIN signatures BY <1>2
  <2>3. \A k \in DOMAIN signatures : document.signatures[k] = Decoded(raw, k) BY <1>2
  <2>4. \A k \in DOMAIN signatures : at1[k] = 1..(1 + Len(signatures[k].blocks))
    BY <1>2, <1>3, <2>3
  <2>5. \A p \in DOMAIN ids : ids[p] = document.signatures[p[1]].entries[p[2]].id BY DEF IdsOf
  <2> HIDE DEF at1, ids, document, signatures
  <2>6. \A p \in Places(at1) : p = <<p[1], p[2]>> /\ p[1] \in DOMAIN at1 /\ p[2] \in at1[p[1]]
    BY InPlaces
  <2> QED BY <2>1, <2>2, <2>3, <2>4, <2>5, <2>6
<1> HIDE DEF ids, document, item
<1>8. ASSUME NEW p \in DOMAIN ids, NEW q \in DOMAIN ids, ids[p] = ids[q] PROVE p = q
  <2> DEFINE j == p[1]
             k == q[1]
  <2>1. /\ j \in DOMAIN signatures /\ k \in DOMAIN signatures /\ j \in Int /\ k \in Int
        /\ p[2] \in 1..(1 + Len(signatures[j].blocks)) /\ q[2] \in 1..(1 + Len(signatures[k].blocks))
        /\ p = <<j, p[2]>> /\ q = <<k, q[2]>>
    BY <1>1, <1>7
  <2>2. Len(signatures[j].blocks) \in Nat /\ Len(signatures[k].blocks) \in Nat BY <1>1, <2>1
  <2>3. Decoded(raw, j).entries[p[2]].id = Decoded(raw, k).entries[q[2]].id BY <1>7, <1>8
  <2> HIDE DEF j, k
  <2>4. CASE p[2] = 1 /\ q[2] = 1
    <3>1. Identified(item(j), Occurrence(raw, j)) = Identified(item(k), Occurrence(raw, k))
      BY <1>3, <2>1, <2>3, <2>4
    <3>2. item(j) = item(k) /\ Occurrence(raw, j) = Occurrence(raw, k) BY <3>1 DEF Identified
    <3>3. ~(j < k) /\ ~(k < j) BY <1>6, <2>1, <3>2
    <3> QED BY <2>1, <2>4, <3>3
  <2>5. CASE p[2] = 1 /\ q[2] # 1
    <3>1. q[2] - 1 \in 1..Len(signatures[k].blocks) /\ (q[2] - 1) + 1 = q[2] BY <2>1, <2>2, <2>5
    <3>2. Identified(item(j), Occurrence(raw, j)) = Identified(ImplItem(item(k)), q[2] - 1)
      BY <1>3, <2>1, <2>3, <2>5, <3>1
    <3>3. item(j) = ImplItem(item(k)) BY <3>2 DEF Identified
    <3> QED BY <1>1, <1>4, <2>1, <3>3
  <2>6. CASE p[2] # 1 /\ q[2] = 1
    <3>1. p[2] - 1 \in 1..Len(signatures[j].blocks) /\ (p[2] - 1) + 1 = p[2] BY <2>1, <2>2, <2>6
    <3>2. Identified(ImplItem(item(j)), p[2] - 1) = Identified(item(k), Occurrence(raw, k))
      BY <1>3, <2>1, <2>3, <2>6, <3>1
    <3>3. ImplItem(item(j)) = item(k) BY <3>2 DEF Identified
    <3> QED BY <1>1, <1>4, <2>1, <3>3
  <2>7. CASE p[2] # 1 /\ q[2] # 1
    <3>a. p[2] - 1 \in 1..Len(signatures[j].blocks) /\ (p[2] - 1) + 1 = p[2] BY <2>1, <2>2, <2>7
    <3>b. q[2] - 1 \in 1..Len(signatures[k].blocks) /\ (q[2] - 1) + 1 = q[2] BY <2>1, <2>2, <2>7
    <3>1. /\ p[2] - 1 \in 1..Len(signatures[j].blocks) /\ (p[2] - 1) + 1 = p[2]
          /\ q[2] - 1 \in 1..Len(signatures[k].blocks) /\ (q[2] - 1) + 1 = q[2]
      BY <3>a, <3>b
    <3>2. Identified(ImplItem(item(j)), p[2] - 1) = Identified(ImplItem(item(k)), q[2] - 1)
      <4>1. Decoded(raw, j).entries[p[2]].id = Identified(ImplItem(item(j)), p[2] - 1)
        BY <1>3, <2>1, <3>1
      <4>2. Decoded(raw, k).entries[q[2]].id = Identified(ImplItem(item(k)), q[2] - 1)
        BY <1>3, <2>1, <3>1
      <4> QED BY <2>3, <4>1, <4>2
    <3>3. ImplItem(item(j)) = ImplItem(item(k)) /\ p[2] - 1 = q[2] - 1 BY <3>2 DEF Identified
    <3>4. signatures[j].blocks # <<>> /\ signatures[k].blocks # <<>>
      <4>1. Len(signatures[j].blocks) # 0 /\ Len(signatures[k].blocks) # 0 BY <2>1, <2>2, <3>1
      <4> QED BY <1>1, <2>1, <4>1
    <3>5. signatures[j].kind = "type" /\ signatures[k].kind = "type" BY <1>5, <2>1, <3>4
    <3>6. item(j) = item(k)
      <4>1. /\ item(j).kind = item(k).kind /\ item(j).crate = item(k).crate
            /\ item(j).path = item(k).path /\ item(j).name = item(k).name BY <1>4, <2>1, <3>3, <3>5
      <4> QED BY <1>4, <2>1, <4>1
    <3>7. ~(j < k) /\ ~(k < j) BY <1>6, <2>1, <3>5, <3>6
    <3>8. p[2] = q[2] BY <2>1, <2>2, <3>3
    <3> QED BY <2>1, <3>7, <3>8
  <2> QED BY <2>4, <2>5, <2>6, <2>7
<1> QED BY <1>8 DEF IsInjective, ids, document

\* A document without errors is consistent, whatever it says.
LEMMA DocumentAdmitted ==
    ASSUME NEW raw, NEW at, IsStated(raw), DocumentError(raw) = "none"
    PROVE  Consistent(Document(at, raw))
<1> DEFINE signatures == raw.signatures
           sketches == raw.sketches
           document == Document(at, raw)
<1>1. /\ \A k \in DOMAIN signatures : DecodeError(raw, k) = "none" /\ SignatureError(raw, k) = "none"
      /\ IsInjective([i \in DOMAIN sketches |-> sketches[i].id])
      /\ \A i \in DOMAIN sketches : SketchError(raw, sketches[i]) = "none"
  BY NoError
<1>2. IsSequence(signatures) /\ IsSequence(sketches) BY DEF IsStated
<1>3. /\ Len(signatures) \in Nat /\ DOMAIN signatures = 1..Len(signatures)
      /\ \A k \in DOMAIN signatures : signatures[k] \in ToSet(signatures)
      /\ \A s \in ToSet(signatures) : \E k \in DOMAIN signatures : signatures[k] = s
  BY <1>2, Sequenced
<1>4. /\ \A i \in DOMAIN sketches : sketches[i] \in ToSet(sketches) /\ sketches[i].id # ""
      /\ \A s \in ToSet(sketches) : \E i \in DOMAIN sketches : sketches[i] = s
  <2>1. \A s \in ToSet(sketches) : s.id # "" BY DEF IsStated
  <2>2. /\ \A i \in DOMAIN sketches : sketches[i] \in ToSet(sketches)
        /\ \A s \in ToSet(sketches) : \E i \in DOMAIN sketches : sketches[i] = s
    BY <1>2, Sequenced
  <2> QED BY <2>1, <2>2
<1>5. /\ document.signatures = [k \in DOMAIN signatures |-> Decoded(raw, k)]
      /\ document.sketches = sketches /\ document.files = raw.files /\ document.crates = raw.crates
  BY DEF Document
<1>6. \A k \in DOMAIN signatures :
         LET entries == Decoded(raw, k).entries IN
         /\ Decoded(raw, k).label = signatures[k].label /\ Decoded(raw, k).file = signatures[k].file
         /\ Decoded(raw, k).sketch = signatures[k].sketch
         /\ Decoded(raw, k).crate = CrateOf(raw, signatures[k])
         /\ Primary(Decoded(raw, k)).item = ItemOf(raw, signatures[k])
         /\ \A i \in 2..Len(entries) : entries[i].id.item = ImplItem(ItemOf(raw, signatures[k]))
  <2> SUFFICES ASSUME NEW k \in DOMAIN signatures
               PROVE  LET entries == Decoded(raw, k).entries IN
                      /\ Decoded(raw, k).label = signatures[k].label
                      /\ Decoded(raw, k).file = signatures[k].file
                      /\ Decoded(raw, k).sketch = signatures[k].sketch
                      /\ Decoded(raw, k).crate = CrateOf(raw, signatures[k])
                      /\ Primary(Decoded(raw, k)).item = ItemOf(raw, signatures[k])
                      /\ \A i \in 2..Len(entries) : entries[i].id.item = ImplItem(ItemOf(raw, signatures[k]))
    OBVIOUS
  <2>1. IsSequence(raw.signatures[k].blocks) BY <1>3 DEF IsStated
  <2> DEFINE s == raw.signatures[k]
             entries == Decoded(raw, k).entries
  <2>a. /\ Decoded(raw, k).label = s.label /\ Decoded(raw, k).file = s.file
        /\ Decoded(raw, k).sketch = s.sketch /\ Decoded(raw, k).crate = CrateOf(raw, s)
    BY DecodedFields
  <2>b. Len(s.blocks) \in Nat /\ Len(entries) = 1 + Len(s.blocks) BY <2>1, DecodedEntries
  <2>c. Primary(Decoded(raw, k)) = Identified(ItemOf(raw, s), Occurrence(raw, k))
    BY <2>1, DecodedIds
  <2>2. /\ Decoded(raw, k).label = s.label /\ Decoded(raw, k).file = s.file
        /\ Decoded(raw, k).sketch = s.sketch /\ Decoded(raw, k).crate = CrateOf(raw, s)
        /\ Primary(Decoded(raw, k)) = Identified(ItemOf(raw, s), Occurrence(raw, k))
    BY <2>a, <2>c
  <2>4. \A i \in 1..Len(s.blocks) : entries[i + 1].id = Identified(ImplItem(ItemOf(raw, s)), i)
    BY <2>1, DecodedIds
  <2>5. ASSUME NEW i \in 2..Len(entries) PROVE entries[i].id.item = ImplItem(ItemOf(raw, s))
    <3>1. i - 1 \in 1..Len(s.blocks) /\ (i - 1) + 1 = i BY <2>b
    <3>2. entries[i].id = Identified(ImplItem(ItemOf(raw, s)), i - 1) BY <2>4, <3>1
    <3> QED BY <3>2 DEF Identified
  <2>6. Primary(Decoded(raw, k)).item = ItemOf(raw, s) BY <2>2 DEF Identified
  <2> HIDE DEF entries
  <2> QED BY <2>2, <2>5, <2>6 DEF entries
<1>7. \A k \in DOMAIN signatures : ItemOf(raw, signatures[k]).kind = signatures[k].kind BY DEF ItemOf
<1>8. ASSUME NEW k \in DOMAIN signatures
      PROVE  /\ CrateOf(raw, signatures[k]) \in raw.crates
             /\ \A j \in 1..(k - 1) : signatures[j].label # signatures[k].label
             /\ signatures[k].file \in raw.files
             /\ signatures[k].sketch # "" =>
                   \E s \in ToSet(sketches) : s.id = signatures[k].sketch
             /\ \A s \in ToSet(sketches) : s.id = signatures[k].sketch =>
                   s.file = signatures[k].file /\ s.signature = signatures[k].label
                   /\ s.kind = signatures[k].kind
  <2>1. DecodeError(raw, k) = "none" /\ SignatureError(raw, k) = "none" BY <1>1
  <2>2. CrateOf(raw, signatures[k]) # "" BY <2>1, Zenon DEF DecodeError
  <2>3. CrateOf(raw, signatures[k]) \in raw.crates BY <2>2, CrateIsListed
  <2> DEFINE linked == {s \in ToSet(sketches) : s.id = signatures[k].sketch}
  <2>4. /\ ~ \E j \in 1..(k - 1) : signatures[j].label = signatures[k].label
        /\ signatures[k].file \in raw.files
        /\ signatures[k].sketch # "" => linked # {}
        /\ ~ \E s \in linked : \/ s.file # signatures[k].file
                               \/ s.signature # signatures[k].label
                               \/ s.kind # signatures[k].kind
    BY <2>1, Zenon DEF SignatureError
  <2> QED BY <2>3, <2>4
<1>9. IsInjective(IdsOf(document)) BY <1>1, IdsDiffer
<1>10. ASSUME NEW j \in DOMAIN signatures, NEW k \in DOMAIN signatures,
              signatures[j].label = signatures[k].label
       PROVE  j = k
  <2>1. ~(j \in 1..(k - 1)) /\ ~(k \in 1..(j - 1)) BY <1>8, <1>10
  <2> QED BY <1>3, <2>1
<1>11. IsInjective([k \in DOMAIN document.signatures |-> document.signatures[k].label])
  BY <1>5, <1>6, <1>10 DEF IsInjective
<1>12. \A s \in ToSet(document.signatures) : s.file \in document.files /\ s.crate \in document.crates
  <2>1. ToSet(document.signatures) = {Decoded(raw, k) : k \in DOMAIN signatures} BY <1>5 DEF ToSet
  <2>2. ASSUME NEW k \in DOMAIN signatures
        PROVE  Decoded(raw, k).file \in raw.files /\ Decoded(raw, k).crate \in raw.crates
    BY <1>6, <1>8
  <2> QED BY <1>5, <2>1, <2>2
<1>13. \A i, j \in DOMAIN sketches : sketches[i].id = sketches[j].id => i = j
  BY <1>1 DEF IsInjective
<1> DEFINE Match(k, i) == Agree(document.signatures[k], document.sketches[i])
<1>14. \A k \in DOMAIN signatures : \A i \in DOMAIN sketches :
          Match(k, i) <=> /\ signatures[k].sketch = sketches[i].id
                          /\ signatures[k].label = sketches[i].signature
                          /\ signatures[k].file = sketches[i].file
                          /\ signatures[k].kind = sketches[i].kind
  BY <1>5, <1>6, <1>7 DEF Agree
<1>15. ASSUME NEW k \in DOMAIN signatures, signatures[k].sketch # ""
       PROVE  Cardinality({i \in DOMAIN sketches : Match(k, i)}) = 1
  <2>a. PICK s \in ToSet(sketches) : s.id = signatures[k].sketch BY <1>8, <1>15
  <2>1. PICK i \in DOMAIN sketches : sketches[i].id = signatures[k].sketch BY <1>4, <2>a
  <2>b. sketches[i] \in ToSet(sketches) BY <1>4
  <2>c. sketches[i].file = signatures[k].file /\ sketches[i].signature = signatures[k].label
        /\ sketches[i].kind = signatures[k].kind BY <1>8, <2>1, <2>b
  <2>2. Match(k, i)
    <3> HIDE DEF Match
    <3> QED BY <1>14, <2>1, <2>c
  <2>3. \A j \in DOMAIN sketches : Match(k, j) => j = i BY <1>13, <1>14, <2>1
  <2> HIDE DEF Match
  <2>4. {j \in DOMAIN sketches : Match(k, j)} = {i} BY <2>2, <2>3
  <2> QED BY <2>4, FS_Singleton
<1>16. ASSUME NEW i \in DOMAIN sketches
       PROVE  Cardinality({k \in DOMAIN signatures : Match(k, i)}) = 1
  <2>1. \E s \in ToSet(signatures) : s.sketch = sketches[i].id
    <3>1. SketchError(raw, sketches[i]) = "none" BY <1>1
    <3> QED BY <3>1, Zenon DEF SketchError
  <2>2. PICK k \in DOMAIN signatures : signatures[k].sketch = sketches[i].id BY <1>3, <2>1
  <2>a. sketches[i] \in ToSet(sketches) BY <1>4
  <2>b. sketches[i].file = signatures[k].file /\ sketches[i].signature = signatures[k].label
        /\ sketches[i].kind = signatures[k].kind BY <1>8, <2>2, <2>a
  <2>3. Match(k, i)
    <3> HIDE DEF Match
    <3> QED BY <1>14, <2>2, <2>b
  <2>4. \A j \in DOMAIN signatures : Match(j, i) => j = k BY <1>10, <1>14, <2>2, <2>3
  <2> HIDE DEF Match
  <2>5. {j \in DOMAIN signatures : Match(j, i)} = {k} BY <2>3, <2>4
  <2> QED BY <2>5, FS_Singleton
<1>17. LinksPair(document)
  <2>1. DOMAIN document.signatures = DOMAIN signatures /\ DOMAIN document.sketches = DOMAIN sketches BY <1>5
  <2>2. \A k \in DOMAIN document.signatures : document.signatures[k].sketch # "" =>
           Cardinality({i \in DOMAIN document.sketches : Match(k, i)}) = 1
    BY <1>5, <1>6, <1>15, <2>1
  <2>3. \A i \in DOMAIN document.sketches :
           Cardinality({k \in DOMAIN document.signatures : Match(k, i)}) = 1
    BY <1>16, <2>1
  <2> HIDE DEF document
  <2> QED BY <2>2, <2>3 DEF LinksPair
<1>18. OwnersAreHere(document) BY <1>5, <1>6 DEF OwnersAreHere
<1> HIDE DEF document
<1> QED BY <1>9, <1>11, <1>12, <1>17, <1>18 DEF Consistent, document

-----------------------------------------------------------------------------
(* Counting documents *)

\* Blocks with different descriptors have every place.
LEMMA EveryPlace ==
    ASSUME NEW blocks, IsSequence(blocks), \A i \in DOMAIN blocks : blocks[i].descriptor \in Int,
           IsInjective([i \in DOMAIN blocks |-> blocks[i].descriptor])
    PROVE  \A k \in DOMAIN blocks : \E i \in DOMAIN blocks : Place(blocks, i) = k
<1> DEFINE n == Len(blocks)
           d(i) == blocks[i].descriptor
           upTo(i) == {j \in 1..n : d(j) <= d(i)}
           place == [i \in 1..n |-> Cardinality(upTo(i))]
<1>1. n \in Nat /\ DOMAIN blocks = 1..n BY Sequenced
<1>2. \A i \in 1..n : Place(blocks, i) = Cardinality(upTo(i)) BY <1>1 DEF Place
<1>3. \A i \in 1..n : d(i) \in Int BY <1>1
<1>4. \A i, j \in 1..n : d(i) = d(j) => i = j BY <1>1 DEF IsInjective
<1>5. IsFiniteSet(1..n) /\ Cardinality(1..n) = n BY <1>1, Intervals
<1> HIDE DEF d, n
<1>6. ASSUME NEW i \in 1..n
      PROVE  IsFiniteSet(upTo(i)) /\ Cardinality(upTo(i)) \in 1..n
  <2>1. upTo(i) \in SUBSET (1..n) /\ i \in upTo(i) BY <1>3
  <2> HIDE DEF upTo
  <2>2. IsFiniteSet(upTo(i)) /\ Cardinality(upTo(i)) <= n BY <1>5, <2>1, FS_Subset
  <2>3. Cardinality(upTo(i)) \in Nat /\ Cardinality(upTo(i)) # 0
    BY <2>1, <2>2, FS_CardinalityType, FS_EmptySet
  <2> QED BY <1>1, <2>2, <2>3
<1>7. ASSUME NEW i \in 1..n, NEW j \in 1..n, d(i) < d(j)
      PROVE  Cardinality(upTo(i)) # Cardinality(upTo(j))
  <2>1. upTo(i) \in SUBSET upTo(j) /\ j \in upTo(j) /\ ~(j \in upTo(i)) BY <1>3, <1>7
  <2> HIDE DEF upTo
  <2> QED BY <1>6, <2>1, FS_Subset
<1>8. ASSUME NEW i \in 1..n, NEW j \in 1..n, Cardinality(upTo(i)) = Cardinality(upTo(j))
      PROVE  i = j
  <2> HIDE DEF upTo
  <2>1. ~(d(i) < d(j)) /\ ~(d(j) < d(i)) BY <1>7, <1>8
  <2> QED BY <1>3, <1>4, <2>1
<1>9. place \in Surjection(1..n, 1..n)
  <2>1. place \in [1..n -> 1..n] BY <1>6
  <2>2. IsInjective(place) BY <1>8 DEF IsInjective
  <2> HIDE DEF place
  <2>3. place \in Injection(1..n, 1..n) BY <2>1, <2>2 DEF Injection
  <2> QED BY <1>5, <2>3, FS_Injection
<1>10. \A k \in 1..n : \E i \in 1..n : place[i] = k
  <2> HIDE DEF place
  <2> QED BY <1>9 DEF Surjection
<1> QED BY <1>1, <1>2, <1>10 DEF n

\* The items of one document.
ItemsIn(document) ==
    LET of(s) == Places([i \in DOMAIN s.entries |-> 0..Len(s.entries[i].shape[2])])
    IN  Places([k \in DOMAIN document.signatures |-> of(document.signatures[k])])
Countable(document) ==
    IsFiniteSet(DOMAIN document.signatures) /\ IsFiniteSet(ItemsIn(document))

LEMMA DocumentCountable ==
    ASSUME NEW raw, NEW at, IsStated(raw), DocumentError(raw) = "none"
    PROVE  Countable(Document(at, raw))
<1> DEFINE signatures == raw.signatures
           document == Document(at, raw)
           of(s) == Places([i \in DOMAIN s.entries |-> 0..Len(s.entries[i].shape[2])])
           sets == [k \in DOMAIN document.signatures |-> of(document.signatures[k])]
<1>1. PICK n \in Nat : DOMAIN signatures = 1..n
  <2>1. IsSequence(signatures) BY DEF IsStated
  <2> QED BY <2>1, Sequenced
<1>2. document.signatures = [k \in 1..n |-> Decoded(raw, k)] BY <1>1 DEF Document
<1>3. IsFiniteSet(1..n) BY FS_Interval
<1>4. ASSUME NEW k \in 1..n PROVE IsFiniteSet(of(Decoded(raw, k)))
  <2> DEFINE s == signatures[k]
             m == Len(s.blocks)
             entries == Decoded(raw, k).entries
             lengths == [i \in DOMAIN entries |-> 0..Len(entries[i].shape[2])]
  <2>1. /\ IsSequence(s.members) /\ IsSequence(s.blocks)
        /\ \A b \in ToSet(s.blocks) : b.descriptor \in Int /\ IsSequence(b.members)
    <3>1. IsSequence(signatures) BY DEF IsStated
    <3>2. s \in ToSet(signatures) BY <1>1, <3>1, Sequenced
    <3> QED BY <3>2 DEF IsStated
  <2>2. /\ m \in Nat /\ DOMAIN s.blocks = 1..m
        /\ \A i \in 1..m : s.blocks[i].descriptor \in Int /\ Len(s.blocks[i].members) \in Nat
    <3>1. /\ m \in Nat /\ DOMAIN s.blocks = 1..m
          /\ \A i \in DOMAIN s.blocks : s.blocks[i] \in ToSet(s.blocks) BY <2>1, Sequenced
    <3>2. \A b \in ToSet(s.blocks) : b.descriptor \in Int /\ Len(b.members) \in Nat
      BY <2>1, Sequenced
    <3> QED BY <3>1, <3>2
  <2>3. Len(s.members) \in Nat BY <2>1, Sequenced
  <2>4. IsInjective([i \in DOMAIN s.blocks |-> s.blocks[i].descriptor])
    <3>1. DecodeError(raw, k) = "none" BY <1>1, NoError
    <3> QED BY <3>1, Zenon DEF DecodeError
  <2>5. ASSUME NEW i \in 1..m PROVE Len(Implementing(raw, k)[i].shape[2]) \in Nat
    <3> DEFINE j == CHOOSE j \in DOMAIN s.blocks : Place(s.blocks, j) = i
    <3>1. \E j1 \in DOMAIN s.blocks : Place(s.blocks, j1) = i BY <2>1, <2>2, <2>4, EveryPlace
    <3>2. j \in DOMAIN s.blocks BY <3>1
    <3>3. Implementing(raw, k)[i].shape = <<s.blocks[j].descriptor, s.blocks[j].members>>
      BY <2>2 DEF Implementing, Blocks
    <3> HIDE DEF j
    <3> QED BY <2>2, <3>2, <3>3
  <2>6. Declared(raw, k).shape = <<0, s.members>> BY DEF Declared
  <2>7. DOMAIN entries = 1..(1 + m) /\ entries[1] = Declared(raw, k) BY <2>1, DecodedEntries
  <2>8. \A i \in 1..m : entries[i + 1] = Implementing(raw, k)[i] BY <2>1, DecodedEntries
  <2> HIDE DEF entries, m, s
  <2>9. ASSUME NEW i \in 1..(1 + m) PROVE Len(entries[i].shape[2]) \in Nat
    <3>1. CASE i = 1 BY <2>3, <2>6, <2>7, <3>1
    <3>2. CASE i # 1
      <4>1. PICK j \in Int : j = i - 1 OBVIOUS
      <4>2. j \in 1..m /\ i = j + 1 BY <2>2, <3>2, <4>1
      <4> QED BY <2>5, <2>8, <4>2
    <3> QED BY <3>1, <3>2
  <2>10. \A i \in 1..(1 + m) : IsFiniteSet(lengths[i])
    <3> SUFFICES ASSUME NEW i \in 1..(1 + m) PROVE IsFiniteSet(0..Len(entries[i].shape[2]))
      BY <2>7
    <3>1. PICK n1 \in Nat : n1 = Len(entries[i].shape[2]) BY <2>9
    <3>2. IsFiniteSet(0..n1) BY Intervals
    <3> QED BY <3>1, <3>2
  <2>11. DOMAIN lengths = 1..(1 + m) BY <2>7
  <2>12. 1 + m \in Nat BY <2>2
  <2> HIDE DEF lengths
  <2>13. IsFiniteSet(Places(lengths)) BY <2>10, <2>11, <2>12, PlacesFinite
  <2> QED BY <2>13 DEF lengths, entries
<1>5. DOMAIN sets = 1..n /\ \A k \in 1..n : sets[k] = of(Decoded(raw, k)) BY <1>2
<1>6. ItemsIn(document) = Places(sets) BY DEF ItemsIn
<1>7. DOMAIN document.signatures = 1..n BY <1>2
<1> HIDE DEF sets, document, of
<1>8. IsFiniteSet(Places(sets)) BY <1>4, <1>5, PlacesFinite
<1> QED BY <1>3, <1>6, <1>7, <1>8 DEF Countable, document

LEMMA CountedTogether ==
    ASSUME NEW a, IsSequence(a), NEW b, IsSequence(b),
           \A d \in ToSet(a) : Countable(d), \A d \in ToSet(b) : Countable(d)
    PROVE  /\ IsSequence(a \o b) /\ ToSet(a \o b) = ToSet(a) \cup ToSet(b)
           /\ IsFiniteSet(SignaturesOf(a)) /\ IsFiniteSet(ItemsOf(a))
           /\ Cardinality(SignaturesOf(a \o b)) =
                  Cardinality(SignaturesOf(a)) + Cardinality(SignaturesOf(b))
           /\ Cardinality(ItemsOf(a \o b)) = Cardinality(ItemsOf(a)) + Cardinality(ItemsOf(b))
<1> DEFINE n == Len(a)
           m == Len(b)
           S == ToSet(a) \cup ToSet(b)
           signatures(x) == [d \in DOMAIN x |-> DOMAIN x[d].signatures]
           items(x) == [d \in DOMAIN x |-> ItemsIn(x[d])]
<1>1. /\ n \in Nat /\ DOMAIN a = 1..n /\ m \in Nat /\ DOMAIN b = 1..m
      /\ \A i \in 1..n : a[i] \in ToSet(a)
      /\ \A i \in 1..m : b[i] \in ToSet(b)
  BY Sequenced
<1>2. a \in Seq(S) /\ b \in Seq(S)
  <2>1. a \in Seq(ToSet(a)) /\ b \in Seq(ToSet(b)) BY DEF IsSequence
  <2>2. ToSet(a) \subseteq S /\ ToSet(b) \subseteq S OBVIOUS
  <2> HIDE DEF S
  <2> QED BY <2>1, <2>2
<1>3. PICK c : c = a \o b OBVIOUS
<1>4. /\ c \in Seq(S) /\ Len(c) = n + m /\ DOMAIN c = 1..(n + m)
      /\ \A i \in 1..(n + m) : c[i] = IF i <= n THEN a[i] ELSE b[i - n]
  <2> HIDE DEF S
  <2>1. /\ a \o b \in Seq(S) /\ Len(a \o b) = n + m
        /\ \A i \in 1..(n + m) : (a \o b)[i] = IF i <= n THEN a[i] ELSE b[i - n]
    BY <1>2, ConcatProperties
  <2> QED BY <1>3, <2>1
<1> HIDE DEF n, m
<1>5. /\ \A i \in 1..n : i \in 1..(n + m) /\ c[i] = a[i]
      /\ \A i \in 1..m : n + i \in 1..(n + m) /\ c[n + i] = b[i]
  <2>1. ASSUME NEW i \in 1..n PROVE i \in 1..(n + m) /\ i <= n BY <1>1
  <2>2. ASSUME NEW i \in 1..m
        PROVE  n + i \in 1..(n + m) /\ ~(n + i <= n) /\ (n + i) - n = i
    BY <1>1
  <2> QED BY <1>4, <2>1, <2>2
<1>6. ToSet(c) = S
  <2>1. ToSet(c) = {c[i] : i \in 1..(n + m)} /\ ToSet(a) = {a[i] : i \in 1..n}
        /\ ToSet(b) = {b[i] : i \in 1..m}
    BY <1>1, <1>4 DEF ToSet
  <2>2. \A i \in 1..(n + m) : c[i] \in S
    <3> HIDE DEF S
    <3> QED BY <1>4
  <2>3. \A x \in S : \E i \in 1..(n + m) : c[i] = x BY <1>5, <2>1
  <2> HIDE DEF S
  <2> QED BY <2>1, <2>2, <2>3
<1>7. IsSequence(c) BY <1>4, <1>6 DEF IsSequence
<1>8. \A i \in 1..n : IsFiniteSet(DOMAIN a[i].signatures) /\ IsFiniteSet(ItemsIn(a[i]))
  BY <1>1 DEF Countable
<1>9. \A i \in 1..m : IsFiniteSet(DOMAIN b[i].signatures) /\ IsFiniteSet(ItemsIn(b[i]))
  BY <1>1 DEF Countable
<1>10. \A x : SignaturesOf(x) = Places(signatures(x)) BY DEF SignaturesOf
<1>11. \A x : ItemsOf(x) = Places(items(x)) BY DEF ItemsOf, ItemsIn
<1>12. /\ DOMAIN signatures(a) = 1..n /\ DOMAIN signatures(b) = 1..m /\ DOMAIN signatures(c) = 1..(n + m)
       /\ \A i \in 1..n : signatures(a)[i] = DOMAIN a[i].signatures
                          /\ signatures(c)[i] = DOMAIN a[i].signatures
       /\ \A i \in 1..m : signatures(b)[i] = DOMAIN b[i].signatures
                          /\ signatures(c)[n + i] = DOMAIN b[i].signatures
  BY <1>1, <1>4, <1>5
<1>13. /\ DOMAIN items(a) = 1..n /\ DOMAIN items(b) = 1..m /\ DOMAIN items(c) = 1..(n + m)
       /\ \A i \in 1..n : items(a)[i] = ItemsIn(a[i]) /\ items(c)[i] = ItemsIn(a[i])
       /\ \A i \in 1..m : items(b)[i] = ItemsIn(b[i]) /\ items(c)[n + i] = ItemsIn(b[i])
  BY <1>1, <1>4, <1>5
<1> HIDE DEF signatures, items, S
<1>14. IsFiniteSet(Places(signatures(a))) /\ IsFiniteSet(Places(items(a)))
  <2>1. \A i \in 1..n : IsFiniteSet(signatures(a)[i]) /\ IsFiniteSet(items(a)[i]) BY <1>8, <1>12, <1>13
  <2> QED BY <1>1, <1>12, <1>13, <2>1, PlacesFinite
<1>15. Cardinality(Places(signatures(c))) =
           Cardinality(Places(signatures(a))) + Cardinality(Places(signatures(b)))
  <2>1. /\ \A i \in 1..n : signatures(c)[i] = signatures(a)[i] /\ IsFiniteSet(signatures(a)[i])
        /\ \A i \in 1..m : signatures(c)[n + i] = signatures(b)[i] /\ IsFiniteSet(signatures(b)[i])
    BY <1>8, <1>9, <1>12
  <2> QED BY <1>1, <1>12, <2>1, PlacesJoined
<1>16. Cardinality(Places(items(c))) = Cardinality(Places(items(a))) + Cardinality(Places(items(b)))
  <2>1. /\ \A i \in 1..n : items(c)[i] = items(a)[i] /\ IsFiniteSet(items(a)[i])
        /\ \A i \in 1..m : items(c)[n + i] = items(b)[i] /\ IsFiniteSet(items(b)[i])
    BY <1>8, <1>9, <1>13
  <2> QED BY <1>1, <1>13, <2>1, PlacesJoined
<1> QED BY <1>3, <1>6, <1>7, <1>10, <1>11, <1>14, <1>15, <1>16 DEF S

-----------------------------------------------------------------------------
(* Reading *)

LEMMA TailOf ==
    ASSUME NEW s, IsSequence(s), s # <<>>
    PROVE  /\ IsSequence(Tail(s)) /\ ToSet(Tail(s)) \subseteq ToSet(s)
           /\ Head(s) \in ToSet(s) /\ Len(s) > 0 /\ Len(Tail(s)) = Len(s) - 1
<1>1. s \in Seq(ToSet(s)) BY DEF IsSequence
<1>2. PICK t : t = Tail(s) OBVIOUS
<1>3. /\ Head(s) \in ToSet(s) /\ t \in Seq(ToSet(s)) /\ Len(t) = Len(s) - 1
  BY <1>1, <1>2, HeadTailProperties
<1>4. Len(s) > 0 BY <1>1
<1>6. IsSequence(t) BY <1>3, AnySequence
<1>7. ToSet(t) \subseteq ToSet(s) BY <1>3, AnySequence
<1> QED BY <1>2, <1>3, <1>4, <1>6, <1>7

LEMMA FirstReplaced ==
    ASSUME NEW s, IsSequence(s), s # <<>>, NEW x
    PROVE  /\ IsSequence([s EXCEPT ![1] = x]) /\ [s EXCEPT ![1] = x] # <<>>
           /\ ToSet([s EXCEPT ![1] = x]) \subseteq ToSet(s) \cup {x}
<1>1. /\ Len(s) \in Nat /\ DOMAIN s = 1..Len(s) /\ \A i \in DOMAIN s : s[i] \in ToSet(s)
  BY Sequenced
<1>2. Len(s) > 0 BY DEF IsSequence
<1>3. PICK t : t = [s EXCEPT ![1] = x] OBVIOUS
<1>4. /\ t = [i \in 1..Len(s) |-> t[i]]
      /\ \A i \in 1..Len(s) : t[i] = IF i = 1 THEN x ELSE s[i]
  BY <1>1, <1>3
<1>5. IsSequence(t) /\ Len(t) = Len(s) /\ DOMAIN t = 1..Len(s) BY <1>1, <1>4, OwnMembers
<1>6. ToSet(t) \subseteq ToSet(s) \cup {x}
  <2>1. ToSet(t) = {t[i] : i \in DOMAIN t} BY DEF ToSet
  <2> QED BY <1>1, <1>4, <1>5, <2>1
<1>7. t # <<>> BY <1>1, <1>2, <1>5
<1> QED BY <1>3, <1>5, <1>6, <1>7

\* What every state of a reading satisfies: a catalog that another one follows
\* is finished, and the documents are sequences whose items can be counted.
Finished(catalogs) == \A c \in 1..(Len(catalogs) - 1) : IsInjective(SketchIds(catalogs[c]))
Sound(catalogs) ==
    /\ IsSequence(catalogs) /\ Len(catalogs) > 0
    /\ \A c \in DOMAIN catalogs :
          IsSequence(catalogs[c]) /\ \A d \in ToSet(catalogs[c]) : Consistent(d) /\ Countable(d)
SignatureCount(catalogs) == Cardinality(Places([c \in DOMAIN catalogs |-> SignaturesOf(catalogs[c])]))
ItemCount(catalogs) == Cardinality(Places([c \in DOMAIN catalogs |-> ItemsOf(catalogs[c])]))
ReadingInv ==
    /\ IsRequest /\ Sound(read) /\ Finished(read)
    /\ pending = <<>> => IsInjective(SketchIds(read[Len(read)]))
    /\ counted.signatures = SignatureCount(read) /\ counted.items = ItemCount(read)
    /\ WithinBounds(counted)

\* Documents that join the last catalog.
LEMMA CatalogGrows ==
    ASSUME NEW catalogs, Sound(catalogs), Finished(catalogs), NEW documents, IsSequence(documents),
           \A d \in ToSet(documents) : Consistent(d) /\ Countable(d),
           NEW grown, grown = Append(Front(catalogs), Last(catalogs) \o documents)
    PROVE  /\ Sound(grown) /\ Finished(grown)
           /\ SignatureCount(grown) = SignatureCount(catalogs) + Cardinality(SignaturesOf(documents))
           /\ ItemCount(grown) = ItemCount(catalogs) + Cardinality(ItemsOf(documents))
<1> DEFINE last == catalogs[Len(catalogs)]
           joined == last \o documents
           signatures(x) == [c \in DOMAIN x |-> SignaturesOf(x[c])]
           items(x) == [c \in DOMAIN x |-> ItemsOf(x[c])]
<1>1. /\ Len(catalogs) \in Nat /\ Len(catalogs) > 0 /\ DOMAIN catalogs = 1..Len(catalogs)
      /\ \A c \in DOMAIN catalogs : catalogs[c] \in ToSet(catalogs)
  <2>1. IsSequence(catalogs) /\ Len(catalogs) > 0 BY DEF Sound
  <2> QED BY <2>1, Sequenced
<1>2. PICK n \in Nat : Len(catalogs) = n + 1
  <2>1. Len(catalogs) - 1 \in Nat /\ Len(catalogs) = (Len(catalogs) - 1) + 1 BY <1>1
  <2> QED BY <2>1
<1>3. \A c \in 1..(n + 1) :
         IsSequence(catalogs[c]) /\ \A d \in ToSet(catalogs[c]) : Consistent(d) /\ Countable(d)
  BY <1>1, <1>2 DEF Sound
<1>4. IsSequence(last) /\ \A d \in ToSet(last) : Consistent(d) /\ Countable(d) BY <1>2, <1>3
<1> HIDE DEF last
<1>5. /\ IsSequence(joined) /\ \A d \in ToSet(joined) : Consistent(d) /\ Countable(d)
      /\ Cardinality(SignaturesOf(joined)) =
             Cardinality(SignaturesOf(last)) + Cardinality(SignaturesOf(documents))
      /\ Cardinality(ItemsOf(joined)) = Cardinality(ItemsOf(last)) + Cardinality(ItemsOf(documents))
  <2>1. /\ IsSequence(joined) /\ ToSet(joined) = ToSet(last) \cup ToSet(documents)
        /\ Cardinality(SignaturesOf(joined)) =
               Cardinality(SignaturesOf(last)) + Cardinality(SignaturesOf(documents))
        /\ Cardinality(ItemsOf(joined)) = Cardinality(ItemsOf(last)) + Cardinality(ItemsOf(documents))
    <3>1. (\A d \in ToSet(last) : Countable(d)) /\ (\A d \in ToSet(documents) : Countable(d)) BY <1>4
    <3> QED BY <1>4, <3>1, CountedTogether
  <2>2. \A d \in ToSet(joined) : d \in ToSet(last) \/ d \in ToSet(documents) BY <2>1
  <2> HIDE DEF joined
  <2> QED BY <1>4, <2>1, <2>2
<1>6. /\ Cardinality(SignaturesOf(documents)) \in Nat /\ Cardinality(ItemsOf(documents)) \in Nat
  <2>1. IsFiniteSet(SignaturesOf(documents)) /\ IsFiniteSet(ItemsOf(documents)) BY CountedTogether
  <2> QED BY <2>1, FS_CardinalityType
<1> HIDE DEF joined
<1>7. /\ DOMAIN grown = 1..(n + 1) /\ Len(grown) = n + 1 /\ IsSequence(grown)
      /\ grown[n + 1] = joined /\ \A c \in 1..n : grown[c] = catalogs[c]
  <2> DEFINE S == ToSet(catalogs) \cup {joined}
  <2>1. PICK front : front = Front(catalogs) OBVIOUS
  <2>2. front = SubSeq(catalogs, 1, n) BY <1>2, <2>1 DEF Front
  <2>3. catalogs \in Seq(ToSet(catalogs)) BY DEF Sound, IsSequence
  <2>4. joined \in S /\ ToSet(catalogs) \subseteq S OBVIOUS
  <2> HIDE DEF S
  <2>5. catalogs \in Seq(S) BY <2>3, <2>4
  <2>6. front \in Seq(S) /\ Len(front) = n /\ \A c \in 1..n : front[c] = catalogs[c]
    BY <1>1, <1>2, <2>2, <2>5
  <2>7. grown = Append(front, joined) BY <2>1 DEF Last, joined, last
  <2>8. /\ grown \in Seq(S) /\ Len(grown) = n + 1 /\ grown[n + 1] = joined
        /\ \A c \in 1..n : grown[c] = front[c]
    BY <2>4, <2>6, <2>7
  <2>9. IsSequence(grown) /\ DOMAIN grown = 1..Len(grown) BY <2>8, AnySequence
  <2> QED BY <2>6, <2>8, <2>9
<1>8. \A c : c \in 1..(n + 1) <=> c \in 1..n \/ c = n + 1 OBVIOUS
<1>9. Sound(grown)
  <2>1. ASSUME NEW c \in 1..(n + 1)
        PROVE  IsSequence(grown[c]) /\ \A d \in ToSet(grown[c]) : Consistent(d) /\ Countable(d)
    <3>1. CASE c = n + 1 BY <1>5, <1>7, <3>1
    <3>2. CASE c \in 1..n
      <4>1. grown[c] = catalogs[c] BY <1>7, <3>2
      <4> QED BY <1>3, <4>1
    <3> QED BY <1>8, <3>1, <3>2
  <2>2. n + 1 > 0 OBVIOUS
  <2> QED BY <1>7, <2>1, <2>2 DEF Sound
<1>10. Finished(grown)
  <2>1. Len(catalogs) - 1 = n /\ Len(grown) - 1 = n BY <1>2, <1>7
  <2> QED BY <1>7, <2>1 DEF Finished
<1>11. \A c \in 1..(n + 1) : IsFiniteSet(SignaturesOf(catalogs[c])) /\ IsFiniteSet(ItemsOf(catalogs[c]))
  <2> SUFFICES ASSUME NEW c \in 1..(n + 1)
               PROVE  IsFiniteSet(SignaturesOf(catalogs[c])) /\ IsFiniteSet(ItemsOf(catalogs[c]))
    OBVIOUS
  <2>1. IsSequence(catalogs[c]) /\ \A d \in ToSet(catalogs[c]) : Countable(d) BY <1>3
  <2> QED BY <2>1, CountedTogether
<1>12. IsFiniteSet(SignaturesOf(joined)) /\ IsFiniteSet(ItemsOf(joined))
  <2>1. \A d \in ToSet(joined) : Countable(d) BY <1>5
  <2> QED BY <1>5, <2>1, CountedTogether
<1>13. last = catalogs[n + 1] BY <1>2 DEF last
<1>14. /\ DOMAIN signatures(catalogs) = 1..(n + 1) /\ DOMAIN signatures(grown) = 1..(n + 1)
       /\ \A c \in 1..n : signatures(grown)[c] = signatures(catalogs)[c]
                          /\ IsFiniteSet(signatures(catalogs)[c])
       /\ IsFiniteSet(signatures(catalogs)[n + 1]) /\ IsFiniteSet(signatures(grown)[n + 1])
       /\ Cardinality(signatures(grown)[n + 1]) =
              Cardinality(signatures(catalogs)[n + 1]) + Cardinality(SignaturesOf(documents))
  <2>a. n + 1 \in DOMAIN catalogs /\ n + 1 \in DOMAIN grown BY <1>1, <1>2, <1>7
  <2>b. grown[n + 1] = joined /\ catalogs[n + 1] = last BY <1>7, <1>13
  <2>1. signatures(grown)[n + 1] = SignaturesOf(joined)
        /\ signatures(catalogs)[n + 1] = SignaturesOf(last)
    <3>1. signatures(grown)[n + 1] = SignaturesOf(grown[n + 1])
          /\ signatures(catalogs)[n + 1] = SignaturesOf(catalogs[n + 1])
      BY <2>a
    <3> QED BY <2>b, <3>1
  <2>2. DOMAIN signatures(catalogs) = 1..(n + 1) /\ DOMAIN signatures(grown) = 1..(n + 1)
    BY <1>1, <1>2, <1>7
  <2>3. \A c \in 1..n : /\ c \in 1..(n + 1) /\ signatures(grown)[c] = SignaturesOf(catalogs[c])
                        /\ signatures(catalogs)[c] = SignaturesOf(catalogs[c])
    BY <1>1, <1>2, <1>7
  <2>4. n + 1 \in 1..(n + 1) OBVIOUS
  <2> HIDE DEF signatures
  <2> QED BY <1>5, <1>11, <1>12, <1>13, <2>1, <2>2, <2>3, <2>4
<1>15. /\ DOMAIN items(catalogs) = 1..(n + 1) /\ DOMAIN items(grown) = 1..(n + 1)
       /\ \A c \in 1..n : items(grown)[c] = items(catalogs)[c] /\ IsFiniteSet(items(catalogs)[c])
       /\ IsFiniteSet(items(catalogs)[n + 1]) /\ IsFiniteSet(items(grown)[n + 1])
       /\ Cardinality(items(grown)[n + 1]) =
              Cardinality(items(catalogs)[n + 1]) + Cardinality(ItemsOf(documents))
  <2>a. n + 1 \in DOMAIN catalogs /\ n + 1 \in DOMAIN grown BY <1>1, <1>2, <1>7
  <2>b. grown[n + 1] = joined /\ catalogs[n + 1] = last BY <1>7, <1>13
  <2>1. items(grown)[n + 1] = ItemsOf(joined) /\ items(catalogs)[n + 1] = ItemsOf(last)
    <3>1. items(grown)[n + 1] = ItemsOf(grown[n + 1])
          /\ items(catalogs)[n + 1] = ItemsOf(catalogs[n + 1])
      BY <2>a
    <3> QED BY <2>b, <3>1
  <2>2. DOMAIN items(catalogs) = 1..(n + 1) /\ DOMAIN items(grown) = 1..(n + 1)
    BY <1>1, <1>2, <1>7
  <2>3. \A c \in 1..n : /\ c \in 1..(n + 1) /\ items(grown)[c] = ItemsOf(catalogs[c])
                        /\ items(catalogs)[c] = ItemsOf(catalogs[c])
    BY <1>1, <1>2, <1>7
  <2>4. n + 1 \in 1..(n + 1) OBVIOUS
  <2> HIDE DEF items
  <2> QED BY <1>5, <1>11, <1>12, <1>13, <2>1, <2>2, <2>3, <2>4
<1> HIDE DEF signatures, items
<1>16. Cardinality(Places(signatures(grown))) =
           Cardinality(Places(signatures(catalogs))) + Cardinality(SignaturesOf(documents))
  <2>1. PICK m \in Nat : m = Cardinality(SignaturesOf(documents)) BY <1>6
  <2>2. PICK s : s = signatures(catalogs) OBVIOUS
  <2>3. PICK u : u = signatures(grown) OBVIOUS
  <2>4. /\ DOMAIN s = 1..(n + 1) /\ DOMAIN u = 1..(n + 1)
        /\ \A c \in 1..n : u[c] = s[c] /\ IsFiniteSet(s[c])
        /\ IsFiniteSet(s[n + 1]) /\ IsFiniteSet(u[n + 1])
        /\ Cardinality(u[n + 1]) = Cardinality(s[n + 1]) + m
    BY <1>14, <2>1, <2>2, <2>3
  <2>5. n \in Nat /\ m \in Nat OBVIOUS
  <2>6. Cardinality(Places(u)) = Cardinality(Places(s)) + m BY ONLY <2>4, <2>5, PlacesGrown
  <2> QED BY <2>1, <2>2, <2>3, <2>6
<1>17. Cardinality(Places(items(grown))) =
           Cardinality(Places(items(catalogs))) + Cardinality(ItemsOf(documents))
  <2>1. PICK m \in Nat : m = Cardinality(ItemsOf(documents)) BY <1>6
  <2>2. PICK s : s = items(catalogs) OBVIOUS
  <2>3. PICK u : u = items(grown) OBVIOUS
  <2>4. /\ DOMAIN s = 1..(n + 1) /\ DOMAIN u = 1..(n + 1)
        /\ \A c \in 1..n : u[c] = s[c] /\ IsFiniteSet(s[c])
        /\ IsFiniteSet(s[n + 1]) /\ IsFiniteSet(u[n + 1])
        /\ Cardinality(u[n + 1]) = Cardinality(s[n + 1]) + m
    BY <1>15, <2>1, <2>2, <2>3
  <2>5. n \in Nat /\ m \in Nat OBVIOUS
  <2>6. Cardinality(Places(u)) = Cardinality(Places(s)) + m BY ONLY <2>4, <2>5, PlacesGrown
  <2> QED BY <2>1, <2>2, <2>3, <2>6
<1> QED BY <1>9, <1>10, <1>16, <1>17 DEF SignatureCount, ItemCount, signatures, items

\* The next catalog begins.
LEMMA CatalogBegins ==
    ASSUME NEW catalogs, Sound(catalogs), Finished(catalogs),
           IsInjective(SketchIds(catalogs[Len(catalogs)])),
           NEW begun, begun = Append(catalogs, <<>>)
    PROVE  /\ Sound(begun) /\ Finished(begun)
           /\ SignatureCount(begun) = SignatureCount(catalogs)
           /\ ItemCount(begun) = ItemCount(catalogs)
<1> DEFINE n == Len(catalogs)
           signatures(x) == [c \in DOMAIN x |-> SignaturesOf(x[c])]
           items(x) == [c \in DOMAIN x |-> ItemsOf(x[c])]
<1>1. n \in Nat /\ n > 0 /\ DOMAIN catalogs = 1..n
  <2>1. IsSequence(catalogs) /\ Len(catalogs) > 0 BY DEF Sound
  <2> QED BY <2>1, Sequenced
<1>2. /\ DOMAIN begun = 1..(n + 1) /\ Len(begun) = n + 1 /\ IsSequence(begun)
      /\ begun[n + 1] = <<>> /\ \A c \in 1..n : begun[c] = catalogs[c]
  <2> DEFINE S == ToSet(catalogs) \cup {<<>>}
  <2>1. catalogs \in Seq(ToSet(catalogs)) BY DEF Sound, IsSequence
  <2>2. <<>> \in S /\ ToSet(catalogs) \subseteq S OBVIOUS
  <2> HIDE DEF S
  <2>3. catalogs \in Seq(S) BY <2>1, <2>2
  <2>4. /\ begun \in Seq(S) /\ Len(begun) = n + 1 /\ begun[n + 1] = <<>>
        /\ \A c \in 1..n : begun[c] = catalogs[c]
    BY <2>2, <2>3
  <2>5. IsSequence(begun) /\ DOMAIN begun = 1..Len(begun) BY <2>4, AnySequence
  <2> QED BY <2>4, <2>5
<1>3. \A c \in 1..n : IsSequence(catalogs[c]) /\ \A d \in ToSet(catalogs[c]) : Consistent(d) /\ Countable(d)
  BY <1>1 DEF Sound
<1>4. IsSequence(<<>>) /\ ToSet(<<>>) = {} BY DEF IsSequence, ToSet
<1> HIDE DEF n
<1>5. \A c : c \in 1..(n + 1) <=> c \in 1..n \/ c = n + 1 BY <1>1
<1>6. Sound(begun)
  <2>1. ASSUME NEW c \in 1..(n + 1)
        PROVE  IsSequence(begun[c]) /\ \A d \in ToSet(begun[c]) : Consistent(d) /\ Countable(d)
    <3>1. CASE c = n + 1
      <4>1. begun[c] = <<>> BY <1>2, <3>1
      <4> QED BY <1>4, <4>1
    <3>2. CASE c \in 1..n
      <4>1. begun[c] = catalogs[c] BY <1>2, <3>2
      <4> QED BY <1>3, <3>2, <4>1
    <3> QED BY <1>5, <3>1, <3>2
  <2>2. n + 1 > 0 BY <1>1
  <2> QED BY <1>2, <2>1, <2>2 DEF Sound
<1>7. Finished(begun)
  <2>1. Len(begun) - 1 = n BY <1>1, <1>2
  <2>2. ASSUME NEW c \in 1..n PROVE IsInjective(SketchIds(begun[c]))
    <3>1. begun[c] = catalogs[c] BY <1>2
    <3>2. CASE c = n BY <3>1, <3>2 DEF n
    <3>3. CASE c # n
      <4>1. c \in 1..(n - 1) BY <1>1, <3>3
      <4> QED BY <3>1, <4>1 DEF Finished, n
    <3> QED BY <3>2, <3>3
  <2> QED BY <2>1, <2>2 DEF Finished
<1>8. \A c \in 1..n : IsFiniteSet(SignaturesOf(catalogs[c])) /\ IsFiniteSet(ItemsOf(catalogs[c]))
  <2> SUFFICES ASSUME NEW c \in 1..n
               PROVE  IsFiniteSet(SignaturesOf(catalogs[c])) /\ IsFiniteSet(ItemsOf(catalogs[c]))
    OBVIOUS
  <2>1. IsSequence(catalogs[c]) /\ \A d \in ToSet(catalogs[c]) : Countable(d) BY <1>3
  <2> QED BY <2>1, CountedTogether
<1>9. SignaturesOf(<<>>) = {} /\ ItemsOf(<<>>) = {} BY DEF SignaturesOf, ItemsOf, Places
<1>10. IsFiniteSet({}) /\ Cardinality({}) = 0 BY FS_EmptySet
<1>11. /\ DOMAIN signatures(catalogs) = 1..n /\ DOMAIN signatures(begun) = 1..(n + 1)
       /\ DOMAIN items(catalogs) = 1..n /\ DOMAIN items(begun) = 1..(n + 1)
  BY <1>1, <1>2
<1>12. n + 1 \in 1..(n + 1) /\ \A c \in 1..n : c \in 1..(n + 1) BY <1>1
<1>13. \A c \in 1..n : /\ signatures(begun)[c] = SignaturesOf(catalogs[c])
                       /\ signatures(catalogs)[c] = SignaturesOf(catalogs[c])
                       /\ items(begun)[c] = ItemsOf(catalogs[c])
                       /\ items(catalogs)[c] = ItemsOf(catalogs[c])
  BY <1>1, <1>2, <1>12
<1>14. signatures(begun)[n + 1] = {} /\ items(begun)[n + 1] = {}
  <2>1. signatures(begun)[n + 1] = SignaturesOf(begun[n + 1]) /\ items(begun)[n + 1] = ItemsOf(begun[n + 1])
    BY <1>2, <1>12
  <2> QED BY <1>2, <1>9, <2>1
<1> HIDE DEF signatures, items
<1>15. Cardinality(Places(signatures(begun))) = Cardinality(Places(signatures(catalogs)))
  <2>1. PICK s : s = signatures(catalogs) OBVIOUS
  <2>2. PICK u : u = signatures(begun) OBVIOUS
  <2>3. /\ DOMAIN s = 1..n /\ DOMAIN u = 1..(n + 1)
        /\ \A c \in 1..n : u[c] = s[c] /\ IsFiniteSet(s[c])
    BY <1>8, <1>11, <1>13, <2>1, <2>2
  <2>4. IsFiniteSet(u[n + 1]) /\ Cardinality(u[n + 1]) = 0 BY <1>10, <1>14, <2>2, Zenon
  <2>5. Cardinality(Places(u)) = Cardinality(Places(s)) + Cardinality(u[n + 1])
    BY <1>1, <2>3, <2>4, PlacesAppended
  <2>6. Cardinality(Places(s)) \in Nat
    <3>1. IsFiniteSet(Places(s)) BY <1>1, <2>3, PlacesFinite
    <3> QED BY <3>1, FS_CardinalityType
  <2> QED BY <2>1, <2>2, <2>4, <2>5, <2>6
<1>16. Cardinality(Places(items(begun))) = Cardinality(Places(items(catalogs)))
  <2>1. PICK s : s = items(catalogs) OBVIOUS
  <2>2. PICK u : u = items(begun) OBVIOUS
  <2>3. /\ DOMAIN s = 1..n /\ DOMAIN u = 1..(n + 1)
        /\ \A c \in 1..n : u[c] = s[c] /\ IsFiniteSet(s[c])
    BY <1>8, <1>11, <1>13, <2>1, <2>2
  <2>4. IsFiniteSet(u[n + 1]) /\ Cardinality(u[n + 1]) = 0 BY <1>10, <1>14, <2>2, Zenon
  <2>5. Cardinality(Places(u)) = Cardinality(Places(s)) + Cardinality(u[n + 1])
    BY <1>1, <2>3, <2>4, PlacesAppended
  <2>6. Cardinality(Places(s)) \in Nat
    <3>1. IsFiniteSet(Places(s)) BY <1>1, <2>3, PlacesFinite
    <3> QED BY <3>1, FS_CardinalityType
  <2> QED BY <2>1, <2>2, <2>4, <2>5, <2>6
<1> QED BY <1>6, <1>7, <1>15, <1>16 DEF SignatureCount, ItemCount, signatures, items

\* What a file admits.
LEMMA FileAdmitted ==
    ASSUME NEW file, IsSequence(file.documents), \A d \in ToSet(file.documents) : IsStated(d),
           FirstOf([k \in DOMAIN file.documents |-> DocumentError(file.documents[k])]) = "none",
           NEW documents,
           documents = [k \in DOMAIN file.documents |-> Document(<<file.name, k>>, file.documents[k])]
    PROVE  IsSequence(documents) /\ \A d \in ToSet(documents) : Consistent(d) /\ Countable(d)
<1> DEFINE raws == file.documents
           errors == [k \in DOMAIN raws |-> DocumentError(raws[k])]
<1>1. PICK n \in Nat : DOMAIN raws = 1..n /\ \A k \in 1..n : IsStated(raws[k])
  <2>1. Len(raws) \in Nat /\ DOMAIN raws = 1..Len(raws)
        /\ \A k \in DOMAIN raws : raws[k] \in ToSet(raws) BY Sequenced
  <2> QED BY <2>1
<1>2. \A k \in 1..n : DocumentError(raws[k]) = "none"
  <2> DEFINE S == {errors[k] : k \in 1..n}
  <2>1. DOMAIN errors = 1..n /\ \A k \in 1..n : errors[k] = DocumentError(raws[k]) BY <1>1
  <2>2. errors = [k \in 1..n |-> errors[k]] BY <1>1
  <2>3. \A k \in 1..n : errors[k] \in S OBVIOUS
  <2>4. FirstOf(errors) = "none" OBVIOUS
  <2> HIDE DEF errors, S
  <2>5. errors \in Seq(S) BY <2>2, <2>3
  <2>6. \A k \in DOMAIN errors : errors[k] = "none" BY <2>4, <2>5, FirstError
  <2> QED BY <2>1, <2>6
<1>3. documents = [k \in 1..n |-> Document(<<file.name, k>>, raws[k])] BY <1>1
<1>4. DOMAIN documents = 1..n /\ \A k \in 1..n : documents[k] = Document(<<file.name, k>>, raws[k])
  BY <1>3
<1>5. documents = [k \in 1..n |-> documents[k]] BY <1>3
<1>6. IsSequence(documents) BY <1>5, OwnMembers
<1>7. ASSUME NEW k \in 1..n PROVE Consistent(documents[k]) /\ Countable(documents[k])
  <2>1. IsStated(raws[k]) /\ DocumentError(raws[k]) = "none" BY <1>1, <1>2
  <2>2. documents[k] = Document(<<file.name, k>>, raws[k]) BY <1>4
  <2> QED BY <2>1, <2>2, DocumentAdmitted, DocumentCountable
<1>8. \A d \in ToSet(documents) : \E k \in 1..n : documents[k] = d
  <2>1. PICK s : s = documents OBVIOUS
  <2>2. IsSequence(s) /\ DOMAIN s = 1..n BY <1>4, <1>6, <2>1
  <2>3. \A d \in ToSet(s) : \E k \in DOMAIN s : s[k] = d BY <2>2, Sequenced
  <2> QED BY <2>1, <2>2, <2>3
<1> QED BY <1>6, <1>7, <1>8

LEMMA RequestKept ==
    ASSUME IsRequest, pending # <<>>, request' = request
    PROVE  /\ Head(pending) = pending[1] /\ IsCatalog(Head(pending))
           /\ Head(pending) # <<>> =>
                 /\ LET file == Head(Head(pending)) IN
                    IsSequence(file.documents) /\ \A d \in ToSet(file.documents) : IsStated(d)
                 /\ pending' = [pending EXCEPT ![1] = Tail(@)] => IsRequest' /\ pending' # <<>>
           /\ pending' = Tail(pending) => IsRequest'
<1>1. IsSequence(pending) /\ \A files \in ToSet(pending) : IsCatalog(files) BY DEF IsRequest
<1>2. /\ IsSequence(Tail(pending)) /\ ToSet(Tail(pending)) \subseteq ToSet(pending)
      /\ Head(pending) \in ToSet(pending)
  BY <1>1, TailOf
<1>3. Head(pending) = pending[1] BY <1>1 DEF IsSequence
<1>4. IsCatalog(Head(pending)) BY <1>1, <1>2
<1>5. pending' = Tail(pending) => IsRequest' BY <1>1, <1>2 DEF IsRequest
<1>6. ASSUME Head(pending) # <<>>
      PROVE  /\ LET file == Head(Head(pending)) IN
                IsSequence(file.documents) /\ \A d \in ToSet(file.documents) : IsStated(d)
             /\ pending' = [pending EXCEPT ![1] = Tail(@)] => IsRequest' /\ pending' # <<>>
  <2>1. PICK files : files = Head(pending) OBVIOUS
  <2>2. /\ IsSequence(files) /\ files # <<>>
        /\ \A f \in ToSet(files) : /\ f.root \in BOOLEAN /\ IsSequence(f.documents)
                                   /\ \A d \in ToSet(f.documents) : IsStated(d)
    BY <1>4, <1>6, <2>1 DEF IsCatalog
  <2>3. /\ IsSequence(Tail(files)) /\ ToSet(Tail(files)) \subseteq ToSet(files)
        /\ Head(files) \in ToSet(files) BY <2>2, TailOf
  <2>4. PICK rest : rest = Tail(files) OBVIOUS
  <2>5. IsCatalog(rest) BY <2>2, <2>3, <2>4 DEF IsCatalog
  <2>6. /\ IsSequence([pending EXCEPT ![1] = rest]) /\ [pending EXCEPT ![1] = rest] # <<>>
        /\ ToSet([pending EXCEPT ![1] = rest]) \subseteq ToSet(pending) \cup {rest}
    BY <1>1, FirstReplaced
  <2>7. ASSUME pending' = [pending EXCEPT ![1] = Tail(@)] PROVE IsRequest' /\ pending' # <<>>
    <3>1. pending' = [pending EXCEPT ![1] = rest] BY <1>3, <2>1, <2>4, <2>7
    <3>2. IsSequence(pending') /\ pending' # <<>> /\ ToSet(pending') \subseteq ToSet(pending) \cup {rest}
      BY <2>6, <3>1
    <3>3. \A f \in ToSet(pending') : IsCatalog(f) BY <1>1, <2>5, <3>2
    <3> QED BY <3>2, <3>3 DEF IsRequest
  <2> QED BY <2>1, <2>2, <2>3, <2>7
<1> QED BY <1>3, <1>4, <1>5, <1>6

LEMMA InvStart == IsRequest /\ ContractsInit => ReadingInv
<1> SUFFICES ASSUME IsRequest, ContractsInit PROVE ReadingInv OBVIOUS
<1>1. read = <<<<>>>> /\ counted.signatures = 0 /\ counted.items = 0 BY DEF ContractsInit
<1>2. /\ DOMAIN read = {1} /\ Len(read) = 1 /\ read[1] = <<>> /\ IsSequence(read)
  <2>1. PICK r : r = read OBVIOUS
  <2>2. r \in Seq({<<>>}) /\ Len(r) = 1 /\ r[1] = <<>> /\ DOMAIN r = {1} BY <1>1, <2>1
  <2> QED BY <2>1, <2>2, AnySequence
<1>3. IsSequence(<<>>) /\ ToSet(<<>>) = {} BY DEF IsSequence, ToSet
<1>4. Sound(read) /\ Finished(read) BY <1>2, <1>3 DEF Sound, Finished
<1>5. SignaturesOf(<<>>) = {} /\ ItemsOf(<<>>) = {} BY DEF SignaturesOf, ItemsOf, Places
<1>6. IsInjective(SketchIds(<<>>))
  <2>1. DOMAIN SketchIds(<<>>) = {} BY DEF SketchIds, Places
  <2> QED BY <2>1 DEF IsInjective
<1>7. Places([c \in DOMAIN read |-> SignaturesOf(read[c])]) = {}
      /\ Places([c \in DOMAIN read |-> ItemsOf(read[c])]) = {}
  BY <1>2, <1>5 DEF Places
<1>8. Cardinality({}) = 0 BY FS_EmptySet
<1>9. SignatureCount(read) = 0 /\ ItemCount(read) = 0 BY <1>7, <1>8, Zenon DEF SignatureCount, ItemCount
<1>10. WithinBounds(counted)
  <2>1. request.bounds.signatures \in Nat /\ request.bounds.items \in Nat BY DEF IsRequest
  <2> QED BY <1>1, <2>1 DEF WithinBounds
<1> QED BY <1>1, <1>2, <1>4, <1>6, <1>9, <1>10 DEF ReadingInv

LEMMA InvStep == ReadingInv /\ [ReadingStep \/ CancelReading]_<<request, reading, stage>> => ReadingInv'
<1> SUFFICES ASSUME ReadingInv, [ReadingStep \/ CancelReading]_<<request, reading, stage>>
             PROVE  ReadingInv'
  OBVIOUS
<1>0. /\ IsRequest /\ Sound(read) /\ Finished(read)
      /\ (pending = <<>> => IsInjective(SketchIds(read[Len(read)])))
      /\ counted.signatures = SignatureCount(read) /\ counted.items = ItemCount(read)
      /\ WithinBounds(counted)
  BY DEF ReadingInv
<1>1. ASSUME UNCHANGED <<request, reading>> PROVE ReadingInv'
  <2>1. request' = request /\ pending' = pending /\ read' = read /\ counted' = counted
    BY <1>1 DEF reading
  <2> QED BY <1>0, <2>1 DEF ReadingInv, IsRequest, WithinBounds
<1>2. CASE ReadFile
  <2> DEFINE file == Head(Head(pending))
             documents == [k \in DOMAIN file.documents |-> Document(<<file.name, k>>, file.documents[k])]
             error == FirstOf([k \in DOMAIN file.documents |-> DocumentError(file.documents[k])])
  <2>1. pending # <<>> /\ Head(pending) # <<>> /\ request' = request BY <1>2 DEF ReadFile, Reading
  <2>2. \/ UNCHANGED reading
        \/ Skip(read) /\ counted' = counted
        \/ /\ error = "none" /\ WithinBounds(Counting(documents))
           /\ Skip(Append(Front(read), Last(read) \o documents)) /\ counted' = Counting(documents)
    <3>1. CASE ~file.root BY <1>2, <3>1, Zenon DEF ReadFile
    <3>2. CASE file.root /\ file.documents = <<>> BY <1>2, <3>2, Zenon DEF ReadFile, Stop
    <3>3. CASE file.root /\ error # "none" BY <1>2, <3>3, Zenon DEF ReadFile, Stop
    <3>4. CASE file.root /\ ~WithinBounds(Counting(documents)) BY <1>2, <3>4, Zenon DEF ReadFile, Stop
    <3>5. CASE file.root /\ file.documents # <<>> /\ error = "none" /\ WithinBounds(Counting(documents))
      BY <1>2, <3>5, Zenon DEF ReadFile
    <3> QED BY <3>1, <3>2, <3>3, <3>4, <3>5
  <2>3. CASE UNCHANGED reading BY <1>1, <2>1, <2>3
  <2>4. ASSUME pending' = [pending EXCEPT ![1] = Tail(@)] PROVE IsRequest' /\ pending' # <<>>
    BY <1>0, <2>1, <2>4, RequestKept
  <2>5. CASE Skip(read) /\ counted' = counted
    <3>1. read' = read /\ counted' = counted /\ pending' = [pending EXCEPT ![1] = Tail(@)]
      BY <2>5 DEF Skip
    <3>2. IsRequest' /\ pending' # <<>> BY <2>4, <3>1
    <3> QED BY <1>0, <2>1, <3>1, <3>2 DEF ReadingInv, WithinBounds
  <2>6. CASE /\ error = "none" /\ WithinBounds(Counting(documents))
             /\ Skip(Append(Front(read), Last(read) \o documents)) /\ counted' = Counting(documents)
    <3>1. IsSequence(file.documents) /\ \A d \in ToSet(file.documents) : IsStated(d)
      BY <1>0, <2>1, RequestKept
    <3>2. PICK admitted : admitted = documents OBVIOUS
    <3>3. IsSequence(admitted) /\ \A d \in ToSet(admitted) : Consistent(d) /\ Countable(d)
      BY <2>6, <3>1, <3>2, FileAdmitted
    <3>4. /\ read' = Append(Front(read), Last(read) \o admitted) /\ counted' = Counting(admitted)
          /\ pending' = [pending EXCEPT ![1] = Tail(@)] /\ WithinBounds(Counting(admitted))
      BY <2>6, <3>2 DEF Skip
    <3>5. IsRequest' /\ pending' # <<>> BY <2>4, <3>4
    <3> HIDE DEF documents, error, file
    <3>6. /\ Sound(read') /\ Finished(read')
          /\ SignatureCount(read') = SignatureCount(read) + Cardinality(SignaturesOf(admitted))
          /\ ItemCount(read') = ItemCount(read) + Cardinality(ItemsOf(admitted))
      BY <1>0, <3>3, <3>4, CatalogGrows
    <3>7. counted'.signatures = SignatureCount(read') /\ counted'.items = ItemCount(read')
      BY <1>0, <3>4, <3>6 DEF Counting
    <3>8. WithinBounds(counted)' BY <2>1, <3>4 DEF WithinBounds
    <3> QED BY <3>5, <3>6, <3>7, <3>8 DEF ReadingInv
  <2> QED BY <2>2, <2>3, <2>5, <2>6
<1>3. CASE EndCatalog
  <2>1. pending # <<>> /\ request' = request BY <1>3 DEF EndCatalog, Reading
  <2>2. CASE ~IsInjective(SketchIds(Last(read)))
    <3>1. UNCHANGED reading BY <1>3, <2>2 DEF EndCatalog, Stop
    <3> QED BY <1>1, <2>1, <3>1
  <2>3. CASE IsInjective(SketchIds(Last(read)))
    <3>1. /\ pending' = Tail(pending) /\ counted' = counted
          /\ \/ read' = read
             \/ Tail(pending) # <<>> /\ read' = Append(read, <<>>)
      BY <1>3, <2>3 DEF EndCatalog
    <3>2. IsRequest' BY <1>0, <2>1, <3>1, RequestKept
    <3>3. IsInjective(SketchIds(read[Len(read)])) BY <2>3 DEF Last
    <3>4. CASE read' = read
      BY <1>0, <2>1, <3>1, <3>2, <3>3, <3>4 DEF ReadingInv, WithinBounds
    <3>5. CASE Tail(pending) # <<>> /\ read' = Append(read, <<>>)
      <4>1. /\ Sound(read') /\ Finished(read')
            /\ SignatureCount(read') = SignatureCount(read) /\ ItemCount(read') = ItemCount(read)
        BY <1>0, <3>3, <3>5, CatalogBegins
      <4>2. WithinBounds(counted)' BY <1>0, <2>1, <3>1 DEF WithinBounds
      <4>3. pending' # <<>> BY <3>1, <3>5
      <4> QED BY <1>0, <3>1, <3>2, <4>1, <4>2, <4>3 DEF ReadingInv
    <3> QED BY <3>1, <3>4, <3>5
  <2> QED BY <2>2, <2>3
<1>4. CASE CancelReading BY <1>1, <1>4 DEF CancelReading, Stop
<1>5. CASE UNCHANGED <<request, reading, stage>> BY <1>1, <1>5
<1> QED BY <1>2, <1>3, <1>4, <1>5 DEF ReadingStep

\* Whatever the documents of an operation say, however many files and catalogs
\* it reads and whatever the bounds: every document that it admits is
\* consistent, sketches are unique in a catalog that was read to its end, and
\* what was counted is what was read and within the bounds.
\* (RustContractDocuments::parse, RustYamlDocumentValidator)
THEOREM AdmittedDocuments == ReadingSpec => []AdmittedIsConsistent
<1>1. IsRequest /\ ContractsInit => ReadingInv BY InvStart
<1>2. ReadingInv /\ [ReadingStep \/ CancelReading]_<<request, reading, stage>> => ReadingInv' BY InvStep
<1>3. ReadingInv => AdmittedIsConsistent
  <2> SUFFICES ASSUME ReadingInv PROVE AdmittedIsConsistent OBVIOUS
  <2>1. /\ Sound(read) /\ Finished(read)
        /\ (pending = <<>> => IsInjective(SketchIds(read[Len(read)])))
        /\ counted.signatures = SignatureCount(read) /\ counted.items = ItemCount(read)
        /\ WithinBounds(counted)
    BY DEF ReadingInv
  <2>2. /\ Len(read) \in Nat /\ DOMAIN read = 1..Len(read)
        /\ \A c \in DOMAIN read : \A d \in ToSet(read[c]) : Consistent(d)
    <3>1. IsSequence(read) /\ \A c \in DOMAIN read : \A d \in ToSet(read[c]) : Consistent(d)
      BY <2>1 DEF Sound
    <3> QED BY <3>1, Sequenced
  <2>3. ASSUME pending = <<>>, NEW c \in DOMAIN read PROVE IsInjective(SketchIds(read[c]))
    <3>1. CASE c = Len(read) BY <2>1, <2>3, <3>1
    <3>2. CASE c # Len(read)
      <4>1. c \in 1..(Len(read) - 1) BY <2>2, <3>2
      <4> QED BY <2>1, <4>1 DEF Finished
    <3> QED BY <3>1, <3>2
  <2> QED BY <2>1, <2>2, <2>3 DEF AdmittedIsConsistent, SignatureCount, ItemCount
<1> QED BY <1>1, <1>2, <1>3, PTL DEF ReadingSpec

-----------------------------------------------------------------------------
(* The scalar of one code *)

\* A scalar is a record of its own fields, and so are its header and its lines.
IsLine(line) == line = [indent |-> line.indent, text |-> line.text, ending |-> line.ending]
IsScalar(s) ==
    /\ s = [style |-> s.style, tag |-> s.tag, value |-> s.value, header |-> s.header, lines |-> s.lines]
    /\ s.header = [marks |-> s.header.marks, suffix |-> s.header.suffix, ending |-> s.header.ending]
    /\ IsSequence(s.lines) /\ \A i \in DOMAIN s.lines : IsLine(s.lines[i])
\* Its line endings are among some.
EndsIn(s, S) == s.header.ending \in S /\ \A i \in DOMAIN s.lines : s.lines[i].ending \in S
\* One scalar is another with other line endings and indentations.
Reshaped(s, m) ==
    /\ IsScalar(s) /\ s.style = m.style /\ s.value = m.value /\ DOMAIN s.lines = DOMAIN m.lines
    /\ s.header.marks = m.header.marks /\ s.header.suffix = m.header.suffix

\* The lines of a scalar, each changed by itself.
LEMMA LinesMapped ==
    ASSUME NEW m, IsScalar(m), NEW new, new = [i \in DOMAIN m.lines |-> new[i]],
           \A i \in DOMAIN m.lines : IsLine(new[i])
    PROVE  IsScalar([m EXCEPT !.lines = new]) /\ Reshaped([m EXCEPT !.lines = new], m)
<1>1. IsSequence(m.lines) BY DEF IsScalar
<1>2. Len(m.lines) \in Nat /\ DOMAIN m.lines = 1..Len(m.lines) BY <1>1, Sequenced
<1>3. IsSequence(new) /\ DOMAIN new = DOMAIN m.lines BY <1>2, OwnMembers
<1> DEFINE s == [m EXCEPT !.lines = new]
<1>4. s = [style |-> m.style, tag |-> m.tag, value |-> m.value, header |-> m.header, lines |-> new]
  BY DEF IsScalar
<1> HIDE DEF s
<1>5. /\ s.style = m.style /\ s.tag = m.tag /\ s.value = m.value /\ s.header = m.header /\ s.lines = new
  BY <1>4
<1>6. IsScalar(s) BY <1>3, <1>4, <1>5 DEF IsScalar
<1>7. Reshaped(s, m) BY <1>3, <1>5, <1>6 DEF Reshaped
<1> QED BY <1>6, <1>7 DEF s

\* Converting line endings leaves two kinds of them.
LEMMA ConvertedEnds ==
    ASSUME NEW m, IsScalar(m), NEW to, EndsIn(m, {"none", "LF", "CRLF", to})
    PROVE  /\ Reshaped(Converted(m, to), m) /\ Converted(m, to).tag = m.tag
           /\ EndsIn(Converted(m, to), {to, "none"})
<1> DEFINE header == [m.header EXCEPT !.ending = Convert(@, to)]
           new == [i \in DOMAIN m.lines |-> [m.lines[i] EXCEPT !.ending = Convert(@, to)]]
           a == [m EXCEPT !.header = header]
<1>1. /\ header = [marks |-> m.header.marks, suffix |-> m.header.suffix, ending |-> Convert(m.header.ending, to)]
      /\ header.marks = m.header.marks /\ header.suffix = m.header.suffix
      /\ header.ending = Convert(m.header.ending, to)
  BY DEF IsScalar
<1>2. ASSUME NEW i \in DOMAIN m.lines
      PROVE  IsLine(new[i]) /\ new[i].ending = Convert(m.lines[i].ending, to)
  <2>1. IsLine(m.lines[i]) BY DEF IsScalar
  <2>2. new[i] = [indent |-> m.lines[i].indent, text |-> m.lines[i].text,
                  ending |-> Convert(m.lines[i].ending, to)] BY <2>1 DEF IsLine
  <2> QED BY <2>2 DEF IsLine
<1>3. new = [i \in DOMAIN m.lines |-> new[i]] OBVIOUS
<1> HIDE DEF header, new
<1>4. a = [style |-> m.style, tag |-> m.tag, value |-> m.value, header |-> header, lines |-> m.lines]
  BY DEF IsScalar
<1> HIDE DEF a
<1>5. /\ a.style = m.style /\ a.tag = m.tag /\ a.value = m.value /\ a.header = header
      /\ a.lines = m.lines BY <1>4
<1>6. IsScalar(a) BY <1>1, <1>4, <1>5 DEF IsScalar
<1>7. DOMAIN a.lines = DOMAIN m.lines BY <1>5
<1>8. IsScalar([a EXCEPT !.lines = new]) /\ Reshaped([a EXCEPT !.lines = new], a)
  BY <1>2, <1>3, <1>6, <1>7, LinesMapped
<1>9. Converted(m, to) = [a EXCEPT !.lines = new]
  <2>1. ConvertedLines(m.lines, to) = new BY DEF ConvertedLines, new
  <2>2. Converted(m, to) = [m EXCEPT !.header.ending = Convert(m.header.ending, to), !.lines = new]
    BY <2>1 DEF Converted
  <2>3. [m EXCEPT !.header.ending = Convert(m.header.ending, to), !.lines = new]
        = [m EXCEPT !.header = header, !.lines = new] BY Zenon DEF header
  <2>4. [m EXCEPT !.header = header, !.lines = new] = [[m EXCEPT !.header = header] EXCEPT !.lines = new]
    OBVIOUS
  <2> QED BY <2>2, <2>3, <2>4 DEF a
<1>10. Converted(m, to).lines = new /\ Converted(m, to).header = header /\ Converted(m, to).tag = m.tag
  BY <1>4, <1>9
<1>11. \A e \in {"none", "LF", "CRLF", to} : Convert(e, to) \in {to, "none"} BY DEF Convert
<1>12. EndsIn(Converted(m, to), {to, "none"})
  <2>1. DOMAIN new = DOMAIN m.lines BY <1>3
  <2>2. header.ending \in {to, "none"} BY <1>1, <1>11 DEF EndsIn
  <2>3. \A i \in DOMAIN m.lines : new[i].ending \in {to, "none"} BY <1>2, <1>11 DEF EndsIn
  <2> QED BY <1>10, <2>1, <2>2, <2>3 DEF EndsIn
<1> QED BY <1>5, <1>1, <1>8, <1>9, <1>10, <1>12 DEF Reshaped

\* Indenting lines changes no ending.
LEMMA IndentedLines ==
    ASSUME NEW m, IsScalar(m), NEW delta
    PROVE  LET s == [m EXCEPT !.lines = Indented(m.lines, delta)] IN
           /\ Reshaped(s, m) /\ s.tag = m.tag /\ s.header = m.header
           /\ \A i \in DOMAIN m.lines : s.lines[i].ending = m.lines[i].ending
<1> DEFINE new == Indented(m.lines, delta)
           s == [m EXCEPT !.lines = new]
<1>1. new = [i \in DOMAIN m.lines |-> new[i]] BY DEF Indented
<1>2. ASSUME NEW i \in DOMAIN m.lines
      PROVE  IsLine(new[i]) /\ new[i].ending = m.lines[i].ending
  <2>1. IsLine(m.lines[i]) BY DEF IsScalar
  <2> DEFINE moved == IF m.lines[i].indent = 0 THEN 0 ELSE m.lines[i].indent + delta
  <2>2. new[i] = [m.lines[i] EXCEPT !.indent = moved] BY DEF Indented
  <2> HIDE DEF moved
  <2>3. new[i] = [indent |-> moved, text |-> m.lines[i].text, ending |-> m.lines[i].ending]
    BY <2>1, <2>2 DEF IsLine
  <2> QED BY <2>3 DEF IsLine
<1> HIDE DEF new
<1>3. IsScalar(s) /\ Reshaped(s, m) BY <1>1, <1>2, LinesMapped
<1>4. s = [style |-> m.style, tag |-> m.tag, value |-> m.value, header |-> m.header, lines |-> new]
  BY DEF IsScalar
<1>5. s.tag = m.tag /\ s.header = m.header /\ s.lines = new BY <1>4
<1> HIDE DEF s
<1>6. Reshaped(s, m) /\ s.tag = m.tag /\ s.header = m.header
      /\ \A i \in DOMAIN m.lines : s.lines[i].ending = m.lines[i].ending
  BY <1>2, <1>3, <1>5
<1> QED BY <1>6 DEF s, new

\* The tag of a scalar is a field of its own.
LEMMA Tagged ==
    ASSUME NEW m, IsScalar(m), NEW tag
    PROVE  LET s == [m EXCEPT !.tag = tag] IN
           Reshaped(s, m) /\ s.tag = tag /\ s.header = m.header /\ s.lines = m.lines
<1> DEFINE s == [m EXCEPT !.tag = tag]
<1>1. s = [style |-> m.style, tag |-> tag, value |-> m.value, header |-> m.header, lines |-> m.lines]
  BY DEF IsScalar
<1>2. /\ s.style = m.style /\ s.tag = tag /\ s.value = m.value /\ s.header = m.header
      /\ s.lines = m.lines BY <1>1
<1> HIDE DEF s
<1>3. IsScalar(s) BY <1>1, <1>2 DEF IsScalar
<1>4. Reshaped(s, m) /\ s.tag = tag /\ s.header = m.header /\ s.lines = m.lines
  BY <1>2, <1>3 DEF Reshaped
<1> QED BY <1>4 DEF s

\* A scalar ends with a line break only if nothing follows that has one.
LEMMA TrimmedEnds ==
    ASSUME NEW place, NEW m, IsScalar(m), NEW S, "none" \in S, EndsIn(m, S)
    PROVE  LET s == Trimmed(place, m) IN
           /\ Reshaped(s, m) /\ s.tag = m.tag /\ EndsIn(s, S)
           /\ EndsWithBreak(s) => After(place) = <<>>
<1> DEFINE s == Trimmed(place, m)
<1> SUFFICES /\ Reshaped(s, m) /\ s.tag = m.tag /\ EndsIn(s, S)
             /\ EndsWithBreak(s) => After(place) = <<>>
  OBVIOUS
<1>0. Reshaped(m, m) BY DEF Reshaped
<1>1. CASE ~EndsWithBreak(m) \/ After(place) = <<>>
  <2>1. s = m BY <1>1 DEF Trimmed
  <2> QED BY <1>0, <1>1, <2>1
<1>2. CASE EndsWithBreak(m) /\ After(place) # <<>> /\ m.lines = <<>>
  <2> DEFINE header == [m.header EXCEPT !.ending = "none"]
  <2>1. s = [m EXCEPT !.header.ending = "none"] BY <1>2 DEF Trimmed
  <2>2. s = [m EXCEPT !.header = header] BY <2>1
  <2>3. header = [marks |-> m.header.marks, suffix |-> m.header.suffix, ending |-> "none"]
    BY DEF IsScalar
  <2> HIDE DEF header
  <2>4. s = [style |-> m.style, tag |-> m.tag, value |-> m.value, header |-> header, lines |-> m.lines]
    BY <2>2 DEF IsScalar
  <2>5. header.marks = m.header.marks /\ header.suffix = m.header.suffix /\ header.ending = "none"
    BY <2>3
  <2> HIDE DEF s
  <2>6. /\ s.style = m.style /\ s.tag = m.tag /\ s.value = m.value /\ s.header = header
        /\ s.lines = m.lines BY <2>4
  <2>7. IsScalar(s) BY <2>3, <2>4, <2>5, <2>6 DEF IsScalar
  <2>8. Reshaped(s, m) BY <2>5, <2>6, <2>7 DEF Reshaped
  <2>9. EndsIn(s, S) BY <2>5, <2>6 DEF EndsIn
  <2>10. ~EndsWithBreak(s) BY <1>2, <2>5, <2>6 DEF EndsWithBreak
  <2> QED BY <2>6, <2>8, <2>9, <2>10
<1>3. CASE EndsWithBreak(m) /\ After(place) # <<>> /\ m.lines # <<>>
  <2> DEFINE n == Len(m.lines)
             last == [m.lines[n] EXCEPT !.ending = "none"]
             new == [m.lines EXCEPT ![n] = last]
  <2>1. IsSequence(m.lines) BY DEF IsScalar
  <2>2. n \in Nat /\ DOMAIN m.lines = 1..n /\ m.lines = [i \in 1..n |-> m.lines[i]]
    BY <2>1, Sequenced
  <2>3. n \in 1..n
    <3>1. CASE n = 0
      <4>1. m.lines = <<>> BY <2>1, <3>1, EmptySeq DEF IsSequence
      <4> QED BY <1>3, <4>1
    <3> QED BY <2>2, <3>1
  <2>4. s = [m EXCEPT !.lines[n].ending = "none"] BY <1>3 DEF Trimmed
  <2>5. s = [m EXCEPT !.lines = new] BY <2>4
  <2>6. IsLine(m.lines[n]) BY <2>2, <2>3 DEF IsScalar
  <2>7. last = [indent |-> m.lines[n].indent, text |-> m.lines[n].text, ending |-> "none"]
    BY <2>6 DEF IsLine
  <2>8. IsLine(last) /\ last.ending = "none" BY <2>7 DEF IsLine
  <2> HIDE DEF last, n
  <2>9. DOMAIN new = DOMAIN m.lines /\ \A i \in DOMAIN m.lines : new[i] = IF i = n THEN last ELSE m.lines[i]
    BY <2>2, <2>3
  <2>10. new = [i \in DOMAIN m.lines |-> new[i]] BY <2>2
  <2> HIDE DEF new, s
  <2>11. \A i \in DOMAIN m.lines : IsLine(new[i]) BY <2>8, <2>9 DEF IsScalar
  <2>12. Reshaped(s, m) BY <2>5, <2>10, <2>11, LinesMapped
  <2>13. s = [style |-> m.style, tag |-> m.tag, value |-> m.value, header |-> m.header, lines |-> new]
    BY <2>5 DEF IsScalar
  <2>14. s.tag = m.tag /\ s.lines = new /\ s.header = m.header BY <2>13
  <2>15. EndsIn(s, S) BY <2>8, <2>9, <2>14 DEF EndsIn
  <2>16. ~EndsWithBreak(s)
    <3>1. IsSequence(new) /\ Len(new) = n BY <2>2, <2>9, <2>10, OwnMembers
    <3>2. Last(new) = last BY <2>2, <2>3, <2>9, <3>1 DEF Last
    <3>3. new # <<>> BY <2>3, <3>1
    <3> QED BY <2>8, <2>14, <3>2, <3>3 DEF EndsWithBreak
  <2> QED BY <2>12, <2>14, <2>15, <2>16
<1> QED BY <1>1, <1>2, <1>3

\* A generated block has the header comment of an original block of its style, and the
\* line ending of its place.
LEMMA PresentedFits ==
    ASSUME NEW place, NEW m, IsScalar(m), EndsIn(m, {"none", "LF"})
    PROVE  /\ IsScalar(Presented(place, m)) /\ Presented(place, m).style = m.style
           /\ EndsIn(Presented(place, m), {"none", "LF", "CRLF", LineEnding(place)})
           /\ (m.style \in Block /\ place.scalar.style = m.style) =>
                 Presented(place, m).header.suffix = place.scalar.header.suffix
<1> DEFINE S == {"none", "LF", "CRLF", LineEnding(place)}
<1>1. CASE m.style \in Inline
  <2>1. Presented(place, m) = m BY <1>1 DEF Presented
  <2>2. m.style \notin Block BY <1>1 DEF Inline, Block
  <2>3. EndsIn(m, S) BY DEF EndsIn
  <2> QED BY <2>1, <2>2, <2>3
<1>2. CASE m.style \notin Inline
  <2> DEFINE matching == place.scalar.style = m.style
             preferred == IF matching THEN place.scalar ELSE m
             indentation == IF Indentation(preferred) # 0 THEN Indentation(preferred) ELSE Indentation(m)
             base == IF Indentation(m) = 0 THEN 2 ELSE Indentation(m)
             desired == IF indentation = 0 THEN base ELSE indentation
             ending == IF matching THEN preferred.header.ending ELSE LineEnding(place)
             chomp == IF ChompingFor(place.value) = "clip" THEN <<>> ELSE <<ChompingFor(place.value)>>
             indent == IF indentation = 0 THEN <<>> ELSE <<Name(indentation)>>
             header == [marks |-> IF ChompingFirst(preferred) THEN chomp \o indent ELSE indent \o chomp,
                        suffix |-> preferred.header.suffix, ending |-> ending]
             moved == Indented(m.lines, desired - base)
             new == [i \in DOMAIN moved |-> [moved[i] EXCEPT !.ending = ending]]
             s == Presented(place, m)
  <2>1. s = [m EXCEPT !.header = header, !.lines = new] BY <1>2, Zenon DEF Presented
  <2>2. ending \in S
    <3>1. matching => ending = place.scalar.header.ending OBVIOUS
    <3>2. place.scalar.header.ending # "none" => LineEnding(place) = place.scalar.header.ending
      BY DEF LineEnding, DocumentEnding
    <3> QED BY <3>1, <3>2
  <2>3. matching => header.suffix = place.scalar.header.suffix OBVIOUS
  <2>4. header = [marks |-> header.marks, suffix |-> header.suffix, ending |-> ending]
        /\ header.ending = ending OBVIOUS
  <2> HIDE DEF ending, header, base, desired
  <2> DEFINE a == [m EXCEPT !.lines = moved]
  <2>5. Reshaped(a, m) BY IndentedLines
  <2>6. a = [style |-> m.style, tag |-> m.tag, value |-> m.value, header |-> m.header, lines |-> moved]
    BY DEF IsScalar
  <2>7. a.lines = moved BY <2>6
  <2>8. DOMAIN moved = DOMAIN m.lines /\ \A i \in DOMAIN m.lines : IsLine(moved[i])
    BY <2>5, <2>7 DEF Reshaped, IsScalar
  <2> HIDE DEF moved, a
  <2>10. new = [i \in DOMAIN m.lines |-> new[i]] BY <2>8
  <2> HIDE DEF new, s, matching, preferred, indentation, chomp, indent
  <2>9. ASSUME NEW i \in DOMAIN m.lines PROVE IsLine(new[i]) /\ new[i].ending = ending
    <3>1. new[i] = [moved[i] EXCEPT !.ending = ending] BY <2>8 DEF new
    <3>2. new[i] = [indent |-> moved[i].indent, text |-> moved[i].text, ending |-> ending]
      BY <2>8, <3>1 DEF IsLine
    <3> QED BY <3>2 DEF IsLine
  <2> DEFINE b == [m EXCEPT !.header = header]
  <2>11. b = [style |-> m.style, tag |-> m.tag, value |-> m.value, header |-> header, lines |-> m.lines]
    BY DEF IsScalar
  <2> HIDE DEF b
  <2>12. b.style = m.style /\ b.tag = m.tag /\ b.value = m.value /\ b.header = header /\ b.lines = m.lines
    BY <2>11
  <2>13. IsScalar(b) BY <2>4, <2>11, <2>12 DEF IsScalar
  <2>14. new = [i \in DOMAIN b.lines |-> new[i]] /\ \A i \in DOMAIN b.lines : IsLine(new[i])
    BY <2>9, <2>10, <2>12
  <2>15. s = [b EXCEPT !.lines = new]
    <3>1. [m EXCEPT !.header = header, !.lines = new] = [[m EXCEPT !.header = header] EXCEPT !.lines = new]
      OBVIOUS
    <3> QED BY <2>1, <3>1 DEF b
  <2>16. Reshaped(s, b) BY <2>13, <2>14, <2>15, LinesMapped
  <2>17. s = [style |-> m.style, tag |-> m.tag, value |-> m.value, header |-> header, lines |-> new]
    BY <2>11, <2>15
  <2>18. s.header = header /\ s.lines = new /\ s.style = m.style BY <2>17
  <2>19. EndsIn(s, S)
    <3>1. DOMAIN new = DOMAIN m.lines BY <2>10
    <3> QED BY <2>2, <2>4, <2>9, <2>18, <3>1 DEF EndsIn
  <2> QED BY <2>3, <2>16, <2>18, <2>19 DEF Reshaped, s, matching
<1> QED BY <1>1, <1>2

\* Whatever is put in a place has its tag and its line ending, once at its end.
LEMMA CandidateFits ==
    ASSUME NEW place, NEW m, IsScalar(m), EndsIn(m, {"none", "LF", "CRLF", LineEnding(place)})
    PROVE  /\ Reshaped(Candidate(place, m), m)
           /\ Candidate(place, m).tag = place.scalar.tag
           /\ OneEnding(place, Candidate(place, m))
<1> DEFINE to == LineEnding(place)
           a == Converted(m, to)
           b == [a EXCEPT !.tag = place.scalar.tag]
           c == Rebased(place, b)
           d == Trimmed(place, c)
<1>1. Candidate(place, m) = d BY DEF Candidate
<1>2. Reshaped(a, m) /\ IsScalar(a) /\ EndsIn(a, {to, "none"}) BY ConvertedEnds DEF Reshaped
<1> HIDE DEF a, to
<1>3. Reshaped(b, a) /\ b.tag = place.scalar.tag /\ b.header = a.header /\ b.lines = a.lines
  BY <1>2, Tagged
<1>4. IsScalar(b) /\ EndsIn(b, {to, "none"}) BY <1>2, <1>3 DEF EndsIn, Reshaped
<1> HIDE DEF b
<1>5. /\ Reshaped(c, b) /\ c.tag = b.tag /\ c.header = b.header
      /\ \A i \in DOMAIN b.lines : c.lines[i].ending = b.lines[i].ending
  BY <1>4, IndentedLines DEF Rebased
<1>6. IsScalar(c) /\ EndsIn(c, {to, "none"}) BY <1>4, <1>5 DEF EndsIn, Reshaped
<1> HIDE DEF c
<1>7. /\ Reshaped(d, c) /\ d.tag = c.tag /\ EndsIn(d, {to, "none"})
      /\ EndsWithBreak(d) => After(place) = <<>>
  BY <1>6, TrimmedEnds
<1> HIDE DEF d
<1>8. Reshaped(d, m) BY <1>2, <1>3, <1>5, <1>7 DEF Reshaped
<1>9. OneEnding(place, d)
  <2>1. {d.header.ending} \cup {d.lines[i].ending : i \in DOMAIN d.lines} \subseteq {to, "none"}
    BY <1>7 DEF EndsIn
  <2> QED BY <1>7, <2>1 DEF OneEnding, to
<1> QED BY <1>1, <1>3, <1>5, <1>7, <1>8, <1>9

\* The serializer's blocks are scalars with one kind of line ending.
Text == Seq(STRING \cup {"a"})

\* What is left of a sequence without its last member.
LEMMA FrontOf ==
    ASSUME NEW S, NEW s \in Seq(S), s # <<>>
    PROVE  Front(s) \in Seq(S) /\ Last(s) \in S
<1>1. Len(s) \in Nat /\ Len(s) # 0 /\ DOMAIN s = 1..Len(s)
  <2>1. Len(s) # 0 BY EmptySeq
  <2> QED BY <2>1
<1>2. Last(s) \in S BY <1>1 DEF Last
<1>3. \A i \in 1..(Len(s) - 1) : s[i] \in S BY <1>1
<1>4. SubSeq(s, 1, Len(s) - 1) \in Seq(S) BY <1>1, <1>3, SubSeqProperties
<1> QED BY <1>2, <1>4 DEF Front

\* A value without its last break is a text still.
LEMMA WithoutLastBreakIsText ==
    ASSUME NEW value \in Seq(Text) PROVE WithoutLastBreak(value) \in Seq(Text)
<1> DEFINE f == Front(value)
<1>1. CASE Len(value) > 1 /\ Last(value) = <<>>
  <2>1. value # <<>> BY <1>1
  <2>2. f \in Seq(Text) BY <2>1, FrontOf
  <2>3. f # <<>>
    <3>1. Len(f) = Len(value) - 1 BY <1>1, SubSeqProperties DEF Front
    <3> QED BY <1>1, <3>1
  <2> HIDE DEF f
  <2>4. Front(f) \in Seq(Text) /\ Last(f) \in Text BY <2>2, <2>3, FrontOf
  <2>5. CASE Last(f) # <<>> /\ Last(Last(f)) = "CR"
    <3>1. Front(Last(f)) \in Text BY <2>4, <2>5, FrontOf DEF Text
    <3>2. <<Front(Last(f))>> \in Seq(Text) BY <3>1
    <3>3. Front(f) \o <<Front(Last(f))>> \in Seq(Text) BY <2>4, <3>2, ConcatProperties
    <3> QED BY <1>1, <2>5, <3>3 DEF WithoutLastBreak, f
  <2>6. CASE ~(Last(f) # <<>> /\ Last(Last(f)) = "CR")
    BY <1>1, <2>2, <2>6 DEF WithoutLastBreak, f
  <2> QED BY <2>5, <2>6
<1>2. CASE ~(Len(value) > 1 /\ Last(value) = <<>>) BY <1>2 DEF WithoutLastBreak
<1> QED BY <1>1, <1>2

\* Folding adds blank lines to a text.
LEMMA FoldedLinesIsText ==
    ASSUME NEW lines \in Seq(Text) PROVE FoldedLines(lines) \in Seq(Text)
<1> DEFINE later(i) == lines[i] # <<>> /\ \E j \in 1..(i - 1) : lines[j] # <<>>
           parts == [i \in DOMAIN lines |-> IF later(i) THEN <<<<>>, lines[i]>> ELSE <<lines[i]>>]
<1>1. FoldedLines(lines) = FlattenSeq(parts) BY DEF FoldedLines
<1> HIDE DEF later
<1>2. parts \in Seq(Seq(Text))
  <2>1. ASSUME NEW i \in DOMAIN lines PROVE parts[i] \in Seq(Text)
    <3>1. lines[i] \in Text /\ <<>> \in Text BY DEF Text
    <3>2. <<lines[i]>> \in Seq(Text) /\ <<<<>>, lines[i]>> \in Seq(Text) BY <3>1
    <3> QED BY <3>2
  <2>2. DOMAIN lines = 1..Len(lines) /\ Len(lines) \in Nat OBVIOUS
  <2>3. parts = [i \in 1..Len(lines) |-> parts[i]] BY <2>2
  <2> HIDE DEF parts
  <2> QED BY <2>1, <2>2, <2>3
<1> HIDE DEF parts
<1>3. FlattenSeq(parts) \in Seq(Text)
  <2>1. <<>> \in Seq(Text) OBVIOUS
  <2> QED BY <1>2, <2>1, FlattenAppended
<1> QED BY <1>1, <1>3

\* A block that the serializer writes is one of its style, with LF.
LEMMA BlockMade ==
    ASSUME NEW style, NEW value \in Seq(Text)
    PROVE  /\ IsScalar(AsBlock(style, value)) /\ AsBlock(style, value).style = style
           /\ EndsIn(AsBlock(style, value), {"none", "LF"})
<1> DEFINE lines == IF style = "folded" THEN FoldedLines(WithoutLastBreak(value))
                    ELSE IF Len(value) > 1 /\ Last(value) = <<>> THEN Front(value) ELSE value
           full == {i \in DOMAIN lines : lines[i] # <<>>}
           spaced == full # {} /\ lines[Min(full)][1] = "SP"
           chomp == ChompingFor(value)
           header == [marks |-> (IF spaced THEN <<"2">> ELSE <<>>)
                                \o (IF chomp = "clip" \/ style = "folded" THEN <<>> ELSE <<chomp>>),
                      suffix |-> "none", ending |-> "LF"]
           new == [i \in DOMAIN lines |-> [indent |-> IF i \in full THEN SourceColumn + 2 ELSE 0,
                                           text |-> lines[i], ending |-> "LF"]]
           s == AsBlock(style, value)
<1>1. s = BlockScalar(style, header, new) BY DEF AsBlock
<1>2. lines \in Seq(Text)
  <2>1. FoldedLines(WithoutLastBreak(value)) \in Seq(Text) BY WithoutLastBreakIsText, FoldedLinesIsText
  <2>2. Len(value) > 1 => Front(value) \in Seq(Text) BY FrontOf
  <2> QED BY <2>1, <2>2
<1> HIDE DEF lines, spaced, chomp
<1>3. DOMAIN lines = 1..Len(lines) /\ Len(lines) \in Nat BY <1>2
<1>4. header = [marks |-> header.marks, suffix |-> header.suffix, ending |-> header.ending]
      /\ header.ending = "LF" OBVIOUS
<1>5. \A i \in DOMAIN lines : IsLine(new[i]) /\ new[i].ending = "LF" BY DEF IsLine
<1>6. new = [i \in 1..Len(lines) |-> new[i]] BY <1>3
<1> HIDE DEF header, full, new, s
<1>7. IsSequence(new) /\ DOMAIN new = DOMAIN lines BY <1>3, <1>6, OwnMembers
<1>8. s = [style |-> style, tag |-> FALSE, value |-> <<>>, header |-> header, lines |-> new]
  BY <1>1 DEF BlockScalar
<1>9. s.style = style /\ s.tag = FALSE /\ s.value = <<>> /\ s.header = header /\ s.lines = new
  BY <1>8
<1>10. IsScalar(s) BY <1>4, <1>5, <1>7, <1>8, <1>9 DEF IsScalar
<1>11. EndsIn(s, {"none", "LF"}) BY <1>4, <1>5, <1>7, <1>9 DEF EndsIn
<1> QED BY <1>9, <1>10, <1>11 DEF s

\* An inline scalar has no header and no lines.
LEMMA InlineMade ==
    ASSUME NEW style, NEW value
    PROVE  LET s == InlineScalar(style, value) IN
           /\ IsScalar(s) /\ EndsIn(s, {"none", "LF"})
           /\ s.style = style /\ s.value = value /\ s.lines = <<>> /\ s.header = NoHeader
<1> DEFINE s == InlineScalar(style, value)
<1>1. s = [style |-> style, tag |-> FALSE, value |-> value, header |-> NoHeader, lines |-> <<>>]
  BY DEF InlineScalar
<1>2. /\ s.style = style /\ s.tag = FALSE /\ s.value = value /\ s.header = NoHeader /\ s.lines = <<>>
  BY <1>1
<1>3. NoHeader = [marks |-> NoHeader.marks, suffix |-> NoHeader.suffix, ending |-> NoHeader.ending]
      /\ NoHeader.ending = "none" BY DEF NoHeader
<1>4. IsSequence(<<>>) /\ DOMAIN <<>> = {} BY DEF IsSequence
<1> HIDE DEF s
<1>5. IsScalar(s) BY <1>1, <1>2, <1>3, <1>4 DEF IsScalar
<1>6. EndsIn(s, {"none", "LF"}) BY <1>2, <1>3, <1>4 DEF EndsIn
<1> QED BY <1>2, <1>5, <1>6 DEF s

\* A serializer asked for a block makes one, a wrong one too.
LEMMA EncodingMade ==
    ASSUME NEW place, place.value \in Seq(Text), place.value # <<>>, NEW style
    PROVE  /\ IsScalar(Encoding(style, place)) /\ EndsIn(Encoding(style, place), {"none", "LF"})
           /\ style \in Block => Encoding(style, place).style = style
<1>1. ASSUME NEW value \in Seq(Text)
      PROVE  /\ IsScalar(Written(style, value, place.flow))
             /\ EndsIn(Written(style, value, place.flow), {"none", "LF"})
             /\ style \in Block => Written(style, value, place.flow).style = style
  <2> DEFINE other == IF Len(value) = 1 /\ PlainSafe(value[1], FALSE) THEN "plain" ELSE "double"
  <2>1. CASE style \in Block BY <2>1, BlockMade DEF Written
  <2>2. CASE style \notin Block /\ style # "plain" BY <2>2, InlineMade DEF Written
  <2>3. CASE style = "plain" /\ Len(value) > 1 /\ ~place.flow
    <3>1. style \notin Block BY <2>3 DEF Block
    <3> QED BY <2>3, <3>1, BlockMade DEF Written
  <2>4. CASE style = "plain" /\ ~(Len(value) > 1 /\ ~place.flow)
    <3>1. style \notin Block BY <2>4 DEF Block
    <3>2. Written(style, value, place.flow) = InlineScalar(other, value) BY <2>4, <3>1 DEF Written
    <3> HIDE DEF other
    <3> QED BY <3>1, <3>2, InlineMade
  <2> QED BY <2>1, <2>2, <2>3, <2>4
<1>2. <<<<"a">>>> \o Tail(place.value) \in Seq(Text)
  <2>1. <<"a">> \in Text BY DEF Text
  <2>2. <<<<"a">>>> \in Seq(Text) BY <2>1
  <2>3. Tail(place.value) \in Seq(Text) OBVIOUS
  <2> QED BY <2>2, <2>3, ConcatProperties
<1>3. CASE codec = "wrong"
  <2>1. Encoding(style, place) = Written(style, <<<<"a">>>> \o Tail(place.value), place.flow)
    BY <1>3 DEF Encoding
  <2> QED BY <1>1, <1>2, <2>1
<1>4. CASE codec # "wrong"
  <2>1. Encoding(style, place) = Written(style, place.value, place.flow) BY <1>4 DEF Encoding
  <2> QED BY <1>1, <2>1
<1> QED BY <1>3, <1>4

\* What the wrapper reads is what a reader of the file reads, unless it depends on more
\* line breaks than the wrapper has, or on text on the same line.
LEMMA BreaksKept ==
    ASSUME NEW s, IsScalar(s), NEW S, NEW breaks \in Seq(S),
           Len(breaks) > 1 => Chomping(s) # "+"
    PROVE  KeptBreaks(s, SubSeq(breaks, 1, Min({1, Len(breaks)}))) = KeptBreaks(s, breaks)
<1> DEFINE boundary == SubSeq(breaks, 1, Min({1, Len(breaks)}))
           whole == Whole(s)
           lines == {i \in DOMAIN s.lines : i >= whole /\ s.lines[i].ending # "none"}
<1>1. Len(breaks) \in Nat OBVIOUS
<1>2. CASE Len(breaks) <= 1
  <2>1. Len(breaks) = 0 => boundary = breaks
    <3> SUFFICES ASSUME Len(breaks) = 0 PROVE boundary = breaks OBVIOUS
    <3>1. Min({1, Len(breaks)}) = 0 BY DEF Min
    <3>2. breaks = <<>> BY EmptySeq
    <3>3. boundary = <<>> BY <3>1, <3>2
    <3> HIDE DEF boundary
    <3> QED BY <3>2, <3>3
  <2>2. Len(breaks) = 1 => boundary = breaks
    <3> SUFFICES ASSUME Len(breaks) = 1 PROVE boundary = breaks OBVIOUS
    <3>1. Min({1, Len(breaks)}) = 1 BY DEF Min
    <3>2. boundary = SubSeq(breaks, 1, Len(breaks)) BY <3>1
    <3>3. boundary = breaks BY <3>2, SubSeqFull
    <3> QED BY <3>3
  <2> HIDE DEF boundary, whole, lines
  <2>3. Len(breaks) = 0 \/ Len(breaks) = 1
    <3>1. ASSUME NEW n \in Nat, n <= 1 PROVE n = 0 \/ n = 1 BY <3>1
    <3> QED BY <1>1, <1>2, <3>1
  <2>4. boundary = breaks BY <2>1, <2>2, <2>3
  <2>5. KeptBreaks(s, boundary) = KeptBreaks(s, breaks) BY <2>4
  <2> QED BY <2>5 DEF boundary
<1>3. CASE Len(breaks) > 1
  <2>1. Min({1, Len(breaks)}) = 1
    <3>1. \E x \in {1, Len(breaks)} : \A y \in {1, Len(breaks)} : x <= y BY <1>1, <1>3
    <3>2. Min({1, Len(breaks)}) \in {1, Len(breaks)}
          /\ \A y \in {1, Len(breaks)} : Min({1, Len(breaks)}) <= y BY <3>1 DEF Min
    <3> QED BY <1>1, <1>3, <3>2
  <2>2. Len(boundary) = 1 /\ boundary # <<>> /\ breaks # <<>>
    <3>1. Len(boundary) = 1 BY <1>1, <1>3, <2>1, SubSeqProperties
    <3>2. Len(<<>>) = 0 BY EmptySeq
    <3>3. breaks # <<>> BY <1>3, <3>2
    <3> HIDE DEF boundary
    <3>4. boundary # <<>> BY <3>1, <3>2
    <3> QED BY <3>1, <3>3, <3>4
  <2>3. Chomping(s) # "+" BY <1>3
  <2>4. Cardinality(lines) \in Nat
    <3>1. IsSequence(s.lines) BY DEF IsScalar
    <3>2. DOMAIN s.lines = 1..Len(s.lines) /\ Len(s.lines) \in Nat BY <3>1, Sequenced
    <3>3. IsFiniteSet(1..Len(s.lines)) BY <3>2, FS_Interval
    <3>4. lines \subseteq 1..Len(s.lines) BY <3>2
    <3>5. IsFiniteSet(lines) BY <3>3, <3>4, FS_Subset
    <3> QED BY <3>5, FS_CardinalityType
  <2> HIDE DEF boundary
  <2> DEFINE ended(b) == Cardinality(lines) + Len(b)
                         - (IF whole = 0 /\ s.header.ending = "none" /\ b # <<>> THEN 1 ELSE 0)
  <2>5. ASSUME NEW b
        PROVE  KeptBreaks(s, b) = CASE Chomping(s) = "-" -> 0
                                    [] Chomping(s) = "+" -> ended(b)
                                    [] OTHER -> IF whole = 0 \/ ended(b) = 0 THEN 0 ELSE 1
    BY Zenon DEF KeptBreaks
  <2> HIDE DEF lines, whole
  <2>6. CASE Chomping(s) = "-"
    <3>1. ASSUME NEW b PROVE KeptBreaks(s, b) = 0 BY <2>5, <2>6
    <3> QED BY <3>1 DEF boundary
  <2>7. CASE Chomping(s) # "-" /\ whole = 0
    <3>1. ASSUME NEW b PROVE KeptBreaks(s, b) = 0 BY <2>3, <2>5, <2>7
    <3> QED BY <3>1 DEF boundary
  <2>8. CASE Chomping(s) # "-" /\ whole # 0
    <3>1. ASSUME NEW b, Len(b) \in Nat, Len(b) > 0 PROVE KeptBreaks(s, b) = 1
      <4>1. ended(b) # 0 BY <2>4, <2>8, <3>1
      <4> QED BY <2>3, <2>5, <2>8, <4>1
    <3>2. KeptBreaks(s, boundary) = 1 BY <2>2, <3>1
    <3>3. KeptBreaks(s, breaks) = 1 BY <1>3, <3>1
    <3> QED BY <3>2, <3>3 DEF boundary
  <2> QED BY <2>6, <2>7, <2>8
<1> QED BY <1>1, <1>2, <1>3

\* A text that is safe on its own is safe in a flow collection if it has no comma.
LEMMA FlowSafe ==
    ASSUME NEW text, PlainSafe(text, FALSE), ~HoldsAny(text, {"COMMA"})
    PROVE  PlainSafe(text, TRUE)
BY DEF PlainSafe, HoldsAny

\* What reads right in the wrapper reads right in its place, unless it is ambiguous there.
LEMMA CertifiedExact ==
    ASSUME NEW place, place.value # <<>>, After(place) \in Seq(STRING), place.flow \in BOOLEAN,
           NEW s, IsScalar(s), Certified(place, s)
    PROVE  AtPlace(place, s) = place.value \/ Ambiguous(place, s)
<1> SUFFICES ASSUME ~Ambiguous(place, s) PROVE AtPlace(place, s) = place.value OBVIOUS
<1> DEFINE boundary == SubSeq(After(place), 1, Min({1, Len(After(place))}))
           column == IF place.flow THEN 4 ELSE place.column
<1>1. AtPlace(place, s) = Reads(s, place.column, place.flow, After(place)) BY DEF AtPlace, Ambiguous
<1>2. Reads(s, column, FALSE, boundary) = place.value /\ (place.flow => Closed(s))
  BY Zenon DEF Certified
<1>3. CASE s.style \in Block
  <2>1. ~place.flow BY <1>2, <1>3 DEF Closed, Block
  <2>2. KeptBreaks(s, boundary) = KeptBreaks(s, After(place))
    <3>1. Len(After(place)) > 1 => Chomping(s) # "+" BY DEF Ambiguous
    <3> QED BY <3>1, BreaksKept
  <2> HIDE DEF boundary
  <2>3. Reads(s, place.column, FALSE, boundary) = place.value BY <1>2, <2>1
  <2>4. BlockValue(s, place.column, boundary) = place.value BY <1>3, <2>3 DEF Reads
  <2>5. BlockValue(s, place.column, After(place)) = place.value BY <2>2, <2>4 DEF BlockValue
  <2> QED BY <1>1, <1>3, <2>1, <2>5 DEF Reads
<1>4. CASE s.style \notin Block
  <2> HIDE DEF boundary, column
  <2>1. InlineHolds(s.style, s.value, FALSE) /\ s.value = place.value
    BY <1>2, <1>4 DEF Reads, Unreadable
  <2>2. InlineHolds(s.style, s.value, place.flow)
    <3>1. CASE ~place.flow BY <2>1, <3>1
    <3>2. CASE s.style = "double" BY <3>2 DEF InlineHolds
    <3>3. CASE s.style = "single" BY <2>1, <3>3 DEF InlineHolds
    <3>4. CASE place.flow /\ s.style # "double" /\ s.style # "single"
      <4>1. s.style = "plain" /\ ~HoldsAny(s.value[1], {"COMMA"}) BY <1>2, <3>4 DEF Closed
      <4>2. Len(s.value) = 1 /\ PlainSafe(s.value[1], FALSE) BY <2>1, <3>4 DEF InlineHolds
      <4>3. PlainSafe(s.value[1], TRUE) BY <4>1, <4>2, FlowSafe
      <4> QED BY <3>4, <4>2, <4>3 DEF InlineHolds
    <3> QED BY <3>1, <3>2, <3>3, <3>4
  <2> QED BY <1>1, <1>4, <2>1, <2>2 DEF Reads
<1> QED BY <1>3, <1>4

\* The double-quoted scalar of a serializer that is right is exact anywhere.
LEMMA FallbackCertified ==
    ASSUME NEW place, place.value # <<>>, codec = "right"
    PROVE  Certified(place, Fallback(place))
<1> DEFINE m == InlineScalar("double", place.value)
           s == Fallback(place)
<1>1. Encoding("double", place) = m BY DEF Encoding, Written, Block
<1>2. IsScalar(m) /\ EndsIn(m, {"none", "LF"}) /\ m.style = "double" /\ m.value = place.value /\ m.lines = <<>>
  BY InlineMade
<1> HIDE DEF m
<1>3. EndsIn(m, {"none", "LF", "CRLF", LineEnding(place)}) BY <1>2 DEF EndsIn
<1>4. Reshaped(s, m) BY <1>1, <1>2, <1>3, CandidateFits DEF Fallback
<1> HIDE DEF s
<1>5. s.style = "double" /\ s.value = place.value /\ DOMAIN s.lines = {} BY <1>2, <1>4 DEF Reshaped
<1>6. ~Dedented(s) BY <1>5 DEF Dedented
<1>7. Closed(s) BY <1>5 DEF Closed
<1>8. InlineHolds(s.style, s.value, FALSE) BY <1>5 DEF InlineHolds
<1>9. ASSUME NEW column, NEW breaks PROVE Reads(s, column, FALSE, breaks) = place.value
  BY <1>5, <1>8 DEF Reads, Block
<1> QED BY <1>6, <1>7, <1>9 DEF Certified, s

\* What replaces a code keeps its place.
LEMMA PlaceTyped ==
    ASSUME NEW place, IsPlace(place)
    PROVE  /\ place.value \in Seq(Text) /\ place.value # <<>> /\ After(place) \in Seq(STRING)
           /\ place.flow \in BOOLEAN /\ place.from \in Nat /\ place.to \in Nat
           /\ place.scalar.header.suffix = "comment" =>
                 place.scalar.style \in Block /\ place.scalar.style # "single"
<1>1. place \in CodeNode /\ place.value # <<>> BY DEF IsPlace
<1>2. /\ place.value \in Seq(Seq(STRING)) /\ place.breaks \in Seq(STRING) /\ place.flow \in BOOLEAN
      /\ place.from \in Nat /\ place.to \in Nat /\ place.scalar \in Scalar
  BY <1>1 DEF CodeNode
<1>3. place.value \in Seq(Text)
  <2>1. Seq(STRING) \subseteq Text BY DEF Text
  <2> QED BY <1>2, <2>1
<1>4. After(place) \in Seq(STRING)
  <2>1. <<>> \in Seq(STRING) BY EmptySeq
  <2>2. After(place) = <<>> \/ After(place) = place.breaks BY DEF After
  <2> QED BY <1>2, <2>1, <2>2
<1>5. ASSUME place.scalar.header.suffix = "comment"
      PROVE  place.scalar.style \in Block /\ place.scalar.style # "single"
  <2>1. place.scalar.style \in Inline \cup Block BY <1>2 DEF Scalar
  <2>2. place.scalar.style \notin Inline
    <3>1. NoHeader.suffix = "none" BY DEF NoHeader
    <3> QED BY <1>5, <3>1 DEF IsPlace
  <2> QED BY <2>1, <2>2 DEF Inline, Block
<1> QED BY <1>1, <1>2, <1>3, <1>4, <1>5

\* The preferred scalar keeps its place.
LEMMA PreferredKeeps ==
    ASSUME NEW place, IsPlace(place), Certified(place, Preferred(place))
    PROVE  KeepsPlace(place, Preferred(place))
<1> DEFINE made == Encoding(place.scalar.style, place)
           m == Presented(place, made)
           s == Candidate(place, m)
<1>1. Preferred(place) = s BY DEF Preferred
<1>2. /\ place.value \in Seq(Text) /\ place.value # <<>> /\ After(place) \in Seq(STRING)
      /\ place.flow \in BOOLEAN
      /\ place.scalar.header.suffix = "comment" => place.scalar.style \in Block
  BY PlaceTyped
<1>3. /\ IsScalar(made) /\ EndsIn(made, {"none", "LF"})
      /\ place.scalar.style \in Block => made.style = place.scalar.style
  BY <1>2, EncodingMade
<1> HIDE DEF made
<1>4. /\ IsScalar(m) /\ EndsIn(m, {"none", "LF", "CRLF", LineEnding(place)})
      /\ (made.style \in Block /\ place.scalar.style = made.style) =>
            m.header.suffix = place.scalar.header.suffix
  BY <1>3, PresentedFits
<1> HIDE DEF m
<1>5. Reshaped(s, m) /\ s.tag = place.scalar.tag /\ OneEnding(place, s) BY <1>4, CandidateFits
<1>6. Certified(place, s) BY <1>1
<1> HIDE DEF s
<1>7. AtPlace(place, s) = place.value \/ Ambiguous(place, s)
  BY <1>2, <1>5, <1>6, CertifiedExact DEF Reshaped
<1>8. place.scalar.header.suffix = "comment" => s.header.suffix = "comment"
  BY <1>2, <1>3, <1>4, <1>5 DEF Reshaped
<1> QED BY <1>1, <1>5, <1>7, <1>8 DEF KeepsPlace

\* So does the fallback; there is no header comment to lose.
LEMMA FallbackKeeps ==
    ASSUME NEW place, IsPlace(place), Certified(place, Fallback(place)),
           place.scalar.header.suffix # "comment"
    PROVE  KeepsPlace(place, Fallback(place))
<1> DEFINE m == Encoding("double", place)
           s == Candidate(place, m)
<1>1. Fallback(place) = s BY DEF Fallback
<1>2. /\ place.value \in Seq(Text) /\ place.value # <<>> /\ After(place) \in Seq(STRING)
      /\ place.flow \in BOOLEAN
  BY PlaceTyped
<1>3. IsScalar(m) /\ EndsIn(m, {"none", "LF"}) BY <1>2, EncodingMade
<1>4. EndsIn(m, {"none", "LF", "CRLF", LineEnding(place)}) BY <1>3 DEF EndsIn
<1> HIDE DEF m
<1>5. Reshaped(s, m) /\ s.tag = place.scalar.tag /\ OneEnding(place, s) BY <1>3, <1>4, CandidateFits
<1>6. Certified(place, s) BY <1>1
<1> HIDE DEF s
<1>7. AtPlace(place, s) = place.value \/ Ambiguous(place, s)
  BY <1>2, <1>5, <1>6, CertifiedExact DEF Reshaped
<1> QED BY <1>1, <1>5, <1>7 DEF KeepsPlace

-----------------------------------------------------------------------------
(* The ranges of an edit *)

\* Some numbered keys can be put in order, equal ones by their numbers.
Before(key, a, b) == key[a] < key[b] \/ (key[a] = key[b] /\ a < b)
InOrder(key, order) ==
    \A i, j \in DOMAIN order : i < j => Before(key, order[i], order[j])

\* There is always an order by a key.
LEMMA KeysInOrder ==
    ASSUME NEW n \in Nat, NEW key \in [1..n -> Nat]
    PROVE  \E order \in [1..n -> 1..n] : InOrder(key, order)
<1> DEFINE S == {m \in 0..n : \E order \in [1..m -> 1..m] : InOrder(key, order)}
<1>0. /\ \A x, y, z \in Nat : x < y /\ y <= z => x < z
      /\ \A x, y \in Nat : x < y \/ x = y => x <= y OBVIOUS
<1>1. 0 \in S
  <2>1. [i \in 1..0 |-> i] \in [1..0 -> 1..0] /\ InOrder(key, [i \in 1..0 |-> i]) BY DEF InOrder
  <2>2. \E order \in [1..0 -> 1..0] : InOrder(key, order) BY <2>1
  <2>3. 0 \in 0..n OBVIOUS
  <2> QED BY <2>2, <2>3, Zenon
<1>2. ASSUME NEW m \in 0..(n - 1), m \in S PROVE m + 1 \in S
  <2>1. PICK order \in [1..m -> 1..m] : InOrder(key, order) BY <1>2
  <2> DEFINE above == {i \in 1..(m + 1) : i = m + 1 \/ key[m + 1] < key[order[i]]}
  <2>2. above \in SUBSET Nat /\ m + 1 \in above OBVIOUS
  <2>3. PICK pos \in above : \A i \in above : pos <= i
    <3> HIDE DEF above
    <3> QED BY <2>2, LeastNatural
  <2>4. pos \in 1..(m + 1) /\ m + 1 \in 1..n /\ m \in Nat OBVIOUS
  <2>14. \A i \in 1..m : i \in above <=> key[m + 1] < key[order[i]] BY <2>4
  <2> HIDE DEF above
  <2>5. ASSUME NEW i \in 1..m
        PROVE  order[i] \in 1..m /\ order[i] \in 1..n /\ key[order[i]] \in Nat /\ key[m + 1] \in Nat
    <3>1. order[i] \in 1..m BY ONLY <2>1, i \in 1..m
    <3>2. \A x \in 1..m : x \in 1..n BY ONLY <2>4, n \in Nat
    <3>3. \A x \in 1..n : key[x] \in Nat BY ONLY key \in [1..n -> Nat]
    <3> QED BY ONLY <3>1, <3>2, <3>3, <2>4
  <2>6. ASSUME NEW i \in 1..m, i < pos PROVE Before(key, order[i], m + 1)
    <3>1. ~(key[m + 1] < key[order[i]]) BY <2>3, <2>4, <2>6, <2>14
    <3>2. order[i] < m + 1 BY <2>5
    <3> QED BY <2>5, <3>1, <3>2 DEF Before
  <2>7. ASSUME NEW i \in 1..m, pos <= i PROVE Before(key, m + 1, order[i])
    <3>1. pos \in 1..m BY <2>4, <2>7
    <3>2. key[m + 1] < key[order[pos]] BY <2>3, <2>14, <3>1
    <3>3. key[order[pos]] <= key[order[i]]
      <4>1. CASE pos = i BY <2>5, <4>1
      <4>2. CASE pos < i
        <5>1. Before(key, order[pos], order[i]) BY <2>1, <3>1, <4>2 DEF InOrder
        <5>2. key[order[pos]] \in Nat /\ key[order[i]] \in Nat BY <2>5, <3>1
        <5>3. key[order[pos]] < key[order[i]] \/ key[order[pos]] = key[order[i]] BY <5>1, Zenon DEF Before
        <5> QED BY <1>0, <5>2, <5>3, Zenon
      <4> QED BY <2>4, <2>7, <4>1, <4>2
    <3>4. key[m + 1] \in Nat /\ key[order[pos]] \in Nat /\ key[order[i]] \in Nat BY <2>5, <3>1
    <3>5. key[m + 1] < key[order[i]] BY <1>0, <3>2, <3>3, <3>4, Zenon
    <3> QED BY <3>5 DEF Before
  <2> DEFINE new == [i \in 1..(m + 1) |-> IF i < pos THEN order[i] ELSE IF i = pos THEN m + 1 ELSE order[i - 1]]
  <2>8. new \in [1..(m + 1) -> 1..(m + 1)]
    <3>1. ASSUME NEW i \in 1..(m + 1) PROVE new[i] \in 1..(m + 1)
      <4>1. CASE i < pos BY <2>4, <2>5, <4>1
      <4>2. CASE i = pos BY <2>4, <4>2
      <4>3. CASE i > pos
        <5>1. i - 1 \in 1..m BY <2>4, <4>3
        <5> QED BY <2>4, <2>5, <4>3, <5>1
      <4> QED BY <2>4, <4>1, <4>2, <4>3
    <3> QED BY <3>1
  <2>13. ASSUME NEW i \in 1..(m + 1)
         PROVE  /\ i < pos => new[i] = order[i]
                /\ i = pos => new[i] = m + 1
                /\ pos < i => new[i] = order[i - 1]
    <3>1. pos < i => ~(i < pos) /\ i # pos BY <2>4
    <3>2. i = pos => ~(i < pos) BY <2>4
    <3> QED BY <3>1, <3>2
  <2>10. DOMAIN new = 1..(m + 1) OBVIOUS
  <2> HIDE DEF new
  <2>9. ASSUME NEW i \in 1..(m + 1), NEW j \in 1..(m + 1), i < j PROVE Before(key, new[i], new[j])
    <3>1. ASSUME NEW a \in 1..m, NEW b \in 1..m, a < b PROVE Before(key, order[a], order[b])
      BY <2>1, <3>1 DEF InOrder
    <3>2. CASE j < pos
      <4>1. i \in 1..m /\ j \in 1..m /\ i < pos BY <2>4, <2>9, <3>2
      <4> QED BY <2>9, <2>13, <3>1, <3>2, <4>1
    <3>3. CASE j = pos
      <4>1. i \in 1..m /\ i < pos BY <2>4, <2>9, <3>3
      <4> QED BY <2>6, <2>13, <3>3, <4>1
    <3>4. CASE i < pos /\ pos < j
      <4>1. i \in 1..m /\ j - 1 \in 1..m /\ i < j - 1 BY <2>4, <3>4
      <4> QED BY <2>13, <3>1, <3>4, <4>1
    <3>5. CASE i = pos
      <4>1. j - 1 \in 1..m /\ pos <= j - 1 /\ pos < j BY <2>4, <2>9, <3>5
      <4> QED BY <2>7, <2>13, <3>5, <4>1
    <3>6. CASE pos < i
      <4>1. i - 1 \in 1..m /\ j - 1 \in 1..m /\ i - 1 < j - 1 /\ pos < j
        BY <2>4, <2>9, <3>6
      <4> QED BY <2>13, <3>1, <3>6, <4>1
    <3>7. i < pos \/ i = pos \/ pos < i BY <2>4
    <3>8. j < pos \/ j = pos \/ pos < j BY <2>4
    <3> QED BY <3>2, <3>3, <3>4, <3>5, <3>6, <3>7, <3>8
  <2>11. InOrder(key, new) BY <2>9, <2>10 DEF InOrder
  <2>12. m + 1 \in 0..n OBVIOUS
  <2> QED BY <2>8, <2>11, <2>12
<1> HIDE DEF S
<1>3. \A m \in 0..n : m \in S BY <1>1, <1>2, InductionUpTo
<1>4. n \in S BY <1>3
<1> QED BY <1>4 DEF S

\* The places as sequences of places.
LEMMA PlacesTyped ==
    ASSUME EditTyped
    PROVE  /\ Len(places) \in Nat /\ DOMAIN places = 1..Len(places)
           /\ \A i \in DOMAIN places : IsPlace(places[i])
<1>1. places \in Seq(CodeNode) BY DEF EditTyped
<1>2. Len(places) \in Nat /\ DOMAIN places = 1..Len(places) BY <1>1
<1> QED BY <1>2 DEF EditTyped

\* The codes can be sorted.
LEMMA PlacesInOrder ==
    ASSUME EditTyped
    PROVE  /\ SortedPlaces \in [DOMAIN places -> DOMAIN places]
           /\ \A i, j \in DOMAIN places : i < j => Precedes(SortedPlaces[i], SortedPlaces[j])
<1> DEFINE n == Len(places)
           key == [i \in 1..n |-> places[i].from]
           Is(order) == \A i, j \in DOMAIN places : i < j => Precedes(order[i], order[j])
<1>1. n \in Nat /\ DOMAIN places = 1..n /\ \A i \in 1..n : places[i].from \in Nat
  BY PlacesTyped, PlaceTyped
<1> HIDE DEF n
<1>2. key \in [1..n -> Nat] BY <1>1
<1>3. PICK order \in [1..n -> 1..n] : InOrder(key, order)
  <2> HIDE DEF key
  <2> QED BY <1>1, <1>2, KeysInOrder
<1>4. Is(order)
  <2>1. ASSUME NEW i \in 1..n, NEW j \in 1..n, i < j PROVE Precedes(order[i], order[j])
    <3>1. Before(key, order[i], order[j]) BY <1>3, <2>1 DEF InOrder
    <3>2. order[i] \in 1..n /\ order[j] \in 1..n BY <1>3
    <3> QED BY <3>1, <3>2 DEF Before, Precedes
  <2> QED BY <1>1, <2>1
<1>5. order \in [DOMAIN places -> DOMAIN places] BY <1>1, <1>3
<1> HIDE DEF Is
<1>6. SortedPlaces = CHOOSE o \in [DOMAIN places -> DOMAIN places] : Is(o) BY DEF SortedPlaces, Is
<1>7. SortedPlaces \in [DOMAIN places -> DOMAIN places] /\ Is(SortedPlaces) BY <1>4, <1>5, <1>6
<1> QED BY <1>7 DEF Is

\* The least of some natural numbers.
LEMMA LeastOf ==
    ASSUME NEW S \in SUBSET Nat, S # {}
    PROVE  Min(S) \in S /\ \A y \in S : Min(S) <= y
BY LeastNatural DEF Min

\* A code ends no later than its node, and a block no later than a comment left of it.
LEMMA EndTyped ==
    ASSUME NEW place, IsPlace(place)
    PROVE  /\ EditableEnd(place) \in Nat /\ EditableEnd(place) <= place.to
           /\ place.scalar.style \in Block =>
                 \A c \in place.comments : c.column < place.column => EditableEnd(place) <= c.at
<1> DEFINE left == {c \in place.comments : c.column + 1 <= place.column}
           ats == {c.at : c \in left}
<1>1. place.to \in Nat /\ place.column \in Nat /\ place.comments \subseteq [at : Nat, column : Nat]
  BY DEF IsPlace, CodeNode
<1>2. \A c \in place.comments : c.at \in Nat /\ c.column \in Nat BY <1>1
<1>3. ats \in SUBSET Nat BY <1>2
<1>4. \A c \in place.comments : c.column < place.column => c \in left BY <1>1, <1>2
<1>5. EditableEnd(place) = IF place.scalar.style \in Block /\ left # {}
                             THEN Min({place.to, Min(ats)}) ELSE place.to
  BY DEF EditableEnd
<1>6. left # {} => ats # {} OBVIOUS
<1>7. \A c \in left : c.at \in ats OBVIOUS
<1> HIDE DEF left, ats
<1>8. CASE place.scalar.style \in Block /\ left # {}
  <2>1. Min(ats) \in ats /\ \A y \in ats : Min(ats) <= y BY <1>3, <1>6, <1>8, LeastOf
  <2> DEFINE least == Min(ats)
  <2>2. least \in Nat BY <1>3, <2>1
  <2>3. EditableEnd(place) = Min({place.to, least}) BY <1>5, <1>8
  <2> HIDE DEF least
  <2>4. {place.to, least} \in SUBSET Nat BY <1>1, <2>2
  <2>5. EditableEnd(place) \in {place.to, least} /\ \A y \in {place.to, least} : EditableEnd(place) <= y
    BY <2>3, <2>4, LeastOf
  <2>6. EditableEnd(place) \in Nat /\ EditableEnd(place) <= place.to /\ EditableEnd(place) <= least
    BY <2>4, <2>5
  <2>7. ASSUME NEW c \in place.comments, c.column < place.column PROVE EditableEnd(place) <= c.at
    <3>1. least <= c.at /\ c.at \in Nat BY <1>2, <1>4, <1>7, <2>1, <2>7 DEF least
    <3> QED BY <2>2, <2>6, <3>1
  <2> QED BY <2>6, <2>7
<1>9. CASE ~(place.scalar.style \in Block /\ left # {})
  <2>1. EditableEnd(place) = place.to BY <1>5, <1>9
  <2>2. place.scalar.style \in Block => \A c \in place.comments : ~(c.column < place.column)
    BY <1>4, <1>9
  <2> QED BY <1>1, <2>1, <2>2
<1> QED BY <1>8, <1>9

\* The ranges of an edit start in the order of the file.
Starting(r, n) ==
    /\ DOMAIN r = 1..n
    /\ \A i \in 1..n : r[i].from \in Nat /\ r[i].to \in Nat
    /\ \A i, j \in 1..n : i < j => r[i].from <= r[j].from
RangeOf(place) == [from |-> place.from, to |-> EditableEnd(place)]

\* The ranges are those of the codes, in order.
LEMMA RangesTyped ==
    ASSUME EditTyped
    PROVE  LET n == Len(places) IN
           /\ n \in Nat /\ SortedPlaces \in [1..n -> 1..n] /\ Starting(Ranges(SortedPlaces), n)
           /\ \A i \in 1..n : Ranges(SortedPlaces)[i] = RangeOf(places[SortedPlaces[i]])
           /\ \A i, j \in 1..n : i # j => SortedPlaces[i] # SortedPlaces[j]
<1> DEFINE n == Len(places)
           o == SortedPlaces
           r == Ranges(o)
<1>1. n \in Nat /\ DOMAIN places = 1..n /\ \A i \in 1..n : IsPlace(places[i]) BY PlacesTyped
<1>2. o \in [1..n -> 1..n] /\ \A i, j \in 1..n : i < j => Precedes(o[i], o[j])
  BY <1>1, PlacesInOrder
<1> HIDE DEF n, o
<1>3. DOMAIN o = 1..n BY <1>2
<1>4. DOMAIN r = 1..n /\ \A i \in 1..n : r[i] = RangeOf(places[o[i]])
  BY <1>3 DEF Ranges, RangeOf
<1> HIDE DEF r
<1>5. ASSUME NEW i \in 1..n PROVE r[i].from = places[o[i]].from /\ r[i].from \in Nat /\ r[i].to \in Nat
  <2>1. o[i] \in 1..n BY <1>2
  <2>2. IsPlace(places[o[i]]) BY <1>1, <2>1
  <2>3. EditableEnd(places[o[i]]) \in Nat /\ places[o[i]].from \in Nat BY <2>2, EndTyped, PlaceTyped
  <2>4. r[i].from = places[o[i]].from /\ r[i].to = EditableEnd(places[o[i]]) BY <1>4 DEF RangeOf
  <2> QED BY <2>3, <2>4
<1>6. ASSUME NEW i \in 1..n, NEW j \in 1..n, i < j PROVE r[i].from <= r[j].from /\ o[i] # o[j]
  <2>1. Precedes(o[i], o[j]) BY <1>2, <1>6
  <2>2. o[i] \in 1..n /\ o[j] \in 1..n BY <1>2
  <2>3. r[i].from < r[j].from \/ (r[i].from = r[j].from /\ o[i] < o[j])
    BY <1>5, <2>1, Zenon DEF Precedes
  <2>4. r[i].from \in Nat /\ r[j].from \in Nat BY <1>5
  <2>5. r[i].from <= r[j].from BY <2>3, <2>4
  <2>6. o[i] # o[j]
    <3> SUFFICES ASSUME o[i] = o[j] PROVE FALSE OBVIOUS
    <3>1. r[i].from = r[j].from BY <1>5
    <3> QED BY <2>2, <2>3, <2>4, <3>1
  <2> QED BY <2>5, <2>6
<1>7. ASSUME NEW i \in 1..n, NEW j \in 1..n, i # j PROVE o[i] # o[j]
  <2>1. i < j \/ j < i BY <1>7
  <2> QED BY <1>6, <2>1
<1>8. Starting(r, n) BY <1>4, <1>5, <1>6 DEF Starting
<1> QED BY <1>1, <1>2, <1>4, <1>7, <1>8 DEF n, o, r

\* A part is touched exactly if it shares a byte with a range.
Within(b, range) == b \in Nat /\ range.from <= b /\ b < range.to

\* A range that shares a byte with a part touches it.
LEMMA SharedTouches ==
    ASSUME NEW n \in Nat, NEW r, Starting(r, n), NEW part, part.from \in Nat, part.to \in Nat,
           NEW i \in 1..n, NEW b \in Nat, Within(b, r[i]), Within(b, part)
    PROVE  Touches(r, part)
<1> DEFINE later == {j \in DOMAIN r : r[j].to > part.from}
           first == Min(later)
<1>1. \A j \in 1..n : r[j].from \in Nat /\ r[j].to \in Nat BY DEF Starting
<1>2. i \in later
  <2>1. r[i].to \in Nat /\ b < r[i].to /\ part.from <= b BY <1>1 DEF Within
  <2>2. r[i].to > part.from BY <2>1
  <2> QED BY <2>2 DEF Starting
<1>3. later \in SUBSET Nat BY DEF Starting
<1>4. later \subseteq 1..n BY DEF Starting
<1>5. Touches(r, part) <=> later # {} /\ r[first].from < part.to BY DEF Touches
<1> HIDE DEF later
<1>6. first \in later /\ first <= i BY <1>2, <1>3, LeastOf
<1> HIDE DEF first
<1>7. first \in 1..n BY <1>4, <1>6
<1>8. r[first].from <= r[i].from
  <2>1. CASE first = i
    <3>1. r[i].from \in Nat BY <1>1
    <3> QED BY <2>1, <3>1
  <2>2. CASE first < i BY <1>7, <2>2 DEF Starting
  <2> QED BY <1>6, <1>7, <2>1, <2>2
<1>9. r[first].from < part.to
  <2>1. r[first].from \in Nat /\ r[i].from \in Nat BY <1>1, <1>7
  <2>2. r[i].from <= b /\ b < part.to BY DEF Within
  <2> QED BY <1>8, <2>1, <2>2
<1> QED BY <1>2, <1>5, <1>9

\* The other way round, for ranges that are not empty.
LEMMA TouchesShared ==
    ASSUME NEW n \in Nat, NEW r, Starting(r, n), NEW part, part.from \in Nat, part.to \in Nat,
           part.from < part.to, \A i \in 1..n : r[i].from < r[i].to, Touches(r, part)
    PROVE  \E i \in 1..n : \E b \in Nat : Within(b, r[i]) /\ Within(b, part)
<1> DEFINE later == {j \in DOMAIN r : r[j].to > part.from}
           first == Min(later)
           b == IF r[first].from < part.from THEN part.from ELSE r[first].from
<1>1. \A j \in 1..n : r[j].from \in Nat /\ r[j].to \in Nat BY DEF Starting
<1>2. later \in SUBSET Nat /\ later \subseteq 1..n BY DEF Starting
<1>3. later # {} /\ r[first].from < part.to BY DEF Touches
<1>4. \A j \in later : r[j].to > part.from OBVIOUS
<1> HIDE DEF later
<1>5. first \in later BY <1>2, <1>3, LeastOf
<1> HIDE DEF first
<1>6. first \in 1..n /\ r[first].to > part.from BY <1>2, <1>4, <1>5
<1>7. r[first].from \in Nat /\ r[first].to \in Nat /\ r[first].from < r[first].to BY <1>1, <1>6
<1>8. b \in Nat /\ Within(b, r[first]) /\ Within(b, part) BY <1>3, <1>6, <1>7 DEF Within
<1> QED BY <1>6, <1>8

\* The parts of a section are made of the bytes that belong to the signature kit.
PartOf(part, section) ==
    /\ part.from \in Nat /\ part.to \in Nat /\ part.from < part.to
    /\ \E e \in section.extraction \cup section.signatures : part.to <= e.to
    /\ \A b \in Nat : Within(b, part) =>
          \/ \E e \in section.extraction : Within(b, e)
          \/ /\ \E e \in section.signatures : Within(b, e)
             /\ \A m \in section.nested : ~Within(b, m)

\* The types of a section, unfolded.
LEMMA SectionTyped ==
    ASSUME NEW section, IsSection(section)
    PROVE  /\ \A e \in section.extraction \cup section.signatures :
                 e.from \in Nat /\ e.to \in Nat /\ e.from < e.to
           /\ \A m \in section.nested : m.from \in Nat /\ m.to \in Nat /\ m.from <= m.to
           /\ \A m, l \in section.nested : m = l
<1>1. section \in Section BY DEF IsSection
<1>2. /\ section.extraction \subseteq Extent /\ section.signatures \subseteq Extent
      /\ section.nested \subseteq Extent BY <1>1 DEF Section
<1>3. \A e \in Extent : e.from \in Nat /\ e.to \in Nat BY DEF Extent
<1> QED BY <1>2, <1>3 DEF IsSection

Ahead(e, m) == [from |-> e.from, to |-> m.from]
Behind(e, m) == [from |-> m.to, to |-> e.to]

\* The parts of a section by the entries they come from.
LEMMA PartsAre ==
    ASSUME NEW section
    PROVE  /\ \A e \in section.extraction : e \in Parts(section)
           /\ section.nested = {} => \A e \in section.signatures : e \in Parts(section)
           /\ \A e \in section.signatures, m \in section.nested :
                 /\ e.from < m.from => Ahead(e, m) \in Parts(section)
                 /\ m.to < e.to => Behind(e, m) \in Parts(section)
           /\ \A part \in Parts(section) :
                 \/ part \in section.extraction
                 \/ section.nested = {} /\ part \in section.signatures
                 \/ \E e \in section.signatures, m \in section.nested :
                       \/ e.from < m.from /\ part = Ahead(e, m)
                       \/ m.to < e.to /\ part = Behind(e, m)
<1> DEFINE around(e, m) == (IF e.from < m.from THEN {[from |-> e.from, to |-> m.from]} ELSE {})
                           \cup (IF m.to < e.to THEN {[from |-> m.to, to |-> e.to]} ELSE {})
<1>1. Parts(section) = section.extraction
        \cup (IF section.nested = {} THEN section.signatures
              ELSE UNION {around(e, m) : e \in section.signatures, m \in section.nested})
  BY DEF Parts
<1>2. ASSUME NEW e, NEW m
      PROVE  /\ e.from < m.from => Ahead(e, m) \in around(e, m)
             /\ m.to < e.to => Behind(e, m) \in around(e, m)
             /\ \A part \in around(e, m) : \/ e.from < m.from /\ part = Ahead(e, m)
                                           \/ m.to < e.to /\ part = Behind(e, m)
  BY DEF Ahead, Behind
<1> HIDE DEF around
<1>3. ASSUME NEW e \in section.signatures, NEW m \in section.nested
      PROVE  around(e, m) \subseteq Parts(section)
  BY <1>1, <1>3
<1>4. ASSUME NEW part \in Parts(section), part \notin section.extraction, section.nested # {}
      PROVE  \E e \in section.signatures, m \in section.nested : part \in around(e, m)
  BY <1>1, <1>4
<1>5. ASSUME NEW part \in Parts(section), part \notin section.extraction, section.nested = {}
      PROVE  part \in section.signatures
  BY <1>1, <1>5
<1>6. ASSUME NEW part \in Parts(section)
      PROVE  \/ part \in section.extraction
             \/ section.nested = {} /\ part \in section.signatures
             \/ \E e \in section.signatures, m \in section.nested :
                   \/ e.from < m.from /\ part = Ahead(e, m)
                   \/ m.to < e.to /\ part = Behind(e, m)
  <2>1. CASE part \in section.extraction BY <2>1
  <2>2. CASE part \notin section.extraction /\ section.nested = {} BY <1>5, <2>2
  <2>3. CASE part \notin section.extraction /\ section.nested # {}
    <3>1. PICK e \in section.signatures, m \in section.nested : part \in around(e, m) BY <1>4, <2>3
    <3>2. \/ e.from < m.from /\ part = Ahead(e, m)
          \/ m.to < e.to /\ part = Behind(e, m) BY <1>2, <3>1
    <3> QED BY <3>2
  <2> QED BY <2>1, <2>2, <2>3
<1>7. \A e \in section.extraction : e \in Parts(section) BY <1>1
<1>8. section.nested = {} => \A e \in section.signatures : e \in Parts(section) BY <1>1
<1>9. ASSUME NEW e \in section.signatures, NEW m \in section.nested
      PROVE  /\ e.from < m.from => Ahead(e, m) \in Parts(section)
             /\ m.to < e.to => Behind(e, m) \in Parts(section)
  BY <1>2, <1>3
<1> QED BY <1>6, <1>7, <1>8, <1>9

\* A part holds bytes of the signature kit alone.
LEMMA PartsBelong ==
    ASSUME NEW section, IsSection(section), \A e \in section.signatures : ~Outside(section.nested, e),
           NEW part \in Parts(section)
    PROVE  PartOf(part, section)
<1>1. /\ \A e \in section.extraction \cup section.signatures :
            e.from \in Nat /\ e.to \in Nat /\ e.from < e.to
      /\ \A m \in section.nested : m.from \in Nat /\ m.to \in Nat /\ m.from <= m.to
      /\ \A m, l \in section.nested : m = l
  BY SectionTyped
<1>2. CASE part \in section.extraction
  <2>1. part.from \in Nat /\ part.to \in Nat /\ part.from < part.to BY <1>1, <1>2
  <2>2. part.to <= part.to BY <2>1
  <2> QED BY <1>2, <2>1, <2>2 DEF PartOf
<1>3. CASE section.nested = {} /\ part \in section.signatures
  <2>1. part.from \in Nat /\ part.to \in Nat /\ part.from < part.to BY <1>1, <1>3
  <2>2. part.to <= part.to BY <2>1
  <2> QED BY <1>3, <2>1, <2>2 DEF PartOf
<1>4. ASSUME NEW e \in section.signatures, NEW m \in section.nested,
             \/ e.from < m.from /\ part = Ahead(e, m)
             \/ m.to < e.to /\ part = Behind(e, m)
      PROVE  PartOf(part, section)
  <2>1. ~(m.from < e.from) /\ ~(m.to > e.to) BY DEF Outside
  <2>2. e.from \in Nat /\ e.to \in Nat /\ m.from \in Nat /\ m.to \in Nat /\ m.from <= m.to BY <1>1
  <2>3. /\ part.from \in Nat /\ part.to \in Nat /\ part.from < part.to /\ part.to <= e.to
        /\ e.from <= part.from
        /\ part.to <= m.from \/ m.to <= part.from
    <3>1. CASE e.from < m.from /\ part = Ahead(e, m)
      <4>1. part.from = e.from /\ part.to = m.from BY <3>1 DEF Ahead
      <4> QED BY <2>1, <2>2, <3>1, <4>1
    <3>2. CASE m.to < e.to /\ part = Behind(e, m)
      <4>1. part.from = m.to /\ part.to = e.to BY <3>2 DEF Behind
      <4> QED BY <2>1, <2>2, <3>2, <4>1
    <3> QED BY <1>4, <3>1, <3>2
  <2>4. ASSUME NEW b \in Nat, Within(b, part) PROVE Within(b, e) /\ ~Within(b, m)
    <3>1. part.from <= b /\ b < part.to BY <2>4 DEF Within
    <3> QED BY <2>2, <2>3, <3>1 DEF Within
  <2>5. ASSUME NEW b \in Nat, Within(b, part)
        PROVE  (\E f \in section.signatures : Within(b, f)) /\ \A l \in section.nested : ~Within(b, l)
    BY <1>1, <2>4, <2>5
  <2> QED BY <2>3, <2>5 DEF PartOf
<1> QED BY <1>2, <1>3, <1>4, PartsAre

\* Every byte of the signature kit is in a part.
LEMMA PartsCover ==
    ASSUME NEW section, IsSection(section), NEW b \in Nat,
           \/ \E e \in section.extraction : Within(b, e)
           \/ /\ \E e \in section.signatures : Within(b, e)
              /\ \A m \in section.nested : ~Within(b, m)
    PROVE  \E part \in Parts(section) : Within(b, part)
<1>1. /\ \A e \in section.extraction \cup section.signatures : e.from \in Nat /\ e.to \in Nat
      /\ \A m \in section.nested : m.from \in Nat /\ m.to \in Nat /\ m.from <= m.to
  BY SectionTyped
<1>2. ASSUME NEW e \in section.extraction, Within(b, e) PROVE \E part \in Parts(section) : Within(b, part)
  BY <1>2, PartsAre
<1>3. ASSUME NEW e \in section.signatures, Within(b, e), section.nested = {}
      PROVE  \E part \in Parts(section) : Within(b, part)
  BY <1>3, PartsAre
<1>4. ASSUME NEW e \in section.signatures, Within(b, e), NEW m \in section.nested, ~Within(b, m)
      PROVE  \E part \in Parts(section) : Within(b, part)
  <2>1. e.from \in Nat /\ e.to \in Nat /\ m.from \in Nat /\ m.to \in Nat /\ m.from <= m.to BY <1>1
  <2>2. e.from <= b /\ b < e.to BY <1>4 DEF Within
  <2>3. b < m.from \/ m.to <= b BY <1>4, <2>1 DEF Within
  <2>4. CASE b < m.from
    <3>1. e.from < m.from BY <2>1, <2>2, <2>4
    <3>2. Ahead(e, m) \in Parts(section) BY <3>1, PartsAre
    <3>3. Within(b, Ahead(e, m)) BY <2>2, <2>4 DEF Within, Ahead
    <3> QED BY <3>2, <3>3
  <2>5. CASE m.to <= b
    <3>1. m.to < e.to BY <2>1, <2>2, <2>5
    <3>2. Behind(e, m) \in Parts(section) BY <3>1, PartsAre
    <3>3. Within(b, Behind(e, m)) BY <2>2, <2>5 DEF Within, Behind
    <3> QED BY <3>2, <3>3
  <2> QED BY <2>3, <2>4, <2>5
<1> QED BY <1>2, <1>3, <1>4

\* Verification finds exactly what can be edited: what it accepts is apart, and it
\* accepts whatever is apart.
LEMMA BytesOf ==
    ASSUME NEW range
    PROVE  \A b : b \in Bytes(range) <=> Within(b, range) /\ b \in 0..fileSize
<1>1. \A b \in 0..fileSize : b \in Nat OBVIOUS
<1> QED BY <1>1 DEF Bytes, Within

\* The bytes of the signature kit: those of its entries but for the sketches inside.
LEMMA SignatureBytesOf ==
    ASSUME NEW section
    PROVE  \A b : b \in SignatureBytes(section) <=>
              /\ b \in 0..fileSize
              /\ \/ \E e \in section.extraction : Within(b, e)
                 \/ /\ \E e \in section.signatures : Within(b, e)
                    /\ \A m \in section.nested : ~Within(b, m)
<1>1. ASSUME NEW b
      PROVE  /\ b \in UNION {Bytes(e) : e \in section.extraction} <=>
                   \E e \in section.extraction : b \in Bytes(e)
             /\ b \in UNION {Bytes(e) : e \in section.signatures} <=>
                   \E e \in section.signatures : b \in Bytes(e)
             /\ b \in UNION {Bytes(m) : m \in section.nested} <=>
                   \E m \in section.nested : b \in Bytes(m)
  OBVIOUS
<1>2. ASSUME NEW b
      PROVE  b \in SignatureBytes(section) <=>
                \/ \E e \in section.extraction : b \in Bytes(e)
                \/ /\ \E e \in section.signatures : b \in Bytes(e)
                   /\ ~\E m \in section.nested : b \in Bytes(m)
  BY <1>1 DEF SignatureBytes
<1> QED BY <1>2, BytesOf

\* No range that is verified holds a byte of the signature kit.
LEMMA VerifiedIsApart ==
    ASSUME EditTyped, Valid(Ranges(SortedPlaces)),
           NEW k \in DOMAIN sections, Protected(Ranges(SortedPlaces), sections[k]),
           NEW i \in 1..Len(places)
    PROVE  Bytes(Ranges(SortedPlaces)[i]) \cap SignatureBytes(sections[k]) = {}
<1> DEFINE n == Len(places)
           r == Ranges(SortedPlaces)
           section == sections[k]
<1>1. n \in Nat /\ Starting(r, n) BY RangesTyped
<1>2. IsSection(section) BY DEF EditTyped
<1>3. /\ \A e \in section.signatures : ~Outside(section.nested, e)
      /\ \A part \in Parts(section) : ~Touches(r, part)
  BY DEF Protected
<1> HIDE DEF n, r, section
<1>4. ASSUME NEW b, b \in Bytes(r[i]), b \in SignatureBytes(section) PROVE FALSE
  <2>1. /\ b \in Nat /\ Within(b, r[i])
        /\ \/ \E e \in section.extraction : Within(b, e)
           \/ /\ \E e \in section.signatures : Within(b, e)
              /\ \A m \in section.nested : ~Within(b, m)
    <3>1. Within(b, r[i]) BY <1>4, BytesOf
    <3>2. b \in Nat BY <3>1 DEF Within
    <3> QED BY <1>4, <3>1, <3>2, SignatureBytesOf
  <2>2. PICK part \in Parts(section) : Within(b, part) BY <1>2, <2>1, PartsCover
  <2>3. PartOf(part, section) BY <1>2, <1>3, PartsBelong
  <2>4. part.from \in Nat /\ part.to \in Nat BY <2>3 DEF PartOf
  <2>5. i \in 1..n BY DEF n
  <2>6. Touches(r, part) BY <1>1, <2>1, <2>2, <2>4, <2>5, SharedTouches
  <2> QED BY <1>3, <2>6
<1> QED BY <1>4 DEF n, r, section

\* Codes apart from each other and from the signature kit are verified.
LEMMA ApartIsVerified ==
    ASSUME EditTyped, Editable
    PROVE  /\ Valid(Ranges(SortedPlaces)) /\ places # <<>>
           /\ \A k \in DOMAIN sections : Protected(Ranges(SortedPlaces), sections[k])
<1> DEFINE n == Len(places)
           o == SortedPlaces
           r == Ranges(o)
           code(j) == [from |-> places[j].from, to |-> EditableEnd(places[j])]
           codes == [j \in DOMAIN places |-> code(j)]
<1>1. /\ n \in Nat /\ o \in [1..n -> 1..n] /\ Starting(r, n) /\ DOMAIN places = 1..n
      /\ \A i \in 1..n : r[i] = RangeOf(places[o[i]])
      /\ \A i, j \in 1..n : i # j => o[i] # o[j]
  BY RangesTyped, PlacesTyped
<1>2. /\ places # <<>>
      /\ \A j \in DOMAIN places :
            /\ Bytes(codes[j]) # {} /\ codes[j].to <= fileSize
            /\ \A l \in DOMAIN places : j # l => Bytes(codes[j]) \cap Bytes(codes[l]) = {}
            /\ \A k \in DOMAIN sections : Bytes(codes[j]) \cap SignatureBytes(sections[k]) = {}
      /\ \A k \in DOMAIN sections :
            /\ \A e \in sections[k].extraction \cup sections[k].signatures : e.to <= fileSize
            /\ \A e \in sections[k].signatures : ~Outside(sections[k].nested, e)
  BY Zenon DEF Editable
<1>3. \A j \in 1..n : codes[j] = RangeOf(places[j]) BY <1>1 DEF RangeOf
<1>4. fileSize \in Nat BY DEF EditTyped
<1> HIDE DEF n, o, r, codes
<1>5. \A i \in 1..n : o[i] \in 1..n /\ r[i] = codes[o[i]] BY <1>1, <1>3
<1>6. ASSUME NEW i \in 1..n
      PROVE  /\ r[i].from \in Nat /\ r[i].to \in Nat /\ Bytes(r[i]) # {} /\ r[i].to <= fileSize
             /\ \A k \in DOMAIN sections : Bytes(r[i]) \cap SignatureBytes(sections[k]) = {}
  <2>1. r[i].from \in Nat /\ r[i].to \in Nat BY <1>1 DEF Starting
  <2>2. o[i] \in DOMAIN places /\ r[i] = codes[o[i]] BY <1>1, <1>5
  <2> QED BY <1>2, <2>1, <2>2
<1>7. ASSUME NEW i \in 1..n PROVE r[i].from < r[i].to
  <2>1. PICK b : b \in Bytes(r[i]) BY <1>6
  <2>2. b \in Nat /\ r[i].from <= b /\ b < r[i].to BY <2>1, BytesOf DEF Within
  <2> QED BY <1>6, <2>2
<1>8. ASSUME NEW i \in 1..n, NEW j \in 1..n, i < j PROVE r[i].to <= r[j].from
  <2> SUFFICES ASSUME ~(r[i].to <= r[j].from) PROVE FALSE OBVIOUS
  <2>1. r[i].from <= r[j].from BY <1>1, <1>8 DEF Starting
  <2>2. o[i] # o[j] BY <1>1, <1>8
  <2>3. o[i] \in DOMAIN places /\ o[j] \in DOMAIN places BY <1>1, <1>5
  <2>4. Bytes(r[i]) \cap Bytes(r[j]) = {} BY <1>2, <1>5, <2>2, <2>3
  <2> DEFINE b == r[j].from
  <2>5. b \in Nat /\ b \in 0..fileSize
    <3>1. r[j].from \in Nat /\ r[j].to \in Nat /\ r[j].to <= fileSize BY <1>6
    <3>2. r[j].from < r[j].to BY <1>7
    <3> QED BY <1>4, <3>1, <3>2
  <2>6. Within(b, r[j])
    <3>1. r[j].from < r[j].to BY <1>7
    <3> QED BY <2>5, <3>1 DEF Within
  <2>7. Within(b, r[i])
    <3>1. r[i].to \in Nat BY <1>6
    <3>2. b < r[i].to BY <2>5, <3>1
    <3> QED BY <2>1, <2>5, <3>2 DEF Within
  <2> HIDE DEF b
  <2>8. b \in Bytes(r[i]) /\ b \in Bytes(r[j]) BY <2>5, <2>6, <2>7, BytesOf
  <2> QED BY <2>4, <2>8
<1>9. Valid(r)
  <2>1. DOMAIN r = 1..n BY <1>1 DEF Starting
  <2>2. ASSUME NEW i \in 1..n PROVE r[i].from >= (IF i = 1 THEN 0 ELSE r[i - 1].to)
    <3>1. CASE i = 1 BY <1>6, <3>1
    <3>2. CASE i # 1
      <4>1. i - 1 \in 1..n /\ i - 1 < i BY <1>1, <3>2
      <4>2. r[i - 1].to <= r[i].from BY <1>8, <4>1
      <4>3. r[i - 1].to \in Nat /\ r[i].from \in Nat BY <1>6, <4>1
      <4> QED BY <3>2, <4>2, <4>3
    <3> QED BY <3>1, <3>2
  <2> QED BY <1>6, <1>7, <2>1, <2>2 DEF Valid
<1>10. ASSUME NEW k \in DOMAIN sections PROVE Protected(r, sections[k])
  <2> DEFINE section == sections[k]
  <2>1. IsSection(section) BY DEF EditTyped
  <2>2. /\ \A e \in section.extraction \cup section.signatures : e.to <= fileSize
        /\ \A e \in section.signatures : ~Outside(section.nested, e)
    BY <1>2
  <2>3. \A i \in 1..n : Bytes(r[i]) \cap SignatureBytes(section) = {} BY <1>6
  <2>4. /\ \A e \in section.extraction \cup section.signatures :
              e.from \in Nat /\ e.to \in Nat /\ e.from < e.to
    BY <2>1, SectionTyped
  <2> HIDE DEF section
  <2>5. ASSUME NEW part \in Parts(section)
        PROVE  part.from < part.to /\ part.to <= fileSize /\ ~Touches(r, part)
    <3>1. PartOf(part, section) BY <2>1, <2>2, PartsBelong
    <3>2. part.from \in Nat /\ part.to \in Nat /\ part.from < part.to BY <3>1 DEF PartOf
    <3>3. PICK e \in section.extraction \cup section.signatures : part.to <= e.to BY <3>1 DEF PartOf
    <3>4. part.to <= fileSize
      <4>1. e.to \in Nat /\ e.to <= fileSize BY <2>2, <2>4
      <4> QED BY <1>4, <3>2, <3>3, <4>1
    <3>5. ~Touches(r, part)
      <4> SUFFICES ASSUME Touches(r, part) PROVE FALSE OBVIOUS
      <4>1. PICK i \in 1..n : \E b \in Nat : Within(b, r[i]) /\ Within(b, part)
        BY <1>1, <1>7, <3>2, TouchesShared
      <4>2. PICK b \in Nat : Within(b, r[i]) /\ Within(b, part) BY <4>1
      <4>3. b \in 0..fileSize
        <5>1. b < part.to BY <4>2 DEF Within
        <5> QED BY <1>4, <3>2, <3>4, <5>1
      <4>4. b \in Bytes(r[i]) BY <4>2, <4>3, BytesOf
      <4>5. \/ \E f \in section.extraction : Within(b, f)
            \/ /\ \E f \in section.signatures : Within(b, f)
               /\ \A m \in section.nested : ~Within(b, m)
        BY <3>1, <4>2 DEF PartOf
      <4>6. b \in SignatureBytes(section) BY <4>3, <4>5, SignatureBytesOf
      <4> QED BY <2>3, <4>4, <4>6
    <3> QED BY <3>2, <3>4, <3>5
  <2>6. Protected(r, section) BY <2>2, <2>5 DEF Protected
  <2> QED BY <2>6 DEF section
<1> QED BY <1>2, <1>9, <1>10 DEF r, o

-----------------------------------------------------------------------------
(* The edit of a file *)

\* Whatever the file and the codes to change in it, and however the serializer fails.
EditSpec == EditTyped /\ EditInit /\ [][EditNext]_scalarEdit

VerifiedPlaces ==
    /\ places # <<>> /\ Valid(Ranges(SortedPlaces))
    /\ \A k \in DOMAIN sections : Protected(Ranges(SortedPlaces), sections[k])
Replaceable == {Ranges(SortedPlaces)[k] : k \in 1..Len(places)}
Rendered == {Preferred(places[i]) : i \in DOMAIN places} \cup {Fallback(places[i]) : i \in DOMAIN places}

\* What is being edited stays as it is.
LEMMA EditKeepsFile ==
    ASSUME UNCHANGED <<places, sections, fileSize, codec>>
    PROVE  /\ EditTyped' = EditTyped /\ VerifiedPlaces' = VerifiedPlaces /\ Editable' = Editable
           /\ SortedPlaces' = SortedPlaces /\ Replaceable' = Replaceable /\ Rendered' = Rendered
<1>1. places' = places /\ sections' = sections /\ fileSize' = fileSize /\ codec' = codec OBVIOUS
<1>2. EditTyped' = EditTyped BY <1>1 DEF EditTyped
<1>3. SortedPlaces' = SortedPlaces BY <1>1 DEF SortedPlaces, Precedes
<1>4. Ranges(SortedPlaces)' = Ranges(SortedPlaces) BY <1>1, <1>3 DEF Ranges
<1>5. VerifiedPlaces' = VerifiedPlaces BY <1>1, <1>4 DEF VerifiedPlaces, Valid, Protected
<1>6. Replaceable' = Replaceable BY <1>1, <1>4 DEF Replaceable
<1>7. Rendered' = Rendered BY <1>1 DEF Rendered, Preferred, Fallback, Encoding
<1>8. Editable' = Editable BY <1>1 DEF Editable, Bytes, SignatureBytes
<1> QED BY <1>2, <1>3, <1>5, <1>6, <1>7, <1>8

\* The pieces of the new file follow each other.
Piece == [kept : BOOLEAN, from : Nat, to : Nat]
Contiguous(pieces) ==
    \A i \in DOMAIN pieces : /\ pieces[i].from = IF i = 1 THEN 0 ELSE pieces[i - 1].to
                             /\ pieces[i].from <= pieces[i].to
EndAt(pieces) == IF pieces = <<>> THEN 0 ELSE Last(pieces).to
Exchanged(pieces) == {i \in DOMAIN pieces : ~pieces[i].kept}

\* What a piece more adds.
LEMMA PieceAppended ==
    ASSUME NEW p \in Seq(Piece), Contiguous(p), NEW piece \in Piece,
           piece.from = EndAt(p), piece.from <= piece.to
    PROVE  LET q == Append(p, piece) IN
           /\ q \in Seq(Piece) /\ Contiguous(q) /\ EndAt(q) = piece.to /\ q # <<>>
           /\ q[Len(p) + 1] = piece /\ \A i \in DOMAIN p : q[i] = p[i] /\ i \in DOMAIN q
           /\ Exchanged(q) = Exchanged(p) \cup (IF piece.kept THEN {} ELSE {Len(p) + 1})
           /\ Cardinality(Exchanged(q)) = Cardinality(Exchanged(p)) + (IF piece.kept THEN 0 ELSE 1)
<1> DEFINE n == Len(p)
           q == Append(p, piece)
<1>1. n \in Nat /\ DOMAIN p = 1..n BY LenProperties
<1>2. /\ q \in Seq(Piece) /\ Len(q) = n + 1 /\ q[n + 1] = piece
      /\ \A i \in 1..n : q[i] = p[i]
  BY AppendProperties
<1>3. DOMAIN q = 1..(n + 1) BY <1>1, <1>2, LenProperties
<1>4. p # <<>> => Last(p) = p[n] /\ n # 0 BY EmptySeq DEF Last
<1>5. p = <<>> => n = 0 BY EmptySeq
<1> HIDE DEF q, n
<1>6. ASSUME NEW i \in 1..(n + 1)
      PROVE  /\ q[i].from = IF i = 1 THEN 0 ELSE q[i - 1].to
             /\ q[i].from <= q[i].to
  <2>1. CASE i \in 1..n
    <3>1. q[i] = p[i] BY <1>2, <2>1
    <3>2. i # 1 => i - 1 \in 1..n BY <1>1, <2>1
    <3>3. i # 1 => q[i - 1] = p[i - 1] BY <1>2, <3>2
    <3>4. /\ p[i].from = IF i = 1 THEN 0 ELSE p[i - 1].to
          /\ p[i].from <= p[i].to BY <1>1, <2>1 DEF Contiguous
    <3> QED BY <3>1, <3>3, <3>4
  <2>2. CASE i = n + 1
    <3>1. CASE p = <<>>
      <4>1. i = 1 /\ q[i] = piece BY <1>2, <1>5, <2>2, <3>1
      <4>2. piece.from = 0 BY <3>1 DEF EndAt
      <4> QED BY <4>1, <4>2
    <3>2. CASE p # <<>>
      <4>1. i # 1 /\ i - 1 = n /\ n \in 1..n BY <1>1, <1>4, <2>2, <3>2
      <4>2. q[i - 1] = p[n] /\ q[i] = piece BY <1>2, <2>2, <4>1
      <4>3. piece.from = p[n].to BY <1>4, <3>2 DEF EndAt
      <4> QED BY <4>1, <4>2, <4>3
    <3> QED BY <3>1, <3>2
  <2> QED BY <1>1, <2>1, <2>2
<1>7. Contiguous(q) BY <1>3, <1>6 DEF Contiguous
<1>8. q # <<>>
  <2>1. DOMAIN <<>> = {} OBVIOUS
  <2>2. n + 1 \in DOMAIN q BY <1>1, <1>3
  <2> QED BY <2>1, <2>2
<1>9. EndAt(q) = piece.to BY <1>2, <1>8 DEF EndAt, Last
<1> DEFINE new == IF piece.kept THEN {} ELSE {n + 1}
<1>10. Exchanged(q) = Exchanged(p) \cup new
  <2>1. ASSUME NEW i PROVE i \in Exchanged(q) <=> i \in Exchanged(p) \/ i \in new
    <3>1. i \in Exchanged(q) <=> i \in 1..(n + 1) /\ ~q[i].kept BY <1>3 DEF Exchanged
    <3>2. i \in Exchanged(p) <=> i \in 1..n /\ ~p[i].kept BY <1>1 DEF Exchanged
    <3>3. i \in 1..(n + 1) <=> i \in 1..n \/ i = n + 1 BY <1>1
    <3>4. n + 1 \notin 1..n BY <1>1
    <3>5. i \in 1..n => q[i] = p[i] BY <1>2
    <3>6. i \in new <=> i = n + 1 /\ ~piece.kept OBVIOUS
    <3> HIDE DEF new
    <3> QED BY <1>2, <3>1, <3>2, <3>3, <3>4, <3>5, <3>6
  <2> HIDE DEF new
  <2> QED BY <2>1
<1>11. IsFiniteSet(Exchanged(p)) /\ n + 1 \notin Exchanged(p)
  <2>1. IsFiniteSet(1..n) BY <1>1, FS_Interval
  <2>2. Exchanged(p) \subseteq 1..n BY <1>1 DEF Exchanged
  <2>3. n + 1 \notin 1..n BY <1>1
  <2> QED BY <2>1, <2>2, <2>3, FS_Subset
<1>12. Cardinality(Exchanged(p)) \in Nat BY <1>11, FS_CardinalityType
<1>13. CASE piece.kept
  <2>1. Exchanged(q) = Exchanged(p) BY <1>10, <1>13
  <2>2. Cardinality(Exchanged(q)) = Cardinality(Exchanged(p)) + 0 BY <1>12, <2>1
  <2> QED BY <1>1, <1>2, <1>3, <1>7, <1>8, <1>9, <1>10, <1>13, <2>2 DEF q, n
<1>14. CASE ~piece.kept
  <2>1. Exchanged(q) = Exchanged(p) \cup {n + 1} BY <1>10, <1>14
  <2>2. Cardinality(Exchanged(q)) = Cardinality(Exchanged(p)) + 1 BY <1>11, <2>1, FS_AddElement
  <2> QED BY <1>1, <1>2, <1>3, <1>7, <1>8, <1>9, <1>10, <1>14, <2>2 DEF q, n
<1> QED BY <1>13, <1>14

\* Two pieces are added one by one.
LEMMA TwoAppended ==
    ASSUME NEW S, NEW p \in Seq(S), NEW x \in S, NEW y \in S
    PROVE  p \o <<x, y>> = Append(Append(p, x), y)
<1> DEFINE l == p \o <<x, y>>
           r == Append(Append(p, x), y)
           n == Len(p)
<1>1. n \in Nat BY LenProperties
<1>2. <<x, y>> \in Seq(S) /\ Len(<<x, y>>) = 2 OBVIOUS
<1>3. l \in Seq(S) /\ Len(l) = n + 2 /\ \A i \in 1..(n + 2) : l[i] = IF i <= n THEN p[i] ELSE <<x, y>>[i - n]
  BY <1>2, ConcatProperties
<1>4. Append(p, x) \in Seq(S) /\ Len(Append(p, x)) = n + 1 /\ Append(p, x)[n + 1] = x
      /\ \A i \in 1..n : Append(p, x)[i] = p[i]
  BY AppendProperties
<1>5. r \in Seq(S) /\ Len(r) = n + 2 /\ r[n + 2] = y /\ \A i \in 1..(n + 1) : r[i] = Append(p, x)[i]
  <2>1. (n + 1) + 1 = n + 2 BY <1>1
  <2> QED BY <1>4, <2>1, AppendProperties
<1> HIDE DEF l, r, n
<1>6. ASSUME NEW i \in 1..(n + 2) PROVE l[i] = r[i]
  <2>1. CASE i \in 1..n
    <3>1. i <= n /\ i \in 1..(n + 1) BY <1>1, <2>1
    <3> QED BY <1>3, <1>4, <1>5, <2>1, <3>1
  <2>2. CASE i = n + 1
    <3>1. ~(i <= n) /\ i - n = 1 /\ i \in 1..(n + 1) BY <1>1, <2>2
    <3>2. l[i] = x BY <1>3, <3>1
    <3> QED BY <1>4, <1>5, <2>2, <3>1, <3>2
  <2>3. CASE i = n + 2
    <3>1. ~(i <= n) /\ i - n = 2 BY <1>1, <2>3
    <3>2. l[i] = y BY <1>3, <3>1
    <3> QED BY <1>5, <2>3, <3>2
  <2> QED BY <1>1, <2>1, <2>2, <2>3
<1>7. l = r
  <2>1. l = [i \in 1..(n + 2) |-> l[i]] /\ r = [i \in 1..(n + 2) |-> r[i]] BY <1>3, <1>5, LenProperties
  <2> QED BY <1>6, <2>1
<1> QED BY <1>7 DEF l, r

\* An edit at any stage: what has been found and verified, and what has been replaced.
Searching == {"finding", "anchored", "aliased", "unsupported"}
Rendering == {"rendering", "unsupported", "comment", "interrupted", "returned", "mismatch"}
EditRecord ==
    [stage : Searching \cup Rendering, found : Nat, order : Seq(Nat), pieces : Seq(Piece),
     scalars : Seq(Rendered)]
CodesFound(e) ==
    /\ e.found <= Len(places)
    /\ \A i \in 1..e.found : places[i].node = "scalar" /\ ~PathHasAnchor(places[i].path)
OrderRight(e) ==
    IF e.order = <<>> THEN e.pieces = <<>> /\ e.scalars = <<>> /\ e.stage \in Searching
    ELSE e.order = SortedPlaces /\ VerifiedPlaces /\ e.found = Len(places) /\ e.stage \in Rendering
CursorOf(e) == IF e.scalars = <<>> THEN 0 ELSE EditableEnd(places[e.order[Len(e.scalars)]])
PiecesRight(e) ==
    /\ Contiguous(e.pieces) /\ Cardinality(Exchanged(e.pieces)) = Len(e.scalars)
    /\ \A i \in Exchanged(e.pieces) : [from |-> e.pieces[i].from, to |-> e.pieces[i].to] \in Replaceable
    /\ e.stage = "rendering" => EndAt(e.pieces) = CursorOf(e)
ScalarsRight(e) ==
    /\ Len(e.scalars) <= Len(e.order)
    /\ \A k \in DOMAIN e.scalars : KeepsPlace(places[e.order[k]], e.scalars[k])
EndRight(e) ==
    /\ codec = "right" /\ e.stage = "unsupported" => e.order = <<>> /\ ~Editable
    /\ e.stage \in {"returned", "mismatch"} =>
          Len(e.scalars) = Len(e.order) /\ e.pieces # <<>> /\ EndAt(e.pieces) = fileSize
    /\ e.stage = "mismatch" => \E k \in DOMAIN e.order :
          AtPlace(places[e.order[k]], e.scalars[k]) # places[e.order[k]].value
EditRight(e) ==
    e \in EditRecord /\ CodesFound(e) /\ OrderRight(e) /\ PiecesRight(e) /\ ScalarsRight(e) /\ EndRight(e)
EditInv == EditTyped /\ EditRight(edit)

\* What it is to be such a record.
LEMMA EditRecorded ==
    ASSUME NEW e
    PROVE  e \in EditRecord <=>
              /\ e = [stage |-> e.stage, found |-> e.found, order |-> e.order, pieces |-> e.pieces,
                      scalars |-> e.scalars]
              /\ e.stage \in Searching \cup Rendering /\ e.found \in Nat /\ e.order \in Seq(Nat)
              /\ e.pieces \in Seq(Piece) /\ e.scalars \in Seq(Rendered)
<1> DEFINE A == Searching \cup Rendering
           B == Seq(Nat)
           C == Seq(Piece)
           D == Seq(Rendered)
<1>1. EditRecord = [stage : A, found : Nat, order : B, pieces : C, scalars : D] BY DEF EditRecord
<1> HIDE DEF A, B, C, D
<1>2. e \in EditRecord <=>
         /\ e = [stage |-> e.stage, found |-> e.found, order |-> e.order, pieces |-> e.pieces,
                 scalars |-> e.scalars]
         /\ e.stage \in A /\ e.found \in Nat /\ e.order \in B /\ e.pieces \in C /\ e.scalars \in D
  BY <1>1
<1> QED BY <1>2 DEF A, B, C, D

\* The other fields stay when the stage is set.
LEMMA StageSet ==
    ASSUME NEW e \in EditRecord, NEW ending \in Searching \cup Rendering
    PROVE  LET f == [e EXCEPT !.stage = ending] IN
           /\ f \in EditRecord /\ f.stage = ending /\ f.found = e.found /\ f.order = e.order
           /\ f.pieces = e.pieces /\ f.scalars = e.scalars
<1> DEFINE f == [e EXCEPT !.stage = ending]
<1>1. f = [stage |-> ending, found |-> e.found, order |-> e.order, pieces |-> e.pieces, scalars |-> e.scalars]
  BY EditRecorded
<1> HIDE DEF f
<1>2. /\ f.stage = ending /\ f.found = e.found /\ f.order = e.order /\ f.pieces = e.pieces
      /\ f.scalars = e.scalars BY <1>1
<1>3. f \in EditRecord BY <1>1, <1>2, EditRecorded
<1> QED BY <1>2, <1>3 DEF f

\* An edit that stops says so and has changed nothing since.
LEMMA RefusedRight ==
    ASSUME EditTyped, NEW e, EditRight(e), NEW reason,
           \/ e.stage = "finding" /\ reason \in {"anchored", "aliased", "unsupported"}
           \/ e.stage = "rendering" /\ reason \in {"unsupported", "comment", "interrupted"},
           codec = "right" /\ reason = "unsupported" => e.order = <<>> /\ ~Editable
    PROVE  EditRight([e EXCEPT !.stage = reason])
<1> DEFINE f == [e EXCEPT !.stage = reason]
<1>1. e \in EditRecord /\ CodesFound(e) /\ OrderRight(e) /\ PiecesRight(e) /\ ScalarsRight(e)
  BY DEF EditRight
<1>2. reason \in Searching \cup Rendering BY DEF Searching, Rendering
<1>3. /\ f \in EditRecord /\ f.stage = reason /\ f.found = e.found /\ f.order = e.order
      /\ f.pieces = e.pieces /\ f.scalars = e.scalars
  BY <1>1, <1>2, StageSet
<1> HIDE DEF f
<1>4. CodesFound(f) BY <1>1, <1>3 DEF CodesFound
<1>5. OrderRight(f) BY <1>1, <1>3 DEF OrderRight, Searching, Rendering
<1>6. reason # "rendering" /\ reason \notin {"returned", "mismatch"} OBVIOUS
<1>7. PiecesRight(f) BY <1>1, <1>3, <1>6 DEF PiecesRight
<1>8. ScalarsRight(f) BY <1>1, <1>3 DEF ScalarsRight
<1>9. EndRight(f) BY <1>3, <1>6 DEF EndRight
<1> QED BY <1>3, <1>4, <1>5, <1>7, <1>8, <1>9 DEF EditRight, f

\* One code more is found.
LEMMA FoundRight ==
    ASSUME EditTyped, NEW e, EditRight(e), e.stage = "finding", e.found < Len(places),
           ~PathHasAnchor(places[e.found + 1].path), places[e.found + 1].node = "scalar"
    PROVE  EditRight([e EXCEPT !.found = @ + 1])
<1> DEFINE f == [e EXCEPT !.found = @ + 1]
<1>1. e \in EditRecord /\ CodesFound(e) /\ OrderRight(e) /\ PiecesRight(e) /\ ScalarsRight(e) /\ EndRight(e)
  BY DEF EditRight
<1>2. /\ e = [stage |-> e.stage, found |-> e.found, order |-> e.order, pieces |-> e.pieces,
              scalars |-> e.scalars]
      /\ e.stage \in Searching \cup Rendering /\ e.found \in Nat /\ e.order \in Seq(Nat)
      /\ e.pieces \in Seq(Piece) /\ e.scalars \in Seq(Rendered)
  BY <1>1, EditRecorded
<1> DEFINE next == e.found + 1
<1>12. f = [e EXCEPT !.found = next] OBVIOUS
<1>13. next \in Nat BY <1>2
<1> HIDE DEF f, next
<1>3. f = [stage |-> e.stage, found |-> next, order |-> e.order, pieces |-> e.pieces,
           scalars |-> e.scalars] BY <1>2, <1>12
<1>14. /\ f.stage = e.stage /\ f.found = next /\ f.order = e.order /\ f.pieces = e.pieces
       /\ f.scalars = e.scalars BY <1>3
<1>5. f \in EditRecord BY <1>2, <1>3, <1>13, <1>14, EditRecorded
<1>4. /\ f.stage = e.stage /\ f.found = e.found + 1 /\ f.order = e.order /\ f.pieces = e.pieces
      /\ f.scalars = e.scalars BY <1>14 DEF next
<1>6. Len(places) \in Nat BY PlacesTyped
<1>7. CodesFound(f)
  <2>1. f.found <= Len(places) BY <1>2, <1>4, <1>6
  <2>2. ASSUME NEW i \in 1..f.found PROVE places[i].node = "scalar" /\ ~PathHasAnchor(places[i].path)
    <3>1. i \in 1..e.found \/ i = e.found + 1 BY <1>2, <1>4
    <3> QED BY <1>1, <3>1 DEF CodesFound
  <2> QED BY <2>1, <2>2 DEF CodesFound
<1>8. OrderRight(f)
  <2>1. e.order = <<>> BY <1>1 DEF OrderRight, Rendering
  <2> QED BY <1>1, <1>4, <2>1 DEF OrderRight
<1>9. PiecesRight(f) BY <1>1, <1>4 DEF PiecesRight, CursorOf
<1>10. ScalarsRight(f) BY <1>1, <1>4 DEF ScalarsRight
<1>11. EndRight(f) BY <1>1, <1>4 DEF EndRight
<1> QED BY <1>5, <1>7, <1>8, <1>9, <1>10, <1>11 DEF EditRight, f

\* All codes are found and verified.
LEMMA VerifiedRight ==
    ASSUME EditTyped, NEW e, EditRight(e), e.stage = "finding", e.found = Len(places), VerifiedPlaces
    PROVE  EditRight([e EXCEPT !.stage = "rendering", !.order = SortedPlaces])
<1> DEFINE d == [e EXCEPT !.stage = "rendering"]
           f == [d EXCEPT !.order = SortedPlaces]
<1>1. e \in EditRecord /\ CodesFound(e) /\ OrderRight(e) /\ PiecesRight(e) BY DEF EditRight
<1>2. /\ d \in EditRecord /\ d.stage = "rendering" /\ d.found = e.found
      /\ d.pieces = e.pieces /\ d.scalars = e.scalars
  BY <1>1, StageSet DEF Rendering
<1> HIDE DEF d
<1>3. /\ d = [stage |-> d.stage, found |-> d.found, order |-> d.order, pieces |-> d.pieces,
              scalars |-> d.scalars]
      /\ d.stage \in Searching \cup Rendering /\ d.found \in Nat
      /\ d.pieces \in Seq(Piece) /\ d.scalars \in Seq(Rendered)
  BY <1>2, EditRecorded
<1>4. f = [stage |-> d.stage, found |-> d.found, order |-> SortedPlaces, pieces |-> d.pieces,
           scalars |-> d.scalars] BY <1>3
<1> HIDE DEF f
<1>5. /\ f.stage = "rendering" /\ f.found = e.found /\ f.order = SortedPlaces /\ f.pieces = e.pieces
      /\ f.scalars = e.scalars BY <1>2, <1>4
<1>6. /\ Len(places) \in Nat /\ SortedPlaces \in [1..Len(places) -> 1..Len(places)] BY RangesTyped
<1>7. SortedPlaces \in Seq(Nat) /\ Len(SortedPlaces) = Len(places)
  <2> DEFINE n == Len(places)
             o == SortedPlaces
  <2>1. n \in Nat /\ o \in [1..n -> Nat] BY <1>6
  <2> HIDE DEF n, o
  <2>2. o \in Seq(Nat) /\ Len(o) = n BY <2>1
  <2> QED BY <2>2 DEF n, o
<1>8. Len(places) # 0
  <2>1. places \in Seq(CodeNode) BY DEF EditTyped
  <2> QED BY <2>1, EmptySeq DEF VerifiedPlaces
<1>9. SortedPlaces # <<>> BY <1>7, <1>8, EmptySeq
<1>10. e.order = <<>> BY <1>1 DEF OrderRight, Rendering
<1>11. e.pieces = <<>> /\ e.scalars = <<>> BY <1>1, <1>10 DEF OrderRight
<1>12. f \in EditRecord
  <2>1. f.stage \in Searching \cup Rendering BY <1>5 DEF Rendering
  <2>2. f.found \in Nat /\ f.order \in Seq(Nat) /\ f.pieces \in Seq(Piece) /\ f.scalars \in Seq(Rendered)
    BY <1>2, <1>3, <1>5, <1>7
  <2>3. f = [stage |-> f.stage, found |-> f.found, order |-> f.order, pieces |-> f.pieces,
             scalars |-> f.scalars] BY <1>4
  <2> QED BY <2>1, <2>2, <2>3, EditRecorded
<1>13. CodesFound(f) BY <1>1, <1>5 DEF CodesFound
<1>14. OrderRight(f) BY <1>5, <1>9 DEF OrderRight, Rendering
<1>15. PiecesRight(f)
  <2>1. CursorOf(f) = 0 /\ EndAt(f.pieces) = 0 BY <1>5, <1>11 DEF CursorOf, EndAt
  <2> QED BY <1>1, <1>5, <2>1 DEF PiecesRight
<1>16. ScalarsRight(f)
  <2>1. Len(f.scalars) = 0 /\ DOMAIN f.scalars = {} BY <1>5, <1>11
  <2>2. 0 <= Len(f.order) BY <1>5, <1>6, <1>7
  <2> QED BY <2>1, <2>2 DEF ScalarsRight
<1>17. EndRight(f) BY <1>5 DEF EndRight
<1>18. [e EXCEPT !.stage = "rendering", !.order = SortedPlaces] = f
  <2>1. [e EXCEPT !.stage = "rendering", !.order = SortedPlaces]
        = [[e EXCEPT !.stage = "rendering"] EXCEPT !.order = SortedPlaces] OBVIOUS
  <2> QED BY <2>1 DEF d, f
<1>19. EditRight(f) BY <1>12, <1>13, <1>14, <1>15, <1>16, <1>17 DEF EditRight
<1> QED BY <1>18, <1>19

\* The other fields of the edit stay when one is set.
LEMMA PiecesSet ==
    ASSUME NEW e \in EditRecord, NEW pieces \in Seq(Piece)
    PROVE  LET f == [e EXCEPT !.pieces = pieces] IN
           /\ f \in EditRecord /\ f.stage = e.stage /\ f.found = e.found /\ f.order = e.order
           /\ f.pieces = pieces /\ f.scalars = e.scalars
<1> DEFINE f == [e EXCEPT !.pieces = pieces]
<1>0. e = [stage |-> e.stage, found |-> e.found, order |-> e.order, pieces |-> e.pieces, scalars |-> e.scalars]
  BY EditRecorded
<1>1. f = [stage |-> e.stage, found |-> e.found, order |-> e.order, pieces |-> pieces, scalars |-> e.scalars]
  BY ONLY <1>0
<1> HIDE DEF f
<1>2. /\ f.stage = e.stage /\ f.found = e.found /\ f.order = e.order /\ f.pieces = pieces
      /\ f.scalars = e.scalars BY <1>1
<1>3. f \in EditRecord BY <1>1, <1>2, EditRecorded
<1> QED BY <1>2, <1>3 DEF f

\* The same of the scalars.
LEMMA ScalarsSet ==
    ASSUME NEW e \in EditRecord, NEW scalars \in Seq(Rendered)
    PROVE  LET f == [e EXCEPT !.scalars = scalars] IN
           /\ f \in EditRecord /\ f.stage = e.stage /\ f.found = e.found /\ f.order = e.order
           /\ f.pieces = e.pieces /\ f.scalars = scalars
<1> DEFINE f == [e EXCEPT !.scalars = scalars]
<1>0. e = [stage |-> e.stage, found |-> e.found, order |-> e.order, pieces |-> e.pieces, scalars |-> e.scalars]
  BY EditRecorded
<1>1. f = [stage |-> e.stage, found |-> e.found, order |-> e.order, pieces |-> e.pieces, scalars |-> scalars]
  BY ONLY <1>0
<1> HIDE DEF f
<1>2. /\ f.stage = e.stage /\ f.found = e.found /\ f.order = e.order /\ f.pieces = e.pieces
      /\ f.scalars = scalars BY <1>1
<1>3. f \in EditRecord BY <1>1, <1>2, EditRecorded
<1> QED BY <1>2, <1>3 DEF f

\* The code to be rendered is the next one in the file.
LEMMA NextCode ==
    ASSUME EditTyped, NEW e, EditRight(e), e.stage = "rendering"
    PROVE  /\ e.order = SortedPlaces /\ VerifiedPlaces /\ Len(e.order) = Len(places) /\ Len(places) \in Nat
           /\ DOMAIN e.order = 1..Len(places) /\ Len(e.scalars) \in Nat /\ CursorOf(e) \in Nat
           /\ \A j \in 1..Len(places) :
                 LET place == places[e.order[j]] IN
                 /\ e.order[j] \in DOMAIN places /\ IsPlace(place)
                 /\ place.from \in Nat /\ EditableEnd(place) \in Nat
                 /\ place.from < EditableEnd(place) /\ EditableEnd(place) <= fileSize
                 /\ RangeOf(place) \in Replaceable
                 /\ j = Len(e.scalars) + 1 => CursorOf(e) <= place.from
           /\ CursorOf(e) <= fileSize
<1> DEFINE n == Len(places)
           r == Ranges(SortedPlaces)
           m == Len(e.scalars)
<1>1. e \in EditRecord /\ OrderRight(e) /\ ScalarsRight(e) BY DEF EditRight
<1>2. e.order = SortedPlaces /\ VerifiedPlaces BY <1>1 DEF OrderRight, Searching
<1>3. /\ n \in Nat /\ e.order \in [1..n -> 1..n] /\ Starting(r, n) /\ DOMAIN places = 1..n
      /\ \A i \in 1..n : r[i] = RangeOf(places[e.order[i]])
  BY <1>2, RangesTyped, PlacesTyped
<1>4. Valid(r) BY <1>2 DEF VerifiedPlaces
<1>5. fileSize \in Nat BY DEF EditTyped
<1>6. e.order \in Seq(Nat) /\ e.scalars \in Seq(Rendered) BY <1>1, EditRecorded
<1>7. m \in Nat /\ (e.scalars # <<>> => m # 0) BY <1>6, LenProperties, EmptySeq
<1>8. DOMAIN e.order = 1..n BY <1>3
<1>9. Len(e.order) = n
  <2>1. DOMAIN e.order = 1..Len(e.order) /\ Len(e.order) \in Nat BY <1>6, LenProperties
  <2> DEFINE l == Len(e.order)
  <2>2. 1..l = 1..n /\ l \in Nat BY <1>8, <2>1
  <2> HIDE DEF l, n
  <2>3. l = n
    <3>1. CASE l = 0
      <4>1. 1 \notin 1..n BY <2>2, <3>1
      <4> QED BY <1>3, <3>1, <4>1
    <3>2. CASE l # 0
      <4>1. l \in 1..l BY <2>2, <3>2
      <4>2. l \in 1..n BY <2>2, <4>1
      <4>3. n \in 1..n BY <1>3, <4>2
      <4>4. n \in 1..l BY <2>2, <4>3
      <4> QED BY <1>3, <2>2, <4>2, <4>4
    <3> QED BY <3>1, <3>2
  <2> QED BY <2>3 DEF l
<1>10. m <= n BY <1>1, <1>9 DEF ScalarsRight
<1> HIDE DEF n, r, m
<1>11. ASSUME NEW j \in 1..n
       PROVE  LET place == places[e.order[j]] IN
              /\ e.order[j] \in DOMAIN places /\ IsPlace(place)
              /\ place.from \in Nat /\ EditableEnd(place) \in Nat
              /\ place.from < EditableEnd(place) /\ EditableEnd(place) <= fileSize
              /\ RangeOf(place) \in Replaceable
              /\ r[j].from = place.from /\ r[j].to = EditableEnd(place)
              /\ r[j].from >= IF j = 1 THEN 0 ELSE r[j - 1].to
  <2> DEFINE place == places[e.order[j]]
  <2>1. e.order[j] \in DOMAIN places BY <1>3
  <2>2. IsPlace(place) BY <2>1, PlacesTyped
  <2> HIDE DEF place
  <2>3. r[j] = RangeOf(place) BY <1>3 DEF place
  <2>4. r[j].from = place.from /\ r[j].to = EditableEnd(place) BY <2>3 DEF RangeOf
  <2>5. place.from \in Nat /\ EditableEnd(place) \in Nat BY <2>2, PlaceTyped, EndTyped
  <2>6. j \in DOMAIN r BY <1>3 DEF Starting
  <2>7. r[j].from < r[j].to /\ r[j].to <= fileSize /\ r[j].from >= IF j = 1 THEN 0 ELSE r[j - 1].to
    BY <1>4, <2>6 DEF Valid
  <2>8. RangeOf(place) \in Replaceable BY <2>3 DEF Replaceable, r, n
  <2> QED BY <2>1, <2>2, <2>4, <2>5, <2>7, <2>8 DEF place
<1>12. CursorOf(e) = IF m = 0 THEN 0 ELSE r[m].to
  <2>1. CASE e.scalars = <<>>
    <3>1. m = 0 BY <2>1, EmptySeq DEF m
    <3> QED BY <2>1, <3>1 DEF CursorOf
  <2>2. CASE e.scalars # <<>>
    <3>1. m \in 1..n BY <1>3, <1>7, <1>10, <2>2
    <3>2. r[m].to = EditableEnd(places[e.order[m]]) BY <1>11, <3>1
    <3> QED BY <1>7, <2>2, <3>2 DEF CursorOf, m
  <2> QED BY <2>1, <2>2
<1>13. CursorOf(e) \in Nat /\ CursorOf(e) <= fileSize
  <2>1. CASE m = 0 BY <1>5, <1>12, <2>1
  <2>2. CASE m # 0
    <3>1. m \in 1..n BY <1>3, <1>7, <1>10, <2>2
    <3>2. r[m].to \in Nat /\ r[m].to <= fileSize BY <1>11, <3>1
    <3> QED BY <1>12, <2>2, <3>2
  <2> QED BY <2>1, <2>2
<1>14. ASSUME NEW j \in 1..n, j = m + 1 PROVE CursorOf(e) <= places[e.order[j]].from
  <2>1. r[j].from >= (IF j = 1 THEN 0 ELSE r[j - 1].to) /\ r[j].from = places[e.order[j]].from BY <1>11
  <2>2. j - 1 = m /\ (j = 1 <=> m = 0) BY <1>7, <1>14
  <2>3. CursorOf(e) = IF j = 1 THEN 0 ELSE r[j - 1].to BY <1>12, <2>2
  <2>4. r[j].from \in Nat BY <1>11
  <2>5. r[j].from >= CursorOf(e) BY <2>1, <2>3
  <2> QED BY <1>13, <2>1, <2>4, <2>5
<1> QED BY <1>2, <1>3, <1>7, <1>8, <1>9, <1>11, <1>13, <1>14 DEF n, m

\* A code is replaced: two pieces and one scalar more.
LEMMA ReplacedRight ==
    ASSUME EditTyped, NEW e, EditRight(e), e.stage = "rendering", Len(e.scalars) < Len(e.order),
           NEW s \in Rendered, NEW place, place = places[e.order[Len(e.scalars) + 1]], KeepsPlace(place, s)
    PROVE  EditRight([e EXCEPT
              !.pieces = @ \o <<Kept(CursorOf(e), place.from), Replaced(place.from, EditableEnd(place))>>,
              !.scalars = Append(@, s)])
<1> DEFINE j == Len(e.scalars) + 1
           one == Kept(CursorOf(e), place.from)
           two == Replaced(place.from, EditableEnd(place))
           p == Append(e.pieces, one)
           pieces == Append(p, two)
           scalars == Append(e.scalars, s)
           f == [[e EXCEPT !.pieces = pieces] EXCEPT !.scalars = scalars]
<1>1. e \in EditRecord /\ CodesFound(e) /\ OrderRight(e) /\ PiecesRight(e) /\ ScalarsRight(e)
  BY DEF EditRight
<1>2. /\ e = [stage |-> e.stage, found |-> e.found, order |-> e.order, pieces |-> e.pieces,
              scalars |-> e.scalars]
      /\ e.stage \in Searching \cup Rendering /\ e.found \in Nat /\ e.order \in Seq(Nat)
      /\ e.pieces \in Seq(Piece) /\ e.scalars \in Seq(Rendered)
  BY <1>1, EditRecorded
<1>3. /\ e.order = SortedPlaces /\ VerifiedPlaces /\ Len(e.order) = Len(places) /\ Len(places) \in Nat
      /\ DOMAIN e.order = 1..Len(places) /\ Len(e.scalars) \in Nat /\ CursorOf(e) \in Nat
  BY NextCode
<1>4. j \in 1..Len(places) BY <1>3
<1>5. /\ place.from \in Nat /\ EditableEnd(place) \in Nat /\ place.from < EditableEnd(place)
      /\ RangeOf(place) \in Replaceable /\ CursorOf(e) <= place.from
  BY <1>4, NextCode
<1>6. one \in Piece /\ one.from = CursorOf(e) /\ one.to = place.from /\ one.kept
  BY <1>3, <1>5 DEF Kept, Piece
<1>7. two \in Piece /\ two.from = place.from /\ two.to = EditableEnd(place) /\ ~two.kept
  BY <1>5 DEF Replaced, Piece
<1>8. EndAt(e.pieces) = CursorOf(e) /\ Contiguous(e.pieces) /\ Cardinality(Exchanged(e.pieces)) = Len(e.scalars)
  BY <1>1 DEF PiecesRight
<1> HIDE DEF one, two, pieces, scalars, f, j
<1>30. e.pieces \in Seq(Piece) /\ Contiguous(e.pieces) /\ one \in Piece /\ one.from = EndAt(e.pieces)
       /\ one.from <= one.to
  BY <1>2, <1>5, <1>6, <1>8
<1>31. /\ Append(e.pieces, one) \in Seq(Piece) /\ Contiguous(Append(e.pieces, one))
       /\ EndAt(Append(e.pieces, one)) = one.to
       /\ \A i \in DOMAIN e.pieces :
             Append(e.pieces, one)[i] = e.pieces[i] /\ i \in DOMAIN Append(e.pieces, one)
       /\ Exchanged(Append(e.pieces, one)) = Exchanged(e.pieces) \cup (IF one.kept THEN {} ELSE {Len(e.pieces) + 1})
       /\ Cardinality(Exchanged(Append(e.pieces, one)))
          = Cardinality(Exchanged(e.pieces)) + (IF one.kept THEN 0 ELSE 1)
  BY ONLY <1>30, PieceAppended
<1>9. /\ p \in Seq(Piece) /\ Contiguous(p) /\ EndAt(p) = place.from
      /\ \A i \in DOMAIN e.pieces : p[i] = e.pieces[i] /\ i \in DOMAIN p
      /\ Exchanged(p) = Exchanged(e.pieces) \cup {}
      /\ Cardinality(Exchanged(p)) = Len(e.scalars) + 0
  BY <1>6, <1>8, <1>31
<1> HIDE DEF p
<1>10. two.from = EndAt(p) /\ two.from <= two.to BY <1>5, <1>7, <1>9
<1>32. /\ Append(p, two) \in Seq(Piece) /\ Contiguous(Append(p, two)) /\ EndAt(Append(p, two)) = two.to
       /\ \A i \in DOMAIN p : Append(p, two)[i] = p[i] /\ i \in DOMAIN Append(p, two)
       /\ Append(p, two)[Len(p) + 1] = two
       /\ Exchanged(Append(p, two)) = Exchanged(p) \cup (IF two.kept THEN {} ELSE {Len(p) + 1})
       /\ Cardinality(Exchanged(Append(p, two))) = Cardinality(Exchanged(p)) + (IF two.kept THEN 0 ELSE 1)
  BY ONLY <1>7, <1>9, <1>10, PieceAppended
<1>11. /\ pieces \in Seq(Piece) /\ Contiguous(pieces) /\ EndAt(pieces) = EditableEnd(place)
       /\ \A i \in DOMAIN p : pieces[i] = p[i] /\ i \in DOMAIN pieces
       /\ pieces[Len(p) + 1] = two
       /\ Exchanged(pieces) = Exchanged(p) \cup {Len(p) + 1}
       /\ Cardinality(Exchanged(pieces)) = Cardinality(Exchanged(p)) + 1
  BY <1>7, <1>32 DEF pieces
<1>12. e.pieces \o <<one, two>> = pieces BY <1>2, <1>6, <1>7, TwoAppended DEF p, pieces
<1>13. /\ scalars \in Seq(Rendered) /\ Len(scalars) = Len(e.scalars) + 1
       /\ scalars[Len(e.scalars) + 1] = s
       /\ \A k \in 1..Len(e.scalars) : scalars[k] = e.scalars[k]
  BY <1>2, AppendProperties DEF scalars
<1>14. DOMAIN scalars = 1..j BY <1>13, LenProperties DEF j
<1> DEFINE d == [e EXCEPT !.pieces = pieces]
<1>16. /\ d \in EditRecord /\ d.stage = e.stage /\ d.found = e.found /\ d.order = e.order
       /\ d.pieces = pieces /\ d.scalars = e.scalars
  BY <1>1, <1>11, PiecesSet
<1>33. f = [d EXCEPT !.scalars = scalars] BY DEF f
<1> HIDE DEF d
<1>17. /\ f \in EditRecord /\ f.stage = e.stage /\ f.found = e.found /\ f.order = e.order
       /\ f.pieces = pieces /\ f.scalars = scalars
  BY <1>13, <1>16, <1>33, ScalarsSet
<1>18. CodesFound(f) BY <1>1, <1>17 DEF CodesFound
<1>19. e.order # <<>> BY <1>1 DEF OrderRight, Searching
<1>20. OrderRight(f) BY <1>1, <1>17, <1>19 DEF OrderRight
<1>21. PiecesRight(f)
  <2>1. Cardinality(Exchanged(pieces)) = Len(scalars) BY <1>3, <1>9, <1>11, <1>13
  <2>2. ASSUME NEW i \in Exchanged(pieces)
        PROVE  [from |-> pieces[i].from, to |-> pieces[i].to] \in Replaceable
    <3>1. CASE i = Len(p) + 1
      <4>1. [from |-> pieces[i].from, to |-> pieces[i].to] = RangeOf(place) BY <1>7, <1>11, <3>1 DEF RangeOf
      <4> QED BY <1>5, <4>1
    <3>2. CASE i # Len(p) + 1
      <4>1. i \in Exchanged(e.pieces) BY <1>9, <1>11, <3>2
      <4>2. pieces[i] = e.pieces[i] BY <1>9, <1>11, <4>1 DEF Exchanged
      <4>3. [from |-> e.pieces[i].from, to |-> e.pieces[i].to] \in Replaceable BY <1>1, <4>1 DEF PiecesRight
      <4> QED BY <4>2, <4>3
    <3> QED BY <3>1, <3>2
  <2>3. EndAt(pieces) = CursorOf(f)
    <3>1. scalars # <<>>
      <4>1. Len(scalars) # 0 BY <1>3, <1>13
      <4> QED BY <4>1, EmptySeq
    <3>2. CursorOf(f) = EditableEnd(places[e.order[Len(scalars)]]) BY <1>17, <3>1 DEF CursorOf
    <3> QED BY <1>11, <1>13, <3>2
  <2> QED BY <1>11, <1>17, <2>1, <2>2, <2>3 DEF PiecesRight
<1>22. ScalarsRight(f)
  <2>1. Len(scalars) <= Len(e.order) BY <1>3, <1>13
  <2>2. ASSUME NEW k \in 1..j PROVE KeepsPlace(places[e.order[k]], scalars[k])
    <3>1. CASE k = j BY <1>13, <3>1 DEF j
    <3>2. CASE k # j
      <4>1. k \in 1..Len(e.scalars) BY <1>3, <3>2 DEF j
      <4>2. k \in DOMAIN e.scalars BY <1>2, <4>1, LenProperties
      <4>3. KeepsPlace(places[e.order[k]], e.scalars[k]) BY <1>1, <4>2 DEF ScalarsRight
      <4> QED BY <1>13, <4>1, <4>3
    <3> QED BY <3>1, <3>2
  <2> QED BY <1>14, <1>17, <2>1, <2>2 DEF ScalarsRight
<1>23. EndRight(f) BY <1>17 DEF EndRight
<1>24. EditRight(f) BY <1>17, <1>18, <1>20, <1>21, <1>22, <1>23 DEF EditRight
<1>25. [e EXCEPT !.pieces = e.pieces \o <<one, two>>, !.scalars = scalars] = f
  <2>1. [e EXCEPT !.pieces = pieces, !.scalars = scalars] = [[e EXCEPT !.pieces = pieces] EXCEPT !.scalars = scalars]
    OBVIOUS
  <2> QED BY <1>12, <2>1 DEF f
<1> QED BY <1>24, <1>25 DEF scalars, one, two

\* The rest of the file follows the last code; the edit ends.
LEMMA ReparsedRight ==
    ASSUME EditTyped, NEW e, EditRight(e), e.stage = "rendering", Len(e.scalars) = Len(e.order),
           NEW ending,
           \/ ending = "returned"
           \/ ending = "mismatch" /\ \E k \in DOMAIN e.order :
                 AtPlace(places[e.order[k]], e.scalars[k]) # places[e.order[k]].value
    PROVE  EditRight([e EXCEPT !.pieces = Append(@, Kept(CursorOf(e), fileSize)), !.stage = ending])
<1> DEFINE piece == Kept(CursorOf(e), fileSize)
           pieces == Append(e.pieces, piece)
           d == [e EXCEPT !.pieces = pieces]
           f == [d EXCEPT !.stage = ending]
<1>1. e \in EditRecord /\ CodesFound(e) /\ OrderRight(e) /\ PiecesRight(e) /\ ScalarsRight(e)
  BY DEF EditRight
<1>2. e.order \in Seq(Nat) /\ e.pieces \in Seq(Piece) /\ e.scalars \in Seq(Rendered)
  BY <1>1, EditRecorded
<1>3. CursorOf(e) \in Nat /\ CursorOf(e) <= fileSize BY NextCode
<1>4. fileSize \in Nat BY DEF EditTyped
<1>5. piece \in Piece /\ piece.from = CursorOf(e) /\ piece.to = fileSize /\ piece.kept
  BY <1>3, <1>4 DEF Kept, Piece
<1>6. EndAt(e.pieces) = CursorOf(e) /\ Contiguous(e.pieces) /\ Cardinality(Exchanged(e.pieces)) = Len(e.scalars)
  BY <1>1 DEF PiecesRight
<1> HIDE DEF piece, pieces, d, f
<1>7. e.pieces \in Seq(Piece) /\ Contiguous(e.pieces) /\ piece \in Piece /\ piece.from = EndAt(e.pieces)
      /\ piece.from <= piece.to
  BY <1>2, <1>3, <1>5, <1>6
<1>8. /\ Append(e.pieces, piece) \in Seq(Piece) /\ Contiguous(Append(e.pieces, piece))
      /\ EndAt(Append(e.pieces, piece)) = piece.to /\ Append(e.pieces, piece) # <<>>
      /\ \A i \in DOMAIN e.pieces : Append(e.pieces, piece)[i] = e.pieces[i]
      /\ Exchanged(Append(e.pieces, piece)) = Exchanged(e.pieces) \cup (IF piece.kept THEN {} ELSE {Len(e.pieces) + 1})
      /\ Cardinality(Exchanged(Append(e.pieces, piece)))
         = Cardinality(Exchanged(e.pieces)) + (IF piece.kept THEN 0 ELSE 1)
  BY ONLY <1>7, PieceAppended
<1>9. /\ pieces \in Seq(Piece) /\ Contiguous(pieces) /\ EndAt(pieces) = fileSize /\ pieces # <<>>
      /\ \A i \in DOMAIN e.pieces : pieces[i] = e.pieces[i]
      /\ Exchanged(pieces) = Exchanged(e.pieces)
      /\ Cardinality(Exchanged(pieces)) = Len(e.scalars) + 0
  BY <1>5, <1>6, <1>8 DEF pieces
<1>10. Len(e.scalars) \in Nat BY <1>2, LenProperties
<1>11. /\ d \in EditRecord /\ d.stage = e.stage /\ d.found = e.found /\ d.order = e.order
       /\ d.pieces = pieces /\ d.scalars = e.scalars
  BY <1>1, <1>9, PiecesSet DEF d
<1>12. ending \in Searching \cup Rendering BY DEF Rendering
<1>13. /\ f \in EditRecord /\ f.stage = ending /\ f.found = e.found /\ f.order = e.order
       /\ f.pieces = pieces /\ f.scalars = e.scalars
  BY <1>11, <1>12, StageSet DEF f
<1>14. CodesFound(f) BY <1>1, <1>13 DEF CodesFound
<1>15. e.order # <<>> BY <1>1 DEF OrderRight, Searching
<1>16. OrderRight(f) BY <1>1, <1>13, <1>15 DEF OrderRight, Rendering
<1>17. PiecesRight(f)
  <2>1. ASSUME NEW i \in Exchanged(pieces)
        PROVE  [from |-> pieces[i].from, to |-> pieces[i].to] \in Replaceable
    <3>1. i \in Exchanged(e.pieces) BY <1>9
    <3>2. pieces[i] = e.pieces[i] BY <1>9, <3>1 DEF Exchanged
    <3>3. [from |-> e.pieces[i].from, to |-> e.pieces[i].to] \in Replaceable BY <1>1, <3>1 DEF PiecesRight
    <3> QED BY <3>2, <3>3
  <2>2. Cardinality(Exchanged(pieces)) = Len(e.scalars) BY <1>9, <1>10
  <2>3. f.stage # "rendering" BY <1>13
  <2> QED BY <1>9, <1>13, <2>1, <2>2, <2>3 DEF PiecesRight
<1>18. ScalarsRight(f) BY <1>1, <1>13 DEF ScalarsRight
<1>19. EndRight(f)
  <2>1. f.stage # "unsupported" BY <1>13
  <2>2. Len(f.scalars) = Len(f.order) /\ f.pieces # <<>> /\ EndAt(f.pieces) = fileSize BY <1>9, <1>13
  <2>3. f.stage = "mismatch" => \E k \in DOMAIN f.order :
           AtPlace(places[f.order[k]], f.scalars[k]) # places[f.order[k]].value BY <1>13
  <2> QED BY <2>1, <2>2, <2>3 DEF EndRight
<1>20. EditRight(f) BY <1>13, <1>14, <1>16, <1>17, <1>18, <1>19 DEF EditRight
<1>21. [e EXCEPT !.pieces = Append(@, piece), !.stage = ending] = f
  <2>1. [e EXCEPT !.pieces = Append(@, piece), !.stage = ending]
        = [[e EXCEPT !.pieces = Append(e.pieces, piece)] EXCEPT !.stage = ending] OBVIOUS
  <2> QED BY <2>1 DEF f, d, pieces
<1> QED BY <1>20, <1>21 DEF piece

\* Nothing is done to the file before the codes are known.
LEMMA EditStarts ==
    ASSUME EditTyped, EditInit
    PROVE  EditRight(edit)
<1> DEFINE e == edit
<1>1. e = [stage |-> "finding", found |-> 0, order |-> <<>>, pieces |-> <<>>, scalars |-> <<>>] BY DEF EditInit
<1> HIDE DEF e
<1>2. /\ e.stage = "finding" /\ e.found = 0 /\ e.order = <<>> /\ e.pieces = <<>> /\ e.scalars = <<>>
  BY <1>1
<1>3. e = [stage |-> e.stage, found |-> e.found, order |-> e.order, pieces |-> e.pieces, scalars |-> e.scalars]
  BY <1>1, <1>2
<1>4. e \in EditRecord
  <2>1. e.stage \in Searching \cup Rendering /\ e.found \in Nat BY <1>2 DEF Searching
  <2>2. e.order \in Seq(Nat) /\ e.pieces \in Seq(Piece) /\ e.scalars \in Seq(Rendered) BY <1>2
  <2> QED BY <1>3, <2>1, <2>2, EditRecorded
<1>5. CodesFound(e) BY <1>2, PlacesTyped DEF CodesFound
<1>6. OrderRight(e) BY <1>2 DEF OrderRight, Searching
<1>7. PiecesRight(e)
  <2>1. DOMAIN e.pieces = {} /\ Len(e.scalars) = 0 BY <1>2
  <2>2. Exchanged(e.pieces) = {} BY <2>1 DEF Exchanged
  <2>3. Cardinality(Exchanged(e.pieces)) = 0 BY <2>2, FS_EmptySet
  <2> QED BY <1>2, <2>1, <2>2, <2>3 DEF PiecesRight, Contiguous
<1>8. ScalarsRight(e)
  <2>1. DOMAIN e.scalars = {} /\ Len(e.scalars) = 0 /\ Len(e.order) = 0 BY <1>2
  <2> QED BY <2>1 DEF ScalarsRight
<1>9. EndRight(e) BY <1>2 DEF EndRight
<1> QED BY <1>4, <1>5, <1>6, <1>7, <1>8, <1>9 DEF EditRight, e

\* A code is found only if it is a scalar that nothing else refers to.
LEMMA FindCodeRight ==
    ASSUME EditTyped, EditRight(edit), FindCode
    PROVE  EditRight(edit')
<1> DEFINE e == edit
           place == NextPlace
<1>1. /\ e.stage = "finding" /\ e.found < Len(places)
      /\ IF PathHasAnchor(place.path) THEN edit' = [e EXCEPT !.stage = "anchored"]
         ELSE IF place.node = "alias" THEN edit' = [e EXCEPT !.stage = "aliased"]
         ELSE IF place.node # "scalar" THEN edit' = [e EXCEPT !.stage = "unsupported"]
         ELSE edit' = [e EXCEPT !.found = @ + 1]
  BY DEF FindCode, RefuseEdit
<1>2. place = places[e.found + 1] BY DEF NextPlace
<1>3. EditRight(e) OBVIOUS
<1>4. e \in EditRecord /\ e.found \in Nat /\ e.order = <<>>
  <2>1. e \in EditRecord /\ OrderRight(e) BY <1>3 DEF EditRight
  <2>2. e.found \in Nat BY <2>1, EditRecorded
  <2> QED BY <1>1, <2>1, <2>2 DEF OrderRight, Rendering
<1> HIDE DEF e, place
<1>5. ASSUME ~PathHasAnchor(place.path), place.node # "scalar" PROVE ~Editable
  <2>1. e.found + 1 \in DOMAIN places BY <1>1, <1>4, PlacesTyped
  <2> QED BY <1>2, <1>5, <2>1 DEF Editable
<1>6. CASE PathHasAnchor(place.path)
  <2>1. EditRight([e EXCEPT !.stage = "anchored"]) BY <1>1, <1>3, RefusedRight
  <2> QED BY <1>1, <1>6, <2>1
<1>7. CASE ~PathHasAnchor(place.path) /\ place.node = "alias"
  <2>1. EditRight([e EXCEPT !.stage = "aliased"]) BY <1>1, <1>3, RefusedRight
  <2> QED BY <1>1, <1>7, <2>1
<1>8. CASE ~PathHasAnchor(place.path) /\ place.node # "alias" /\ place.node # "scalar"
  <2>1. EditRight([e EXCEPT !.stage = "unsupported"]) BY <1>1, <1>3, <1>4, <1>5, <1>8, RefusedRight
  <2> QED BY <1>1, <1>8, <2>1
<1>9. CASE ~PathHasAnchor(place.path) /\ place.node = "scalar"
  <2>1. EditRight([e EXCEPT !.found = @ + 1]) BY <1>1, <1>2, <1>3, <1>9, FoundRight
  <2> QED BY <1>1, <1>9, <2>1
<1> QED BY <1>6, <1>7, <1>8, <1>9

\* What is refused could not be edited.
LEMMA VerifyRight ==
    ASSUME EditTyped, EditRight(edit), Verify
    PROVE  EditRight(edit')
<1> DEFINE e == edit
<1>1. /\ e.stage = "finding" /\ e.found = Len(places)
      /\ IF VerifiedPlaces THEN edit' = [e EXCEPT !.stage = "rendering", !.order = SortedPlaces]
         ELSE edit' = [e EXCEPT !.stage = "unsupported"]
  BY DEF Verify, RefuseEdit, VerifiedPlaces
<1>2. EditRight(e) OBVIOUS
<1>3. e.order = <<>> BY <1>1, <1>2 DEF EditRight, OrderRight, Rendering
<1> HIDE DEF e
<1>4. CASE VerifiedPlaces
  <2>1. EditRight([e EXCEPT !.stage = "rendering", !.order = SortedPlaces]) BY <1>1, <1>2, <1>4, VerifiedRight
  <2> QED BY <1>1, <1>4, <2>1
<1>5. CASE ~VerifiedPlaces
  <2>1. ~Editable BY <1>5, ApartIsVerified DEF VerifiedPlaces
  <2>2. EditRight([e EXCEPT !.stage = "unsupported"]) BY <1>1, <1>2, <1>3, <2>1, RefusedRight
  <2> QED BY <1>1, <1>5, <2>2
<1> QED BY <1>4, <1>5

\* With a serializer that is right the double-quoted scalar always proves exact.
LEMMA RenderNextRight ==
    ASSUME EditTyped, EditRight(edit), RenderNext
    PROVE  EditRight(edit')
<1> DEFINE e == edit
           place == places[e.order[Len(e.scalars) + 1]]
           with(s) == [e EXCEPT
               !.pieces = @ \o <<Kept(CursorOf(e), place.from), Replaced(place.from, EditableEnd(place))>>,
               !.scalars = Append(@, s)]
           to(reason) == [e EXCEPT !.stage = reason]
<1>1. /\ e.stage = "rendering" /\ Len(e.scalars) < Len(e.order)
      /\ IF codec = "fails" THEN edit' = to("unsupported")
         ELSE IF ~SingleQuotedControl(place) /\ Certified(place, Preferred(place)) THEN edit' = with(Preferred(place))
         ELSE IF ~SingleQuotedControl(place) /\ place.scalar.header.suffix = "comment" THEN edit' = to("comment")
         ELSE IF Certified(place, Fallback(place)) THEN edit' = with(Fallback(place))
         ELSE edit' = to("unsupported")
  BY DEF RenderNext, RefuseEdit, Replace, Cursor, CursorOf
<1>2. EditRight(e) OBVIOUS
<1> HIDE DEF e
<1>3. /\ Len(e.order) = Len(places) /\ Len(places) \in Nat /\ Len(e.scalars) \in Nat BY <1>1, <1>2, NextCode
<1>4. Len(e.scalars) + 1 \in 1..Len(places) BY <1>1, <1>3
<1>5. e.order[Len(e.scalars) + 1] \in DOMAIN places BY <1>1, <1>2, <1>4, NextCode
<1>6. IsPlace(place) BY <1>5, PlacesTyped
<1>7. Preferred(place) \in Rendered /\ Fallback(place) \in Rendered BY <1>5 DEF Rendered
<1> HIDE DEF place
<1>8. ASSUME NEW s \in Rendered, KeepsPlace(place, s) PROVE EditRight(with(s))
  BY <1>1, <1>2, <1>8, ReplacedRight DEF place
<1>9. place.value # <<>> /\ (place.scalar.header.suffix = "comment" => place.scalar.style # "single")
  BY <1>6, PlaceTyped
<1>10. ASSUME NEW reason, reason = "comment" \/ reason = "unsupported", reason = "unsupported" => codec # "right"
       PROVE  EditRight(to(reason))
  BY <1>1, <1>2, <1>10, RefusedRight
<1> HIDE DEF with, to
<1>11. CASE codec = "fails"
  <2>1. EditRight(to("unsupported")) BY <1>10, <1>11
  <2> QED BY <1>1, <1>11, <2>1
<1>12. CASE codec # "fails" /\ ~SingleQuotedControl(place) /\ Certified(place, Preferred(place))
  <2>1. EditRight(with(Preferred(place))) BY <1>6, <1>7, <1>8, <1>12, PreferredKeeps
  <2> QED BY <1>1, <1>12, <2>1 DEF place
<1>13. CASE codec # "fails" /\ ~(~SingleQuotedControl(place) /\ Certified(place, Preferred(place)))
  <2>1. CASE ~SingleQuotedControl(place) /\ place.scalar.header.suffix = "comment"
    <3>1. EditRight(to("comment")) BY <1>10
    <3> QED BY <1>1, <1>13, <2>1, <3>1 DEF place
  <2>2. CASE ~(~SingleQuotedControl(place) /\ place.scalar.header.suffix = "comment")
    <3>1. place.scalar.header.suffix # "comment" BY <1>9, <2>2 DEF SingleQuotedControl
    <3>2. CASE Certified(place, Fallback(place))
      <4>1. EditRight(with(Fallback(place))) BY <1>6, <1>7, <1>8, <3>1, <3>2, FallbackKeeps
      <4> QED BY <1>1, <1>13, <2>2, <3>2, <4>1 DEF place
    <3>3. CASE ~Certified(place, Fallback(place))
      <4>1. codec # "right" BY <1>9, <3>3, FallbackCertified
      <4>2. EditRight(to("unsupported")) BY <1>10, <4>1
      <4> QED BY <1>1, <1>13, <2>2, <3>3, <4>2 DEF place
    <3> QED BY <3>2, <3>3
  <2> QED BY <2>1, <2>2
<1> QED BY <1>11, <1>12, <1>13

\* The text read again is returned or found to differ.
LEMMA ReparseRight ==
    ASSUME EditTyped, EditRight(edit), Reparse
    PROVE  EditRight(edit')
<1> DEFINE e == edit
           all == \A k \in DOMAIN e.order :
                      AtPlace(places[e.order[k]], e.scalars[k]) = places[e.order[k]].value
           ending == IF all THEN "returned" ELSE "mismatch"
<1>1. /\ e.stage = "rendering" /\ Len(e.scalars) = Len(e.order)
      /\ edit' = [e EXCEPT !.pieces = Append(@, Kept(CursorOf(e), fileSize)), !.stage = ending]
  BY DEF Reparse, Cursor, CursorOf
<1>2. EditRight(e) OBVIOUS
<1> HIDE DEF e
<1>3. \/ ending = "returned"
      \/ ending = "mismatch" /\ \E k \in DOMAIN e.order :
            AtPlace(places[e.order[k]], e.scalars[k]) # places[e.order[k]].value
  OBVIOUS
<1> HIDE DEF ending
<1>4. EditRight([e EXCEPT !.pieces = Append(@, Kept(CursorOf(e), fileSize)), !.stage = ending])
  BY <1>1, <1>2, <1>3, ReparsedRight
<1> QED BY <1>1, <1>4

\* What is known of the edit speaks of the file, which stays.
LEMMA EditCarried ==
    ASSUME UNCHANGED <<places, sections, fileSize, codec>>, EditRight(edit')
    PROVE  EditRight(edit)'
<1>1. /\ VerifiedPlaces' = VerifiedPlaces /\ Editable' = Editable
      /\ SortedPlaces' = SortedPlaces /\ Replaceable' = Replaceable /\ Rendered' = Rendered
  BY EditKeepsFile
<1>2. places' = places /\ fileSize' = fileSize /\ codec' = codec OBVIOUS
<1>3. EditRecord' = EditRecord BY <1>1 DEF EditRecord
<1>4. /\ edit' \in EditRecord /\ CodesFound(edit') /\ OrderRight(edit') /\ PiecesRight(edit')
      /\ ScalarsRight(edit') /\ EndRight(edit')
  BY DEF EditRight
<1>5. (edit \in EditRecord)' BY <1>3, <1>4
<1>6. CodesFound(edit)' BY <1>2, <1>4 DEF CodesFound
<1>7. OrderRight(edit)' BY <1>1, <1>2, <1>4 DEF OrderRight
<1>8. CursorOf(edit)' = CursorOf(edit') BY <1>2 DEF CursorOf, EditableEnd
<1>9. PiecesRight(edit)' BY <1>1, <1>4, <1>8 DEF PiecesRight
<1>10. ScalarsRight(edit)' BY <1>2, <1>4 DEF ScalarsRight
<1>11. EndRight(edit)' BY <1>1, <1>2, <1>4 DEF EndRight
<1> QED BY <1>5, <1>6, <1>7, <1>9, <1>10, <1>11 DEF EditRight

\* What is known of the edit is inductive.
LEMMA EditStep ==
    ASSUME EditInv, [EditNext]_scalarEdit
    PROVE  EditInv'
<1>1. EditTyped /\ EditRight(edit) BY DEF EditInv
<1>2. UNCHANGED <<places, sections, fileSize, codec>>
  BY DEF EditNext, scalarEdit, FindCode, Verify, RenderNext, InterruptEdit, Reparse
<1>3. EditTyped' BY <1>1, <1>2, EditKeepsFile
<1>4. EditRight(edit')
  <2>1. CASE FindCode BY <1>1, <2>1, FindCodeRight
  <2>2. CASE Verify BY <1>1, <2>2, VerifyRight
  <2>3. CASE RenderNext BY <1>1, <2>3, RenderNextRight
  <2>4. CASE InterruptEdit
    <3>1. edit.stage = "rendering" /\ edit' = [edit EXCEPT !.stage = "interrupted"]
      BY <2>4 DEF InterruptEdit, RefuseEdit
    <3>2. EditRight([edit EXCEPT !.stage = "interrupted"]) BY <1>1, <3>1, RefusedRight
    <3> QED BY <3>1, <3>2
  <2>5. CASE Reparse BY <1>1, <2>5, ReparseRight
  <2>6. CASE UNCHANGED scalarEdit
    <3>1. edit' = edit BY <2>6 DEF scalarEdit
    <3> QED BY <1>1, <3>1
  <2> QED BY <2>1, <2>2, <2>3, <2>4, <2>5, <2>6 DEF EditNext
<1>5. EditRight(edit)' BY <1>2, <1>4, EditCarried
<1> QED BY <1>3, <1>5 DEF EditInv

\* Once there is an order it is that of the file, and every code is verified.
LEMMA Ordered ==
    ASSUME EditTyped, NEW e, EditRight(e), e.order # <<>>
    PROVE  /\ e.order = SortedPlaces /\ VerifiedPlaces /\ e.found = Len(places)
           /\ Len(places) \in Nat /\ Len(e.order) = Len(places) /\ DOMAIN e.order = 1..Len(places)
<1>1. e.order = SortedPlaces /\ VerifiedPlaces /\ e.found = Len(places) BY DEF EditRight, OrderRight
<1> DEFINE n == Len(places)
           o == e.order
<1>2. n \in Nat /\ o \in [1..n -> 1..n] BY <1>1, RangesTyped
<1> HIDE DEF n, o
<1>3. o \in Seq(Nat) /\ Len(o) = n /\ DOMAIN o = 1..n BY <1>2
<1> QED BY <1>1, <1>2, <1>3 DEF n, o

\* Without an order nothing has been replaced.
LEMMA Unordered ==
    ASSUME NEW e, EditRight(e), e.order = <<>>
    PROVE  Exchanged(e.pieces) = {} /\ e.scalars = <<>> /\ e.stage \notin {"returned", "mismatch"}
<1>1. e.pieces = <<>> /\ e.scalars = <<>> /\ e.stage \in Searching BY DEF EditRight, OrderRight
<1>2. DOMAIN e.pieces = {} BY <1>1
<1> QED BY <1>1, <1>2 DEF Exchanged, Searching

\* A byte that is replaced belongs to a code, whose range has been verified.
LEMMA ReplacedIsCode ==
    ASSUME EditTyped, EditRight(edit), NEW b \in ReplacedBytes
    PROVE  /\ VerifiedPlaces
           /\ \E k \in 1..Len(places) :
                 /\ b \in Bytes(Ranges(SortedPlaces)[k]) /\ b \in Nat
                 /\ SortedPlaces[k] \in DOMAIN places
                 /\ Within(b, RangeOf(places[SortedPlaces[k]]))
<1>1. ReplacedBytes = UNION {Bytes(edit.pieces[i]) : i \in Exchanged(edit.pieces)}
  BY DEF ReplacedBytes, Exchanged
<1>2. PICK i \in Exchanged(edit.pieces) : b \in Bytes(edit.pieces[i]) BY <1>1
<1>3. edit.order # <<>> BY <1>2, Unordered
<1>4. VerifiedPlaces BY <1>3, Ordered
<1> DEFINE piece == edit.pieces[i]
           range == [from |-> piece.from, to |-> piece.to]
           r == Ranges(SortedPlaces)
           n == Len(places)
<1>5. range \in Replaceable BY <1>2 DEF EditRight, PiecesRight
<1>6. PICK k \in 1..n : range = r[k] BY <1>5 DEF Replaceable
<1>7. /\ r[k] = RangeOf(places[SortedPlaces[k]]) /\ SortedPlaces[k] \in DOMAIN places
  BY <1>6, RangesTyped, PlacesTyped
<1>8. Within(b, piece) /\ b \in 0..fileSize BY <1>2, BytesOf
<1> HIDE DEF r, n
<1>9. Within(b, range) BY <1>8 DEF Within
<1> HIDE DEF range
<1>10. Within(b, r[k]) BY <1>6, <1>9
<1>11. b \in Bytes(r[k]) BY <1>8, <1>10, BytesOf
<1>12. b \in Nat BY <1>9 DEF Within
<1> QED BY <1>4, <1>6, <1>7, <1>10, <1>11, <1>12 DEF r, n

\* It is enough for every byte that is to be kept.
LEMMA KeptBytes ==
    ASSUME EditInv
    PROVE  BytesAreKept
<1>1. EditTyped /\ EditRight(edit) BY DEF EditInv
<1>2. /\ edit \in EditRecord /\ CodesFound(edit) /\ PiecesRight(edit) /\ ScalarsRight(edit) /\ EndRight(edit)
  BY <1>1 DEF EditRight
<1>3. ASSUME edit.scalars # <<>>, NEW i \in DOMAIN places
      PROVE  /\ places[i].node = "scalar"
             /\ \A k \in DOMAIN places[i].path :
                   places[i].path[k].anchored /\ places[i].path[k].kind \in Wrappers =>
                       \E j \in 1..(k - 1) : places[i].path[j].kind = "DOCUMENT"
  <2>1. edit.order # <<>> BY <1>1, <1>3, Unordered
  <2>2. edit.found = Len(places) /\ DOMAIN places = 1..Len(places) BY <1>1, <2>1, Ordered, PlacesTyped
  <2>3. places[i].node = "scalar" /\ ~PathHasAnchor(places[i].path) BY <1>2, <2>2 DEF CodesFound
  <2> DEFINE path == places[i].path
  <2>4. path \in Seq([kind : STRING, anchored : BOOLEAN]) BY <1>1, <1>3, PlacesTyped DEF IsPlace, CodeNode
  <2> HIDE DEF path
  <2>5. DOMAIN path = 1..Len(path) /\ Len(path) \in Nat BY <2>4, LenProperties
  <2>6. ~PathHasAnchor(path) BY <2>3 DEF path
  <2>7. ASSUME NEW k \in DOMAIN path, path[k].anchored, path[k].kind \in Wrappers
        PROVE  \E j \in 1..(k - 1) : path[j].kind = "DOCUMENT"
    <3>1. ~(\A j \in {m \in DOMAIN path : path[m].kind = "DOCUMENT"} : k <= j) BY <2>6, <2>7 DEF PathHasAnchor
    <3>2. PICK j \in DOMAIN path : path[j].kind = "DOCUMENT" /\ ~(k <= j) BY <3>1
    <3>3. j \in 1..(k - 1) BY <2>5, <3>2
    <3> QED BY <3>2, <3>3
  <2> QED BY <2>3, <2>7 DEF path
<1>4. ASSUME NEW i \in DOMAIN edit.pieces
      PROVE  /\ edit.pieces[i].from = IF i = 1 THEN 0 ELSE edit.pieces[i - 1].to
             /\ edit.pieces[i].from <= edit.pieces[i].to
  BY <1>2 DEF PiecesRight, Contiguous
<1>5. ASSUME NEW i \in DOMAIN sections PROVE ReplacedBytes \cap SignatureBytes(sections[i]) = {}
  <2>1. ASSUME NEW b \in ReplacedBytes PROVE b \notin SignatureBytes(sections[i])
    <3>1. PICK k \in 1..Len(places) : b \in Bytes(Ranges(SortedPlaces)[k]) BY <1>1, <2>1, ReplacedIsCode
    <3>2. Valid(Ranges(SortedPlaces)) /\ Protected(Ranges(SortedPlaces), sections[i])
      BY <1>1, <1>5, <2>1, ReplacedIsCode DEF VerifiedPlaces
    <3>3. Bytes(Ranges(SortedPlaces)[k]) \cap SignatureBytes(sections[i]) = {}
      BY <1>1, <1>5, <3>1, <3>2, VerifiedIsApart
    <3> QED BY <3>1, <3>3
  <2> QED BY <2>1
<1>6. ASSUME NEW i \in DOMAIN places, NEW c \in places[i].comments,
             places[i].scalar.style \in Block, c.column < places[i].column, c.at \in ReplacedBytes
      PROVE  FALSE
  <2>1. PICK k \in 1..Len(places) :
           c.at \in Nat /\ SortedPlaces[k] \in DOMAIN places /\ Within(c.at, RangeOf(places[SortedPlaces[k]]))
    BY <1>1, <1>6, ReplacedIsCode
  <2> DEFINE j == SortedPlaces[k]
  <2>2. j \in DOMAIN places /\ Within(c.at, RangeOf(places[j])) BY <2>1
  <2> HIDE DEF j
  <2>3. places[j].from <= c.at /\ c.at < EditableEnd(places[j]) BY <2>2 DEF Within, RangeOf
  <2>4. EditableEnd(places[j]) \in Nat /\ EditableEnd(places[j]) <= places[j].to /\ places[j].to \in Nat
    BY <1>1, <2>2, PlacesTyped, PlaceTyped, EndTyped
  <2>5. c.at < places[j].to BY <2>1, <2>3, <2>4
  <2>6. i = j BY <1>1, <1>6, <2>2, <2>3, <2>5 DEF EditTyped
  <2>7. EditableEnd(places[i]) <= c.at BY <1>1, <1>6, PlacesTyped, EndTyped
  <2> QED BY <2>1, <2>3, <2>4, <2>6, <2>7
<1>7. ASSUME edit.stage \in {"returned", "mismatch"}
      PROVE  /\ Last(edit.pieces).to = fileSize
             /\ Cardinality({i \in DOMAIN edit.pieces : ~edit.pieces[i].kept}) = Len(places)
             /\ Len(edit.scalars) = Len(places)
  <2>1. edit.order # <<>> BY <1>1, <1>7, Unordered
  <2>2. Len(edit.order) = Len(places) BY <1>1, <2>1, Ordered
  <2>3. Len(edit.scalars) = Len(edit.order) /\ edit.pieces # <<>> /\ EndAt(edit.pieces) = fileSize
    BY <1>2, <1>7 DEF EndRight
  <2>4. Cardinality(Exchanged(edit.pieces)) = Len(edit.scalars) BY <1>2 DEF PiecesRight
  <2> QED BY <2>2, <2>3, <2>4 DEF EndAt, Exchanged
<1> QED BY <1>3, <1>4, <1>5, <1>6, <1>7 DEF BytesAreKept

\* It is enough for the promise of the edit.
LEMMA EditRightIsExact ==
    ASSUME EditInv
    PROVE  EditIsExact
<1>1. EditTyped /\ EditRight(edit) BY DEF EditInv
<1>2. edit \in EditRecord /\ ScalarsRight(edit) /\ EndRight(edit) BY <1>1 DEF EditRight
<1>3. ASSUME edit.stage = "mismatch"
      PROVE  \E k \in DOMAIN edit.order : Ambiguous(places[edit.order[k]], edit.scalars[k])
  <2>1. PICK k \in DOMAIN edit.order :
           AtPlace(places[edit.order[k]], edit.scalars[k]) # places[edit.order[k]].value
    BY <1>2, <1>3 DEF EndRight
  <2>2. Len(edit.scalars) = Len(edit.order) BY <1>2, <1>3 DEF EndRight
  <2>3. edit.order \in Seq(Nat) /\ edit.scalars \in Seq(Rendered) BY <1>2, EditRecorded
  <2>4. k \in DOMAIN edit.scalars BY <2>1, <2>2, <2>3, LenProperties
  <2>5. KeepsPlace(places[edit.order[k]], edit.scalars[k]) BY <1>2, <2>4 DEF ScalarsRight
  <2> QED BY <2>1, <2>5 DEF KeepsPlace
<1>4. \A k \in DOMAIN edit.scalars : KeepsPlace(places[edit.order[k]], edit.scalars[k])
  BY <1>2 DEF ScalarsRight
<1>5. codec = "right" /\ edit.stage = "unsupported" => edit.order = <<>> /\ ~Editable BY <1>2 DEF EndRight
<1>6. BytesAreKept BY KeptBytes
<1> QED BY <1>3, <1>4, <1>5, <1>6 DEF EditIsExact

\* An edit of a file that the syntax tree shows as it is keeps every byte outside the
\* codes it replaces and every byte of the other kit's entries, writes nothing before
\* all the codes are known to be free of anchors and aliases, has certified each scalar
\* it writes, and with a right serializer refuses no codes that can be replaced apart
\* (conkit-sketch/contract/edit.rs, edit/scalar.rs).
THEOREM EditExact == EditSpec => []EditIsExact
<1>1. EditTyped /\ EditInit => EditInv BY EditStarts DEF EditInv
<1>2. EditInv /\ [EditNext]_scalarEdit => EditInv' BY EditStep
<1>3. EditInv => EditIsExact BY EditRightIsExact
<1> QED BY <1>1, <1>2, <1>3, PTL DEF EditSpec
=============================================================================
