------------------------------ MODULE FoldProofs ------------------------------
(***************************************************************************)
(* Induction over the natural numbers, stated of sets, and what it says of *)
(* the recursive functions behind the folds of sequences: that the         *)
(* function a recursive definition names exists, and that concatenating a  *)
(* sequence of sequences is done one after the other.                      *)
(***************************************************************************)
EXTENDS Integers, Sequences, SequencesExt, FiniteSetsExt, WellFoundedInduction, TLAPS

\* A set of natural numbers has a least one.
LEMMA LeastNatural == \A S \in SUBSET Nat : S # {} => \E x \in S : \A y \in S : x <= y
<1> SUFFICES ASSUME NEW S \in SUBSET Nat, S # {} PROVE \E x \in S : \A y \in S : x <= y OBVIOUS
<1>1. PICK x \in S : \A y \in S : ~(<<y, x>> \in OpToRel(<, Nat))
  BY NatLessThanWellFounded, WFMin
<1>2. ASSUME NEW y \in S PROVE x <= y
  <2>1. <<y, x>> \in Nat \X Nat OBVIOUS
  <2>2. ~(<<y, x>>[1] < <<y, x>>[2]) BY <1>1, <2>1 DEF OpToRel
  <2> QED BY <2>2
<1> QED BY <1>2

\* What holds of 0 and of each successor holds of every natural number.
LEMMA Induction ==
    ASSUME NEW S, 0 \in S, \A n \in Nat : n \in S => n + 1 \in S
    PROVE  \A n \in Nat : n \in S
<1> DEFINE bad == Nat \ S
<1>1. SUFFICES ASSUME bad # {} PROVE FALSE OBVIOUS
<1>2. PICK n \in bad : \A m \in bad : n <= m BY <1>1, LeastNatural
<1>3. n # 0 /\ n - 1 \in Nat /\ (n - 1) + 1 = n OBVIOUS
<1>4. n - 1 \in S BY <1>2, <1>3
<1> QED BY <1>2, <1>3, <1>4

\* Up to a bound.
LEMMA InductionUpTo ==
    ASSUME NEW S, NEW n \in Nat, 0 \in S, \A m \in 0..(n - 1) : m \in S => m + 1 \in S
    PROVE  \A m \in 0..n : m \in S
<1> DEFINE T == {m \in Nat : m <= n => m \in S}
<1>1. 0 \in T OBVIOUS
<1>2. ASSUME NEW m \in Nat, m \in T PROVE m + 1 \in T
  <2>1. SUFFICES ASSUME m + 1 <= n PROVE m + 1 \in S OBVIOUS
  <2>2. m \in 0..(n - 1) /\ m \in S BY <1>2, <2>1
  <2> QED BY <2>2
<1> HIDE DEF T
<1>3. \A m \in Nat : m \in T BY <1>1, <1>2, Induction
<1> QED BY <1>3 DEF T

-----------------------------------------------------------------------------
(* Recursive definitions *)

\* a records n steps taken from base; a function recurses that way over the
\* subsets of 1..n, the greatest element first.
Steps(a, n, base, step) == a[0] = base /\ \A i \in 1..n : a[i] = step[i][a[i - 1]]
SubsetSteps(g, n, base, step) ==
    \A s \in SUBSET (1..n) : g[s] = IF s = {} THEN base ELSE step[Max(s)][g[s \ {Max(s)}]]

\* A step applied n times.
LEMMA Iterated ==
    ASSUME NEW n \in Nat, NEW X, NEW base \in X, NEW step \in [1..n -> [X -> X]]
    PROVE  \E a \in [0..n -> X] : Steps(a, n, base, step)
<1> DEFINE Runs(a, m) == a[0] = base /\ \A i \in 1..m : a[i] = step[i][a[i - 1]]
           S == {m \in 0..n : \E a \in [0..m -> X] : Runs(a, m)}
<1>1. 0 \in S
  <2>1. [i \in 0..0 |-> base] \in [0..0 -> X] /\ Runs([i \in 0..0 |-> base], 0) OBVIOUS
  <2>2. \E a \in [0..0 -> X] : Runs(a, 0) BY <2>1
  <2>3. 0 \in 0..n OBVIOUS
  <2> HIDE DEF Runs
  <2> QED BY <2>2, <2>3, Zenon
<1>2. ASSUME NEW m \in 0..(n - 1), m \in S PROVE m + 1 \in S
  <2>1. PICK a \in [0..m -> X] : Runs(a, m) BY <1>2
  <2> DEFINE b == [i \in 0..(m + 1) |-> IF i = m + 1 THEN step[m + 1][a[m]] ELSE a[i]]
  <2>2. step[m + 1][a[m]] \in X OBVIOUS
  <2>3. b \in [0..(m + 1) -> X] BY <2>2
  <2>4. b[0] = base BY <2>1
  <2>5. ASSUME NEW i \in 1..(m + 1) PROVE b[i] = step[i][b[i - 1]]
    <3>1. b[i - 1] = a[i - 1] OBVIOUS
    <3>2. CASE i = m + 1 BY <3>1, <3>2
    <3>3. CASE i # m + 1
      <4>1. i \in 1..m BY <3>3
      <4>2. b[i] = a[i] BY <3>3
      <4> QED BY <2>1, <3>1, <4>1, <4>2
    <3> QED BY <3>2, <3>3
  <2> HIDE DEF b
  <2>6. Runs(b, m + 1) BY <2>4, <2>5
  <2>7. \E c \in [0..(m + 1) -> X] : Runs(c, m + 1) BY <2>3, <2>6
  <2> QED BY <2>7
<1> HIDE DEF S
<1>3. \A m \in 0..n : m \in S BY <1>1, <1>2, InductionUpTo
<1>4. n \in S BY <1>3
<1>5. PICK a \in [0..n -> X] : Runs(a, n) BY <1>4 DEF S
<1>6. Steps(a, n, base, step) BY <1>5 DEF Steps
<1> QED BY <1>6

\* The greatest of some numbers up to n.
LEMMA Greatest ==
    ASSUME NEW n \in Nat, NEW s \in SUBSET (1..n), s # {}
    PROVE  Max(s) \in s /\ \A y \in s : y <= Max(s)
<1> DEFINE above == {n - y : y \in s}
<1>0. \A y \in s : n - y \in Nat OBVIOUS
<1>1. above \in SUBSET Nat /\ above # {} BY <1>0
<1>2. PICK z \in above : \A y \in above : z <= y BY <1>1, LeastNatural
<1>3. PICK x \in s : z = n - x OBVIOUS
<1>4. ASSUME NEW y \in s PROVE x >= y
  <2>1. n - x <= n - y BY <1>2, <1>3
  <2> QED BY <2>1
<1>5. \E m \in s : \A y \in s : m >= y BY <1>4
<1>6. Max(s) \in s /\ \A y \in s : Max(s) >= y BY <1>5 DEF Max
<1> QED BY <1>6

\* MapThenFoldSet recurses over all subsets of the domain, taking the greatest
\* element first; such a function exists.
LEMMA IteratedOverSubsets ==
    ASSUME NEW n \in Nat, NEW X, NEW base \in X, NEW step \in [1..n -> [X -> X]]
    PROVE  \E g \in [SUBSET (1..n) -> X] : SubsetSteps(g, n, base, step)
<1> DEFINE Runs(g, m) == \A s \in SUBSET (1..m) :
                            g[s] = IF s = {} THEN base ELSE step[Max(s)][g[s \ {Max(s)}]]
           S == {m \in 0..n : \E g \in [SUBSET (1..m) -> X] : Runs(g, m)}
<1>1. 0 \in S
  <2> DEFINE g == [s \in SUBSET (1..0) |-> base]
  <2>1. g \in [SUBSET (1..0) -> X] OBVIOUS
  <2>2. \A s \in SUBSET (1..0) : s = {} /\ g[s] = base OBVIOUS
  <2> HIDE DEF g
  <2>3. Runs(g, 0) BY <2>2
  <2>4. \E c \in [SUBSET (1..0) -> X] : Runs(c, 0) BY <2>1, <2>3
  <2>5. 0 \in 0..n OBVIOUS
  <2> HIDE DEF Runs
  <2> QED BY <2>4, <2>5, Zenon
<1>2. ASSUME NEW m \in 0..(n - 1), m \in S PROVE m + 1 \in S
  <2>1. PICK g \in [SUBSET (1..m) -> X] : Runs(g, m) BY <1>2
  <2> DEFINE h == [s \in SUBSET (1..(m + 1)) |->
                     IF m + 1 \in s THEN step[m + 1][g[s \ {m + 1}]] ELSE g[s]]
  <2>2. ASSUME NEW s \in SUBSET (1..(m + 1)), m + 1 \notin s PROVE s \in SUBSET (1..m) BY <2>2
  <2>3. ASSUME NEW s \in SUBSET (1..(m + 1)) PROVE s \ {m + 1} \in SUBSET (1..m) OBVIOUS
  <2>4. ASSUME NEW s \in SUBSET (1..(m + 1)) PROVE h[s] \in X
    <3>1. CASE m + 1 \in s
      <4>1. g[s \ {m + 1}] \in X BY <2>3
      <4> QED BY <3>1, <4>1
    <3>2. CASE m + 1 \notin s BY <2>2, <3>2
    <3> QED BY <3>1, <3>2
  <2>5. h \in [SUBSET (1..(m + 1)) -> X] BY <2>4
  <2>6. ASSUME NEW s \in SUBSET (1..(m + 1))
        PROVE  h[s] = IF s = {} THEN base ELSE step[Max(s)][h[s \ {Max(s)}]]
    <3>1. CASE m + 1 \in s
      <4>1. m + 1 \in Nat OBVIOUS
      <4>2. Max(s) \in s /\ \A y \in s : y <= Max(s) BY <3>1, <4>1, Greatest
      <4>3. Max(s) = m + 1
        <5>1. m + 1 <= Max(s) BY <3>1, <4>2
        <5>2. Max(s) \in 1..(m + 1) BY <4>2
        <5> QED BY <5>1, <5>2
      <4>4. h[s \ {m + 1}] = g[s \ {m + 1}] BY <2>3
      <4>5. h[s] = step[m + 1][g[s \ {m + 1}]] BY <3>1
      <4> QED BY <3>1, <4>3, <4>4, <4>5
    <3>2. CASE m + 1 \notin s
      <4>1. s \in SUBSET (1..m) BY <2>2, <3>2
      <4>2. h[s] = g[s] BY <3>2
      <4>3. m + 1 \notin s \ {Max(s)} /\ s \ {Max(s)} \in SUBSET (1..(m + 1)) BY <3>2
      <4>4. h[s \ {Max(s)}] = g[s \ {Max(s)}] BY <4>3
      <4>5. g[s] = IF s = {} THEN base ELSE step[Max(s)][g[s \ {Max(s)}]] BY <2>1, <4>1
      <4> QED BY <4>2, <4>4, <4>5
    <3> QED BY <3>1, <3>2
  <2> HIDE DEF h
  <2>7. Runs(h, m + 1) BY <2>6
  <2>8. \E c \in [SUBSET (1..(m + 1)) -> X] : Runs(c, m + 1) BY <2>5, <2>7
  <2>9. m + 1 \in 0..n OBVIOUS
  <2> HIDE DEF Runs
  <2> QED BY <2>8, <2>9, Zenon
<1> HIDE DEF S
<1>3. \A m \in 0..n : m \in S BY <1>1, <1>2, InductionUpTo
<1>4. n \in S BY <1>3
<1>5. PICK g \in [SUBSET (1..n) -> X] : Runs(g, n) BY <1>4 DEF S
<1>6. SubsetSteps(g, n, base, step) BY <1>5 DEF SubsetSteps
<1> QED BY <1>6

\* Over the prefixes of 1..n such a function takes one step after the other.
LEMMA PrefixSteps ==
    ASSUME NEW n \in Nat, NEW i \in 1..n
    PROVE  Max(1..i) = i /\ (1..i) \ {Max(1..i)} = 1..(i - 1) /\ 1..i # {}
<1>1. i \in Nat /\ 1..i \in SUBSET (1..i) /\ i \in 1..i OBVIOUS
<1>2. Max(1..i) \in 1..i /\ i <= Max(1..i) BY <1>1, Greatest
<1>3. Max(1..i) = i BY <1>2
<1> QED BY <1>1, <1>3

\* What a recursive function over the subsets says of the prefixes: steps are taken
\* one after the other.
Recurses(iter, n, X, base, step) ==
    /\ iter[{}] = base
    /\ \A s \in SUBSET (1..n) :
          s # {} /\ iter[s \ {Max(s)}] \in X => iter[s] = step[Max(s)][iter[s \ {Max(s)}]]
Follows(a, iter, n, base, step) == Steps(a, n, base, step) /\ iter[1..n] = a[n]

LEMMA FoldSteps ==
    ASSUME NEW n \in Nat, NEW X, NEW base \in X, NEW step \in [1..n -> [X -> X]], NEW iter,
           Recurses(iter, n, X, base, step)
    PROVE  \E a \in [0..n -> X] : Follows(a, iter, n, base, step)
<1> DEFINE a == [i \in 0..n |-> iter[1..i]]
           T == {m \in 0..n : a[m] \in X /\ (m # 0 => a[m] = step[m][a[m - 1]])}
<1>1. a[0] = base
  <2>1. 0 \in 0..n /\ 1..0 = {} OBVIOUS
  <2> QED BY <2>1 DEF Recurses
<1>2. 0 \in T BY <1>1
<1>3. ASSUME NEW m \in 0..(n - 1), m \in T PROVE m + 1 \in T
  <2>1. m + 1 \in 1..n /\ (m + 1) - 1 = m /\ m \in 0..n /\ m + 1 \in 0..n /\ m + 1 # 0 OBVIOUS
  <2>2. Max(1..(m + 1)) = m + 1 /\ (1..(m + 1)) \ {Max(1..(m + 1))} = 1..m /\ 1..(m + 1) # {}
    BY <2>1, PrefixSteps
  <2>3. iter[1..m] \in X BY <1>3
  <2>4. 1..(m + 1) \in SUBSET (1..n) OBVIOUS
  <2>5. iter[1..(m + 1)] = step[m + 1][iter[1..m]] BY <2>2, <2>3, <2>4 DEF Recurses
  <2>6. step[m + 1] \in [X -> X] BY <2>1
  <2>7. a[m + 1] = iter[1..(m + 1)] /\ a[m] = iter[1..m] BY <2>1
  <2>8. a[m + 1] \in X /\ a[m + 1] = step[m + 1][a[m]] BY <2>3, <2>5, <2>6, <2>7
  <2> HIDE DEF a
  <2> QED BY <2>1, <2>8
<1> HIDE DEF T
<1>4. \A m \in 0..n : m \in T BY <1>2, <1>3, InductionUpTo
<1>5. a \in [0..n -> X] BY <1>4 DEF T
<1>6. \A i \in 1..n : a[i] = step[i][a[i - 1]]
  <2>1. \A i \in 1..n : i \in 0..n /\ i # 0 OBVIOUS
  <2> HIDE DEF a
  <2> QED BY <1>4, <2>1 DEF T
<1>7. iter[1..n] = a[n] OBVIOUS
<1> HIDE DEF a
<1>8. Steps(a, n, base, step) BY <1>1, <1>6 DEF Steps
<1>9. Follows(a, iter, n, base, step) BY <1>7, <1>8 DEF Follows
<1> QED BY <1>5, <1>9

\* One more element is one more step.
OneFurther(iter, next, n, m, X, longer) ==
    iter[1..n] \in X /\ next[1..m] = longer[m][iter[1..n]]
SameSteps(step, longer, n) == \A i \in 1..n : longer[i] = step[i]

LEMMA FoldAppended ==
    ASSUME NEW n \in Nat, NEW m \in Nat, m = n + 1, NEW X, NEW base \in X,
           NEW step \in [1..n -> [X -> X]], NEW longer \in [1..m -> [X -> X]],
           SameSteps(step, longer, n),
           NEW iter, Recurses(iter, n, X, base, step), NEW next, Recurses(next, m, X, base, longer)
    PROVE  OneFurther(iter, next, n, m, X, longer)
<1>1. PICK a \in [0..n -> X] : Follows(a, iter, n, base, step) BY FoldSteps
<1>2. m - 1 = n /\ n \in 0..m /\ m \in 1..m /\ n \in 0..n OBVIOUS
<1>3. PICK b \in [0..m -> X] : Follows(b, next, m, base, longer) BY FoldSteps
<1> DEFINE T == {k \in 0..n : b[k] = a[k]}
<1>4. 0 \in T BY <1>1, <1>3 DEF Follows, Steps
<1>5. ASSUME NEW k \in 0..(n - 1), k \in T PROVE k + 1 \in T
  <2> DEFINE l == k + 1
  <2>1. l \in 1..n /\ l \in 1..m /\ l - 1 = k /\ l \in 0..n BY <1>2
  <2> HIDE DEF l
  <2>2. b[l] = longer[l][b[k]] /\ a[l] = step[l][a[k]] BY <1>1, <1>3, <2>1 DEF Follows, Steps
  <2>3. b[l] = a[l] BY <1>5, <2>1, <2>2 DEF SameSteps
  <2> QED BY <2>1, <2>3 DEF l
<1> HIDE DEF T
<1>6. \A k \in 0..n : k \in T BY <1>4, <1>5, InductionUpTo
<1>7. b[n] = a[n] BY <1>2, <1>6 DEF T
<1>8. b[m] = longer[m][b[n]] BY <1>2, <1>3 DEF Follows, Steps
<1> QED BY <1>1, <1>2, <1>3, <1>7, <1>8 DEF Follows, OneFurther

\* Induction over sequences, by appending.
LEMMA SequenceInduction ==
    ASSUME NEW E, NEW S, <<>> \in S, \A s \in Seq(E) : \A e \in E : s \in S => Append(s, e) \in S
    PROVE  \A s \in Seq(E) : s \in S
<1> SUFFICES ASSUME NEW s \in Seq(E) PROVE s \in S OBVIOUS
<1> DEFINE n == Len(s)
           prefix == [m \in 0..n |-> SubSeq(s, 1, m)]
           T == {m \in 0..n : prefix[m] \in S}
<1>0. n \in Nat OBVIOUS
<1>1. 0 \in T
  <2>1. prefix[0] = <<>> BY <1>0
  <2> HIDE DEF prefix
  <2>2. prefix[0] \in S BY <2>1, Zenon
  <2> QED BY <1>0, <2>2
<1>2. ASSUME NEW m \in 0..(n - 1), m \in T PROVE m + 1 \in T
  <2>1. m + 1 \in 1..n /\ m \in 0..n BY <1>0
  <2>2. prefix[m] \in Seq(E) /\ s[m + 1] \in E BY <2>1
  <2>3. prefix[m + 1] = Append(prefix[m], s[m + 1]) BY <1>0, <2>1
  <2>4. prefix[m] \in S BY <1>2
  <2> HIDE DEF prefix
  <2>5. prefix[m + 1] \in S /\ m + 1 \in 0..n BY <2>1, <2>2, <2>3, <2>4
  <2> QED BY <2>5
<1> HIDE DEF T
<1>3. \A m \in 0..n : m \in T BY <1>0, <1>1, <1>2, InductionUpTo
<1>4. n \in T BY <1>0, <1>3
<1>5. prefix[n] = s OBVIOUS
<1> QED BY <1>4, <1>5 DEF T

-----------------------------------------------------------------------------
(* Concatenation *)

\* FlattenSeq appends one sequence after the other.
LEMMA Flattened ==
    ASSUME NEW S, NEW seqs \in Seq(Seq(S))
    PROVE  \E a \in [0..Len(seqs) -> Seq(S)] :
              /\ a[0] = <<>>
              /\ \A i \in 1..Len(seqs) : a[i] = a[i - 1] \o seqs[i]
              /\ FlattenSeq(seqs) = a[Len(seqs)]
<1> DEFINE n == Len(seqs)
           step == [i \in 1..n |-> [t \in Seq(S) |-> t \o seqs[i]]]
<1>1. n \in Nat /\ \A i \in 1..n : seqs[i] \in Seq(S) OBVIOUS
<1>2. ASSUME NEW i \in 1..n, NEW t \in Seq(S)
      PROVE  t \o seqs[i] \in Seq(S) /\ step[i][t] = t \o seqs[i] BY <1>1
<1>3. step \in [1..n -> [Seq(S) -> Seq(S)]] BY <1>2
<1>4. <<>> \in Seq(S) OBVIOUS
<1> HIDE DEF step
<1>5. PICK a \in [0..n -> Seq(S)] : a[0] = <<>> /\ \A i \in 1..n : a[i] = step[i][a[i - 1]]
  <2> HIDE DEF n
  <2> DEFINE X == Seq(S)
  <2>1. PICK e \in X : e = <<>> BY <1>4
  <2>2. step \in [1..n -> [X -> X]] /\ n \in Nat /\ e \in X BY <1>1, <1>3, <2>1
  <2> HIDE DEF X
  <2>3. \E a \in [0..n -> X] : Steps(a, n, e, step)
    BY <2>2, Iterated
  <2> QED BY <2>1, <2>3 DEF X, Steps
<1>6. ASSUME NEW i \in 1..n PROVE a[i] = a[i - 1] \o seqs[i]
  <2>1. i - 1 \in 0..n BY <1>1
  <2>2. a[i - 1] \in Seq(S) BY <2>1
  <2> QED BY <1>2, <1>5, <2>2
<1>7. FlattenSeq(seqs) = a[n]
  <2>1. CASE n = 0
    <3>1. seqs = <<>> BY <2>1
    <3> QED BY <1>5, <2>1, <3>1 DEF FlattenSeq
  <2>2. CASE n # 0
    <3> DEFINE Flat(f) == f = [i \in 1..n |-> IF i = 1 THEN seqs[i] ELSE f[i - 1] \o seqs[i]]
               b == [i \in 1..n |-> a[i]]
               flat == CHOOSE f : Flat(f)
    <3>1. Flat(b)
      <4>1. ASSUME NEW i \in 1..n PROVE b[i] = IF i = 1 THEN seqs[i] ELSE b[i - 1] \o seqs[i]
        <5>1. CASE i = 1
          <6>1. 1 \in 1..n /\ 1 - 1 = 0 BY <5>1
          <6>2. a[1] = <<>> \o seqs[1] BY <1>5, <1>6, <6>1
          <6> QED BY <1>1, <5>1, <6>2
        <5>2. CASE i # 1
          <6>1. i - 1 \in 1..n BY <1>1, <5>2
          <6> QED BY <1>6, <5>2, <6>1
        <5> QED BY <5>1, <5>2
      <4> QED BY <4>1
    <3>2. Flat(flat)
      <4> HIDE DEF Flat
      <4> QED BY <3>1
    <3>3. FlattenSeq(seqs) = flat[n] BY <2>2 DEF FlattenSeq
    <3> HIDE DEF flat, b
    <3> DEFINE T == {m \in 0..n : m # 0 => flat[m] = a[m]}
    <3>4. 0 \in T BY <1>1
    <3>5. ASSUME NEW m \in 0..(n - 1), m \in T PROVE m + 1 \in T
      <4> DEFINE k == m + 1
      <4>1. k \in 1..n /\ k - 1 = m /\ m \in Nat BY <1>1
      <4>2. flat[k] = IF k = 1 THEN seqs[k] ELSE flat[m] \o seqs[k]
        <5> HIDE DEF k, n
        <5>1. flat[k] = IF k = 1 THEN seqs[k] ELSE flat[k - 1] \o seqs[k] BY <3>2, <4>1
        <5> QED BY <4>1, <5>1
      <4>3. a[k] = a[m] \o seqs[k]
        <5> HIDE DEF k, n
        <5>1. a[k] = a[k - 1] \o seqs[k] BY <1>6, <4>1
        <5> QED BY <4>1, <5>1
      <4>4. CASE m = 0
        <5>1. a[k] = <<>> \o seqs[k] BY <1>5, <4>3, <4>4
        <5>2. a[k] = seqs[k] BY <1>1, <4>1, <5>1
        <5>3. flat[k] = a[k] BY <4>2, <4>4, <5>2
        <5> QED BY <4>1, <5>3
      <4>5. CASE m # 0
        <5>1. k # 1 /\ flat[m] = a[m] BY <3>5, <4>1, <4>5
        <5>2. flat[k] = a[k] BY <4>2, <4>3, <5>1
        <5> QED BY <4>1, <5>2
      <4> QED BY <4>4, <4>5
    <3> HIDE DEF T, n
    <3>6. \A m \in 0..n : m \in T BY <1>1, <3>4, <3>5, InductionUpTo
    <3>7. n \in T BY <1>1, <3>6
    <3> QED BY <2>2, <3>3, <3>7 DEF T
  <2> QED BY <2>1, <2>2
<1> QED BY <1>5, <1>6, <1>7

LEMMA FlattenAppended ==
    ASSUME NEW S, NEW seqs \in Seq(Seq(S)), NEW last \in Seq(S)
    PROVE  /\ FlattenSeq(seqs) \in Seq(S)
           /\ FlattenSeq(Append(seqs, last)) = FlattenSeq(seqs) \o last
<1> DEFINE n == Len(seqs)
           more == Append(seqs, last)
           m == n + 1
<1>0. /\ n \in Nat /\ m \in Nat /\ more \in Seq(Seq(S)) /\ Len(more) = m /\ more[m] = last
      /\ \A i \in 1..n : more[i] = seqs[i]
  OBVIOUS
<1> HIDE DEF more
<1>1. PICK a \in [0..n -> Seq(S)] :
          a[0] = <<>> /\ (\A i \in 1..n : a[i] = a[i - 1] \o seqs[i]) /\ FlattenSeq(seqs) = a[n]
  BY Flattened
<1>2. PICK b \in [0..m -> Seq(S)] :
          b[0] = <<>> /\ (\A i \in 1..m : b[i] = b[i - 1] \o more[i]) /\ FlattenSeq(more) = b[m]
  <2>1. PICK b \in [0..Len(more) -> Seq(S)] :
            /\ b[0] = <<>> /\ (\A i \in 1..Len(more) : b[i] = b[i - 1] \o more[i])
            /\ FlattenSeq(more) = b[Len(more)]
    BY <1>0, Flattened
  <2> QED BY <1>0, <2>1
<1> DEFINE T == {k \in 0..n : b[k] = a[k]}
<1>3. 0 \in T BY <1>0, <1>1, <1>2
<1>4. ASSUME NEW k \in 0..(n - 1), k \in T PROVE k + 1 \in T
  <2> DEFINE l == k + 1
  <2>1. l \in 1..n /\ l \in 1..m /\ l - 1 = k /\ l \in 0..n BY <1>0
  <2> HIDE DEF l, n, m
  <2>2. b[l] = b[k] \o more[l] /\ a[l] = a[k] \o seqs[l] BY <1>1, <1>2, <2>1
  <2>3. b[l] = a[l] BY <1>0, <1>4, <2>1, <2>2
  <2> QED BY <2>1, <2>3 DEF l
<1> HIDE DEF T
<1>5. \A k \in 0..n : k \in T BY <1>0, <1>3, <1>4, InductionUpTo
<1>6. b[n] = a[n] BY <1>0, <1>5 DEF T
<1>7. m \in 1..m /\ m - 1 = n /\ n \in 0..n BY <1>0
<1> HIDE DEF n, m
<1>8. b[m] = b[n] \o more[m] BY <1>2, <1>7
<1> QED BY <1>0, <1>1, <1>2, <1>6, <1>7, <1>8 DEF more

\* A sequence begins with another.
Begins(x, y) == Len(x) <= Len(y) /\ \A k \in 1..Len(x) : x[k] = y[k]

LEMMA Appended ==
    ASSUME NEW S, NEW s \in Seq(S), NEW t \in Seq(S)
    PROVE  /\ s \o t \in Seq(S) /\ Len(s \o t) = Len(s) + Len(t) /\ Begins(s, s \o t)
           /\ Len(s) \in Nat /\ Len(t) \in Nat
           /\ \A k \in 1..Len(t) : (s \o t)[Len(s) + k] = t[k]
BY DEF Begins

LEMMA BeginsFurther ==
    ASSUME NEW S, NEW x \in Seq(S), NEW y \in Seq(S), NEW z \in Seq(S), Begins(x, y), Begins(y, z)
    PROVE  Begins(x, z)
BY DEF Begins

\* Two sequences that both begin the same one.
LEMMA BeginSame ==
    ASSUME NEW S, NEW s \in Seq(S), NEW x \in Seq(S), NEW y \in Seq(S), NEW z \in Seq(S),
           Begins(s \o x, z), Begins(s \o y, z), Len(x) <= Len(y)
    PROVE  Begins(x, y)
<1> SUFFICES ASSUME NEW k \in 1..Len(x) PROVE x[k] = y[k] BY DEF Begins
<1>1. Len(s) \in Nat /\ Len(x) \in Nat /\ Len(y) \in Nat OBVIOUS
<1>2. k \in 1..Len(y) BY <1>1
<1>3. (s \o x)[Len(s) + k] = x[k] /\ (s \o y)[Len(s) + k] = y[k] BY <1>2, Appended
<1>4. Len(s \o x) = Len(s) + Len(x) /\ Len(s \o y) = Len(s) + Len(y) BY Appended
<1>5. Len(s) + k \in 1..Len(s \o x) /\ Len(s) + k \in 1..Len(s \o y) BY <1>1, <1>2, <1>4
<1>6. z[Len(s) + k] = (s \o x)[Len(s) + k] /\ z[Len(s) + k] = (s \o y)[Len(s) + k]
  BY <1>5 DEF Begins
<1> QED BY <1>3, <1>6

\* Concatenations of equally many members of a set of which none begins another
\* are told apart by their members.
LEMMA FlattenedApart ==
    ASSUME NEW S, NEW C \in SUBSET Seq(S), \A x, y \in C : Begins(x, y) => x = y,
           NEW A \in Seq(C), NEW B \in Seq(C), Len(A) = Len(B), FlattenSeq(A) = FlattenSeq(B)
    PROVE  A = B
<1> DEFINE n == Len(A)
<1>0. n \in Nat /\ A \in Seq(Seq(S)) /\ B \in Seq(Seq(S))
      /\ \A i \in 1..n : A[i] \in C /\ B[i] \in C /\ A[i] \in Seq(S) /\ B[i] \in Seq(S)
  OBVIOUS
<1>1. PICK a \in [0..n -> Seq(S)] :
          a[0] = <<>> /\ (\A i \in 1..n : a[i] = a[i - 1] \o A[i]) /\ FlattenSeq(A) = a[n]
  BY <1>0, Flattened
<1>2. PICK b \in [0..n -> Seq(S)] :
          b[0] = <<>> /\ (\A i \in 1..n : b[i] = b[i - 1] \o B[i]) /\ FlattenSeq(B) = b[n]
  BY <1>0, Flattened
<1> HIDE DEF n
<1>3. ASSUME NEW F \in Seq(Seq(S)), NEW f \in [0..n -> Seq(S)],
             \A i \in 1..n : F[i] \in Seq(S) /\ f[i] = f[i - 1] \o F[i]
      PROVE  \A i \in 0..n : Begins(f[i], f[n])
  <2> DEFINE T == {m \in 0..n : Begins(f[n - m], f[n])}
  <2>1. 0 \in T
    <3>1. 0 \in 0..n /\ n - 0 = n /\ n \in 0..n BY <1>0
    <3>2. Begins(f[n], f[n]) BY <3>1 DEF Begins
    <3> QED BY <3>1, <3>2
  <2>2. ASSUME NEW m \in 0..(n - 1), m \in T PROVE m + 1 \in T
    <3> DEFINE k == n - m
    <3>1. k \in 1..n /\ k \in 0..n /\ k - 1 \in 0..n /\ n - (m + 1) = k - 1 /\ m + 1 \in 0..n BY <1>0
    <3>2. Begins(f[k], f[n]) BY <2>2
    <3> HIDE DEF k
    <3>3. f[k] = f[k - 1] \o F[k] /\ F[k] \in Seq(S) /\ f[k - 1] \in Seq(S) /\ f[k] \in Seq(S)
      BY <1>3, <3>1
    <3>4. Begins(f[k - 1], f[k]) BY <3>3, Appended
    <3>5. f[n] \in Seq(S) BY <1>0
    <3>6. Begins(f[k - 1], f[n]) BY <3>2, <3>3, <3>4, <3>5, BeginsFurther
    <3> QED BY <3>1, <3>6
  <2> HIDE DEF T
  <2>3. \A m \in 0..n : m \in T BY <1>0, <2>1, <2>2, InductionUpTo
  <2> TAKE i \in 0..n
  <2>4. n - i \in 0..n /\ n - (n - i) = i BY <1>0
  <2>5. n - i \in T BY <2>3, <2>4
  <2> QED BY <2>4, <2>5 DEF T
<1>4. (\A i \in 0..n : Begins(a[i], a[n])) /\ \A i \in 0..n : Begins(b[i], a[n])
  <2>1. \A i \in 0..n : Begins(a[i], a[n]) BY <1>0, <1>1, <1>3
  <2>2. \A i \in 0..n : Begins(b[i], b[n]) BY <1>0, <1>2, <1>3
  <2>3. a[n] = b[n] BY <1>1, <1>2
  <2> QED BY <2>1, <2>2, <2>3
<1>5. ASSUME NEW i \in 1..n, a[i - 1] = b[i - 1] PROVE A[i] = B[i] /\ a[i] = b[i]
  <2>1. i - 1 \in 0..n /\ i \in 0..n /\ n \in 0..n BY <1>0
  <2>2. a[i - 1] \in Seq(S) /\ A[i] \in Seq(S) /\ B[i] \in Seq(S) /\ a[n] \in Seq(S)
        /\ A[i] \in C /\ B[i] \in C
    BY <1>0, <2>1
  <2>3. a[i] = a[i - 1] \o A[i] /\ b[i] = a[i - 1] \o B[i] BY <1>1, <1>2, <1>5
  <2>4. Begins(a[i - 1] \o A[i], a[n]) /\ Begins(a[i - 1] \o B[i], a[n]) BY <1>4, <2>1, <2>3
  <2>5. Len(A[i]) <= Len(B[i]) => Begins(A[i], B[i]) BY <2>2, <2>4, BeginSame
  <2>6. Len(B[i]) <= Len(A[i]) => Begins(B[i], A[i]) BY <2>2, <2>4, BeginSame
  <2>7. Len(A[i]) <= Len(B[i]) \/ Len(B[i]) <= Len(A[i]) BY <2>2
  <2>8. A[i] = B[i] BY <2>2, <2>5, <2>6, <2>7
  <2> QED BY <2>3, <2>8
<1> DEFINE T == {m \in 0..n : a[m] = b[m]}
<1>6. 0 \in T BY <1>0, <1>1, <1>2
<1>7. ASSUME NEW m \in 0..(n - 1), m \in T PROVE m + 1 \in T
  <2> DEFINE k == m + 1
  <2>1. k \in 1..n /\ k - 1 = m /\ k \in 0..n BY <1>0
  <2> HIDE DEF k
  <2>2. a[k] = b[k] BY <1>5, <1>7, <2>1
  <2> QED BY <2>1, <2>2 DEF k
<1> HIDE DEF T
<1>8. \A m \in 0..n : m \in T BY <1>0, <1>6, <1>7, InductionUpTo
<1>9. ASSUME NEW i \in 1..n PROVE A[i] = B[i]
  <2>1. i - 1 \in 0..n BY <1>0
  <2>2. a[i - 1] = b[i - 1] BY <1>8, <2>1 DEF T
  <2> QED BY <1>5, <2>2
<1>10. A = [i \in 1..n |-> A[i]] /\ B = [i \in 1..n |-> B[i]] BY DEF n
<1> QED BY <1>9, <1>10

=============================================================================
