-------------------------- MODULE SequenceLemmas --------------------------
(***************************************************************************)
(* Facts about sequences and about counting that the proofs of the         *)
(* project share.                                                          *)
(***************************************************************************)
EXTENDS Integers, Sequences, SequencesExt, FiniteSets,
        TLAPS, SequenceTheorems, FiniteSetTheorems, WellFoundedInduction

(***************************************************************************)
(* Numbers.                                                                *)
(***************************************************************************)

(* Any set of natural numbers has a least one: induction, by contradiction, on  *)
(* the set of counterexamples.                                                  *)
LEMMA LeastNatural ==
  ASSUME NEW S \in SUBSET Nat, S # {}
  PROVE  \E m \in S : \A k \in S : m <= k
  <1> DEFINE R == OpToRel(<, Nat)
  <1>1. PICK m \in S : \A k \in S : ~(<<k, m>> \in R)
    <2>1. IsWellFoundedOn(R, Nat)
      BY NatLessThanWellFounded
    <2> QED  BY <2>1, WFMin
  <1>2. \A k \in S : k < m => <<k, m>> \in R
    BY DEF OpToRel
  <1>3. \A k \in S : ~(k < m)
    BY <1>1, <1>2
  <1> QED  BY <1>3

(***************************************************************************)
(* Sequences.                                                              *)
(***************************************************************************)

(* A slice of a sequence; a <= b + 1 covers the empty ones at its ends. *)
LEMMA SliceFacts ==
  ASSUME NEW S, NEW s, NEW a \in Int, NEW b \in Int, a <= b + 1,
         \A i \in a..b : s[i] \in S
  PROVE  /\ SubSeq(s, a, b) \in Seq(S)
         /\ Len(SubSeq(s, a, b)) = b - a + 1
         /\ \A i \in 1..(b - a + 1) : SubSeq(s, a, b)[i] = s[a + i - 1]
  BY SubSeqProperties

(* pop_back() leaves a sequence one shorter. *)
LEMMA FrontFacts ==
  ASSUME NEW S, NEW s \in Seq(S), s # <<>>
  PROVE  /\ Front(s) \in Seq(S)
         /\ Len(Front(s)) = Len(s) - 1
         /\ \A i \in 1..(Len(s) - 1) : Front(s)[i] = s[i]
         /\ Last(s) \in S
  <1>0. PICK n \in Nat : n = Len(s)
    BY LenProperties
  <1>1. n \in Nat \ {0} /\ \A i \in 1..n : s[i] \in S
    BY <1>0, EmptySeq, ElementOfSeq
  <1>2. /\ SubSeq(s, 1, n - 1) \in Seq(S)
        /\ Len(SubSeq(s, 1, n - 1)) = n - 1 - 1 + 1
        /\ \A i \in 1..(n - 1 - 1 + 1) : SubSeq(s, 1, n - 1)[i] = s[1 + i - 1]
    <2>1. 1 \in Int /\ n - 1 \in Int /\ 1 <= n - 1 + 1 /\ \A i \in 1..(n - 1) : s[i] \in S
      BY <1>1
    <2> QED  BY ONLY <2>1, SliceFacts
  <1>3. \A i \in 1..(n - 1) : 1 + i - 1 = i /\ i \in 1..(n - 1 - 1 + 1)
    OBVIOUS
  <1>4. n \in 1..n /\ n - 1 - 1 + 1 = n - 1
    BY <1>1
  <1> QED  BY <1>0, <1>1, <1>2, <1>3, <1>4 DEF Front, Last

(* pop_back() undoes push_back(). *)
LEMMA FrontOfAppend ==
  ASSUME NEW S, NEW s \in Seq(S), NEW x \in S
  PROVE  Append(s, x) # <<>> /\ Front(Append(s, x)) = s
  <1>0. PICK n \in Nat : n = Len(s)
    BY LenProperties
  <1> DEFINE t == Append(s, x)
  <1>1. t \in Seq(S) /\ Len(t) = n + 1 /\ \A i \in 1..n : t[i] = s[i]
    BY <1>0, AppendProperties
  <1> HIDE DEF t
  <1>2. t # <<>>
    BY <1>0, <1>1, EmptySeq
  <1>3. Front(t) \in Seq(S) /\ Len(Front(t)) = Len(t) - 1 /\ \A i \in 1..(Len(t) - 1) : Front(t)[i] = t[i]
    BY <1>1, <1>2, FrontFacts
  <1>4. Len(t) - 1 = n
    BY <1>0, <1>1
  <1>5. Front(t) = s
    BY <1>0, <1>1, <1>3, <1>4, SeqEqual
  <1> QED  BY <1>2, <1>5 DEF t

(* erase(begin() + i - 1) moves the elements behind i up by one. *)
LEMMA RemoveAtFacts ==
  ASSUME NEW S, NEW s \in Seq(S), NEW i \in 1..Len(s)
  PROVE  /\ RemoveAt(s, i) \in Seq(S)
         /\ Len(RemoveAt(s, i)) = Len(s) - 1
         /\ \A j \in 1..(Len(s) - 1) :
              RemoveAt(s, i)[j] = IF j < i THEN s[j] ELSE s[j + 1]
  <1>0. PICK n \in Nat : n = Len(s)
    BY LenProperties
  <1> i \in 1..n
    BY <1>0
  <1> DEFINE before == SubSeq(s, 1, i - 1)
             after  == SubSeq(s, i + 1, n)
  <1>1. \A k \in 1..n : s[k] \in S
    BY <1>0, ElementOfSeq
  <1>2. /\ before \in Seq(S)
        /\ Len(before) = i - 1 - 1 + 1
        /\ \A j \in 1..(i - 1 - 1 + 1) : before[j] = s[1 + j - 1]
    <2>1. 1 \in Int /\ i - 1 \in Int /\ 1 <= i - 1 + 1 /\ \A k \in 1..(i - 1) : s[k] \in S
      BY <1>1
    <2> QED  BY ONLY <2>1, SliceFacts
  <1>3. /\ after \in Seq(S)
        /\ Len(after) = n - (i + 1) + 1
        /\ \A j \in 1..(n - (i + 1) + 1) : after[j] = s[i + 1 + j - 1]
    <2>1. i + 1 \in Int /\ n \in Int /\ i + 1 <= n + 1 /\ \A k \in (i + 1)..n : s[k] \in S
      BY <1>1
    <2> QED  BY ONLY <2>1, SliceFacts
  <1>4. /\ before \o after \in Seq(S)
        /\ Len(before \o after) = Len(before) + Len(after)
        /\ \A j \in 1..(Len(before) + Len(after)) : (before \o after)[j] =
             IF j <= Len(before) THEN before[j] ELSE after[j - Len(before)]
    BY <1>2, <1>3, ConcatProperties
  <1>5. RemoveAt(s, i) = before \o after
    BY <1>0 DEF RemoveAt
  <1> HIDE DEF before, after
  <1>6. Len(before) = i - 1 /\ Len(after) = n - i
    <2>1. i - 1 - 1 + 1 = i - 1 /\ n - (i + 1) + 1 = n - i
      OBVIOUS
    <2> QED  BY <1>2, <1>3, <2>1
  <1>7. (i - 1) + (n - i) = n - 1
    OBVIOUS
  <1>8. ASSUME NEW j \in 1..(n - 1)
        PROVE  (before \o after)[j] = IF j < i THEN s[j] ELSE s[j + 1]
    <2>1. (before \o after)[j] = IF j <= i - 1 THEN before[j] ELSE after[j - (i - 1)]
      BY <1>4, <1>6, <1>7
    <2>2. CASE j < i
      <3>1. j <= i - 1 /\ j \in 1..(i - 1 - 1 + 1) /\ 1 + j - 1 = j
        BY <2>2
      <3> QED  BY <1>2, <2>1, <2>2, <3>1
    <2>3. CASE ~(j < i)
      <3>1. /\ ~(j <= i - 1)
            /\ j - (i - 1) \in 1..(n - (i + 1) + 1)
            /\ i + 1 + (j - (i - 1)) - 1 = j + 1
        BY <2>3
      <3> QED  BY <1>3, <2>1, <2>3, <3>1
    <2> QED  BY <2>2, <2>3
  <1> QED  BY <1>0, <1>4, <1>5, <1>6, <1>7, <1>8

(***************************************************************************)
(* Counting the elements of a finite set of numbers in ascending order.    *)
(***************************************************************************)

(* A count that starts at 0 and grows by at most one meets every number on   *)
(* its way.                                                                  *)
LEMMA CountMeets ==
  ASSUME NEW n \in Nat, NEW c \in [0..n -> Nat], c[0] = 0,
         \A i \in 1..n : c[i] <= c[i - 1] + 1,
         NEW k \in Nat, 1 <= k, k <= c[n]
  PROVE  \E i \in 1..n : c[i] = k /\ c[i - 1] = k - 1
  <1> DEFINE enough == {i \in 0..n : k <= c[i]}
  <1>1. enough \subseteq Nat /\ enough # {}
    <2>1. n \in 0..n /\ 0..n \subseteq Nat
      OBVIOUS
    <2> QED  BY <2>1
  <1>2. PICK m \in enough : \A i \in enough : ~ (<<i, m>> \in OpToRel(<, Nat))
    BY <1>1, NatLessThanWellFounded, WFMin
  <1>3. m \in 1..n
    <2>1. m \in 0..n /\ k <= c[m]
      OBVIOUS
    <2>2. m # 0
      BY <2>1
    <2> QED  BY <2>1, <2>2
  <1>4. m - 1 \in 0..n /\ m - 1 \in Nat /\ m \in Nat /\ m - 1 < m
    BY <1>3
  <1>5. m - 1 \notin enough
    <2>1. <<m - 1, m>> \in OpToRel(<, Nat)
      BY <1>4 DEF OpToRel
    <2> QED  BY <1>2, <2>1
  <1>6. c[m - 1] \in Nat /\ c[m] \in Nat /\ c[m - 1] < k /\ k <= c[m]
    BY <1>3, <1>4, <1>5
  <1>7. c[m] <= c[m - 1] + 1
    BY <1>3
  <1>8. c[m] = k /\ c[m - 1] = k - 1
    <2> \A a, b \in Nat : a < k /\ k <= b /\ b <= a + 1 => b = k /\ a = k - 1
      OBVIOUS
    <2> QED  BY <1>6, <1>7
  <1> QED  BY <1>3, <1>8

(* The elements of a set of numbers up to a bound, as the bound moves up. *)
LEMMA UpToFacts ==
  ASSUME NEW S, \A j \in S : j \in Nat /\ 1 <= j
  PROVE  /\ {j \in S : j <= 0} = {}
         /\ \A i \in S : {j \in S : j <= i} = {j \in S : j <= i - 1} \cup {i}
         /\ \A i \in Nat : i \notin S => {j \in S : j <= i} = {j \in S : j <= i - 1}
  <1>1. \A j \in S : ~ (j <= 0)
    OBVIOUS
  <1>2. \A i, j \in S : j <= i <=> j <= i - 1 \/ j = i
    OBVIOUS
  <1>3. \A i \in Nat : i \notin S => \A j \in S : j <= i <=> j <= i - 1
    OBVIOUS
  <1> QED  BY <1>1, <1>2, <1>3

(* The k-th element of a set of numbers exists if the set has k elements. *)
LEMMA KthElement ==
  ASSUME NEW n \in Nat, NEW S \in SUBSET (1..n), NEW k \in Nat, 1 <= k, k <= Cardinality(S)
  PROVE  \E i \in S : Cardinality({j \in S : j <= i}) = k
  <1> DEFINE upto(x) == {j \in S : j <= x}
             c == [x \in 0..n |-> Cardinality(upto(x))]
  <1>0. \A j \in S : j \in Nat /\ 1 <= j /\ j <= n
    OBVIOUS
  <1>1. IsFiniteSet(S)
    <2>1. IsFiniteSet(1..n)
      BY FS_Interval
    <2> QED  BY <2>1, FS_Subset
  <1>2. ASSUME NEW i \in 0..n
        PROVE  IsFiniteSet(upto(i)) /\ Cardinality(upto(i)) \in Nat
    <2>1. upto(i) \in SUBSET S
      OBVIOUS
    <2> QED  BY <1>1, <2>1, FS_Subset, FS_CardinalityType
  <1>3. c \in [0..n -> Nat]
    BY <1>2
  <1>4. c[0] = 0 /\ c[n] = Cardinality(S)
    <2>1. upto(0) = {}
      BY <1>0, UpToFacts
    <2>2. upto(n) = S
      BY ONLY <1>0
    <2> QED  BY <2>1, <2>2, FS_EmptySet
  <1>5. ASSUME NEW i \in 1..n
        PROVE  c[i] = IF i \in S THEN c[i - 1] + 1 ELSE c[i - 1]
    <2>1. i - 1 \in 0..n /\ i \in 0..n
      OBVIOUS
    <2>2. CASE i \in S
      <3>0. upto(i) = upto(i - 1) \cup {i}
        BY <1>0, <2>2, UpToFacts
      <3>1. upto(i) = upto(i - 1) \cup {i} /\ i \notin upto(i - 1)
        BY <3>0
      <3>2. IsFiniteSet(upto(i - 1))
        BY <1>2, <2>1
      <3>3. Cardinality(upto(i)) = Cardinality(upto(i - 1)) + 1
        BY <3>1, <3>2, FS_AddElement
      <3> QED  BY <2>1, <2>2, <3>3
    <2>3. CASE i \notin S
      <3>0. i \in Nat /\ i \notin S
        BY <2>3
      <3>1. upto(i) = upto(i - 1)
        <4>1. \A j \in S : j <= i <=> j <= i - 1
          BY <1>0, <3>0
        <4> QED  BY <4>1, Zenon
      <3> QED  BY <2>1, <2>3, <3>1
    <2> QED  BY <2>2, <2>3
  <1>6. \A i \in 0..n : c[i] = Cardinality(upto(i))
    OBVIOUS
  <1> HIDE DEF c
  <1>7. \A i \in 1..n : c[i] <= c[i - 1] + 1
    <2> SUFFICES ASSUME NEW i \in 1..n  PROVE c[i] <= c[i - 1] + 1
      OBVIOUS
    <2>1. c[i - 1] \in Nat
      BY <1>3
    <2> QED  BY <1>5, <2>1
  <1>8. PICK i \in 1..n : c[i] = k /\ c[i - 1] = k - 1
    BY <1>3, <1>4, <1>7, CountMeets
  <1>9. i \in S /\ i \in 0..n
    <2>1. k # k - 1
      OBVIOUS
    <2> QED  BY <1>5, <1>8, <2>1
  <1> QED  BY <1>6, <1>8, <1>9

(***************************************************************************)
(* The lists of nested transactions.                                       *)
(***************************************************************************)

(* push_back of something new. *)
LEMMA AppendNew ==
  ASSUME NEW S, NEW s \in Seq(S), NEW e \in S, IsInjective(s), e \notin Range(s)
  PROVE  /\ IsInjective(Append(s, e))
         /\ Range(Append(s, e)) = Range(s) \cup {e}
  <1>1. PICK n \in Nat : n = Len(s)
    BY LenProperties
  <1>2. DOMAIN s = 1..n /\ DOMAIN Append(s, e) = 1..(n + 1)
    BY <1>1
  <1>3. Append(s, e)[n + 1] = e /\ \A i \in 1..n : Append(s, e)[i] = s[i]
    BY <1>1
  <1>4. \A i \in 1..(n + 1) : i = n + 1 \/ i \in 1..n
    BY <1>1
  <1>5. \A i \in 1..n : s[i] # e
    BY <1>2 DEF Range
  <1>6. IsInjective(Append(s, e))
    BY <1>2, <1>3, <1>4, <1>5 DEF IsInjective
  <1>7. Range(Append(s, e)) = Range(s) \cup {e}
    <2>1. n + 1 \in 1..(n + 1) /\ \A i \in 1..n : i \in 1..(n + 1)
      OBVIOUS
    <2> QED  BY <1>2, <1>3, <1>4, <2>1 DEF Range
  <1> QED  BY <1>6, <1>7

(* Removal of the only occurrence of an element. *)
LEMMA RemoveOnly ==
  ASSUME NEW S, NEW s \in Seq(S), IsInjective(s), NEW k \in DOMAIN s
  PROVE  /\ RemoveAt(s, k) \in Seq(S)
         /\ Len(RemoveAt(s, k)) = Len(s) - 1
         /\ IsInjective(RemoveAt(s, k))
         /\ Range(RemoveAt(s, k)) = Range(s) \ {s[k]}
  <1>1. PICK n \in Nat : n = Len(s)
    BY LenProperties
  <1> DEFINE r == RemoveAt(s, k)
  <1>2. k \in 1..n /\ DOMAIN s = 1..n
    BY <1>1
  <1> HIDE DEF r
  <1>3. /\ r \in Seq(S)
        /\ Len(r) = n - 1
        /\ \A j \in 1..(n - 1) : r[j] = IF j < k THEN s[j] ELSE s[j + 1]
    <2>1. k \in 1..Len(s)
      BY <1>1, <1>2
    <2>2. /\ RemoveAt(s, k) \in Seq(S)
          /\ Len(RemoveAt(s, k)) = Len(s) - 1
          /\ \A j \in 1..(Len(s) - 1) :
               RemoveAt(s, k)[j] = IF j < k THEN s[j] ELSE s[j + 1]
      BY ONLY s \in Seq(S), <2>1, RemoveAtFacts
    <2> QED  BY <1>1, <2>2 DEF r
  <1>4. DOMAIN r = 1..(n - 1)
    BY <1>3
  <1>5. IsInjective(r)
    <2> SUFFICES ASSUME NEW a \in 1..(n - 1), NEW b \in 1..(n - 1), r[a] = r[b]
                 PROVE  a = b
      BY <1>4 DEF IsInjective
    <2> DEFINE from(j) == IF j < k THEN j ELSE j + 1
    <2>1. from(a) \in 1..n /\ from(b) \in 1..n
      BY <1>2
    <2>2. s[from(a)] = s[from(b)]
      BY <1>3
    <2>3. from(a) = from(b)
      BY <1>2, <2>1, <2>2 DEF IsInjective
    <2> QED  BY <1>2, <2>3
  <1>6. ASSUME NEW x
        PROVE  x \in Range(r) <=> x \in Range(s) /\ x # s[k]
    <2>1. ASSUME NEW j \in 1..(n - 1), x = r[j]
          PROVE  x \in Range(s) /\ x # s[k]
      <3>1. PICK i \in 1..n : i # k /\ x = s[i]
        <4>1. CASE j < k
          <5>1. j \in 1..n /\ j # k
            BY <1>2, <4>1
          <5> QED  BY <1>3, <2>1, <4>1, <5>1
        <4>2. CASE ~(j < k)
          <5>1. j + 1 \in 1..n /\ j + 1 # k
            BY <1>2, <4>2
          <5> QED  BY <1>3, <2>1, <4>2, <5>1
        <4> QED  BY <4>1, <4>2
      <3> QED  BY <1>2, <3>1 DEF Range, IsInjective
    <2>2. ASSUME NEW i \in 1..n, x = s[i], i # k
          PROVE  \E j \in 1..(n - 1) : x = r[j]
      <3>1. CASE i < k
        <4>1. i \in 1..(n - 1)
          BY <1>2, <3>1
        <4> QED  BY <1>3, <2>2, <3>1, <4>1
      <3>2. CASE ~(i < k)
        <4>1. i - 1 \in 1..(n - 1) /\ ~(i - 1 < k) /\ i - 1 + 1 = i
          BY <1>2, <2>2, <3>2
        <4> QED  BY <1>3, <2>2, <4>1
      <3> QED  BY <3>1, <3>2
    <2> QED  BY <1>2, <1>4, <2>1, <2>2 DEF Range
  <1>7. Range(r) = Range(s) \ {s[k]}
    BY <1>6
  <1> QED  BY <1>1, <1>3, <1>5, <1>7 DEF r

=============================================================================
