-------------------------- MODULE TextInputProofs --------------------------
(***************************************************************************)
(* Invariants of TextInput, proved for any sessions, keys and history, any *)
(* length of a line and any size of the terminal.  First facts about       *)
(* lines; then what every command of the editor keeps; then what the       *)
(* terminal shows; at the end the steps of TextInput.                      *)
(***************************************************************************)
EXTENDS TextInput, SequenceLemmas

-----------------------------------------------------------------------------
(***************************************************************************)
(* Numbers.                                                                *)
(***************************************************************************)

(* The least of a set of natural numbers is one of them. *)
LEMMA MinFacts ==
  ASSUME NEW S \in SUBSET Nat, S # {}
  PROVE  Min(S) \in S /\ \A k \in S : Min(S) <= k
  <1>1. PICK m \in S : \A k \in S : m <= k
    BY LeastNatural
  <1> QED  BY <1>1 DEF Min

(* The greatest of a set of natural numbers that has a bound. *)
LEMMA MaxFacts ==
  ASSUME NEW n \in Nat, NEW S \in SUBSET (0..n), S # {}
  PROVE  Max(S) \in S /\ \A k \in S : k <= Max(S)
  <1> DEFINE T == {n - k : k \in S}
  <1>1. T \in SUBSET Nat /\ T # {}
    <2>1. \A k \in S : k \in 0..n
      OBVIOUS
    <2>2. \A k \in S : n - k \in Nat
      BY <2>1
    <2> QED  BY <2>2
  <1>2. PICK m \in T : \A k \in T : m <= k
    BY <1>1, LeastNatural
  <1>3. n - m \in S /\ m \in Nat
    BY <1>1, <1>2
  <1>4. \A k \in S : k <= n - m
    <2>1. \A k \in S : k \in 0..n /\ m <= n - k
      BY <1>2
    <2> QED  BY <1>3, <2>1
  <1>5. \A k \in S : n - m >= k
    BY <1>3, <1>4
  <1>6. \A x \in S : (\A k \in S : x >= k) => \A k \in S : k <= x
    OBVIOUS
  <1> QED  BY <1>3, <1>5, <1>6 DEF Max

(* The two that Range::Extend compares. *)
LEMMA MinOfTwo ==
  ASSUME NEW a \in Nat, NEW b \in Nat
  PROVE  Min({a, b}) = IF a <= b THEN a ELSE b
  <1>1. Min({a, b}) \in {a, b} /\ \A k \in {a, b} : Min({a, b}) <= k
    BY MinFacts
  <1> QED  BY <1>1

LEMMA MaxOfTwo ==
  ASSUME NEW a \in Int, NEW b \in Int
  PROVE  Max({a, b}) = IF a <= b THEN b ELSE a
  <1>1. PICK m \in {a, b} : \A k \in {a, b} : m >= k
    <2>1. CASE a <= b
      BY <2>1
    <2>2. CASE b <= a
      BY <2>2
    <2> QED  BY <2>1, <2>2
  <1>2. Max({a, b}) \in {a, b} /\ \A k \in {a, b} : Max({a, b}) >= k
    BY <1>1 DEF Max
  <1> QED  BY <1>2

-----------------------------------------------------------------------------
(***************************************************************************)
(* Lines, and what is cut out of them.                                     *)
(***************************************************************************)

Before(line, n) == SubSeq(line, 1, n)
Behind(line, n) == SubSeq(line, n + 1, Len(line))

(* A line is what is before a place and what is behind it. *)
LEMMA SplitLine ==
  ASSUME NEW S, NEW line \in Seq(S), NEW n \in 0..Len(line)
  PROVE  /\ Before(line, n) \in Seq(S) /\ Len(Before(line, n)) = n
         /\ Behind(line, n) \in Seq(S) /\ Len(Behind(line, n)) = Len(line) - n
         /\ Before(line, n) \o Behind(line, n) = line
         /\ \A i \in 1..n : Before(line, n)[i] = line[i]
         /\ \A i \in 1..(Len(line) - n) : Behind(line, n)[i] = line[n + i]
  <1>0. PICK len \in Nat : len = Len(line)
    BY LenProperties
  <1>1. \A i \in 1..len : line[i] \in S
    BY <1>0, ElementOfSeq
  <1>2. n \in 0..len /\ n \in Nat
    BY <1>0
  <1>3. /\ SubSeq(line, 1, n) \in Seq(S) /\ Len(SubSeq(line, 1, n)) = n
        /\ \A i \in 1..n : SubSeq(line, 1, n)[i] = line[i]
    <2>1. 1 <= n + 1 /\ \A i \in 1..n : line[i] \in S
      BY <1>1, <1>2
    <2>2. /\ SubSeq(line, 1, n) \in Seq(S) /\ Len(SubSeq(line, 1, n)) = n - 1 + 1
          /\ \A i \in 1..(n - 1 + 1) : SubSeq(line, 1, n)[i] = line[1 + i - 1]
      BY <2>1, <1>2, SliceFacts
    <2>3. n - 1 + 1 = n /\ \A i \in 1..n : 1 + i - 1 = i
      BY <1>2
    <2> QED  BY <2>2, <2>3
  <1>4. /\ SubSeq(line, n + 1, len) \in Seq(S) /\ Len(SubSeq(line, n + 1, len)) = len - n
        /\ \A i \in 1..(len - n) : SubSeq(line, n + 1, len)[i] = line[n + i]
    <2>1. n + 1 <= len + 1 /\ \A i \in (n + 1)..len : line[i] \in S
      BY <1>1, <1>2
    <2>2. /\ SubSeq(line, n + 1, len) \in Seq(S) /\ Len(SubSeq(line, n + 1, len)) = len - (n + 1) + 1
          /\ \A i \in 1..(len - (n + 1) + 1) : SubSeq(line, n + 1, len)[i] = line[n + 1 + i - 1]
      BY <2>1, <1>2, SliceFacts
    <2>3. len - (n + 1) + 1 = len - n /\ \A i \in 1..(len - n) : n + 1 + i - 1 = n + i
      BY <1>2
    <2> QED  BY <2>2, <2>3
  <1>5. SubSeq(line, 1, n) \o SubSeq(line, n + 1, len) = line
    <2>1. 1 \in 1..(Len(line) + 1) /\ n \in (1 - 1)..Len(line) /\ len \in n..Len(line)
      BY <1>0, <1>2
    <2>2. SubSeq(line, 1, n) \o SubSeq(line, n + 1, len) = SubSeq(line, 1, len)
      BY ONLY <2>1, ConcatAdjacentSubSeq, line \in Seq(S)
    <2> QED  BY <2>2, <1>0, SubSeqFull
  <1> QED  BY <1>0, <1>3, <1>4, <1>5 DEF Before, Behind

(* A concatenation, with a name of its own. *)
Joined(l, p, q) ==
  /\ l = p \o q /\ Len(l) = Len(p) + Len(q)
  /\ \A i \in 1..Len(p) : l[i] = p[i]
  /\ \A i \in 1..Len(q) : l[Len(p) + i] = q[i]

LEMMA ConcatFacts ==
  ASSUME NEW S, NEW p \in Seq(S), NEW q \in Seq(S)
  PROVE  \E l \in Seq(S) : Joined(l, p, q)
  <1>0. PICK m \in Nat, n \in Nat : m = Len(p) /\ n = Len(q)
    BY LenProperties
  <1>1. /\ p \o q \in Seq(S) /\ Len(p \o q) = m + n
        /\ \A i \in 1..(m + n) : (p \o q)[i] = IF i <= m THEN p[i] ELSE q[i - m]
    BY <1>0, ConcatProperties
  <1>2. PICK l \in Seq(S) : l = p \o q
    BY <1>1
  <1>3. Len(l) = m + n
    BY <1>1, <1>2
  <1>4. \A i \in 1..(m + n) : l[i] = IF i <= m THEN p[i] ELSE q[i - m]
    BY ONLY <1>1, <1>2, Zenon
  <1>5. \A i \in 1..m : l[i] = p[i]
    <2>1. \A i \in 1..m : i \in 1..(m + n) /\ i <= m
      OBVIOUS
    <2> QED  BY <1>4, <2>1
  <1>6. \A i \in 1..n : l[m + i] = q[i]
    <2> TAKE i \in 1..n
    <2>1. m + i \in 1..(m + n) /\ ~(m + i <= m) /\ m + i - m = i
      OBVIOUS
    <2>2. l[m + i] = q[m + i - m]
      BY <1>4, <2>1
    <2> QED  BY <2>1, <2>2
  <1> QED  BY <1>0, <1>2, <1>3, <1>5, <1>6 DEF Joined

(* The parts of a concatenation can be taken out of it. *)
LEMMA SplitConcat ==
  ASSUME NEW S, NEW p \in Seq(S), NEW q \in Seq(S)
  PROVE  Before(p \o q, Len(p)) = p /\ Behind(p \o q, Len(p)) = q
  <1>0. PICK m \in Nat, n \in Nat : m = Len(p) /\ n = Len(q)
    BY LenProperties
  <1>5. PICK l \in Seq(S) : Joined(l, p, q)
    BY ConcatFacts
  <1>1. /\ l = p \o q /\ Len(l) = m + n
        /\ \A i \in 1..m : l[i] = p[i]
        /\ \A i \in 1..n : l[m + i] = q[i]
    BY <1>0, <1>5 DEF Joined
  <1>2. /\ Before(l, m) \in Seq(S) /\ Len(Before(l, m)) = m
        /\ Behind(l, m) \in Seq(S) /\ Len(Behind(l, m)) = n
        /\ \A i \in 1..m : Before(l, m)[i] = l[i]
        /\ \A i \in 1..n : Behind(l, m)[i] = l[m + i]
    <2>1. m \in 0..Len(l) /\ Len(l) - m = n
      BY <1>1
    <2> QED  BY <2>1, SplitLine
  <1>3. Before(l, m) = p
    BY <1>0, <1>1, <1>2, SeqEqual
  <1>4. Behind(l, m) = q
    BY <1>0, <1>1, <1>2, SeqEqual
  <1> QED  BY <1>0, <1>1, <1>3, <1>4

(* What is cut out joins what is before it, and what is behind it. *)
LEMMA JoinCut ==
  ASSUME NEW S, NEW line \in Seq(S), NEW a \in 0..Len(line), NEW b \in a..Len(line)
  PROVE  /\ SubSeq(line, a + 1, b) \in Seq(S)
         /\ Len(SubSeq(line, a + 1, b)) = b - a
         /\ Before(line, a) \o SubSeq(line, a + 1, b) = Before(line, b)
         /\ SubSeq(line, a + 1, b) \o Behind(line, b) = Behind(line, a)
  <1>0. PICK len \in Nat : len = Len(line)
    BY LenProperties
  <1>1. a \in Nat /\ b \in Nat /\ a <= b /\ b <= len
    BY <1>0
  <1>2. \A i \in (a + 1)..b : line[i] \in S
    <2>1. \A i \in (a + 1)..b : i \in 1..Len(line)
      BY <1>0, <1>1
    <2> QED  BY <2>1, ElementOfSeq
  <1>3. SubSeq(line, a + 1, b) \in Seq(S) /\ Len(SubSeq(line, a + 1, b)) = b - a
    <2>1. a + 1 \in Int /\ b \in Int /\ a + 1 <= b + 1 /\ b - (a + 1) + 1 = b - a
      BY <1>1
    <2> QED  BY <1>2, <2>1, SliceFacts
  <1>4. SubSeq(line, 1, a) \o SubSeq(line, a + 1, b) = SubSeq(line, 1, b)
    <2>1. 1 \in 1..(Len(line) + 1) /\ a \in (1 - 1)..Len(line) /\ b \in a..Len(line)
      BY <1>0, <1>1
    <2> QED  BY ONLY <2>1, ConcatAdjacentSubSeq, line \in Seq(S)
  <1>5. SubSeq(line, a + 1, b) \o SubSeq(line, b + 1, len) = SubSeq(line, a + 1, len)
    <2>1. a + 1 \in 1..(Len(line) + 1) /\ b \in (a + 1 - 1)..Len(line) /\ len \in b..Len(line)
      BY <1>0, <1>1
    <2> QED  BY ONLY <2>1, ConcatAdjacentSubSeq, line \in Seq(S)
  <1> QED  BY <1>0, <1>3, <1>4, <1>5 DEF Before, Behind

(* How a line that is pasted or erased relates to the one before. *)
LEMMA InsertFacts ==
  ASSUME NEW S, NEW line \in Seq(S), NEW at \in 0..Len(line), NEW text \in Seq(S)
  PROVE  /\ InsertText(line, at, text) \in Seq(S)
         /\ Len(InsertText(line, at, text)) = Len(line) + Len(text)
         /\ \A i \in 1..at : InsertText(line, at, text)[i] = line[i]
         /\ InsertText(line, at, text) = (Before(line, at) \o text) \o Behind(line, at)
  <1>0. PICK len \in Nat, n \in Nat : len = Len(line) /\ n = Len(text)
    BY LenProperties
  <1> DEFINE p == Before(line, at)
             q == Behind(line, at)
  <1>1. /\ p \in Seq(S) /\ Len(p) = at /\ q \in Seq(S) /\ Len(q) = len - at
        /\ \A i \in 1..at : p[i] = line[i]
    BY <1>0, SplitLine
  <1>2. InsertText(line, at, text) = (p \o text) \o q
    BY DEF InsertText, Before, Behind
  <1> HIDE DEF p, q
  <1>3. at \in Nat
    BY <1>0
  <1>4. PICK pt \in Seq(S) : Joined(pt, p, text)
    BY <1>1, ConcatFacts
  <1>5. PICK l \in Seq(S) : Joined(l, pt, q)
    BY <1>1, ConcatFacts
  <1>6. Len(l) = len + n
    BY <1>0, <1>1, <1>3, <1>4, <1>5 DEF Joined
  <1>7. \A i \in 1..at : l[i] = line[i]
    <2>1. \A i \in 1..at : i \in 1..Len(pt)
      BY <1>0, <1>1, <1>3, <1>4 DEF Joined
    <2> QED  BY <1>1, <1>4, <1>5, <2>1 DEF Joined
  <1>8. InsertText(line, at, text) = l
    BY <1>2, <1>4, <1>5 DEF Joined
  <1> QED  BY <1>0, <1>2, <1>6, <1>7, <1>8 DEF p, q

(* The line without what is between a and b. *)
Without(line, a, b) == Before(line, a) \o Behind(line, b)

LEMMA WithoutFacts ==
  ASSUME NEW S, NEW line \in Seq(S), NEW a \in 0..Len(line), NEW b \in a..Len(line)
  PROVE  /\ Without(line, a, b) \in Seq(S)
         /\ Len(Without(line, a, b)) = Len(line) - (b - a)
         /\ \A i \in 1..a : Without(line, a, b)[i] = line[i]
         /\ Before(Without(line, a, b), a) = Before(line, a)
         /\ Behind(Without(line, a, b), a) = Behind(line, b)
  <1>0. PICK len \in Nat : len = Len(line)
    BY LenProperties
  <1>1. a \in Nat /\ b \in Nat /\ a <= b /\ b <= len /\ b \in 0..Len(line)
    BY <1>0
  <1> DEFINE p == Before(line, a)
             q == Behind(line, b)
  <1>2. /\ p \in Seq(S) /\ Len(p) = a /\ q \in Seq(S) /\ Len(q) = len - b
        /\ \A i \in 1..a : p[i] = line[i]
    BY <1>0, <1>1, SplitLine
  <1>3. Without(line, a, b) = p \o q
    BY DEF Without
  <1> HIDE DEF p, q
  <1>5. PICK l \in Seq(S) : Joined(l, p, q)
    BY <1>2, ConcatFacts
  <1>6. \A i \in 1..a : l[i] = line[i]
    BY <1>2, <1>5 DEF Joined
  <1>7. Len(l) = len - (b - a)
    BY <1>1, <1>2, <1>5 DEF Joined
  <1>8. Before(l, a) = p /\ Behind(l, a) = q
    BY <1>2, <1>5, SplitConcat DEF Joined
  <1>9. Without(line, a, b) = l
    BY <1>3, <1>5 DEF Joined
  <1> QED  BY <1>0, <1>6, <1>7, <1>8, <1>9 DEF p, q

(* ConcatAssociative, for all sequences at once. *)
Associative(S) == \A t, u, v \in Seq(S) : (t \o u) \o v = t \o (u \o v)

LEMMA ConcatIsAssociative ==
  ASSUME NEW S
  PROVE  Associative(S)
  BY ConcatAssociative DEF Associative

(* What was cut can be pasted again, alone or with what was cut before, on   *)
(* the side where it was.                                                    *)
Regained(line, a, b, paste) ==
  LET cut == SubSeq(line, a + 1, b)
      l == Without(line, a, b)
  IN /\ InsertText(l, a, cut) = line
     /\ InsertText(l, a, paste \o cut) = InsertText(line, a, paste)
     /\ InsertText(l, a, cut \o paste) = InsertText(line, b, paste)

LEMMA CutAndPaste ==
  ASSUME NEW S, NEW line \in Seq(S), NEW a \in 0..Len(line), NEW b \in a..Len(line),
         NEW paste \in Seq(S)
  PROVE  Regained(line, a, b, paste)
  <1>0. PICK len \in Nat : len = Len(line)
    BY LenProperties
  <1>1. a \in Nat /\ b \in 0..Len(line) /\ a \in 0..(Len(line) - (b - a))
    BY <1>0
  <1> DEFINE p == Before(line, a)
             q == Behind(line, b)
             cut == SubSeq(line, a + 1, b)
             l == Without(line, a, b)
  <1>2. p \in Seq(S) /\ q \in Seq(S)
    BY <1>1, SplitLine
  <1>3. /\ cut \in Seq(S)
        /\ p \o cut = Before(line, b) /\ cut \o q = Behind(line, a)
    BY JoinCut
  <1>4. l \in Seq(S) /\ a \in 0..Len(l) /\ Before(l, a) = p /\ Behind(l, a) = q
    BY <1>1, WithoutFacts
  <1>5. p \o Behind(line, a) = line
    BY SplitLine
  <1> HIDE DEF p, q, cut, l
  <1>6. \A t \in Seq(S) : InsertText(l, a, t) = (p \o t) \o q
    BY <1>4, InsertFacts
  <1>7. /\ InsertText(line, a, paste) = (p \o paste) \o Behind(line, a)
        /\ InsertText(line, b, paste) = (Before(line, b) \o paste) \o q
    BY <1>1, InsertFacts DEF p, q
  <1>11. \A t, u, v \in Seq(S) : (t \o u) \o v = t \o (u \o v)
    <2>1. Associative(S)
      BY ConcatIsAssociative
    <2> QED  BY <2>1, Zenon DEF Associative
  <1>8. InsertText(l, a, cut) = line
    <2>1. (p \o cut) \o q = p \o (cut \o q)
      BY ONLY <1>2, <1>3, <1>11, Zenon
    <2> QED  BY <1>3, <1>5, <1>6, <2>1
  <1>9. InsertText(l, a, paste \o cut) = InsertText(line, a, paste)
    <2>1. paste \o cut \in Seq(S) /\ p \o paste \in Seq(S)
      BY <1>2, <1>3, ConcatProperties
    <2>2. InsertText(l, a, paste \o cut) = (p \o (paste \o cut)) \o q
      BY <1>6, <2>1
    <2>3. p \o (paste \o cut) = (p \o paste) \o cut
      BY ONLY <1>2, <1>3, <1>11, paste \in Seq(S), Zenon
    <2>4. ((p \o paste) \o cut) \o q = (p \o paste) \o (cut \o q)
      <3> DEFINE pp == p \o paste
      <3>1. pp \in Seq(S)
        BY <2>1
      <3> HIDE DEF pp
      <3>2. (pp \o cut) \o q = pp \o (cut \o q)
        BY ONLY <1>2, <1>3, <1>11, <3>1, Zenon
      <3> QED  BY <3>2 DEF pp
    <2> QED  BY <1>3, <1>7, <2>2, <2>3, <2>4
  <1>10. InsertText(l, a, cut \o paste) = InsertText(line, b, paste)
    <2>1. cut \o paste \in Seq(S)
      BY <1>3, ConcatProperties
    <2>2. InsertText(l, a, cut \o paste) = (p \o (cut \o paste)) \o q
      BY <1>6, <2>1
    <2>3. p \o (cut \o paste) = (p \o cut) \o paste
      BY ONLY <1>2, <1>3, <1>11, paste \in Seq(S), Zenon
    <2> QED  BY <1>3, <1>7, <2>2, <2>3
  <1> QED  BY <1>8, <1>9, <1>10 DEF Regained, cut, l

-----------------------------------------------------------------------------
(***************************************************************************)
(* Ranges.                                                                 *)
(***************************************************************************)

RangeSet == [start : Nat, end : Nat, prompts : SUBSET {"prompt", "editor"}]

ProperRange(r) ==
  r \in RangeSet /\ r.start < End /\ r.start <= r.end /\ r.end <= End

(* The characters of a range; up to Range::End() there are all of them. *)
InRange(r, i) == r.start <= i /\ (r.end = End \/ i < r.end)

(* A line has changed in a range only, and it is shorter only if the range   *)
(* has no end.                                                               *)
Changes(old, new, r) ==
  /\ \A i \in 1..Len(new) : ~InRange(r, i - 1) => i <= Len(old) /\ new[i] = old[i]
  /\ Len(new) < Len(old) => r.end = End

(* Range::Extend gives a range around both. *)
LEMMA ExtendFacts ==
  ASSUME NEW r, ProperRange(r), NEW w, ProperRange(w)
  PROVE  /\ ProperRange(Extend(r, w))
         /\ Extend(r, w).prompts = r.prompts \cup w.prompts
         /\ \A i \in Nat : InRange(r, i) \/ InRange(w, i) => InRange(Extend(r, w), i)
         /\ r.end = End \/ w.end = End => Extend(r, w).end = End
         /\ \A n \in Nat : w.start <= n /\ (IsEmpty(w) => r.start <= n) => Extend(r, w).start <= n
  <1>1. /\ r.start \in Nat /\ r.end \in Nat /\ w.start \in Nat /\ w.end \in Nat
        /\ r.prompts \in SUBSET {"prompt", "editor"} /\ w.prompts \in SUBSET {"prompt", "editor"}
        /\ r.start < End /\ r.start <= r.end /\ r.end <= End
        /\ w.start < End /\ w.start <= w.end /\ w.end <= End
    BY DEF ProperRange, RangeSet
  <1>2. End \in Nat
    BY DEF End
  <1>3. CASE IsEmpty(r)
    <2>1. Extend(r, w) = w /\ r.prompts = {} /\ r.start = r.end
      BY <1>3 DEF Extend, IsEmpty
    <2> QED  BY <1>1, <1>2, <2>1 DEF InRange
  <1>4. CASE ~IsEmpty(r) /\ IsEmpty(w)
    <2>1. Extend(r, w) = r /\ w.prompts = {} /\ w.start = w.end
      BY <1>4 DEF Extend, IsEmpty
    <2> QED  BY <1>1, <1>2, <1>4, <2>1 DEF InRange
  <1>5. CASE ~IsEmpty(r) /\ ~IsEmpty(w)
    <2>1. PICK s \in Nat : s = Min({r.start, w.start}) /\ s = IF r.start <= w.start THEN r.start ELSE w.start
      BY <1>1, MinOfTwo
    <2>2. PICK t \in Nat : t = Max({r.end, w.end}) /\ t = IF r.end <= w.end THEN w.end ELSE r.end
      BY <1>1, MaxOfTwo
    <2>3. Extend(r, w) = [start |-> s, end |-> t, prompts |-> r.prompts \cup w.prompts]
      BY <1>5, <2>1, <2>2 DEF Extend
    <2>4. PICK z : z = Extend(r, w)
      OBVIOUS
    <2>5. z.start = s /\ z.end = t /\ z.prompts = r.prompts \cup w.prompts
      BY <2>3, <2>4
    <2>6. z \in RangeSet
      BY <1>1, <2>3, <2>4 DEF RangeSet
    <2>7. ProperRange(z)
      BY <1>1, <2>1, <2>2, <2>5, <2>6 DEF ProperRange
    <2>8. \A i \in Nat : InRange(r, i) \/ InRange(w, i) => InRange(z, i)
      BY <1>1, <1>2, <2>1, <2>2, <2>5 DEF InRange
    <2>9. r.end = End \/ w.end = End => z.end = End
      BY <1>1, <1>2, <2>2, <2>5
    <2>10. \A n \in Nat : w.start <= n => z.start <= n
      BY <1>1, <2>1, <2>5
    <2> QED  BY <2>4, <2>5, <2>7, <2>8, <2>9, <2>10
  <1> QED  BY <1>3, <1>4, <1>5

(* Two changes, one after the other. *)
LEMMA ChangesAdd ==
  ASSUME NEW S, NEW a \in Seq(S), NEW b \in Seq(S), NEW c \in Seq(S),
         NEW r, ProperRange(r), NEW w, ProperRange(w), Changes(a, b, r), Changes(b, c, w)
  PROVE  Changes(a, c, Extend(r, w))
  <1>0. PICK la \in Nat, lb \in Nat, lc \in Nat : la = Len(a) /\ lb = Len(b) /\ lc = Len(c)
    BY LenProperties
  <1>1. PICK z : z = Extend(r, w)
    OBVIOUS
  <1>2. \A i \in Nat : InRange(r, i) \/ InRange(w, i) => InRange(z, i)
    BY <1>1, ExtendFacts
  <1>3. r.end = End \/ w.end = End => z.end = End
    BY <1>1, ExtendFacts
  <1>4. ASSUME NEW i \in 1..lc, ~InRange(z, i - 1)
        PROVE  i <= la /\ c[i] = a[i]
    <2>1. i - 1 \in Nat /\ ~InRange(r, i - 1) /\ ~InRange(w, i - 1)
      BY <1>2, <1>4
    <2>2. i <= lb /\ c[i] = b[i]
      BY <1>0, <2>1 DEF Changes
    <2>3. i \in 1..lb
      BY <2>2
    <2>4. i <= la /\ b[i] = a[i]
      BY <1>0, <2>1, <2>3 DEF Changes
    <2> QED  BY <2>2, <2>4
  <1>5. lc < la => z.end = End
    <2>1. lc < lb => w.end = End
      BY <1>0 DEF Changes
    <2>2. lb < la => r.end = End
      BY <1>0 DEF Changes
    <2> QED  BY <1>3, <2>1, <2>2
  <1> QED  BY <1>0, <1>1, <1>4, <1>5 DEF Changes

(* Nothing has changed. *)
LEMMA ChangesNothing ==
  ASSUME NEW S, NEW a \in Seq(S), NEW r
  PROVE  Changes(a, a, r)
  <1>1. Len(a) \in Nat
    BY LenProperties
  <1> QED  BY <1>1 DEF Changes

(* Range::AllText() is everything. *)
LEMMA ChangesAll ==
  ASSUME NEW S, NEW a \in Seq(S), NEW b \in Seq(S), NEW r, r.start = 0, r.end = End
  PROVE  Changes(a, b, r)
  <1>1. Len(b) \in Nat
    BY LenProperties
  <1> QED  BY <1>1 DEF Changes, InRange

(* A line that has kept what is before the range, which has no end. *)
LEMMA ChangesBehind ==
  ASSUME NEW S, NEW a \in Seq(S), NEW b \in Seq(S), NEW n \in Nat,
         n <= Len(a), \A i \in 1..n : i <= Len(b) => b[i] = a[i]
  PROVE  Changes(a, b, Span(n, End))
  <1>0. PICK la \in Nat, lb \in Nat : la = Len(a) /\ lb = Len(b)
    BY LenProperties
  <1>1. PICK r : r = Span(n, End)
    OBVIOUS
  <1>2. r.start = n /\ r.end = End
    BY <1>1 DEF Span
  <1>3. ASSUME NEW i \in 1..lb, ~InRange(r, i - 1)
        PROVE  i <= la /\ b[i] = a[i]
    <2>1. i - 1 < n
      BY <1>2, <1>3 DEF InRange
    <2>2. i \in 1..n /\ i <= lb
      BY <2>1
    <2> QED  BY <1>0, <2>2
  <1> QED  BY <1>0, <1>1, <1>2, <1>3 DEF Changes

(* A line in which some characters were replaced. *)
LEMMA ChangesWithin ==
  ASSUME NEW S, NEW a \in Seq(S), NEW b \in Seq(S), NEW m \in Nat, NEW n \in Nat,
         Len(a) = Len(b), \A i \in 1..Len(a) : i <= m \/ i > n => b[i] = a[i], n < End
  PROVE  Changes(a, b, Span(m, n))
  <1>0. PICK la \in Nat : la = Len(a) /\ la = Len(b)
    BY LenProperties
  <1>1. PICK r : r = Span(m, n)
    OBVIOUS
  <1>2. r.start = m /\ r.end = n /\ n # End
    BY <1>1 DEF Span, End
  <1>3. ASSUME NEW i \in 1..la, ~InRange(r, i - 1)
        PROVE  i <= la /\ b[i] = a[i]
    <2>1. ~(m <= i - 1) \/ ~(i - 1 < n)
      BY <1>2, <1>3 DEF InRange
    <2>2. i <= m \/ i > n
      BY <2>1
    <2> QED  BY <1>0, <2>2
  <1> QED  BY <1>0, <1>1, <1>2, <1>3 DEF Changes

-----------------------------------------------------------------------------
(***************************************************************************)
(* What a command of the editor keeps.  x is the editor before a key, and  *)
(* y what the functions called so far have made of it.                     *)
(***************************************************************************)

Line == {l \in Seq(Character) : Len(l) <= MaxLine}

UndoSet ==
  {u \in [line : Seq(Character), cursor : Nat, stem : Int] : u.cursor <= Len(u.line)}

EditorSet ==
  [line : Seq(Character), cursor : Nat, hist : Seq(Line), notInHist : Seq(Character),
   paste : Seq(Character), search : Seq(Character), cur : Int, replay : Int,
   mode : {"input", "bkw", "fwd"}, overwrite : BOOLEAN, cutDir : {-1, 0, 1}, undo : Seq(UndoSet),
   prompt : Seq(Glyph), R : RangeSet, stem : Int, base : SUBSET Seq(Character)]

(* The cursor is in the line, the entries are in the history, and the prompt *)
(* of the editor is the one of the search.                                   *)
EditorOK(y) ==
  /\ y \in EditorSet
  /\ y.cursor <= Len(y.line)
  /\ y.cur \in Indices(y) /\ y.replay \in Indices(y)
  /\ Len(y.undo) <= MaxUndoBufSize + 1
  /\ y.prompt = IF y.mode = "input" THEN <<>> ELSE <<y.mode>> \o y.search

(* Pasting restores the line, and a search has ended the cuts.               *)
PasteOK(y) ==
  /\ y.mode # "input" => y.base = {}
  /\ y.cutDir # 0 => \A l \in y.base : InsertText(y.line, y.cursor, y.paste) = l

(* R says what has to be displayed again.                                    *)
Covered(x, y) ==
  /\ ProperRange(y.R) /\ y.R.start <= Len(y.line)
  /\ Changes(x.line, y.line, y.R)
  /\ y.prompt # x.prompt => y.R.prompts # {}

Good(x, y) ==
  /\ x.line \in Seq(Character) /\ Len(x.search) \in Nat
  /\ EditorOK(y) /\ PasteOK(y) /\ Covered(x, y)
  /\ Len(y.search) <= Len(x.search) + 1

(* The entry that the line is taken from is the one that it will replace.    *)
Stems(y) == y.cur # None => y.stem = PosOf(y, y.cur)

(* What is shown again covers one more change.                               *)
LEMMA ShownCovers ==
  ASSUME NEW x, NEW y, NEW z, NEW w, Covered(x, y),
         x.line \in Seq(Character), y.line \in Seq(Character), z.line \in Seq(Character),
         z.R = Extend(y.R, w), ProperRange(w), w.start <= Len(z.line),
         Changes(y.line, z.line, w), z.prompt = y.prompt \/ w.prompts # {}
  PROVE  Covered(x, z)
  <1>0. PICK n \in Nat, m \in Nat : n = Len(z.line) /\ m = Len(y.line)
    BY LenProperties
  <1>1. ProperRange(y.R) /\ y.R.start <= m /\ Changes(x.line, y.line, y.R)
    BY <1>0 DEF Covered
  <1>2. ProperRange(z.R) /\ z.R.prompts = y.R.prompts \cup w.prompts
    BY <1>1, ExtendFacts
  <1>3. Changes(x.line, z.line, z.R)
    BY <1>1, ChangesAdd
  <1>4. IsEmpty(w) => y.R.start <= n
    <2>1. IsEmpty(w) => w.end # End
      BY DEF IsEmpty, ProperRange, End, RangeSet
    <2>2. w.end # End => m <= n
      BY <1>0 DEF Changes
    <2>3. y.R.start \in Nat
      BY <1>1 DEF ProperRange, RangeSet
    <2> QED  BY <1>1, <2>1, <2>2, <2>3
  <1>5. z.R.start <= n
    BY <1>0, <1>1, <1>4, ExtendFacts
  <1>6. z.prompt # x.prompt => z.R.prompts # {}
    BY <1>2 DEF Covered
  <1> QED  BY <1>0, <1>2, <1>3, <1>5, <1>6 DEF Covered

(* PushUndo changes the undo buffer only, which keeps its size. *)
LEMMA PushUndoKeeps ==
  ASSUME NEW x, NEW y, Good(x, y)
  PROVE  LET z == PushUndo(y)
         IN /\ Good(x, z) /\ (Stems(y) => Stems(z))
            /\ z.line = y.line /\ z.cursor = y.cursor /\ z.hist = y.hist /\ z.cur = y.cur
            /\ z.replay = y.replay /\ z.mode = y.mode /\ z.cutDir = y.cutDir /\ z.base = y.base
            /\ z.search = y.search /\ z.overwrite = y.overwrite
  <1> DEFINE old == IF Len(y.undo) > MaxUndoBufSize THEN Tail(y.undo) ELSE y.undo
             new == Append(old, [line |-> y.line, cursor |-> y.cursor, stem |-> y.stem])
  <1>1. y \in EditorSet /\ y.cursor <= Len(y.line) /\ Len(y.undo) <= MaxUndoBufSize + 1
    BY DEF Good, EditorOK
  <1>2. y.undo \in Seq(UndoSet) /\ MaxUndoBufSize \in Nat /\ Len(y.undo) \in Nat
    BY <1>1, EditorAssumption, LenProperties DEF EditorSet
  <1>3. old \in Seq(UndoSet) /\ Len(old) <= MaxUndoBufSize
    <2>1. CASE Len(y.undo) > MaxUndoBufSize
      <3>1. y.undo # <<>>
        BY <1>2, <2>1, EmptySeq
      <3> QED  BY <1>1, <1>2, <2>1, <3>1, HeadTailProperties
    <2>2. CASE ~(Len(y.undo) > MaxUndoBufSize)
      BY <1>1, <1>2, <2>2
    <2> QED  BY <2>1, <2>2
  <1>4. [line |-> y.line, cursor |-> y.cursor, stem |-> y.stem] \in UndoSet
    BY <1>1 DEF EditorSet, UndoSet
  <1> HIDE DEF old
  <1>5. new \in Seq(UndoSet) /\ Len(new) <= MaxUndoBufSize + 1
    <2>1. new \in Seq(UndoSet) /\ Len(new) = Len(old) + 1 /\ Len(old) \in Nat
      BY <1>3, <1>4, AppendProperties, LenProperties
    <2> QED  BY <1>2, <1>3, <2>1
  <1>6. PushUndo(y) = [y EXCEPT !.undo = new]
    BY DEF PushUndo, old
  <1> HIDE DEF new
  <1>7. PICK z : z = [y EXCEPT !.undo = new]
    OBVIOUS
  <1>8. z \in EditorSet
    BY <1>1, <1>5, <1>7 DEF EditorSet
  <1>9. /\ z.undo = new /\ z.line = y.line /\ z.cursor = y.cursor /\ z.hist = y.hist
        /\ z.cur = y.cur /\ z.replay = y.replay /\ z.mode = y.mode /\ z.cutDir = y.cutDir
        /\ z.prompt = y.prompt /\ z.search = y.search /\ z.R = y.R /\ z.stem = y.stem
        /\ z.base = y.base /\ z.paste = y.paste /\ z.overwrite = y.overwrite
    BY <1>1, <1>7 DEF EditorSet
  <1>10. Good(x, z) /\ (Stems(y) => Stems(z))
    BY <1>5, <1>8, <1>9 DEF Good, EditorOK, PasteOK, Covered, Stems, PosOf, Indices
  <1> QED  BY <1>6, <1>7, <1>9, <1>10

(* What an index of the history can be.                                      *)
LEMMA IndicesFacts ==
  ASSUME NEW y, y \in EditorSet
  PROVE  /\ Len(y.hist) \in Nat
         /\ \A i : i \in Indices(y) <=> i \in Int /\ i >= None /\ (i <= 0 \/ i <= Len(y.hist) - 1)
  <1>1. PICK n \in Nat : n = Len(y.hist)
    BY LenProperties DEF EditorSet
  <1>2. Max({0, n - 1}) = IF 0 <= n - 1 THEN n - 1 ELSE 0
    BY MaxOfTwo
  <1> QED  BY <1>1, <1>2 DEF Indices, None

(* ClearPasteBuf ends a series of cuts.                                      *)
LEMMA ClearKeeps ==
  ASSUME NEW x, NEW y, Good(x, y)
  PROVE  LET z == ClearPasteBuf(y)
         IN /\ Good(x, z) /\ (Stems(y) => Stems(z))
            /\ z.cutDir = 0 /\ z.line = y.line /\ z.cursor = y.cursor /\ z.mode = y.mode
            /\ z.cur = y.cur /\ z.hist = y.hist /\ z.overwrite = y.overwrite /\ z.search = y.search
            /\ z.replay = y.replay
  <1>1. y \in EditorSet
    BY DEF Good, EditorOK
  <1>2. PICK z : z = [y EXCEPT !.cutDir = 0]
    OBVIOUS
  <1>3. z \in EditorSet
    BY <1>1, <1>2 DEF EditorSet
  <1>4. /\ z.undo = y.undo /\ z.line = y.line /\ z.cursor = y.cursor /\ z.hist = y.hist
        /\ z.cur = y.cur /\ z.replay = y.replay /\ z.mode = y.mode /\ z.cutDir = 0
        /\ z.prompt = y.prompt /\ z.search = y.search /\ z.R = y.R /\ z.stem = y.stem
        /\ z.base = y.base /\ z.paste = y.paste /\ z.overwrite = y.overwrite
    BY <1>1, <1>2 DEF EditorSet
  <1>5. ClearPasteBuf(y) = z
    BY <1>2 DEF ClearPasteBuf
  <1>6. Good(x, z)
    BY <1>3, <1>4 DEF Good, EditorOK, PasteOK, Covered, Indices
  <1>7. Stems(y) => Stems(z)
    BY <1>4 DEF Stems, PosOf
  <1> QED  BY <1>4, <1>5, <1>6, <1>7

(* Nothing is asked of pasting any more.                                     *)
LEMMA ForgetKeeps ==
  ASSUME NEW x, NEW y, Good(x, y)
  PROVE  LET z == [y EXCEPT !.base = {}]
         IN /\ Good(x, z) /\ (Stems(y) => Stems(z))
            /\ z.base = {} /\ z.line = y.line /\ z.cursor = y.cursor /\ z.mode = y.mode
            /\ z.cur = y.cur /\ z.hist = y.hist /\ z.search = y.search /\ z.replay = y.replay
  <1>1. y \in EditorSet
    BY DEF Good, EditorOK
  <1>2. PICK z : z = [y EXCEPT !.base = {}]
    OBVIOUS
  <1>3. z \in EditorSet
    BY <1>1, <1>2 DEF EditorSet
  <1>4. /\ z.undo = y.undo /\ z.line = y.line /\ z.cursor = y.cursor /\ z.hist = y.hist
        /\ z.cur = y.cur /\ z.replay = y.replay /\ z.mode = y.mode /\ z.cutDir = y.cutDir
        /\ z.prompt = y.prompt /\ z.search = y.search /\ z.R = y.R /\ z.stem = y.stem
        /\ z.base = {} /\ z.paste = y.paste
    BY <1>1, <1>2 DEF EditorSet
  <1>5. Good(x, z)
    BY <1>3, <1>4 DEF Good, EditorOK, PasteOK, Covered, Indices
  <1>6. Stems(y) => Stems(z)
    BY <1>4 DEF Stems, PosOf
  <1> QED  BY <1>2, <1>4, <1>5, <1>6

(* The range of the editor's prompt.                                         *)
PromptRange == [Empty EXCEPT !.prompts = {"editor"}]

LEMMA PromptRangeFacts ==
  /\ ProperRange(PromptRange) /\ PromptRange.start = 0 /\ PromptRange.prompts # {}
  <1>1. PromptRange = [start |-> 0, end |-> 0, prompts |-> {"editor"}]
    BY DEF PromptRange, Empty, Span
  <1> QED  BY <1>1 DEF ProperRange, RangeSet, End

(* A prompt for the search that goes on, and what is shown for it.           *)
SearchPrompt(s, m) == IF m = "input" THEN <<>> ELSE <<m>> \o s

Prompted(y, s, m) ==
  Shown([y EXCEPT !.search = s, !.mode = m, !.prompt = SearchPrompt(s, m)], PromptRange)

LEMMA PromptKeeps ==
  ASSUME NEW x, NEW y, Good(x, y), NEW m \in {"input", "bkw", "fwd"}, NEW s \in Seq(Character),
         Len(s) <= Len(x.search) + 1, m = "input" \/ y.base = {}
  PROVE  LET z == Prompted(y, s, m)
         IN /\ Good(x, z) /\ (Stems(y) => Stems(z))
            /\ z.search = s /\ z.mode = m /\ z.line = y.line /\ z.cursor = y.cursor
            /\ z.cur = y.cur /\ z.hist = y.hist /\ z.base = y.base /\ z.cutDir = y.cutDir
            /\ z.replay = y.replay
  <1>1. y \in EditorSet /\ ProperRange(y.R)
    BY DEF Good, EditorOK, Covered
  <1> DEFINE p == SearchPrompt(s, m)
  <1>2. p \in Seq(Glyph) /\ p = IF m = "input" THEN <<>> ELSE <<m>> \o s
    <2> USE DEF SearchPrompt
    <2>1. CASE m = "input"
      BY <2>1, EmptySeq
    <2>2. CASE m # "input"
      <3>1. s \in Seq(Glyph)
        BY SeqMonotonic DEF Glyph
      <3>2. <<m>> \in Seq(Glyph)
        BY <2>2 DEF Glyph
      <3> QED  BY <2>2, <3>1, <3>2, ConcatProperties
    <2> QED  BY <2>1, <2>2
  <1> HIDE DEF p
  <1>3. PICK r : r = Extend(y.R, PromptRange)
    OBVIOUS
  <1>4. ProperRange(r) /\ r.prompts = y.R.prompts \cup PromptRange.prompts
    BY <1>1, <1>3, PromptRangeFacts, ExtendFacts
  <1>5. r \in RangeSet
    BY <1>4 DEF ProperRange
  <1>6. PICK z : z = [y EXCEPT !.search = s, !.mode = m, !.prompt = p, !.R = r]
    OBVIOUS
  <1>7. z \in EditorSet
    BY <1>1, <1>2, <1>5, <1>6 DEF EditorSet
  <1>8. /\ z.undo = y.undo /\ z.line = y.line /\ z.cursor = y.cursor /\ z.hist = y.hist
        /\ z.cur = y.cur /\ z.replay = y.replay /\ z.mode = m /\ z.cutDir = y.cutDir
        /\ z.prompt = p /\ z.search = s /\ z.R = r /\ z.stem = y.stem
        /\ z.base = y.base /\ z.paste = y.paste
    BY <1>1, <1>6 DEF EditorSet
  <1>9. Prompted(y, s, m) = z
    BY <1>1, <1>3, <1>6 DEF Prompted, Shown, EditorSet, p
  <1>10. Covered(x, z)
    <2>1. Changes(y.line, z.line, PromptRange)
      BY <1>1, <1>8, ChangesNothing DEF EditorSet
    <2>2. PromptRange.start <= Len(z.line)
      <3>1. Len(z.line) \in Nat
        BY <1>1, <1>8, LenProperties DEF EditorSet
      <3> QED  BY <3>1, PromptRangeFacts
    <2>3. x.line \in Seq(Character) /\ y.line \in Seq(Character) /\ z.line \in Seq(Character) /\ Covered(x, y)
      BY <1>1, <1>8 DEF Good, EditorSet
    <2> QED  BY <1>3, <1>8, <2>1, <2>2, <2>3, PromptRangeFacts, ShownCovers
  <1>11. EditorOK(z)
    BY <1>2, <1>7, <1>8 DEF Good, EditorOK, Indices
  <1>12. PasteOK(z)
    BY <1>8 DEF Good, PasteOK
  <1>13. Good(x, z)
    BY <1>8, <1>10, <1>11, <1>12 DEF Good
  <1>14. Stems(y) => Stems(z)
    BY <1>8 DEF Stems, PosOf
  <1> QED  BY <1>8, <1>9, <1>13, <1>14

(* CancelSpecialInputMode ends a search.                                     *)
LEMMA CancelKeeps ==
  ASSUME NEW x, NEW y, Good(x, y)
  PROVE  LET z == CancelSpecialInputMode(y)
         IN /\ Good(x, z) /\ (Stems(y) => Stems(z))
            /\ z.mode = "input" /\ z.line = y.line /\ z.cursor = y.cursor /\ z.search = y.search
            /\ z.cur = y.cur /\ z.hist = y.hist /\ z.base = y.base /\ z.cutDir = y.cutDir
            /\ z.replay = y.replay
  <1>1. y \in EditorSet /\ y.search \in Seq(Character) /\ Len(y.search) <= Len(x.search) + 1
    BY DEF Good, EditorOK, EditorSet
  <1>2. CASE y.mode = "input"
    BY <1>2 DEF CancelSpecialInputMode
  <1>3. CASE y.mode # "input"
    <2>1. CancelSpecialInputMode(y) = Shown([y EXCEPT !.prompt = <<>>, !.mode = "input"], PromptRange)
      BY <1>3 DEF CancelSpecialInputMode, PromptRange
    <2>2. [y EXCEPT !.prompt = <<>>, !.mode = "input"]
            = [y EXCEPT !.search = y.search, !.mode = "input", !.prompt = <<>>]
      BY <1>1 DEF EditorSet
    <2>3. CancelSpecialInputMode(y) = Prompted(y, y.search, "input")
      BY <2>1, <2>2 DEF Prompted, SearchPrompt
    <2> QED  BY <1>1, <2>3, PromptKeeps
  <1> QED  BY <1>2, <1>3

(* Another line, cursor, entry or undo buffer, shown in a range that covers  *)
(* the change, when nothing is asked of pasting.                             *)
Put(y, l, c, i, s, u, w) ==
  Shown([y EXCEPT !.line = l, !.cursor = c, !.cur = i, !.stem = s, !.undo = u], w)

LEMMA PutKeeps ==
  ASSUME NEW x, NEW y, Good(x, y), y.cutDir = 0 \/ y.base = {},
         NEW l \in Seq(Character), NEW c \in Nat, c <= Len(l),
         NEW i, i \in Indices(y), NEW s \in Int,
         NEW u \in Seq(UndoSet), Len(u) <= MaxUndoBufSize + 1,
         NEW w, ProperRange(w), w.start <= Len(l), Changes(y.line, l, w)
  PROVE  LET z == Put(y, l, c, i, s, u, w)
         IN /\ Good(x, z) /\ (Stems(z) <=> (i # None => s = PosOf(y, i)))
            /\ z.line = l /\ z.cursor = c /\ z.cur = i /\ z.hist = y.hist /\ z.mode = y.mode
            /\ z.search = y.search /\ z.cutDir = y.cutDir /\ z.base = y.base
            /\ z.replay = y.replay
  <1>1. y \in EditorSet /\ ProperRange(y.R)
    BY DEF Good, EditorOK, Covered
  <1>2. i \in Int
    BY <1>1, IndicesFacts
  <1>3. PICK r : r = Extend(y.R, w)
    OBVIOUS
  <1>4. ProperRange(r)
    BY <1>1, <1>3, ExtendFacts
  <1>5. r \in RangeSet
    BY <1>4 DEF ProperRange
  <1>6. PICK z : z = [y EXCEPT !.line = l, !.cursor = c, !.cur = i, !.stem = s, !.undo = u, !.R = r]
    OBVIOUS
  <1>7. z \in EditorSet
    BY <1>1, <1>2, <1>5, <1>6 DEF EditorSet
  <1>8. /\ z.undo = u /\ z.line = l /\ z.cursor = c /\ z.hist = y.hist
        /\ z.cur = i /\ z.replay = y.replay /\ z.mode = y.mode /\ z.cutDir = y.cutDir
        /\ z.prompt = y.prompt /\ z.search = y.search /\ z.R = r /\ z.stem = s
        /\ z.base = y.base /\ z.paste = y.paste
    BY <1>1, <1>6 DEF EditorSet
  <1>9. Put(y, l, c, i, s, u, w) = z
    BY <1>1, <1>3, <1>6 DEF Put, Shown, EditorSet
  <1>10. Covered(x, z)
    <2>1. x.line \in Seq(Character) /\ y.line \in Seq(Character) /\ z.line \in Seq(Character) /\ Covered(x, y)
      BY <1>1, <1>8 DEF Good, EditorSet
    <2> QED  BY <1>3, <1>8, <2>1, ShownCovers
  <1>11. EditorOK(z)
    BY <1>7, <1>8 DEF Good, EditorOK, Indices
  <1>12. PasteOK(z)
    BY <1>8 DEF Good, PasteOK
  <1>13. Good(x, z)
    BY <1>8, <1>10, <1>11, <1>12 DEF Good
  <1>14. Stems(z) <=> (i # None => s = PosOf(y, i))
    BY <1>8 DEF Stems, PosOf
  <1> QED  BY <1>8, <1>9, <1>13, <1>14

(* An entry is a line. *)
LEMMA HistLineFacts ==
  ASSUME NEW y, y \in EditorSet, NEW i, i \in Indices(y)
  PROVE  HistLine(y, i) \in Line /\ HistLine(y, i) \in Seq(Character) /\ PosOf(y, i) \in Int
  <1>1. PICK n \in Nat : n = Len(y.hist)
    BY IndicesFacts
  <1>2. i \in Int /\ i >= -1 /\ (i <= 0 \/ i <= n - 1)
    BY <1>1, IndicesFacts DEF None
  <1>3. HistLine(y, i) \in Line
    <2>1. CASE i = None \/ y.hist = <<>>
      <3>1. <<>> \in Seq(Character) /\ Len(<<>>) = 0 /\ 0 <= MaxLine
        BY EmptySeq, TextInputAssumption
      <3> QED  BY <2>1, <3>1 DEF HistLine, Line
    <2>2. CASE i # None /\ y.hist # <<>>
      <3>1. n # 0
        BY <1>1, <2>2, EmptySeq DEF EditorSet
      <3>2. n - i \in 1..n
        BY <1>2, <2>2, <3>1 DEF None
      <3>3. y.hist[n - i] \in Line
        BY <1>1, <3>2, ElementOfSeq DEF EditorSet
      <3> QED  BY <1>1, <2>2, <3>3 DEF HistLine, PosOf
    <2> QED  BY <2>1, <2>2
  <1> QED  BY <1>1, <1>2, <1>3 DEF Line, PosOf

LEMMA AllTextFacts ==
  ProperRange(AllText) /\ AllText.start = 0 /\ AllText.end = End
  BY DEF AllText, Span, ProperRange, RangeSet, End

(* What a command returns. *)
LEMMA ResultFacts ==
  ASSUME NEW y
  PROVE  /\ Done(y).e = y /\ Done(y).ok = TRUE
         /\ Error(y).e = y /\ Error(y).ok = FALSE
  BY Zenon DEF Done, Error

(* Only the entry changes. *)
WithCur(y, i) == [y EXCEPT !.cur = i]

LEMMA CurKeeps ==
  ASSUME NEW x, NEW y, Good(x, y), NEW i, i \in Indices(y)
  PROVE  LET z == WithCur(y, i)
         IN /\ Good(x, z) /\ (Stems(z) <=> (i # None => y.stem = PosOf(y, i)))
            /\ z.line = y.line /\ z.cursor = y.cursor /\ z.cur = i /\ z.hist = y.hist
            /\ z.mode = y.mode /\ z.search = y.search /\ z.cutDir = y.cutDir /\ z.base = y.base
            /\ z.replay = y.replay /\ z.stem = y.stem
            /\ WithCur(z, y.cur) = y
  <1>1. y \in EditorSet
    BY DEF Good, EditorOK
  <1>2. PICK z : z = [y EXCEPT !.cur = i]
    OBVIOUS
  <1>3. i \in Int
    BY <1>1, IndicesFacts
  <1>4. z \in EditorSet
    BY <1>1, <1>2, <1>3 DEF EditorSet
  <1>5. /\ z.undo = y.undo /\ z.line = y.line /\ z.cursor = y.cursor /\ z.hist = y.hist
        /\ z.cur = i /\ z.replay = y.replay /\ z.mode = y.mode /\ z.cutDir = y.cutDir
        /\ z.prompt = y.prompt /\ z.search = y.search /\ z.R = y.R /\ z.stem = y.stem
        /\ z.base = y.base /\ z.paste = y.paste
    BY <1>1, <1>2 DEF EditorSet
  <1>6. Good(x, z)
    BY <1>4, <1>5 DEF Good, EditorOK, PasteOK, Covered, Indices
  <1>7. Stems(z) <=> (i # None => y.stem = PosOf(y, i))
    BY <1>5 DEF Stems, PosOf
  <1>8. WithCur(z, y.cur) = y
    BY <1>1, <1>2 DEF EditorSet, WithCur
  <1>9. WithCur(y, i) = z
    BY <1>2 DEF WithCur
  <1> QED  BY <1>5, <1>6, <1>7, <1>8, <1>9

(* A search takes an entry of the history, or none.                          *)
LEMMA UpdateKeeps ==
  ASSUME NEW x, NEW y, Good(x, y), y.mode # "input"
  PROVE  LET r == UpdateHistSearch(y)
         IN /\ Good(x, r.e) /\ r.ok \in BOOLEAN /\ r.e.mode = y.mode
            /\ Stems(r.e) \/ (y.search = <<>> /\ r.e = y)
            /\ ~r.ok => r.e = WithCur(y, None)
            /\ r.e.search = y.search /\ r.e.hist = y.hist
  <1> DEFINE from == Max({y.cur, 0})
             range == IF y.mode = "fwd" THEN 0..from ELSE from..(Len(y.hist) - 1)
             hits == {i \in range : HasPart(HistLine(y, i), y.search)}
             i == IF y.mode = "fwd" THEN Max(hits) ELSE Min(hits)
             f == [y EXCEPT !.cur = i, !.line = HistLine(y, i), !.stem = PosOf(y, i),
                            !.cursor = Len(HistLine(y, i))]
  <1>1. UpdateHistSearch(y) = IF y.search = <<>> THEN Done(y)
                              ELSE IF hits = {} THEN Error([y EXCEPT !.cur = None])
                              ELSE Done(Shown(f, AllText))
    BY DEF UpdateHistSearch
  <1>2. y \in EditorSet /\ y.base = {} /\ y.cur \in Indices(y)
    BY DEF Good, EditorOK, PasteOK
  <1>3. PICK n \in Nat : n = Len(y.hist)
    BY <1>2, IndicesFacts
  <1>4. y.cur \in Int /\ y.cur >= -1 /\ (y.cur <= 0 \/ y.cur <= n - 1)
    BY <1>2, <1>3, IndicesFacts DEF None
  <1>5. from \in Nat /\ (from <= 0 \/ from <= n - 1)
    BY <1>4, MaxOfTwo
  <1> HIDE DEF from
  <1>6. CASE y.search = <<>>
    <2>1. UpdateHistSearch(y) = Done(y)
      BY <1>1, <1>6
    <2> QED  BY <1>6, <2>1, ResultFacts
  <1>7. CASE y.search # <<>> /\ hits = {}
    <2>1. PICK z : z = WithCur(y, None)
      OBVIOUS
    <2>2. UpdateHistSearch(y) = Error(z)
      BY <1>1, <1>7, <2>1 DEF WithCur
    <2>3. None \in Indices(y)
      BY <1>2, IndicesFacts DEF None
    <2>4. Good(x, z) /\ Stems(z) /\ z.mode = y.mode /\ z.search = y.search /\ z.hist = y.hist
      BY <2>1, <2>3, CurKeeps
    <2>5. PICK r : r = UpdateHistSearch(y)
      OBVIOUS
    <2>6. r.e = z /\ r.ok = FALSE
      BY <2>2, <2>5, ResultFacts
    <2> HIDE DEF hits
    <2> QED  BY <2>1, <2>4, <2>5, <2>6
  <1>8. CASE y.search # <<>> /\ hits # {}
    <2>1. hits \subseteq range
      OBVIOUS
    <2> HIDE DEF hits
    <2>2. i \in hits
      <3>1. CASE y.mode = "fwd"
        BY <1>5, <1>8, <2>1, <3>1, MaxFacts
      <3>2. CASE y.mode # "fwd"
        <4>1. hits \in SUBSET Nat
          BY <1>3, <1>5, <2>1, <3>2
        <4> QED  BY <1>8, <3>2, <4>1, MinFacts
      <3> QED  BY <3>1, <3>2
    <2>3. i \in range
      BY <2>1, <2>2
    <2> HIDE DEF i
    <2>4. i \in Int /\ i >= None /\ (i <= 0 \/ i <= Len(y.hist) - 1)
      BY <1>3, <1>5, <2>3 DEF None
    <2>5. i \in Indices(y)
      BY <1>2, <2>4, IndicesFacts
    <2>6. PICK l \in Seq(Character) : l = HistLine(y, i) /\ l \in Line
      BY <1>2, <2>5, HistLineFacts
    <2>7. PICK s \in Int : s = PosOf(y, i)
      BY <1>2, <2>5, HistLineFacts
    <2>8. PICK c \in Nat : c = Len(l)
      BY LenProperties
    <2>9. Shown(f, AllText) = Put(y, l, c, i, s, y.undo, AllText)
      <3>1. f = [y EXCEPT !.line = l, !.cursor = c, !.cur = i, !.stem = s, !.undo = y.undo]
        BY <1>2, <2>6, <2>7, <2>8 DEF EditorSet
      <3> QED  BY <3>1 DEF Put
    <2>10. UpdateHistSearch(y) = Done(Put(y, l, c, i, s, y.undo, AllText))
      BY <1>1, <1>8, <2>9
    <2>11. /\ y.undo \in Seq(UndoSet) /\ Len(y.undo) <= MaxUndoBufSize + 1 /\ c <= Len(l)
           /\ y.line \in Seq(Character) /\ AllText.start <= Len(l)
      BY <1>2, <2>8, AllTextFacts DEF Good, EditorOK, EditorSet
    <2>12. Changes(y.line, l, AllText)
      BY <2>11, AllTextFacts, ChangesAll
    <2>13. PICK z : z = Put(y, l, c, i, s, y.undo, AllText)
      OBVIOUS
    <2>14. Good(x, z) /\ (Stems(z) <=> (i # None => s = PosOf(y, i))) /\ z.mode = y.mode
           /\ z.search = y.search /\ z.hist = y.hist
      BY <1>2, <2>5, <2>11, <2>12, <2>13, AllTextFacts, PutKeeps
    <2> QED  BY <2>7, <2>10, <2>13, <2>14, ResultFacts
  <1> QED  BY <1>6, <1>7, <1>8

(* The prompt of a search follows its text.                                  *)
Turned(y, s, m) == [y EXCEPT !.search = s, !.mode = m]

LEMMA SearchPromptKeeps ==
  ASSUME NEW x, NEW y, Good(x, y), NEW m \in {"bkw", "fwd"}, NEW s \in Seq(Character),
         Len(s) <= Len(x.search) + 1, y.base = {}
  PROVE  LET z == SetHistSearchModePrompt(Turned(y, s, m))
         IN /\ Good(x, z) /\ (Stems(y) => Stems(z))
            /\ z.search = s /\ z.mode = m /\ z.line = y.line /\ z.cursor = y.cursor
            /\ z.cur = y.cur /\ z.hist = y.hist /\ z.base = y.base /\ z.cutDir = y.cutDir
            /\ z.replay = y.replay
  <1>1. y \in EditorSet
    BY DEF Good, EditorOK
  <1>2. PICK p : p = SearchPrompt(s, m)
    OBVIOUS
  <1>3. SetHistSearchModePrompt(Turned(y, s, m)) = Prompted(y, s, m)
    <2>1. PICK z : z = [y EXCEPT !.search = s, !.mode = m] /\ z = Turned(y, s, m)
      BY DEF Turned
    <2>2. z.mode = m /\ z.search = s /\ p = <<m>> \o s
      BY <1>1, <1>2, <2>1 DEF EditorSet, SearchPrompt
    <2>3. SetHistSearchModePrompt(z) = Shown([z EXCEPT !.prompt = p], PromptRange)
      BY <1>2, <2>2 DEF SetHistSearchModePrompt, PromptRange
    <2>4. [z EXCEPT !.prompt = p] = [y EXCEPT !.search = s, !.mode = m, !.prompt = p]
      BY <1>1, <2>1 DEF EditorSet
    <2> QED  BY <1>2, <2>1, <2>3, <2>4 DEF Prompted
  <1>4. m \in {"input", "bkw", "fwd"}
    OBVIOUS
  <1> QED  BY <1>3, <1>4, PromptKeeps

(* Undo takes the line, the cursor and the entry from the buffer.            *)
LEMMA UndoKeeps ==
  ASSUME NEW x, NEW y, Good(x, y), y.cutDir = 0 \/ y.base = {}
  PROVE  LET r == Undo(y)
         IN /\ Good(x, r.e) /\ r.e.mode = y.mode /\ r.e.cur = y.cur /\ r.e.hist = y.hist
            /\ r.e.search = y.search
  <1>1. y \in EditorSet /\ y.cur \in Indices(y)
    BY DEF Good, EditorOK
  <1>2. CASE y.undo = <<>>
    <2>1. Undo(y) = Done(y)
      BY <1>2 DEF Undo
    <2> QED  BY <2>1, ResultFacts
  <1>3. CASE y.undo # <<>>
    <2>1. y.undo \in Seq(UndoSet) /\ Len(y.undo) <= MaxUndoBufSize + 1 /\ MaxUndoBufSize \in Nat
      BY <1>1, EditorAssumption DEF Good, EditorOK, EditorSet
    <2>2. /\ Last(y.undo) \in UndoSet /\ Front(y.undo) \in Seq(UndoSet)
          /\ Len(Front(y.undo)) = Len(y.undo) - 1
      BY <1>3, <2>1, FrontFacts
    <2>3. PICK last \in UndoSet : last = Last(y.undo)
      BY <2>2
    <2>4. PICK u \in Seq(UndoSet) : u = Front(y.undo) /\ Len(u) <= MaxUndoBufSize + 1
      <3>1. Len(y.undo) \in Nat
        BY <2>1, LenProperties
      <3> QED  BY <2>1, <2>2, <3>1
    <2>5. PICK l \in Seq(Character), c \in Nat, s \in Int :
             l = last.line /\ c = last.cursor /\ s = last.stem /\ c <= Len(l)
      BY DEF UndoSet
    <2>6. Undo(y) = Done(Put(y, l, c, y.cur, s, u, AllText))
      <3>1. Undo(y) = Done(Shown([y EXCEPT !.line = l, !.cursor = c, !.stem = s,
                                           !.undo = u], AllText))
        BY <1>3, <2>3, <2>4, <2>5 DEF Undo
      <3>2. [y EXCEPT !.line = l, !.cursor = c, !.stem = s, !.undo = u]
              = [y EXCEPT !.line = l, !.cursor = c, !.cur = y.cur, !.stem = s, !.undo = u]
        BY <1>1 DEF EditorSet
      <3> QED  BY <3>1, <3>2 DEF Put
    <2>7. y.line \in Seq(Character) /\ AllText.start <= Len(l) /\ Changes(y.line, l, AllText)
      <3>1. Len(l) \in Nat /\ y.line \in Seq(Character)
        BY <1>1, LenProperties DEF EditorSet
      <3> QED  BY <3>1, AllTextFacts, ChangesAll
    <2>8. PICK z : z = Put(y, l, c, y.cur, s, u, AllText)
      OBVIOUS
    <2>9. Good(x, z) /\ z.mode = y.mode /\ z.cur = y.cur /\ z.hist = y.hist /\ z.search = y.search
      BY <1>1, <2>4, <2>5, <2>7, <2>8, AllTextFacts, PutKeeps
    <2>10. PICK r : r = Undo(y) /\ r = Done(z)
      BY <2>6, <2>8
    <2>11. r.e = z
      BY <2>10, ResultFacts
    <2> QED  BY ONLY <2>9, <2>10, <2>11
  <1> QED  BY <1>2, <1>3

(* ^G and the right arrow end a search, and undo it.                         *)
LEMMA RevertKeeps ==
  ASSUME NEW x, NEW y, Good(x, y), y.mode # "input"
  PROVE  LET z == CancelAndRevert(y).e
         IN Good(x, z) /\ z.mode = "input" /\ z.cur = y.cur /\ z.hist = y.hist
  <1>1. PICK f : f = CancelSpecialInputMode(y)
    OBVIOUS
  <1>2. Good(x, f) /\ f.mode = "input" /\ f.cur = y.cur /\ f.hist = y.hist /\ f.base = y.base
    BY <1>1, CancelKeeps
  <1>3. y.base = {}
    BY DEF Good, PasteOK
  <1> QED  BY <1>1, <1>2, <1>3, UndoKeeps DEF CancelAndRevert

(* The places that the moves by words go to.                                 *)
LEMMA FindNextFacts ==
  ASSUME NEW y, y \in EditorSet, y.cursor <= Len(y.line)
  PROVE  FindNextWord(y) \in y.cursor..Len(y.line)
  <1>1. PICK n \in Nat, c \in Nat : n = Len(y.line) /\ c = y.cursor
    BY LenProperties DEF EditorSet
  <1> DEFINE S == {n} \cup {i \in (c + 1)..(n - 1) :
                     ~IsAlnum(y, i) /\ \E j \in (c + 1)..(i - 1) : IsAlnum(y, j)}
  <1>2. FindNextWord(y) = Min(S)
    BY <1>1 DEF FindNextWord
  <1>3. c <= n /\ S \in SUBSET (c..n) /\ S # {}
    BY <1>1
  <1> HIDE DEF S
  <1>4. S \in SUBSET Nat
    BY <1>3
  <1> QED  BY <1>1, <1>2, <1>3, <1>4, MinFacts

LEMMA FindPrevFacts ==
  ASSUME NEW y, y \in EditorSet
  PROVE  FindPrevWord(y) \in 0..y.cursor
  <1>1. PICK c \in Nat : c = y.cursor
    BY DEF EditorSet
  <1> DEFINE T == {i \in 0..(c - 2) : ~IsAlnum(y, i) /\ \E j \in (i + 1)..(c - 2) : IsAlnum(y, j)}
             S == {0} \cup {i + 1 : i \in T}
  <1>2. FindPrevWord(y) = Max(S)
    BY <1>1 DEF FindPrevWord
  <1>3. T \subseteq 0..(c - 2)
    OBVIOUS
  <1> HIDE DEF T
  <1>4. S \in SUBSET (0..c) /\ S # {}
    <2>1. \A i \in T : i + 1 \in 0..c
      BY <1>3
    <2> QED  BY <2>1
  <1> HIDE DEF S
  <1> QED  BY <1>1, <1>2, <1>4, MaxFacts

(* Only the cursor moves. *)
WithCursor(y, c) == [y EXCEPT !.cursor = c]

LEMMA CursorKeeps ==
  ASSUME NEW x, NEW y, Good(x, y), NEW c \in 0..Len(y.line), y.cutDir = 0 \/ y.base = {}
  PROVE  LET z == WithCursor(y, c)
         IN /\ Good(x, z) /\ (Stems(y) => Stems(z))
            /\ z.line = y.line /\ z.cursor = c /\ z.cur = y.cur /\ z.hist = y.hist
            /\ z.mode = y.mode /\ z.search = y.search /\ z.cutDir = y.cutDir /\ z.base = y.base
            /\ z.replay = y.replay /\ z.stem = y.stem
  <1>1. y \in EditorSet
    BY DEF Good, EditorOK
  <1>2. PICK z : z = [y EXCEPT !.cursor = c]
    OBVIOUS
  <1>3. c \in Nat /\ c <= Len(y.line)
    <2>1. Len(y.line) \in Nat
      BY <1>1, LenProperties DEF EditorSet
    <2> QED  BY <2>1
  <1>4. z \in EditorSet
    BY <1>1, <1>2, <1>3 DEF EditorSet
  <1>5. /\ z.undo = y.undo /\ z.line = y.line /\ z.cursor = c /\ z.hist = y.hist
        /\ z.cur = y.cur /\ z.replay = y.replay /\ z.mode = y.mode /\ z.cutDir = y.cutDir
        /\ z.prompt = y.prompt /\ z.search = y.search /\ z.R = y.R /\ z.stem = y.stem
        /\ z.base = y.base /\ z.paste = y.paste
    BY <1>1, <1>2 DEF EditorSet
  <1>6. Good(x, z)
    BY <1>3, <1>4, <1>5 DEF Good, EditorOK, PasteOK, Covered, Indices
  <1>7. Stems(y) => Stems(z)
    BY <1>5 DEF Stems, PosOf
  <1>8. WithCursor(y, c) = z
    BY <1>2 DEF WithCursor
  <1> QED  BY <1>5, <1>6, <1>7, <1>8

Moves == {"Right", "End", "Front", "Left", "NextWord", "PrevWord"}

(* Only the cursor has moved, and no line is searched or cut any more.       *)
Moved(x, y, z) ==
  /\ Good(x, z) /\ z.mode = "input" /\ z.cur = y.cur /\ z.hist = y.hist
  /\ Stems(y) => Stems(z)
  /\ z.cutDir = 0 /\ z.line = y.line /\ z.replay = y.replay /\ z.search = y.search

(* A move ends a search and a series of cuts; the right arrow undoes the     *)
(* search.                                                                   *)
LEMMA MoveKeeps ==
  ASSUME NEW x, NEW y, Good(x, y), NEW m \in Moves
  PROVE  LET z == ProcessMove(y, m).e
         IN /\ Good(x, z) /\ z.mode = "input" /\ z.cur = y.cur /\ z.hist = y.hist
            /\ ~(m = "Right" /\ Searching(y)) =>
                 /\ Stems(y) => Stems(z)
                 /\ z.cutDir = 0 /\ z.line = y.line /\ z.replay = y.replay /\ z.search = y.search
  <1>1. y \in EditorSet
    BY DEF Good, EditorOK
  <1>2. CASE m = "Right" /\ Searching(y)
    <2>1. ProcessMove(y, m) = Done(CancelAndRevert(y).e)
      BY <1>2 DEF ProcessMove
    <2>2. y.mode # "input"
      BY <1>2 DEF Searching
    <2>3. PICK z : z = CancelAndRevert(y).e
      OBVIOUS
    <2>4. Good(x, z) /\ z.mode = "input" /\ z.cur = y.cur /\ z.hist = y.hist
      BY <2>2, <2>3, RevertKeeps
    <2>5. ProcessMove(y, m).e = z
      BY <2>1, <2>3, ResultFacts
    <2> QED  BY <1>2, <2>4, <2>5
  <1>3. CASE ~(m = "Right" /\ Searching(y))
    <2>1. PICK g : g = ClearPasteBuf(y)
      OBVIOUS
    <2>2. /\ Good(x, g) /\ (Stems(y) => Stems(g)) /\ g.cutDir = 0 /\ g.line = y.line
          /\ g.cur = y.cur /\ g.hist = y.hist /\ g.search = y.search /\ g.replay = y.replay
      BY <2>1, ClearKeeps
    <2>3. PICK f : f = CancelSpecialInputMode(g)
      OBVIOUS
    <2>4. /\ Good(x, f) /\ (Stems(g) => Stems(f)) /\ f.mode = "input" /\ f.cutDir = g.cutDir
          /\ f.line = g.line /\ f.cur = g.cur /\ f.hist = g.hist /\ f.search = g.search
          /\ f.replay = g.replay
      BY <2>2, <2>3, CancelKeeps
    <2>5. PICK n \in Nat : n = Len(f.line)
      BY <2>4, LenProperties DEF Good, EditorOK, EditorSet
    <2>6. f \in EditorSet /\ f.cursor \in Nat /\ f.cursor <= n
      BY <2>4, <2>5 DEF Good, EditorOK, EditorSet
    <2> SUFFICES Moved(x, y, ProcessMove(y, m).e)
      BY <1>3 DEF Moved
    <2>7. ASSUME NEW c \in 0..n, ProcessMove(y, m).e = WithCursor(f, c)
          PROVE  Moved(x, y, ProcessMove(y, m).e)
      <3>1. c \in 0..Len(f.line) /\ (f.cutDir = 0 \/ f.base = {}) /\ Good(x, f)
        BY <2>2, <2>4, <2>5
      <3>2. PICK z : z = WithCursor(f, c)
        OBVIOUS
      <3>3. /\ Good(x, z) /\ (Stems(f) => Stems(z)) /\ z.line = f.line /\ z.cur = f.cur
            /\ z.hist = f.hist /\ z.mode = f.mode /\ z.cutDir = f.cutDir /\ z.replay = f.replay
            /\ z.search = f.search
        BY <3>1, <3>2, CursorKeeps
      <3> QED  BY <2>2, <2>4, <2>7, <3>2, <3>3 DEF Moved
    <2>8. \A c : MoveTo(f, c).e = WithCursor(f, c)
      BY ResultFacts DEF MoveTo, WithCursor
    <2>9. f = WithCursor(f, f.cursor)
      BY <2>6 DEF WithCursor, EditorSet
    <2>10. CASE m = "End"
      <3>1. ProcessMove(y, m) = MoveTo(f, n)
        BY <1>3, <2>1, <2>3, <2>5, <2>10 DEF ProcessMove
      <3>2. n \in 0..n /\ ProcessMove(y, m).e = WithCursor(f, n)
        BY <2>8, <3>1
      <3> QED  BY <2>7, <3>2
    <2>11. CASE m = "Front"
      <3>1. ProcessMove(y, m) = MoveTo(f, 0)
        BY <1>3, <2>1, <2>3, <2>5, <2>11 DEF ProcessMove
      <3>2. 0 \in 0..n /\ ProcessMove(y, m).e = WithCursor(f, 0)
        BY <2>8, <3>1
      <3> QED  BY <2>7, <3>2
    <2>12. CASE m = "Right"
      <3>1. ProcessMove(y, m) = IF f.cursor < n THEN MoveTo(f, f.cursor + 1) ELSE Error(f)
        BY <1>3, <2>1, <2>3, <2>5, <2>12 DEF ProcessMove
      <3>2. ProcessMove(y, m).e = WithCursor(f, IF f.cursor < n THEN f.cursor + 1 ELSE f.cursor)
        BY <2>8, <2>9, <3>1, ResultFacts
      <3>3. (IF f.cursor < n THEN f.cursor + 1 ELSE f.cursor) \in 0..n
        BY <2>6
      <3> QED  BY <2>7, <3>2, <3>3
    <2>13. CASE m = "Left"
      <3>1. ProcessMove(y, m) = IF f.cursor > 0 THEN MoveTo(f, f.cursor - 1) ELSE Error(f)
        BY <1>3, <2>1, <2>3, <2>5, <2>13 DEF ProcessMove
      <3>2. ProcessMove(y, m).e = WithCursor(f, IF f.cursor > 0 THEN f.cursor - 1 ELSE f.cursor)
        BY <2>8, <2>9, <3>1, ResultFacts
      <3>3. (IF f.cursor > 0 THEN f.cursor - 1 ELSE f.cursor) \in 0..n
        BY <2>6
      <3> QED  BY <2>7, <3>2, <3>3
    <2>14. CASE m = "NextWord"
      <3>1. ProcessMove(y, m) = MoveTo(f, FindNextWord(f))
        BY <1>3, <2>1, <2>3, <2>5, <2>14 DEF ProcessMove
      <3>2. PICK c : c = FindNextWord(f)
        OBVIOUS
      <3>3. c \in 0..n
        BY <2>5, <2>6, <3>2, FindNextFacts
      <3> QED  BY <2>7, <2>8, <3>1, <3>2, <3>3
    <2>15. CASE m = "PrevWord"
      <3>1. ProcessMove(y, m) = MoveTo(f, FindPrevWord(f))
        BY <1>3, <2>1, <2>3, <2>5, <2>15 DEF ProcessMove
      <3>2. PICK c : c = FindPrevWord(f)
        OBVIOUS
      <3>3. c \in 0..n
        BY <2>5, <2>6, <3>2, FindPrevFacts
      <3> QED  BY <2>7, <2>8, <3>1, <3>2, <3>3
    <2> QED  BY <2>10, <2>11, <2>12, <2>13, <2>14, <2>15 DEF Moves
  <1> QED  BY <1>2, <1>3

(* LeavesEntry, for the editor x before a key.                               *)
Leaves(x, cmd, y) ==
  /\ y.cur # None
  /\ \/ cmd = Cmd("Undo") /\ ~Searching(x)
     \/ cmd = MoveCmd("Right") /\ Searching(x)
     \/ Searching(y) /\ y.search = <<>> /\ y.cur # x.cur

(* A search that is repeated takes another entry, or leaves everything as it *)
(* is; a search for nothing takes the entry only.                            *)
LEMMA SearchAgainKeeps ==
  ASSUME NEW x, NEW y, Good(x, y), y.mode # "input", NEW to, to \in Indices(y),
         to # y.cur, to # None
  PROVE  LET r == SearchAgain(y, to)
         IN /\ Good(x, r.e)
            /\ Stems(y) => \/ Stems(r.e)
                           \/ Searching(r.e) /\ r.e.search = <<>> /\ r.e.cur # None /\ r.e.cur # y.cur
  <1>1. y \in EditorSet
    BY DEF Good, EditorOK
  <1>2. PICK f : f = WithCur(y, to)
    OBVIOUS
  <1>3. Good(x, f) /\ f.mode = y.mode /\ f.search = y.search /\ f.cur = to
    BY <1>2, CurKeeps
  <1>4. PICK r : r = UpdateHistSearch(f)
    OBVIOUS
  <1>5. /\ Good(x, r.e) /\ r.ok \in BOOLEAN /\ r.e.mode = f.mode
        /\ Stems(r.e) \/ (f.search = <<>> /\ r.e = f)
        /\ ~r.ok => r.e = WithCur(f, None)
        /\ r.e.search = f.search
    BY <1>3, <1>4, UpdateKeeps
  <1>6. SearchAgain(y, to) = IF r.ok THEN r ELSE Error(WithCur(r.e, y.cur))
    BY <1>2, <1>4 DEF SearchAgain, WithCur
  <1>7. CASE r.ok
    <2>1. Searching(f)
      BY <1>1, <1>3 DEF Searching, EditorSet
    <2>2. Searching(r.e)
      BY <1>5, <2>1 DEF Searching
    <2> QED  BY <1>3, <1>5, <1>6, <1>7, <2>2
  <1>8. CASE ~r.ok
    <2>1. WithCur(WithCur(f, None), y.cur) = y
      BY <1>1, <1>2 DEF WithCur, EditorSet
    <2>2. SearchAgain(y, to) = Error(y)
      BY <1>5, <1>6, <1>8, <2>1
    <2> QED  BY <2>2, ResultFacts
  <1> QED  BY <1>5, <1>7, <1>8

(* A command while searching.                                                *)
LEMMA SearchKeeps ==
  ASSUME NEW x, NEW y, Good(x, y), y.mode # "input", y.search = x.search, y.cur = x.cur, NEW cmd
  PROVE  LET r == ProcessSearch(y, cmd)
         IN /\ Good(x, r.e)
            /\ Stems(y) => Stems(r.e) \/ Leaves(x, Cmd(cmd), r.e)
            /\ cmd \in {"Enter", "HistReplay"} => r.ok = FALSE
  <1> DEFINE mode == IF cmd = "ReverseSearch" THEN "bkw" ELSE "fwd"
  <1>1. y \in EditorSet /\ y.base = {} /\ y.mode \in {"bkw", "fwd"} /\ y.cur \in Indices(y)
    BY DEF Good, EditorOK, PasteOK, EditorSet
  <1>2. y.search \in Seq(Character) /\ Len(y.search) \in Nat /\ Len(y.search) <= Len(x.search) + 1
    BY <1>1, LenProperties DEF Good, EditorSet
  <1>3. PICK n \in Nat : n = Len(y.hist)
    BY <1>1, IndicesFacts
  <1>4. y.cur \in Int /\ y.cur >= -1 /\ (y.cur <= 0 \/ y.cur <= n - 1)
    BY <1>1, <1>3, IndicesFacts DEF None
  <1>5. ASSUME cmd \in {"ReverseSearch", "ForwardSearch"}, mode # y.mode
        PROVE  /\ Good(x, ProcessSearch(y, cmd).e)
               /\ Stems(y) => Stems(ProcessSearch(y, cmd).e)
    <2>1. PICK z : z = SetHistSearchModePrompt([y EXCEPT !.mode = mode])
      OBVIOUS
    <2>2. ProcessSearch(y, cmd) = Done(z)
      BY <1>5, <2>1 DEF ProcessSearch
    <2>3. [y EXCEPT !.mode = mode] = Turned(y, y.search, mode)
      BY <1>1 DEF EditorSet, Turned
    <2>4. mode \in {"bkw", "fwd"}
      OBVIOUS
    <2> HIDE DEF mode
    <2>5. Good(x, z) /\ (Stems(y) => Stems(z))
      BY <1>1, <1>2, <2>1, <2>3, <2>4, SearchPromptKeeps
    <2> QED  BY <2>2, <2>5, ResultFacts
  <1>6. ASSUME cmd = "DelLeft"
        PROVE  /\ Good(x, ProcessSearch(y, cmd).e)
               /\ Stems(y) => Stems(ProcessSearch(y, cmd).e)
    <2>1. ProcessSearch(y, cmd) =
            IF y.search = <<>> THEN Error(y)
            ELSE UpdateHistSearch(SetHistSearchModePrompt([y EXCEPT !.search = Front(@)]))
      BY <1>6 DEF ProcessSearch
    <2>2. CASE y.search = <<>>
      BY <2>1, <2>2, ResultFacts
    <2>3. CASE y.search # <<>>
      <3>1. PICK s \in Seq(Character) : s = Front(y.search) /\ Len(s) <= Len(x.search) + 1
        BY <1>2, <2>3, FrontFacts
      <3>2. [y EXCEPT !.search = Front(@)] = Turned(y, s, y.mode)
        BY <1>1, <3>1 DEF EditorSet, Turned
      <3>3. PICK z : z = SetHistSearchModePrompt(Turned(y, s, y.mode))
        OBVIOUS
      <3>4. Good(x, z) /\ (Stems(y) => Stems(z)) /\ z.mode = y.mode
        BY <1>1, <3>1, <3>3, SearchPromptKeeps
      <3>5. ProcessSearch(y, cmd) = UpdateHistSearch(z)
        BY <2>1, <2>3, <3>2, <3>3
      <3>6. /\ Good(x, UpdateHistSearch(z).e)
            /\ Stems(UpdateHistSearch(z).e) \/ UpdateHistSearch(z).e = z
        BY <3>4, UpdateKeeps
      <3> QED  BY <3>4, <3>5, <3>6
    <2> QED  BY <2>2, <2>3
  <1>7. ASSUME NEW to, to \in Indices(y), to # y.cur, to # None,
               ProcessSearch(y, cmd) = SearchAgain(y, to)
        PROVE  /\ Good(x, ProcessSearch(y, cmd).e)
               /\ Stems(y) => Stems(ProcessSearch(y, cmd).e) \/ Leaves(x, Cmd(cmd), ProcessSearch(y, cmd).e)
    <2>1. PICK z : z = SearchAgain(y, to).e
      OBVIOUS
    <2>2. /\ Good(x, z)
          /\ Stems(y) => \/ Stems(z)
                         \/ Searching(z) /\ z.search = <<>> /\ z.cur # None /\ z.cur # y.cur
      BY <1>7, <2>1, SearchAgainKeeps
    <2> QED  BY <1>7, <2>1, <2>2 DEF Leaves
  <1>8. ASSUME cmd = "ReverseSearch", mode = y.mode
        PROVE  /\ Good(x, ProcessSearch(y, cmd).e)
               /\ Stems(y) => Stems(ProcessSearch(y, cmd).e) \/ Leaves(x, Cmd(cmd), ProcessSearch(y, cmd).e)
    <2>1. ProcessSearch(y, cmd) = IF y.cur + 1 >= n THEN Error(y) ELSE SearchAgain(y, y.cur + 1)
      BY <1>3, <1>8 DEF ProcessSearch
    <2>2. CASE y.cur + 1 >= n
      BY <2>1, <2>2, ResultFacts
    <2>3. CASE ~(y.cur + 1 >= n)
      <3>1. PICK to \in Nat : to = y.cur + 1 /\ to # y.cur /\ to # None /\ to <= n - 1
        BY <1>4, <2>3 DEF None
      <3>2. to \in Indices(y)
        BY <1>1, <1>3, <3>1, IndicesFacts DEF None
      <3> QED  BY <1>7, <2>1, <2>3, <3>1, <3>2
    <2> QED  BY <2>2, <2>3
  <1>9. ASSUME cmd = "ForwardSearch", mode = y.mode
        PROVE  /\ Good(x, ProcessSearch(y, cmd).e)
               /\ Stems(y) => Stems(ProcessSearch(y, cmd).e) \/ Leaves(x, Cmd(cmd), ProcessSearch(y, cmd).e)
    <2>1. ProcessSearch(y, cmd) = IF y.cur = 0 THEN Error(y) ELSE SearchAgain(y, Max({y.cur - 1, 0}))
      BY <1>9 DEF ProcessSearch
    <2>2. CASE y.cur = 0
      BY <2>1, <2>2, ResultFacts
    <2>3. CASE y.cur # 0
      <3>1. PICK to \in Nat : to = Max({y.cur - 1, 0}) /\ to # y.cur /\ to # None /\ (to = 0 \/ to <= n - 1)
        BY <1>4, <2>3, MaxOfTwo DEF None
      <3>2. to \in Indices(y)
        BY <1>1, <1>3, <3>1, IndicesFacts DEF None
      <3> QED  BY <1>7, <2>1, <2>3, <3>1, <3>2
    <2> QED  BY <2>2, <2>3
  <1>10. ASSUME cmd \notin {"ReverseSearch", "ForwardSearch", "DelLeft"}
         PROVE  /\ Good(x, ProcessSearch(y, cmd).e)
                /\ Stems(y) => Stems(ProcessSearch(y, cmd).e)
                /\ ProcessSearch(y, cmd).ok = FALSE
    <2>1. PICK z : z = CancelSpecialInputMode(y)
      OBVIOUS
    <2>2. ProcessSearch(y, cmd) = Error(z)
      BY <1>10, <2>1 DEF ProcessSearch
    <2>3. Good(x, z) /\ (Stems(y) => Stems(z))
      BY <2>1, CancelKeeps
    <2> QED  BY <2>2, <2>3, ResultFacts
  <1> HIDE DEF mode
  <1> QED  BY <1>5, <1>6, <1>8, <1>9, <1>10

-----------------------------------------------------------------------------
(***************************************************************************)
(* Editing.                                                                *)
(***************************************************************************)

(* The ranges that commands pass to the display. *)
LEMMA SpanFacts ==
  ASSUME NEW a \in Nat, NEW b \in Nat, a < End, a <= b, b <= End
  PROVE  ProperRange(Span(a, b)) /\ Span(a, b).start = a /\ Span(a, b).end = b
  BY DEF Span, ProperRange, RangeSet

(* Members that the other ones do not depend on. *)
LEMMA FieldsKeep ==
  ASSUME NEW x, NEW y, Good(x, y), NEW z, z \in EditorSet,
         z.line = y.line, z.cursor = y.cursor, z.hist = y.hist, z.paste = y.paste,
         z.search = y.search, z.mode = y.mode, z.cutDir = y.cutDir, z.undo = y.undo,
         z.prompt = y.prompt, z.R = y.R, z.base = y.base,
         z.cur \in Indices(y), z.replay \in Indices(y)
  PROVE  Good(x, z)
  BY DEF Good, EditorOK, PasteOK, Covered, Indices

(* The line and the cursor only: the entry stays.                            *)
Rewritten(y, l, c, w) == Shown([y EXCEPT !.line = l, !.cursor = c], w)

LEMMA RewriteKeeps ==
  ASSUME NEW x, NEW y, Good(x, y), y.cutDir = 0 \/ y.base = {},
         NEW l \in Seq(Character), NEW c \in Nat, c <= Len(l),
         NEW w, ProperRange(w), w.start <= Len(l), Changes(y.line, l, w)
  PROVE  LET z == Rewritten(y, l, c, w)
         IN /\ Good(x, z) /\ (Stems(y) => Stems(z))
            /\ z.line = l /\ z.cursor = c /\ z.cur = y.cur /\ z.hist = y.hist /\ z.mode = y.mode
            /\ z.search = y.search /\ z.cutDir = y.cutDir /\ z.base = y.base /\ z.replay = y.replay
  <1>1. y \in EditorSet /\ y.cur \in Indices(y) /\ Len(y.undo) <= MaxUndoBufSize + 1
    BY DEF Good, EditorOK
  <1>2. PICK z : z = Put(y, l, c, y.cur, y.stem, y.undo, w)
    OBVIOUS
  <1>3. y.stem \in Int /\ y.undo \in Seq(UndoSet)
    BY <1>1 DEF EditorSet
  <1>4. /\ Good(x, z) /\ (Stems(z) <=> (y.cur # None => y.stem = PosOf(y, y.cur)))
        /\ z.line = l /\ z.cursor = c /\ z.cur = y.cur /\ z.hist = y.hist /\ z.mode = y.mode
        /\ z.search = y.search /\ z.cutDir = y.cutDir /\ z.base = y.base /\ z.replay = y.replay
    BY <1>1, <1>2, <1>3, PutKeeps
  <1>5. Rewritten(y, l, c, w) = z
    BY <1>1, <1>2 DEF Rewritten, Put, Shown, EditorSet
  <1> QED  BY <1>4, <1>5 DEF Stems

(* ClearPasteBuf can come first. *)
LEMMA ClearFirst ==
  ASSUME NEW y, y \in EditorSet, NEW l \in Seq(Character), NEW c \in Nat, NEW w
  PROVE  ClearPasteBuf(Rewritten(y, l, c, w)) = Rewritten(ClearPasteBuf(y), l, c, w)
  BY DEF ClearPasteBuf, Rewritten, Shown, EditorSet

(* A character that is inserted. *)
LEMMA InsertOne ==
  ASSUME NEW S, NEW line \in Seq(S), NEW at \in 0..Len(line), NEW c \in S
  PROVE  /\ InsertText(line, at, <<c>>) \in Seq(S)
         /\ Len(InsertText(line, at, <<c>>)) = Len(line) + 1
         /\ \A i \in 1..at : InsertText(line, at, <<c>>)[i] = line[i]
  <1>1. <<c>> \in Seq(S) /\ Len(<<c>>) = 1
    OBVIOUS
  <1>2. PICK text : text = <<c>>
    OBVIOUS
  <1> QED  BY <1>1, <1>2, InsertFacts

(* A character goes into the line, or to what is searched for.               *)
LEMMA CharKeeps ==
  ASSUME NEW x, Good(x, x), Len(x.line) <= MaxLine, NEW c \in Character
  PROVE  LET r == ProcessChar(x, c)
         IN Good(x, r.e) /\ (Stems(x) => Stems(r.e))
  <1>1. x \in EditorSet /\ x.cursor <= Len(x.line)
    BY DEF Good, EditorOK
  <1>2. PICK n \in Nat : n = Len(x.line) /\ n < End
    <2>1. Len(x.line) \in Nat
      BY <1>1, LenProperties DEF EditorSet
    <2> QED  BY <2>1, TextInputAssumption DEF End
  <1>3. PICK g : g = PushUndo(x)
    OBVIOUS
  <1>4. /\ Good(x, g) /\ (Stems(x) => Stems(g)) /\ g.line = x.line /\ g.cursor = x.cursor
        /\ g.overwrite = x.overwrite /\ g.mode = x.mode
    BY <1>3, PushUndoKeeps
  <1>5. PICK f : f = ClearPasteBuf(g)
    OBVIOUS
  <1>6. /\ Good(x, f) /\ (Stems(g) => Stems(f)) /\ f.cutDir = 0 /\ f.line = g.line
        /\ f.cursor = g.cursor /\ f.overwrite = g.overwrite
    BY <1>4, <1>5, ClearKeeps
  <1>7. PICK at \in 0..n : at = f.cursor
    BY <1>1, <1>2, <1>4, <1>6 DEF EditorSet
  <1>8. f \in EditorSet /\ f.line \in Seq(Character) /\ Len(f.line) = n
    BY <1>2, <1>4, <1>6 DEF Good, EditorOK, EditorSet
  <1>9. ASSUME Searching(x)
        PROVE  Good(x, ProcessChar(x, c).e) /\ Stems(ProcessChar(x, c).e)
    <2>1. PICK s \in Seq(Character) : s = Append(x.search, c) /\ s # <<>> /\ Len(s) <= Len(x.search) + 1
      <3>1. x.search \in Seq(Character)
        BY <1>1 DEF EditorSet
      <3>2. Append(x.search, c) \in Seq(Character) /\ Append(x.search, c) # <<>>
            /\ Len(Append(x.search, c)) = Len(x.search) + 1
        BY <3>1, AppendProperties
      <3>3. Len(x.search) \in Nat
        BY <3>1, LenProperties
      <3>4. PICK t : t = Append(x.search, c)
        OBVIOUS
      <3>5. t \in Seq(Character) /\ t # <<>> /\ Len(t) <= Len(x.search) + 1
        BY <3>2, <3>3, <3>4
      <3> QED  BY <3>4, <3>5
    <2>2. x.mode \in {"bkw", "fwd"} /\ x.base = {}
      BY <1>9 DEF Searching, Good, PasteOK
    <2>3. PICK z : z = SetHistSearchModePrompt(Turned(x, s, x.mode))
      OBVIOUS
    <2>4. [x EXCEPT !.search = Append(@, c)] = Turned(x, s, x.mode)
      BY <1>1, <2>1 DEF EditorSet, Turned
    <2>5. ProcessChar(x, c) = UpdateHistSearch(z)
      BY <1>9, <2>3, <2>4 DEF ProcessChar
    <2>6. Good(x, z) /\ z.mode = x.mode /\ z.search = s
      <3>1. Good(x, x) /\ Len(s) <= Len(x.search) + 1
        BY <2>1
      <3> QED  BY ONLY <2>2, <2>3, <3>1, s \in Seq(Character), SearchPromptKeeps
    <2>7. Good(x, UpdateHistSearch(z).e) /\ (Stems(UpdateHistSearch(z).e) \/ z.search = <<>>)
      <3>1. z.mode # "input"
        BY <2>2, <2>6
      <3> QED  BY <2>6, <3>1, UpdateKeeps
    <2> QED  BY <2>1, <2>5, <2>6, <2>7
  <1>10. ASSUME ~Searching(x), x.overwrite
         PROVE  Good(x, ProcessChar(x, c).e) /\ (Stems(x) => Stems(ProcessChar(x, c).e))
    <2>1. PICK l : l = IF at < n THEN [f.line EXCEPT ![at + 1] = c] ELSE Append(f.line, c)
      OBVIOUS
    <2>2. PICK w : w = Span(at, at + 1)
      OBVIOUS
    <2>3. /\ l \in Seq(Character) /\ Len(l) \in Nat /\ at <= Len(l) /\ n <= Len(l)
          /\ \A i \in 1..Len(l) : i # at + 1 => i <= n /\ l[i] = f.line[i]
      <3>1. CASE at < n
        <4>1. at + 1 \in 1..Len(f.line)
          BY <1>8, <3>1
        <4>2. /\ l \in Seq(Character) /\ Len(l) = Len(f.line)
              /\ \A j \in 1..Len(f.line) : l[j] = IF j = at + 1 THEN c ELSE f.line[j]
          BY <1>8, <2>1, <3>1, <4>1, ExceptSeq
        <4> QED  BY <1>8, <3>1, <4>2
      <3>2. CASE ~(at < n)
        <4>1. /\ l \in Seq(Character) /\ Len(l) = Len(f.line) + 1
              /\ \A i \in 1..Len(f.line) : l[i] = f.line[i]
          BY <1>8, <2>1, <3>2, AppendProperties
        <4>2. at = n
          BY <3>2
        <4> QED  BY <1>8, <4>1, <4>2
      <3> QED  BY <3>1, <3>2
    <2>4. ProperRange(w) /\ w.start = at /\ w.end = at + 1
      <3>1. at \in Nat /\ at + 1 \in Nat /\ at < End /\ at <= at + 1 /\ at + 1 <= End
        BY <1>2 DEF End
      <3> QED  BY <2>2, <3>1, SpanFacts
    <2>5. Changes(f.line, l, w)
      <3>1. \A i \in 1..Len(l) : ~InRange(w, i - 1) => i <= n /\ l[i] = f.line[i]
        BY <2>3, <2>4 DEF InRange
      <3> QED  BY <1>8, <2>3, <3>1 DEF Changes
    <2>6. ProcessChar(x, c) = Done(Shown([f EXCEPT !.line = l], w))
      BY <1>3, <1>4, <1>5, <1>6, <1>7, <1>8, <1>10, <2>1, <2>2 DEF ProcessChar
    <2>7. Shown([f EXCEPT !.line = l], w) = Rewritten(f, l, at, w)
      <3>1. [f EXCEPT !.line = l] = [f EXCEPT !.line = l, !.cursor = at]
        BY <1>7, <1>8 DEF EditorSet
      <3> QED  BY <3>1 DEF Rewritten
    <2>8. PICK z : z = Rewritten(f, l, at, w)
      OBVIOUS
    <2>9. Good(x, z) /\ (Stems(f) => Stems(z))
      BY <1>6, <2>3, <2>4, <2>5, <2>8, RewriteKeeps
    <2>10. PICK r : r = ProcessChar(x, c) /\ r = Done(z)
      BY <2>6, <2>7, <2>8
    <2>11. r.e = z
      BY <2>10, ResultFacts
    <2>12. Stems(x) => Stems(z)
      BY <1>4, <1>6, <2>9
    <2> QED  BY ONLY <2>9, <2>10, <2>11, <2>12
  <1>11. ASSUME ~Searching(x), ~x.overwrite
         PROVE  Good(x, ProcessChar(x, c).e) /\ (Stems(x) => Stems(ProcessChar(x, c).e))
    <2>1. PICK l : l = InsertText(f.line, at, <<c>>)
      OBVIOUS
    <2>2. PICK w : w = Span(at, End)
      OBVIOUS
    <2>3. l \in Seq(Character) /\ Len(l) = n + 1 /\ \A i \in 1..at : l[i] = f.line[i]
      <3>1. PICK t : t = f.line /\ l = InsertText(t, at, <<c>>)
        BY <2>1
      <3>2. t \in Seq(Character) /\ Len(t) = n
        BY <1>8, <3>1
      <3>3. l \in Seq(Character) /\ Len(l) = n + 1 /\ \A i \in 1..at : l[i] = t[i]
        BY ONLY c \in Character, at \in 0..n, <3>1, <3>2, InsertOne
      <3> QED  BY <3>1, <3>3
    <2>4. at \in Nat /\ at < End /\ at <= End /\ End \in Nat
      BY <1>2 DEF End
    <2>5. ProperRange(w) /\ w.start = at
      BY <2>2, <2>4, SpanFacts
    <2>6. Changes(f.line, l, w)
      BY <1>8, <2>2, <2>3, <2>4, ChangesBehind
    <2>7. ProcessChar(x, c) = Done(Shown([f EXCEPT !.line = l, !.cursor = at + 1], w))
      <3>1. ProcessChar(x, c) =
              Done(Shown([f EXCEPT !.line = InsertText(@, f.cursor, <<c>>), !.cursor = @ + 1], Span(f.cursor, End)))
        BY <1>3, <1>4, <1>5, <1>6, <1>11 DEF ProcessChar
      <3> QED  BY <1>7, <1>8, <2>1, <2>2, <3>1
    <2>8. PICK z : z = Rewritten(f, l, at + 1, w)
      OBVIOUS
    <2>9. Good(x, z) /\ (Stems(f) => Stems(z))
      <3>1. at + 1 \in Nat /\ at + 1 <= Len(l) /\ w.start <= Len(l)
        BY <2>3, <2>4, <2>5
      <3> QED  BY <1>6, <2>3, <2>5, <2>6, <2>8, <3>1, RewriteKeeps
    <2>10. ProcessChar(x, c) = Done(z)
      BY <2>7, <2>8 DEF Rewritten
    <2> QED  BY <1>4, <1>6, <2>9, <2>10, ResultFacts
  <1> QED  BY <1>9, <1>10, <1>11

(* What is cut out of the line can be pasted: at the cursor, in front of it, *)
(* or behind it, as the direction says.                                      *)
LEMMA CutKeeps ==
  ASSUME NEW x, NEW y, Good(x, y), y.mode = "input", Len(y.line) < End,
         NEW a \in 0..Len(y.line), NEW b \in a..Len(y.line), NEW dir \in {-1, 1},
         dir = 1 => y.cursor = a, dir = -1 => y.cursor = b
  PROVE  LET z == Cut(y, dir, a, b, Span(a, End)).e
         IN Good(x, z) /\ (Stems(y) => Stems(z))
  <1>1. y \in EditorSet /\ ProperRange(y.R) /\ y.line \in Seq(Character) /\ y.paste \in Seq(Character)
        /\ y.base \in SUBSET Seq(Character) /\ y.cutDir \in {-1, 0, 1}
    BY DEF Good, EditorOK, Covered, EditorSet
  <1>2. PICK n \in Nat : n = Len(y.line)
    BY <1>1, LenProperties
  <1>3. a \in Nat /\ a <= n /\ n < End /\ a < End /\ End \in Nat /\ a <= End
    BY <1>2 DEF End
  <1>4. PICK text \in Seq(Character) : text = Between(y, a, b)
    <2>1. SubSeq(y.line, a + 1, b) \in Seq(Character)
      BY <1>1, JoinCut
    <2> QED  BY <2>1 DEF Between
  <1>5. PICK w : w = Span(a, End)
    OBVIOUS
  <1>6. ProperRange(w) /\ w.start = a
    BY <1>3, <1>5, SpanFacts
  <1>7. PICK l \in Seq(Character) : l = Without(y.line, a, b) /\ a <= Len(l) /\ Len(l) \in Nat
                                    /\ \A i \in 1..a : l[i] = y.line[i]
    <2>1. PICK t : t = Without(y.line, a, b)
      OBVIOUS
    <2>2. t \in Seq(Character) /\ Len(t) = n - (b - a) /\ \A i \in 1..a : t[i] = y.line[i]
      <3>1. PICK ln \in Seq(Character) : ln = y.line
        BY <1>1
      <3>2. a \in 0..Len(ln) /\ b \in a..Len(ln) /\ t = Without(ln, a, b) /\ Len(ln) = n
        BY <1>2, <2>1, <3>1
      <3>3. t \in Seq(Character) /\ Len(t) = n - (b - a) /\ \A i \in 1..a : t[i] = ln[i]
        BY ONLY <3>2, ln \in Seq(Character), WithoutFacts
      <3> QED  BY <3>1, <3>3
    <2>3. a <= n - (b - a) /\ n - (b - a) \in Nat
      BY <1>2
    <2> QED  BY <2>1, <2>2, <2>3
  <1>8. PICK p \in Seq(Character) :
           p = IF y.cutDir # dir THEN text ELSE IF dir < 0 THEN text \o y.paste ELSE y.paste \o text
    <2>1. text \o y.paste \in Seq(Character) /\ y.paste \o text \in Seq(Character)
      BY <1>1, ConcatProperties
    <2> QED  BY <2>1
  <1>9. PICK bs \in SUBSET Seq(Character) : bs = IF y.cutDir = dir THEN y.base ELSE {y.line}
    BY <1>1
  <1>10. PICK r : r = Extend(y.R, w)
    OBVIOUS
  <1>11. r \in RangeSet
    BY <1>1, <1>6, <1>10, ExtendFacts DEF ProperRange
  <1>12. PICK z : z = [y EXCEPT !.cutDir = dir, !.paste = p, !.base = bs, !.line = l, !.cursor = a, !.R = r]
    OBVIOUS
  <1>13. z \in EditorSet
    BY <1>1, <1>3, <1>11, <1>12 DEF EditorSet
  <1>14. /\ z.undo = y.undo /\ z.line = l /\ z.cursor = a /\ z.hist = y.hist
         /\ z.cur = y.cur /\ z.replay = y.replay /\ z.mode = y.mode /\ z.cutDir = dir
         /\ z.prompt = y.prompt /\ z.search = y.search /\ z.R = r /\ z.stem = y.stem
         /\ z.base = bs /\ z.paste = p
    BY <1>1, <1>12 DEF EditorSet
  <1>15. Cut(y, dir, a, b, w).e = z
    <2>1. PICK f : f = [y EXCEPT !.cutDir = dir, !.paste = p, !.base = bs]
      OBVIOUS
    <2>2. AddToPasteBuf(y, dir, text) = f
      BY <1>1, <1>8, <1>9, <2>1 DEF AddToPasteBuf, EditorSet
    <2>3. f.line = y.line /\ f.R = y.R
      BY <1>1, <2>1 DEF EditorSet
    <2>4. Erase(f, a, b) = [f EXCEPT !.line = l]
      BY <1>7, <2>3 DEF Erase, Without, Before, Behind
    <2>5. Cut(y, dir, a, b, w).e = Shown([Erase(f, a, b) EXCEPT !.cursor = a], w)
      BY <1>4, <2>2, ResultFacts DEF Cut
    <2>6. Shown([[f EXCEPT !.line = l] EXCEPT !.cursor = a], w) = z
      BY <1>1, <1>10, <1>12, <2>1 DEF Shown, EditorSet
    <2> QED  BY <2>4, <2>5, <2>6
  <1>16. Covered(x, z)
    <2>1. Changes(y.line, z.line, w)
      <3>1. a <= Len(y.line) /\ \A i \in 1..a : i <= Len(l) => l[i] = y.line[i]
        BY <1>2, <1>3, <1>7
      <3> QED  BY <1>1, <1>3, <1>5, <1>14, <3>1, ChangesBehind
    <2>2. x.line \in Seq(Character) /\ z.line \in Seq(Character) /\ Covered(x, y) /\ w.start <= Len(z.line)
      BY <1>6, <1>7, <1>14 DEF Good
    <2> QED  BY <1>1, <1>6, <1>10, <1>14, <2>1, <2>2, ShownCovers
  <1>17. EditorOK(z)
    BY <1>7, <1>13, <1>14 DEF Good, EditorOK, Indices
  <1>18. ASSUME NEW o \in bs
         PROVE  InsertText(l, a, p) = o
    <2>0. Regained(y.line, a, b, y.paste)
      BY <1>1, CutAndPaste
    <2>1. text = SubSeq(y.line, a + 1, b)
      BY <1>4 DEF Between
    <2>2. CASE y.cutDir # dir
      <3>1. p = text /\ o = y.line
        BY <1>8, <1>9, <1>18, <2>2
      <3>2. InsertText(Without(y.line, a, b), a, SubSeq(y.line, a + 1, b)) = y.line
        BY <2>0 DEF Regained
      <3> QED  BY <1>7, <2>1, <3>1, <3>2
    <2>3. CASE y.cutDir = dir
      <3>1. InsertText(y.line, y.cursor, y.paste) = o
        BY <1>9, <1>18, <2>3 DEF Good, PasteOK
      <3>2. CASE dir = 1
        <4>1. p = y.paste \o text /\ y.cursor = a
          BY <1>8, <2>3, <3>2
        <4>2. InsertText(Without(y.line, a, b), a, y.paste \o SubSeq(y.line, a + 1, b))
                = InsertText(y.line, a, y.paste)
          BY <2>0 DEF Regained
        <4> QED  BY <1>7, <2>1, <3>1, <4>1, <4>2
      <3>3. CASE dir = -1
        <4>1. p = text \o y.paste /\ y.cursor = b
          BY <1>8, <2>3, <3>3
        <4>2. InsertText(Without(y.line, a, b), a, SubSeq(y.line, a + 1, b) \o y.paste)
                = InsertText(y.line, b, y.paste)
          BY <2>0 DEF Regained
        <4> QED  BY <1>7, <2>1, <3>1, <4>1, <4>2
      <3> QED  BY <3>2, <3>3
    <2> QED  BY <2>2, <2>3
  <1>19. PasteOK(z)
    BY <1>14, <1>18 DEF PasteOK
  <1>20. Good(x, z)
    BY <1>14, <1>16, <1>17, <1>19 DEF Good
  <1>21. Stems(y) => Stems(z)
    BY <1>14 DEF Stems, PosOf
  <1> QED  BY <1>5, <1>15, <1>20, <1>21

(* The commands that cut.                                                    *)
LEMMA CutsKeep ==
  ASSUME NEW x, NEW y, Good(x, y), y.mode = "input", Len(y.line) < End,
         NEW cmd \in {"Del", "DelLeft", "CutToEnd", "CutToFront", "CutNextWord", "CutPrevWord"}
  PROVE  LET z == ProcessCommandInInput(y, cmd).e
         IN Good(x, z) /\ (Stems(y) => Stems(z))
  <1>1. y \in EditorSet
    BY DEF Good, EditorOK
  <1>2. PICK n \in Nat, c \in Nat : n = Len(y.line) /\ c = y.cursor /\ c <= n
    BY LenProperties DEF Good, EditorOK, EditorSet
  <1>3. ASSUME NEW a \in 0..n, NEW b \in a..n, NEW dir \in {-1, 1}, dir = 1 => c = a, dir = -1 => c = b,
               ProcessCommandInInput(y, cmd) = Cut(y, dir, a, b, Span(a, End))
        PROVE  LET z == ProcessCommandInInput(y, cmd).e
               IN Good(x, z) /\ (Stems(y) => Stems(z))
    BY <1>2, <1>3, CutKeeps
  <1>4. CASE cmd = "Del"
    <2>1. ProcessCommandInInput(y, cmd) = IF c = n THEN Error(y) ELSE Cut(y, 1, c, c + 1, Span(c, End))
      BY <1>2, <1>4 DEF ProcessCommandInInput, Del
    <2>2. CASE c = n
      BY <2>1, <2>2, ResultFacts
    <2>3. CASE c # n
      <3>1. c \in 0..n /\ c + 1 \in c..n
        BY <1>2, <2>3
      <3> QED  BY <1>3, <2>1, <2>3, <3>1
    <2> QED  BY <2>2, <2>3
  <1>5. CASE cmd = "DelLeft"
    <2>1. ProcessCommandInInput(y, cmd) = IF c = 0 THEN Error(y) ELSE Cut(y, -1, c - 1, c, Span(c - 1, End))
      BY <1>2, <1>5 DEF ProcessCommandInInput, DelLeft
    <2>2. CASE c = 0
      BY <2>1, <2>2, ResultFacts
    <2>3. CASE c # 0
      <3>1. c - 1 \in 0..n /\ c \in (c - 1)..n
        BY <1>2, <2>3
      <3> QED  BY <1>3, <2>1, <2>3, <3>1
    <2> QED  BY <2>2, <2>3
  <1>6. CASE cmd = "CutToEnd"
    <2>1. ProcessCommandInInput(y, cmd) = Cut(y, 1, c, n, Span(c, End))
      BY <1>2, <1>6 DEF ProcessCommandInInput
    <2>2. c \in 0..n /\ n \in c..n
      BY <1>2
    <2> QED  BY <1>3, <2>1, <2>2
  <1>7. CASE cmd = "CutToFront"
    <2>1. ProcessCommandInInput(y, cmd) = Cut(y, -1, 0, c, Span(0, End))
      BY <1>2, <1>7 DEF ProcessCommandInInput, AllText
    <2>2. 0 \in 0..n /\ c \in 0..n
      BY <1>2
    <2> QED  BY <1>3, <2>1, <2>2
  <1>8. CASE cmd = "CutNextWord"
    <2>1. PICK b : b = FindNextWord(y)
      OBVIOUS
    <2>2. ProcessCommandInInput(y, cmd) = Cut(y, 1, c, b, Span(c, End))
      BY <1>2, <1>8, <2>1 DEF ProcessCommandInInput
    <2>3. c \in 0..n /\ b \in c..n
      BY <1>1, <1>2, <2>1, FindNextFacts
    <2> QED  BY <1>3, <2>2, <2>3
  <1>9. CASE cmd = "CutPrevWord"
    <2>1. PICK a : a = FindPrevWord(y)
      OBVIOUS
    <2>2. ProcessCommandInInput(y, cmd) = Cut(y, -1, a, c, Span(a, End))
      BY <1>2, <1>9, <2>1 DEF ProcessCommandInInput
    <2>3. a \in 0..c
      BY <1>1, <1>2, <2>1, FindPrevFacts
    <2>4. a \in 0..n /\ c \in a..n
      BY <1>2, <2>3
    <2> QED  BY <1>3, <2>2, <2>4
  <1> QED  BY <1>4, <1>5, <1>6, <1>7, <1>8, <1>9

(* What was cut goes into the line at the cursor.                            *)
LEMMA PasteKeeps ==
  ASSUME NEW x, NEW y, Good(x, y), Len(y.line) < End
  PROVE  LET z == Paste(y).e
         IN Good(x, z) /\ (Stems(y) => Stems(z))
  <1>1. y \in EditorSet /\ y.line \in Seq(Character)
    BY DEF Good, EditorOK, EditorSet
  <1>2. PICK n \in Nat, c \in Nat : n = Len(y.line) /\ c = y.cursor /\ c <= n /\ n < End
    BY LenProperties DEF Good, EditorOK, EditorSet
  <1>3. PICK text \in Seq(Character), len \in Nat : text = y.paste /\ len = Len(text)
    BY <1>1, LenProperties DEF EditorSet
  <1>4. PICK l : l = InsertText(y.line, c, text)
    OBVIOUS
  <1>5. l \in Seq(Character) /\ Len(l) = n + len /\ \A i \in 1..c : l[i] = y.line[i]
    <2>1. PICK ln \in Seq(Character) : ln = y.line
      BY <1>1
    <2>2. c \in 0..Len(ln) /\ l = InsertText(ln, c, text)
      BY <1>2, <1>4, <2>1
    <2>3. l \in Seq(Character) /\ Len(l) = Len(ln) + Len(text) /\ \A i \in 1..c : l[i] = ln[i]
      BY ONLY <2>2, ln \in Seq(Character), text \in Seq(Character), InsertFacts
    <2> QED  BY <1>2, <1>3, <2>1, <2>3
  <1>6. PICK w : w = Span(c, End)
    OBVIOUS
  <1>7. c < End /\ End \in Nat /\ c <= End
    BY <1>2 DEF End
  <1>8. ProperRange(w) /\ w.start = c
    BY <1>6, <1>7, SpanFacts
  <1>9. PICK f : f = ClearPasteBuf(y)
    OBVIOUS
  <1>10. Good(x, f) /\ (Stems(y) => Stems(f)) /\ f.cutDir = 0 /\ f.line = y.line
    BY <1>9, ClearKeeps
  <1>11. PICK z : z = Rewritten(f, l, c + len, w)
    OBVIOUS
  <1>12. Good(x, z) /\ (Stems(f) => Stems(z))
    <2>1. Changes(f.line, l, w)
      BY <1>1, <1>2, <1>5, <1>6, <1>10, ChangesBehind
    <2>2. c + len \in Nat /\ c + len <= Len(l) /\ w.start <= Len(l)
      BY <1>2, <1>5, <1>8
    <2> QED  BY <1>5, <1>8, <1>10, <1>11, <2>1, <2>2, RewriteKeeps
  <1>13. Paste(y) = Done(z)
    <2>1. Paste(y) = Done(ClearPasteBuf(Shown([y EXCEPT !.line = l, !.cursor = c + len], w)))
      BY <1>1, <1>2, <1>3, <1>4, <1>6 DEF Paste, EditorSet
    <2>2. Paste(y) = Done(ClearPasteBuf(Rewritten(y, l, c + len, w)))
      BY <2>1 DEF Rewritten
    <2>3. c + len \in Nat
      BY <1>2
    <2> QED  BY <1>1, <1>5, <1>9, <1>11, <2>2, <2>3, ClearFirst
  <1> QED  BY <1>10, <1>12, <1>13, ResultFacts

(* A move clears the buffer itself.                                          *)
LEMMA MoveCleared ==
  ASSUME NEW y, y \in EditorSet, y.mode = "input", NEW m \in Moves
  PROVE  ProcessMove(y, m) = ProcessMove(ClearPasteBuf(y), m)
  <1>1. PICK z : z = ClearPasteBuf(y)
    OBVIOUS
  <1>2. ClearPasteBuf(z) = z /\ z.mode = "input"
    BY <1>1 DEF ClearPasteBuf, EditorSet
  <1>3. ~Searching(y) /\ ~Searching(z)
    BY <1>2 DEF Searching
  <1> QED  BY <1>1, <1>2, <1>3 DEF ProcessMove, Moves

(* A change of the line that a move follows.                                 *)
LEMMA ChangeAndMove ==
  ASSUME NEW x, NEW y, Good(x, y), y.mode = "input", NEW m \in Moves,
         NEW l \in Seq(Character), y.cursor <= Len(l),
         NEW w, ProperRange(w), w.start <= Len(l), Changes(y.line, l, w)
  PROVE  LET z == ProcessMove(Shown([y EXCEPT !.line = l], w), m).e
         IN Good(x, z) /\ (Stems(y) => Stems(z))
  <1>1. y \in EditorSet
    BY DEF Good, EditorOK
  <1>2. PICK c \in Nat : c = y.cursor
    BY <1>1 DEF EditorSet
  <1>3. Shown([y EXCEPT !.line = l], w) = Rewritten(y, l, c, w)
    <2>1. [y EXCEPT !.line = l] = [y EXCEPT !.line = l, !.cursor = c]
      BY <1>1, <1>2 DEF EditorSet
    <2> QED  BY <2>1 DEF Rewritten
  <1>4. PICK f : f = ClearPasteBuf(y)
    OBVIOUS
  <1>5. /\ Good(x, f) /\ (Stems(y) => Stems(f)) /\ f.cutDir = 0 /\ f.line = y.line
        /\ f.mode = y.mode
    BY <1>4, ClearKeeps
  <1>6. PICK g : g = Rewritten(f, l, c, w)
    OBVIOUS
  <1>7. Good(x, g) /\ (Stems(f) => Stems(g)) /\ g.mode = f.mode
    <2>1. c <= Len(l) /\ Changes(f.line, l, w)
      BY <1>2, <1>5
    <2> QED  BY <1>5, <1>6, <2>1, RewriteKeeps
  <1>8. ClearPasteBuf(Rewritten(y, l, c, w)) = g
    BY <1>1, <1>4, <1>6, ClearFirst
  <1>9. PICK h : h = Rewritten(y, l, c, w)
    OBVIOUS
  <1>10. ProcessMove(h, m) = ProcessMove(g, m)
    <2>1. h.mode = "input" /\ h \in EditorSet
      <3>1. g = [h EXCEPT !.cutDir = 0]
        BY <1>8, <1>9 DEF ClearPasteBuf
      <3>2. PICK r : r = Extend(y.R, w)
        OBVIOUS
      <3>3. ProperRange(r)
        BY <3>2, ExtendFacts DEF Good, Covered
      <3>4. h = [y EXCEPT !.line = l, !.cursor = c, !.R = r]
        BY <1>1, <1>9, <3>2 DEF Rewritten, Shown, EditorSet
      <3> QED  BY <1>1, <1>2, <3>3, <3>4 DEF EditorSet, ProperRange
    <2> QED  BY <1>8, <1>9, <2>1, MoveCleared
  <1>11. ~(m = "Right" /\ Searching(g))
    BY <1>5, <1>7 DEF Searching
  <1>12. PICK z : z = ProcessMove(g, m).e
    OBVIOUS
  <1>13. Good(x, z) /\ (Stems(g) => Stems(z))
    BY <1>7, <1>11, <1>12, MoveKeeps
  <1> QED  BY <1>3, <1>5, <1>7, <1>9, <1>10, <1>12, <1>13

(* The characters at the cursor and before it change places.                 *)
LEMMA SwapKeeps ==
  ASSUME NEW x, NEW y, Good(x, y), y.mode = "input", Len(y.line) < End, ~SwapsOutside(y)
  PROVE  LET z == SwapThisAndLeft(y).e
         IN Good(x, z) /\ (Stems(y) => Stems(z))
  <1>1. y \in EditorSet /\ y.line \in Seq(Character)
    BY DEF Good, EditorOK, EditorSet
  <1>2. PICK n \in Nat, c \in Nat : n = Len(y.line) /\ c = y.cursor /\ c <= n /\ n < End
    BY LenProperties DEF Good, EditorOK, EditorSet
  <1>3. CASE c < 1
    <2>1. SwapThisAndLeft(y) = Error(y)
      BY <1>2, <1>3 DEF SwapThisAndLeft
    <2> QED  BY <2>1, ResultFacts
  <1>4. CASE ~(c < 1)
    <2>1. n >= 2
      <3>1. ~(c = 1 /\ n = 1)
        BY <1>2 DEF SwapsOutside
      <3>2. c \in Nat /\ n \in Nat /\ c <= n /\ ~(c < 1)
        BY <1>2, <1>4
      <3> QED  BY ONLY <3>1, <3>2
    <2>2. PICK at \in Nat : at = Min({c, n - 1}) /\ at >= 1 /\ at <= n - 1
      <3>1. n - 1 \in Nat /\ n - 1 >= 1
        BY <1>2, <2>1
      <3>2. Min({c, n - 1}) = IF c <= n - 1 THEN c ELSE n - 1
        BY <3>1, MinOfTwo
      <3> QED  BY <1>4, <3>1, <3>2
    <2>3. at \in 1..Len(y.line) /\ at + 1 \in 1..Len(y.line)
      BY <1>2, <2>2
    <2>4. PICK a \in Character, b \in Character : a = y.line[at + 1] /\ b = y.line[at]
      BY <1>1, <2>3, ElementOfSeq
    <2>5. PICK k : k = [y.line EXCEPT ![at + 1] = b]
      OBVIOUS
    <2>6. /\ k \in Seq(Character) /\ Len(k) = Len(y.line)
          /\ \A j \in 1..Len(y.line) : k[j] = IF j = at + 1 THEN b ELSE y.line[j]
      BY <1>1, <2>3, <2>5, ExceptSeq
    <2>7. PICK l : l = [k EXCEPT ![at] = a]
      OBVIOUS
    <2>8. /\ l \in Seq(Character) /\ Len(l) = Len(k)
          /\ \A j \in 1..Len(k) : l[j] = IF j = at THEN a ELSE k[j]
      BY <2>3, <2>6, <2>7, ExceptSeq
    <2>9. PICK w : w = Span(at - 1, End)
      OBVIOUS
    <2>10. at - 1 \in Nat /\ at - 1 < End /\ at - 1 <= End /\ End \in Nat /\ at - 1 <= Len(y.line)
      BY <1>2, <2>2 DEF End
    <2>11. ProperRange(w) /\ w.start = at - 1
      BY <2>9, <2>10, SpanFacts
    <2>12. \A i \in 1..(at - 1) : i <= Len(l) => l[i] = y.line[i]
      <3>1. \A i \in 1..(at - 1) : i \in 1..n /\ i # at /\ i # at + 1
        BY <1>2, <2>2
      <3> QED  BY <1>2, <2>6, <2>8, <3>1
    <2>13. Changes(y.line, l, w)
      BY <1>1, <2>8, <2>9, <2>10, <2>12, ChangesBehind
    <2>14. SwapThisAndLeft(y) = Done(ProcessMove(Shown([y EXCEPT !.line = l], w), "Right").e)
      <3>1. [y.line EXCEPT ![at + 1] = y.line[at], ![at] = y.line[at + 1]] = l
        BY <2>4, <2>5, <2>7
      <3> QED  BY <1>2, <1>4, <2>2, <2>9, <3>1 DEF SwapThisAndLeft
    <2>15. "Right" \in Moves /\ y.cursor <= Len(l) /\ w.start <= Len(l)
      BY <1>2, <2>6, <2>8, <2>10, <2>11 DEF Moves
    <2>16. PICK z : z = ProcessMove(Shown([y EXCEPT !.line = l], w), "Right").e
      OBVIOUS
    <2>17. Good(x, z) /\ (Stems(y) => Stems(z))
      BY <2>8, <2>11, <2>13, <2>15, <2>16, ChangeAndMove
    <2> QED  BY <2>14, <2>16, <2>17, ResultFacts
  <1> QED  BY <1>3, <1>4

(* Upper case, and on to the next word.                                      *)
LEMMA UpperKeeps ==
  ASSUME NEW x, NEW y, Good(x, y), y.mode = "input", Len(y.line) < End
  PROVE  LET z == ToUpperMoveNextWord(y).e
         IN Good(x, z) /\ (Stems(y) => Stems(z))
  <1>1. y \in EditorSet /\ y.line \in Seq(Character)
    BY DEF Good, EditorOK, EditorSet
  <1>2. PICK n \in Nat, c \in Nat : n = Len(y.line) /\ c = y.cursor /\ c <= n /\ n < End
    BY LenProperties DEF Good, EditorOK, EditorSet
  <1>3. CASE c >= n
    <2>1. ToUpperMoveNextWord(y) = Error(y)
      BY <1>2, <1>3 DEF ToUpperMoveNextWord
    <2> QED  BY <2>1, ResultFacts
  <1>4. CASE ~(c >= n)
    <2>1. c + 1 \in 1..Len(y.line)
      BY <1>2, <1>4
    <2>2. PICK a \in Character : a = Upper[y.line[c + 1]]
      <3>1. y.line[c + 1] \in Character
        BY <1>1, <2>1, ElementOfSeq
      <3> QED  BY <3>1, EditorAssumption
    <2>3. PICK l : l = [y.line EXCEPT ![c + 1] = a]
      OBVIOUS
    <2>4. /\ l \in Seq(Character) /\ Len(l) = Len(y.line)
          /\ \A j \in 1..Len(y.line) : l[j] = IF j = c + 1 THEN a ELSE y.line[j]
      BY <1>1, <2>1, <2>3, ExceptSeq
    <2>5. PICK w : w = Span(c, c + 1)
      OBVIOUS
    <2>6. c + 1 \in Nat /\ c < End /\ c <= c + 1 /\ c + 1 <= End /\ c + 1 < End
      BY <1>2, <1>4 DEF End
    <2>7. ProperRange(w) /\ w.start = c
      BY <2>5, <2>6, SpanFacts
    <2>8. Changes(y.line, l, w)
      <3>1. \A i \in 1..Len(y.line) : (i <= c \/ i > c + 1) => l[i] = y.line[i]
        BY <1>2, <2>4
      <3> QED  BY <1>1, <2>4, <2>5, <2>6, <3>1, ChangesWithin
    <2>9. ToUpperMoveNextWord(y) = Done(ProcessMove(Shown([y EXCEPT !.line = l], w), "NextWord").e)
      BY <1>2, <1>4, <2>2, <2>3, <2>5 DEF ToUpperMoveNextWord
    <2>10. "NextWord" \in Moves /\ y.cursor <= Len(l) /\ w.start <= Len(l)
      BY <1>2, <2>4, <2>7 DEF Moves
    <2>11. PICK z : z = ProcessMove(Shown([y EXCEPT !.line = l], w), "NextWord").e
      OBVIOUS
    <2>12. Good(x, z) /\ (Stems(y) => Stems(z))
      BY <2>4, <2>7, <2>8, <2>10, <2>11, ChangeAndMove
    <2> QED  BY <2>9, <2>11, <2>12, ResultFacts
  <1> QED  BY <1>3, <1>4

(* Upper or lower case up to the end of a word, in the range that the code   *)
(* computes; the cuts are not ended, but nothing is asked of them.           *)
LEMMA WordKeeps ==
  ASSUME NEW x, NEW y, Good(x, y), y.base = {}, Len(y.line) <= MaxLine,
         NEW case, case \in [Character -> Character]
  PROVE  LET z == WordTo(y, case).e
         IN Good(x, z) /\ (Stems(y) => Stems(z))
  <1>1. y \in EditorSet /\ y.line \in Seq(Character)
    BY DEF Good, EditorOK, EditorSet
  <1>2. PICK n \in Nat, c \in Nat : n = Len(y.line) /\ c = y.cursor /\ c <= n /\ n <= MaxLine
    BY LenProperties DEF Good, EditorOK, EditorSet
  <1>3. PICK to \in c..n : to = FindNextWord(y)
    BY <1>1, <1>2, FindNextFacts
  <1>4. DOMAIN y.line = 1..n /\ \A i \in 1..n : y.line[i] \in Character
    BY <1>1, <1>2, LenProperties, ElementOfSeq
  <1>5. PICK l : l = [i \in 1..n |-> IF i - 1 \in c..(to - 1) THEN case[y.line[i]] ELSE y.line[i]]
    OBVIOUS
  <1>6. l \in [1..n -> Character]
    BY <1>4, <1>5
  <1>7. l \in Seq(Character) /\ Len(l) = n
    <2>1. \A i \in 1..n : l[i] \in Character
      BY <1>6
    <2> QED  BY <1>2, <1>6
  <1>8. \A i \in 1..n : (i <= c \/ i > c + to) => l[i] = y.line[i]
    <2>1. \A i \in 1..n : (i <= c \/ i > c + to) => ~(i - 1 \in c..(to - 1))
      BY <1>2, <1>3
    <2> QED  BY <1>5, <2>1
  <1>9. PICK w : w = Span(c, c + to)
    OBVIOUS
  <1>10. /\ c + to \in Nat /\ c < End /\ c <= c + to /\ c + to <= End /\ c + to < End
         /\ to \in Nat /\ to <= n
    BY <1>2, <1>3, TextInputAssumption DEF End
  <1>11. ProperRange(w) /\ w.start = c
    BY <1>9, <1>10, SpanFacts
  <1>12. Changes(y.line, l, w)
    BY <1>1, <1>2, <1>7, <1>8, <1>9, <1>10, ChangesWithin
  <1>13. PICK z : z = Rewritten(y, l, to, w)
    OBVIOUS
  <1>14. Good(x, z) /\ (Stems(y) => Stems(z))
    <2>1. to <= Len(l) /\ w.start <= Len(l)
      BY <1>2, <1>7, <1>10, <1>11
    <2> QED  BY <1>7, <1>10, <1>11, <1>12, <1>13, <2>1, RewriteKeeps
  <1>15. WordTo(y, case) = Done(z)
    BY <1>2, <1>3, <1>4, <1>5, <1>9, <1>13 DEF WordTo, Rewritten
  <1> QED  BY <1>14, <1>15, ResultFacts

(* The line becomes an entry of the history, or the one that is not in it.   *)
LEMMA TakeKeeps ==
  ASSUME NEW x, NEW y, Good(x, y), y.mode = "input", NEW l \in Seq(Character),
         NEW i, i \in Indices(y)
  PROVE  LET z == TakeLine(y, l, i).e
         IN Good(x, z) /\ Stems(z)
  <1>1. y \in EditorSet
    BY DEF Good, EditorOK
  <1>2. PICK s \in Int : s = IF i = None THEN 0 ELSE PosOf(y, i)
    BY <1>1, HistLineFacts
  <1>3. PICK n \in Nat : n = Len(l)
    BY LenProperties
  <1>4. PICK f : f = ClearPasteBuf(y)
    OBVIOUS
  <1>5. /\ Good(x, f) /\ f.cutDir = 0 /\ f.mode = y.mode /\ f.hist = y.hist /\ f.line = y.line
    BY <1>4, ClearKeeps
  <1>6. f \in EditorSet /\ f.undo \in Seq(UndoSet) /\ Len(f.undo) <= MaxUndoBufSize + 1
        /\ f.line \in Seq(Character) /\ i \in Indices(f) /\ PosOf(f, i) = PosOf(y, i)
    BY <1>5 DEF Good, EditorOK, EditorSet, Indices, PosOf
  <1>7. PICK z : z = Put(f, l, n, i, s, f.undo, AllText)
    OBVIOUS
  <1>8. Good(x, z) /\ Stems(z)
    <2>1. AllText.start <= Len(l) /\ Changes(f.line, l, AllText) /\ n <= Len(l)
      BY <1>3, <1>6, AllTextFacts, ChangesAll
    <2>2. Good(x, z) /\ (Stems(z) <=> (i # None => s = PosOf(f, i)))
      BY <1>5, <1>6, <1>7, <2>1, AllTextFacts, PutKeeps
    <2> QED  BY <1>2, <1>6, <2>2
  <1>9. PICK r : r = Extend(y.R, AllText)
    OBVIOUS
  <1>10. r \in RangeSet
    <2>1. ProperRange(y.R)
      BY DEF Good, Covered
    <2> QED  BY <1>9, <2>1, AllTextFacts, ExtendFacts DEF ProperRange
  <1>11. PICK g : g = [y EXCEPT !.line = l, !.cur = i, !.stem = s, !.R = r]
    OBVIOUS
  <1>12. i \in Int
    BY <1>1, IndicesFacts
  <1>13. g \in EditorSet /\ g.mode = "input" /\ g.line = l
    BY <1>1, <1>10, <1>11, <1>12 DEF EditorSet
  <1>14. TakeLine(y, l, i) = Done(ProcessMove(g, "End").e)
    BY <1>1, <1>2, <1>9, <1>11 DEF TakeLine, Shown, EditorSet
  <1>15. PICK h : h = ClearPasteBuf(g)
    OBVIOUS
  <1>16. h.mode = "input" /\ h.line = l
    BY <1>13, <1>15 DEF ClearPasteBuf, EditorSet
  <1>17. ProcessMove(g, "End") = MoveTo(h, n)
    BY <1>3, <1>13, <1>15, <1>16 DEF ProcessMove, CancelSpecialInputMode, Searching
  <1>18. ProcessMove(g, "End").e = [h EXCEPT !.cursor = n]
    BY <1>17, ResultFacts DEF MoveTo
  <1>19. [h EXCEPT !.cursor = n] = z
    BY <1>1, <1>4, <1>7, <1>9, <1>11, <1>15 DEF Put, Shown, ClearPasteBuf, EditorSet
  <1>20. TakeLine(y, l, i).e = ProcessMove(g, "End").e
    BY <1>14, ResultFacts
  <1> QED  BY <1>8, <1>18, <1>19, <1>20

(* History::ModifyLine                                                       *)
LEMMA ModifyKeeps ==
  ASSUME NEW x, NEW y, Good(x, y), Len(y.line) <= MaxLine, y.cur \in 0..(Len(y.hist) - 1)
  PROVE  LET z == ModifyLine(y)
         IN /\ Good(x, z) /\ z.mode = y.mode /\ z.cur = y.cur /\ Len(z.hist) = Len(y.hist)
            /\ z.notInHist = y.notInHist
            /\ \A i : i \in Indices(z) <=> i \in Indices(y)
  <1>1. y \in EditorSet /\ y.hist \in Seq(Line) /\ y.line \in Line
    BY DEF Good, EditorOK, EditorSet, Line
  <1>2. PICK n \in Nat : n = Len(y.hist)
    BY <1>1, LenProperties
  <1>3. PICK p \in 1..Len(y.hist) : p = PosOf(y, y.cur)
    BY <1>2 DEF PosOf
  <1>4. PICK h \in Seq(Line) : h = [y.hist EXCEPT ![p] = y.line] /\ Len(h) = n
    <2>1. PICK t : t = [y.hist EXCEPT ![p] = y.line]
      OBVIOUS
    <2>2. t \in Seq(Line) /\ Len(t) = Len(y.hist)
      BY <1>1, <2>1, ExceptSeq
    <2> QED  BY <1>2, <2>1, <2>2
  <1>5. PICK z : z = [y EXCEPT !.hist = h]
    OBVIOUS
  <1>6. z \in EditorSet
    BY <1>1, <1>4, <1>5 DEF EditorSet
  <1>7. /\ z.undo = y.undo /\ z.line = y.line /\ z.cursor = y.cursor /\ z.hist = h
        /\ z.cur = y.cur /\ z.replay = y.replay /\ z.mode = y.mode /\ z.cutDir = y.cutDir
        /\ z.prompt = y.prompt /\ z.search = y.search /\ z.R = y.R /\ z.stem = y.stem
        /\ z.base = y.base /\ z.paste = y.paste /\ z.notInHist = y.notInHist
    BY <1>1, <1>5 DEF EditorSet
  <1>8. Indices(z) = Indices(y)
    BY <1>2, <1>4, <1>7 DEF Indices
  <1>9. Good(x, z)
    BY <1>6, <1>7, <1>8 DEF Good, EditorOK, PasteOK, Covered
  <1>10. ModifyLine(y) = z
    BY <1>1, <1>3, <1>4, <1>5 DEF ModifyLine, EditorSet
  <1> QED  BY <1>2, <1>4, <1>7, <1>8, <1>9, <1>10

(* To an older entry; a line that is not in the history is kept.             *)
LEMMA OlderKeeps ==
  ASSUME NEW x, NEW y, Good(x, y), y.mode = "input", Len(y.line) <= MaxLine
  PROVE  LET z == HistOlder(y).e
         IN Good(x, z) /\ (Stems(y) => Stems(z))
  <1>1. y \in EditorSet /\ y.cur \in Indices(y) /\ y.replay \in Indices(y)
    BY DEF Good, EditorOK
  <1>2. PICK n \in Nat, i \in Int : n = Len(y.hist) /\ i = y.cur
    BY <1>1, IndicesFacts
  <1>3. i >= -1 /\ (i <= 0 \/ i <= n - 1)
    BY <1>1, <1>2, IndicesFacts DEF None
  <1>4. PICK f : f = IF i = None THEN [y EXCEPT !.notInHist = y.line] ELSE ModifyLine(y)
    OBVIOUS
  <1>5. HistOlder(y) = IF i + 1 >= n THEN Error(y) ELSE TakeLine(f, HistLine(f, i + 1), i + 1)
    BY <1>2, <1>4 DEF HistOlder
  <1>6. CASE i + 1 >= n
    BY <1>5, <1>6, ResultFacts
  <1>7. CASE ~(i + 1 >= n)
    <2>1. Good(x, f) /\ f.mode = "input" /\ Len(f.hist) = n
      <3>1. CASE i = None
        <4>1. f \in EditorSet
          BY <1>1, <1>4, <3>1 DEF EditorSet
        <4>2. /\ f.undo = y.undo /\ f.line = y.line /\ f.cursor = y.cursor /\ f.hist = y.hist
              /\ f.cur = y.cur /\ f.replay = y.replay /\ f.mode = y.mode /\ f.cutDir = y.cutDir
              /\ f.prompt = y.prompt /\ f.search = y.search /\ f.R = y.R
              /\ f.base = y.base /\ f.paste = y.paste
          BY <1>1, <1>4, <3>1 DEF EditorSet
        <4> QED  BY <1>1, <1>2, <4>1, <4>2, FieldsKeep
      <3>2. CASE i # None
        <4>1. y.cur \in 0..(Len(y.hist) - 1)
          BY <1>2, <1>3, <1>7, <3>2 DEF None
        <4> QED  BY <1>2, <1>4, <3>2, <4>1, ModifyKeeps
      <3> QED  BY <3>1, <3>2
    <2>2. f \in EditorSet
      BY <2>1 DEF Good, EditorOK
    <2>3. PICK j : j = i + 1
      OBVIOUS
    <2>4. j \in Indices(f)
      <3>1. j \in Int /\ j >= None /\ j <= Len(f.hist) - 1
        BY <1>3, <1>7, <2>1, <2>3 DEF None
      <3> QED  BY <2>2, <3>1, IndicesFacts
    <2>5. PICK l \in Seq(Character) : l = HistLine(f, j)
      BY <2>2, <2>4, HistLineFacts
    <2>6. HistOlder(y) = TakeLine(f, l, j)
      BY <1>5, <1>7, <2>3, <2>5
    <2>7. Good(x, TakeLine(f, l, j).e) /\ Stems(TakeLine(f, l, j).e)
      BY <2>1, <2>4, TakeKeeps
    <2> QED  BY <2>6, <2>7
  <1> QED  BY <1>6, <1>7

(* To a newer entry, or back to the line that is not in the history.         *)
LEMMA NewerKeeps ==
  ASSUME NEW x, NEW y, Good(x, y), y.mode = "input", Len(y.line) <= MaxLine, ~ModifiesNoEntry(y)
  PROVE  LET z == HistNewer(y).e
         IN Good(x, z) /\ (Stems(y) => Stems(z))
  <1>1. y \in EditorSet /\ y.cur \in Indices(y) /\ y.hist \in Seq(Line) /\ y.replay \in Indices(y)
    BY DEF Good, EditorOK, EditorSet
  <1>2. PICK n \in Nat, i \in Int : n = Len(y.hist) /\ i = y.cur
    BY <1>1, IndicesFacts
  <1>3. i >= -1 /\ (i <= 0 \/ i <= n - 1)
    BY <1>1, <1>2, IndicesFacts DEF None
  <1>4. CASE i = None
    <2>1. HistNewer(y) = Error(y)
      BY <1>2, <1>4 DEF HistNewer
    <2> QED  BY <2>1, ResultFacts
  <1>5. CASE i = 0
    <2>1. y.hist # <<>>
      BY <1>2, <1>5 DEF ModifiesNoEntry
    <2>2. y.cur \in 0..(Len(y.hist) - 1)
      <3>1. n # 0
        BY <1>1, <1>2, <2>1, EmptySeq
      <3> QED  BY <1>2, <1>5, <3>1
    <2>3. PICK f : f = ModifyLine(y)
      OBVIOUS
    <2>4. Good(x, f) /\ f.mode = "input" /\ f.cur = y.cur
      BY <2>2, <2>3, ModifyKeeps
    <2>5. f \in EditorSet /\ f.cur \in Indices(f) /\ f.replay \in Indices(f)
      BY <2>4 DEF Good, EditorOK
    <2>6. PICK g : g = [f EXCEPT !.notInHist = <<>>]
      OBVIOUS
    <2>7. g \in EditorSet
      BY <2>5, <2>6, EmptySeq DEF EditorSet
    <2>8. /\ g.undo = f.undo /\ g.line = f.line /\ g.cursor = f.cursor /\ g.hist = f.hist
          /\ g.cur = f.cur /\ g.replay = f.replay /\ g.mode = f.mode /\ g.cutDir = f.cutDir
          /\ g.prompt = f.prompt /\ g.search = f.search /\ g.R = f.R
          /\ g.base = f.base /\ g.paste = f.paste
      BY <2>5, <2>6 DEF EditorSet
    <2>9. Good(x, g) /\ g.mode = "input"
      BY <2>4, <2>5, <2>7, <2>8, FieldsKeep
    <2>10. None \in Indices(g)
      BY <2>7, IndicesFacts DEF None
    <2>11. PICK l \in Seq(Character) : l = y.notInHist
      BY <1>1 DEF EditorSet
    <2>12. HistNewer(y) = TakeLine(g, l, None)
      BY <1>2, <1>5, <2>3, <2>6, <2>11 DEF HistNewer, None
    <2>13. Good(x, TakeLine(g, l, None).e) /\ Stems(TakeLine(g, l, None).e)
      BY <2>9, <2>10, TakeKeeps
    <2> QED  BY <2>12, <2>13
  <1>6. CASE i > 0
    <2>1. PICK j : j = i - 1
      OBVIOUS
    <2>2. j \in Indices(y)
      <3>1. j \in Int /\ j >= None /\ j <= Len(y.hist) - 1
        BY <1>2, <1>3, <1>6, <2>1 DEF None
      <3> QED  BY <1>1, <3>1, IndicesFacts
    <2>3. PICK l \in Seq(Character) : l = HistLine(y, j)
      BY <1>1, <2>2, HistLineFacts
    <2>4. HistNewer(y) = TakeLine(y, l, j)
      BY <1>2, <1>6, <2>1, <2>3 DEF HistNewer, None
    <2>5. Good(x, TakeLine(y, l, j).e) /\ Stems(TakeLine(y, l, j).e)
      BY <2>2, TakeKeeps
    <2> QED  BY <2>4, <2>5
  <1> QED  BY <1>3, <1>4, <1>5, <1>6 DEF None

(* A search begins with nothing.                                             *)
LEMMA StartKeeps ==
  ASSUME NEW x, NEW y, Good(x, y), y.base = {}, NEW m \in {"bkw", "fwd"}
  PROVE  LET z == StartSearch(y, m).e
         IN Good(x, z) /\ (Stems(y) => Stems(z))
  <1>1. PICK f : f = PushUndo(y)
    OBVIOUS
  <1>2. Good(x, f) /\ (Stems(y) => Stems(f)) /\ f.base = {}
    BY <1>1, PushUndoKeeps
  <1>3. PICK s \in Seq(Character) : s = <<>> /\ Len(s) <= Len(x.search) + 1
    <2>1. PICK k \in Nat : k = Len(x.search)
      BY DEF Good
    <2>2. PICK t : t = <<>>
      OBVIOUS
    <2>3. t \in Seq(Character) /\ Len(t) = 0
      BY <2>2, EmptySeq
    <2>4. t \in Seq(Character) /\ t = <<>> /\ Len(t) <= Len(x.search) + 1
      BY <2>1, <2>2, <2>3
    <2> QED  BY <2>4
  <1>4. PICK z : z = SetHistSearchModePrompt(Turned(f, s, m))
    OBVIOUS
  <1>5. Good(x, z) /\ (Stems(f) => Stems(z)) /\ z.mode = m
    <2>1. Len(s) <= Len(x.search) + 1
      BY <1>3
    <2> QED  BY ONLY <1>2, <1>4, <2>1, s \in Seq(Character), m \in {"bkw", "fwd"}, SearchPromptKeeps
  <1>6. StartSearch(y, m) = UpdateHistSearch(z)
    BY <1>1, <1>3, <1>4 DEF StartSearch, Turned
  <1>7. z.mode # "input"
    BY <1>5
  <1>8. /\ Good(x, UpdateHistSearch(z).e)
        /\ Stems(UpdateHistSearch(z).e) \/ UpdateHistSearch(z).e = z
    BY <1>5, <1>7, UpdateKeeps
  <1> QED  BY <1>2, <1>5, <1>6, <1>8

LEMMA AllWithPromptFacts ==
  /\ ProperRange(AllWithPrompt) /\ AllWithPrompt.start = 0 /\ AllWithPrompt.end = End
  /\ AllWithPrompt.prompts = {"prompt", "editor"}
  <1>1. PICK p : p = {"prompt", "editor"}
    OBVIOUS
  <1>2. PICK a : a = AllText
    OBVIOUS
  <1>3. a \in RangeSet /\ a.start = 0 /\ a.end = End
    BY <1>2, AllTextFacts DEF ProperRange
  <1>4. PICK w : w = [a EXCEPT !.prompts = p]
    OBVIOUS
  <1>5. w \in RangeSet /\ w.start = 0 /\ w.end = End /\ w.prompts = p
    BY <1>1, <1>3, <1>4 DEF RangeSet
  <1>6. AllWithPrompt = w
    BY <1>1, <1>2, <1>4 DEF AllWithPrompt
  <1> QED  BY <1>1, <1>5, <1>6 DEF ProperRange, End

(* Completions leave the line, and may have to show everything again.        *)
LEMMA CompleteKeeps ==
  ASSUME NEW x, NEW y, Good(x, y), y.mode = "input", NEW found \in BOOLEAN
  PROVE  LET z == Complete(y, found).e
         IN Good(x, z) /\ (Stems(y) => Stems(z))
  <1>1. PICK g : g = ProcessMove(y, "End").e
    OBVIOUS
  <1>2. Good(x, g) /\ (Stems(y) => Stems(g)) /\ g.cutDir = 0 /\ g.line = y.line
    <2>1. "End" \in Moves /\ ~("End" = "Right" /\ Searching(y))
      BY DEF Moves
    <2> QED  BY <1>1, <2>1, MoveKeeps
  <1>3. PICK n \in Nat, c \in Nat : n = Len(y.line) /\ c = y.cursor /\ c <= n
    BY LenProperties DEF Good, EditorOK, EditorSet
  <1>4. PICK f : f = WithCursor(g, c)
    OBVIOUS
  <1>5. Good(x, f) /\ (Stems(g) => Stems(f)) /\ f.cutDir = 0 /\ f.line = y.line /\ f.cursor = c
    <2>1. c \in 0..Len(g.line)
      BY <1>2, <1>3
    <2> QED  BY <1>2, <1>4, <2>1, CursorKeeps
  <1>6. Complete(y, found) = Done(IF found THEN Shown(f, AllWithPrompt) ELSE f)
    BY <1>1, <1>3, <1>4 DEF Complete, WithCursor
  <1>7. CASE ~found
    BY <1>2, <1>5, <1>6, <1>7, ResultFacts
  <1>8. CASE found
    <2>1. f \in EditorSet
      BY <1>5 DEF Good, EditorOK
    <2>2. PICK l \in Seq(Character) : l = f.line /\ c <= Len(l)
      BY <1>3, <1>5, <2>1 DEF EditorSet
    <2>3. PICK w : w = AllWithPrompt
      OBVIOUS
    <2>5. ProperRange(w) /\ w.start = 0
      BY <2>3, AllWithPromptFacts
    <2>6. PICK z : z = Rewritten(f, l, c, w)
      OBVIOUS
    <2>7. Good(x, z) /\ (Stems(f) => Stems(z))
      <3>1. w.start <= Len(l) /\ Changes(f.line, l, w)
        BY <1>3, <2>2, <2>5, ChangesNothing
      <3> QED  BY <1>5, <2>2, <2>5, <2>6, <3>1, RewriteKeeps
    <2>8. Shown(f, AllWithPrompt) = z
      <3>1. [f EXCEPT !.line = l, !.cursor = c] = f
        BY <1>5, <2>1, <2>2 DEF EditorSet
      <3> QED  BY <2>3, <2>6, <3>1 DEF Rewritten
    <2> QED  BY <1>2, <1>5, <1>6, <1>8, <2>7, <2>8, ResultFacts
  <1> QED  BY <1>7, <1>8

(* Commands that change a member of their own.                               *)
LEMMA PlainKeeps ==
  ASSUME NEW x, NEW y, Good(x, y), y.mode = "input",
         NEW cmd \in {"HistReplay", "Enter", "ToggleOverwriteMode", "ClearScreen", "Esc", "Ignore",
                      "HistComplete"}
  PROVE  LET r == ProcessCommandInInput(y, cmd)
         IN /\ Good(x, r.e) /\ (Stems(y) => Stems(r.e))
            /\ r.ok /\ cmd \in {"Enter", "HistReplay"} => r.e.replay = r.e.cur
  <1>1. y \in EditorSet /\ y.cur \in Indices(y) /\ y.replay \in Indices(y) /\ y.cur \in Int
        /\ y.overwrite \in BOOLEAN
    BY DEF Good, EditorOK, EditorSet
  <1>2. None \in Indices(y) /\ None \in Int
    BY <1>1, IndicesFacts DEF None
  <1>3. CASE cmd = "HistReplay" /\ y.cur = None
    <2>1. ProcessCommandInInput(y, cmd) = Error(y)
      BY <1>3 DEF ProcessCommandInInput
    <2> QED  BY <2>1, ResultFacts
  <1>4. CASE cmd = "HistReplay" /\ y.cur # None
    <2>1. PICK z : z = [y EXCEPT !.replay = y.cur]
      OBVIOUS
    <2>2. ProcessCommandInInput(y, cmd) = Done(z)
      BY <1>4, <2>1 DEF ProcessCommandInInput
    <2>3. z \in EditorSet
      BY <1>1, <2>1 DEF EditorSet
    <2>4. /\ z.undo = y.undo /\ z.line = y.line /\ z.cursor = y.cursor /\ z.hist = y.hist
          /\ z.cur = y.cur /\ z.replay = y.cur /\ z.mode = y.mode /\ z.cutDir = y.cutDir
          /\ z.prompt = y.prompt /\ z.search = y.search /\ z.R = y.R /\ z.stem = y.stem
          /\ z.base = y.base /\ z.paste = y.paste
      BY <1>1, <2>1 DEF EditorSet
    <2>5. Good(x, z)
      BY <1>1, <2>3, <2>4, FieldsKeep
    <2>6. Stems(y) => Stems(z)
      BY <2>4 DEF Stems, PosOf
    <2>7. ProcessCommandInInput(y, cmd).e = z
      BY <2>2, ResultFacts
    <2> QED  BY <2>4, <2>5, <2>6, <2>7
  <1>5. CASE cmd = "Enter"
    <2>1. PICK z : z = [y EXCEPT !.replay = None, !.cur = None]
      OBVIOUS
    <2>2. z \in EditorSet
      BY <1>1, <1>2, <2>1 DEF EditorSet
    <2>3. /\ z.undo = y.undo /\ z.line = y.line /\ z.cursor = y.cursor /\ z.hist = y.hist
          /\ z.cur = None /\ z.replay = None /\ z.mode = y.mode /\ z.cutDir = y.cutDir
          /\ z.prompt = y.prompt /\ z.search = y.search /\ z.R = y.R /\ z.stem = y.stem
          /\ z.base = y.base /\ z.paste = y.paste
      BY <1>1, <2>1 DEF EditorSet
    <2>4. ProcessCommandInInput(y, cmd) = Done(z)
      BY <1>5, <2>1, <2>3 DEF ProcessCommandInInput, Enter, CancelSpecialInputMode
    <2>5. Good(x, z)
      BY <1>1, <1>2, <2>2, <2>3, FieldsKeep
    <2>6. Stems(z)
      BY <2>3 DEF Stems
    <2>7. ProcessCommandInInput(y, cmd).e = z
      BY <2>4, ResultFacts
    <2> QED  BY <2>3, <2>5, <2>6, <2>7
  <1>6. CASE cmd = "ToggleOverwriteMode"
    <2>1. PICK b \in BOOLEAN : b = ~y.overwrite
      BY <1>1
    <2>2. PICK z : z = [y EXCEPT !.overwrite = b]
      OBVIOUS
    <2>3. z \in EditorSet
      BY <1>1, <2>2 DEF EditorSet
    <2>4. /\ z.undo = y.undo /\ z.line = y.line /\ z.cursor = y.cursor /\ z.hist = y.hist
          /\ z.cur = y.cur /\ z.replay = y.replay /\ z.mode = y.mode /\ z.cutDir = y.cutDir
          /\ z.prompt = y.prompt /\ z.search = y.search /\ z.R = y.R /\ z.stem = y.stem
          /\ z.base = y.base /\ z.paste = y.paste
      BY <1>1, <2>2 DEF EditorSet
    <2>5. ProcessCommandInInput(y, cmd) = Done(z)
      <3>1. ProcessCommandInInput(y, cmd) = Done([y EXCEPT !.overwrite = ~@])
        BY <1>6 DEF ProcessCommandInInput
      <3>2. [y EXCEPT !.overwrite = ~@] = z
        BY <1>1, <2>1, <2>2 DEF EditorSet
      <3> QED  BY <3>1, <3>2
    <2>6. Good(x, z)
      BY <1>1, <2>3, <2>4, FieldsKeep
    <2>7. Stems(y) => Stems(z)
      BY <2>4 DEF Stems, PosOf
    <2> QED  BY <1>6, <2>5, <2>6, <2>7, ResultFacts
  <1>7. CASE cmd \in {"ClearScreen", "Esc", "Ignore", "HistComplete"}
    <2>1. ProcessCommandInInput(y, cmd) \in {Done(y), Error(y)}
      BY <1>7 DEF ProcessCommandInInput
    <2> QED  BY <1>7, <2>1, ResultFacts
  <1> QED  BY <1>3, <1>4, <1>5, <1>6, <1>7

Commands ==
  TextModifying \cup {"Enter", "ToggleOverwriteMode", "Undo", "ClearScreen", "Esc", "Ignore"}

(* A command, not while searching.                                           *)
LEMMA InputKeeps ==
  ASSUME NEW x, NEW y, Good(x, y), y.mode = "input", Len(y.line) <= MaxLine, NEW cmd \in Commands,
         cmd \in AmidCuts => y.base = {},
         ~(cmd = "SwapThisAndLeft" /\ SwapsOutside(y)), ~(cmd = "HistNewer" /\ ModifiesNoEntry(y))
  PROVE  LET r == ProcessCommandInInput(y, cmd)
         IN /\ Good(x, r.e) /\ (Stems(y) /\ cmd # "Undo" => Stems(r.e))
            /\ r.ok /\ cmd \in {"Enter", "HistReplay"} => r.e.replay = r.e.cur
  <1>1. Len(y.line) < End
    <2>1. PICK n \in Nat : n = Len(y.line)
      BY LenProperties DEF Good, EditorOK, EditorSet
    <2> QED  BY <2>1, TextInputAssumption DEF End
  <1>2. CASE cmd \in {"Del", "DelLeft", "CutToEnd", "CutToFront", "CutNextWord", "CutPrevWord"}
    BY <1>1, <1>2, CutsKeep
  <1>3. CASE cmd = "Paste"
    BY <1>1, <1>3, PasteKeeps DEF ProcessCommandInInput
  <1>4. CASE cmd = "SwapThisAndLeft"
    BY <1>1, <1>4, SwapKeeps DEF ProcessCommandInInput
  <1>5. CASE cmd = "WordToUpper"
    BY <1>5, EditorAssumption, WordKeeps DEF ProcessCommandInInput, AmidCuts
  <1>6. CASE cmd = "WordToLower"
    BY <1>6, EditorAssumption, WordKeeps DEF ProcessCommandInInput, AmidCuts
  <1>7. CASE cmd = "ToUpperMoveNextWord"
    BY <1>1, <1>7, UpperKeeps DEF ProcessCommandInInput
  <1>8. CASE cmd = "ReverseSearch"
    BY <1>8, StartKeeps DEF ProcessCommandInInput, AmidCuts
  <1>9. CASE cmd = "ForwardSearch"
    BY <1>9, StartKeeps DEF ProcessCommandInInput, AmidCuts
  <1>10. CASE cmd = "HistOlder"
    BY <1>10, OlderKeeps DEF ProcessCommandInInput
  <1>11. CASE cmd = "HistNewer"
    BY <1>11, NewerKeeps DEF ProcessCommandInInput
  <1>12. CASE cmd \in {"HistReplay", "Enter", "ToggleOverwriteMode", "ClearScreen", "Esc", "Ignore",
                       "HistComplete"}
    BY <1>12, PlainKeeps
  <1>13. CASE cmd \in {"Complete", "CompleteFound"}
    BY <1>13, CompleteKeeps DEF ProcessCommandInInput
  <1>14. CASE cmd = "Undo"
    BY <1>14, UndoKeeps DEF ProcessCommandInInput, AmidCuts
  <1> QED  BY <1>2, <1>3, <1>4, <1>5, <1>6, <1>7, <1>8, <1>9, <1>10, <1>11, <1>12, <1>13, <1>14
           DEF Commands, TextModifying

(* Any command.                                                              *)
LEMMA CommandKeeps ==
  ASSUME NEW x, Good(x, x), Len(x.line) <= MaxLine, NEW cmd \in Commands,
         ~(cmd = "SwapThisAndLeft" /\ SwapsOutside(x)), ~(cmd = "HistNewer" /\ ModifiesNoEntry(x))
  PROVE  LET r == ProcessCommand(x, cmd)
         IN /\ Good(x, r.e)
            /\ Stems(x) => Stems(r.e) \/ Leaves(x, Cmd(cmd), r.e)
            /\ r.ok /\ cmd \in {"Enter", "HistReplay"} => r.e.replay = r.e.cur
  <1>1. PICK g : g = IF cmd \in AmidCuts THEN [x EXCEPT !.base = {}] ELSE x
    OBVIOUS
  <1>2. /\ Good(x, g) /\ (Stems(x) => Stems(g)) /\ (cmd \in AmidCuts => g.base = {})
        /\ g.line = x.line /\ g.cursor = x.cursor /\ g.mode = x.mode
        /\ g.cur = x.cur /\ g.hist = x.hist /\ g.search = x.search
    BY <1>1, ForgetKeeps
  <1>3. PICK f : f = IF cmd \in TextModifying THEN PushUndo(g) ELSE g
    OBVIOUS
  <1>4. /\ Good(x, f) /\ (Stems(g) => Stems(f)) /\ (cmd \in AmidCuts => f.base = {})
        /\ f.line = x.line /\ f.cursor = x.cursor /\ f.mode = x.mode
        /\ f.cur = x.cur /\ f.hist = x.hist /\ f.search = x.search
    BY <1>2, <1>3, PushUndoKeeps
  <1>5. ProcessCommand(x, cmd) = IF Searching(f) THEN ProcessSearch(f, cmd)
                                 ELSE ProcessCommandInInput(f, cmd)
    BY <1>1, <1>3 DEF ProcessCommand
  <1>6. Searching(f) <=> f.mode # "input"
    BY <1>4 DEF Searching, Good, EditorOK, EditorSet
  <1>7. CASE f.mode # "input"
    <2>1. PICK r : r = ProcessSearch(f, cmd)
      OBVIOUS
    <2>2. /\ Good(x, r.e)
          /\ Stems(f) => Stems(r.e) \/ Leaves(x, Cmd(cmd), r.e)
          /\ cmd \in {"Enter", "HistReplay"} => r.ok = FALSE
      BY <1>4, <1>7, <2>1, SearchKeeps
    <2> QED  BY <1>2, <1>4, <1>5, <1>6, <1>7, <2>1, <2>2
  <1>8. CASE f.mode = "input"
    <2>1. PICK r : r = ProcessCommandInInput(f, cmd)
      OBVIOUS
    <2>2. /\ Good(x, r.e) /\ (Stems(f) /\ cmd # "Undo" => Stems(r.e))
          /\ r.ok /\ cmd \in {"Enter", "HistReplay"} => r.e.replay = r.e.cur
      <3>1. ~(cmd = "SwapThisAndLeft" /\ SwapsOutside(f)) /\ ~(cmd = "HistNewer" /\ ModifiesNoEntry(f))
        BY <1>4 DEF SwapsOutside, ModifiesNoEntry
      <3> QED  BY <1>4, <1>8, <2>1, <3>1, InputKeeps
    <2>3. cmd = "Undo" => Stems(r.e) \/ Leaves(x, Cmd(cmd), r.e)
      BY <1>4, <1>6, <1>8 DEF Stems, Leaves, Searching
    <2> QED  BY <1>2, <1>4, <1>5, <1>6, <1>8, <2>1, <2>2, <2>3
  <1> QED  BY <1>7, <1>8

-----------------------------------------------------------------------------
(***************************************************************************)
(* The terminal.                                                           *)
(***************************************************************************)

DisplaySet ==
  [screen : [0..Cells -> Glyph], writePos : Nat, writeLen : Nat, old : SUBSET (0..Cells)]

(* What is written from the cell at on, and what else changes: a blank at    *)
(* the begin of a row, and what is erased behind all of a text.              *)
Wrote(x, z, at, text, o, m, all) ==
  /\ z \in DisplaySet /\ z.writeLen = x.writeLen /\ z.old = x.old /\ z.writePos = at + m
  /\ \A i \in 0..Cells :
       /\ i < at => z.screen[i] = x.screen[i]
       /\ at <= i /\ i < at + m => z.screen[i] = text[o + (i - at + 1)]
       /\ at + m <= i => z.screen[i] = x.screen[i] \/ z.screen[i] = Blank
       /\ at + m <= i /\ ~all /\ i % Width # 0 => z.screen[i] = x.screen[i]
       /\ at + m <= i /\ all /\ i < x.writeLen => z.screen[i] = Blank

(* Rows are in order. *)
LEMMA RowFacts ==
  ASSUME NEW i \in Nat, NEW j \in Nat, i <= j
  PROVE  Row(i) \in Nat /\ Row(j) \in Nat /\ Row(i) <= Row(j)
  <1>1. PICK w \in Nat : w = Width /\ w > 0
    BY TerminalAssumption
  <1>2. PICK p \in Nat, q \in Nat : p = i \div w /\ q = j \div w
    BY <1>1
  <1>3. w * p <= i /\ j < w * (q + 1)
    BY <1>1, <1>2
  <1>4. p <= q
    <2>1. SUFFICES ASSUME p >= q + 1 PROVE FALSE
      BY <1>2
    <2>2. w * p >= w * (q + 1)
      BY <1>1, <1>2, <2>1
    <2>3. PICK a \in Nat, b \in Nat : a = w * p /\ b = w * (q + 1)
      BY <1>1, <1>2
    <2> QED  BY <1>3, <2>2, <2>3
  <1> QED  BY <1>1, <1>2, <1>4 DEF Row

(* WriteRawString and ActOnEOL                                               *)
LEMMA RawWrites ==
  ASSUME NEW x, x \in DisplaySet, NEW piece \in Seq(Glyph)
  PROVE  Wrote(x, WriteRaw(x, piece), x.writePos, piece, 0, Len(piece), FALSE)
  <1>1. PICK m \in Nat, at \in Nat : m = Len(piece) /\ at = x.writePos
    BY LenProperties DEF DisplaySet
  <1>2. \A k \in 1..m : piece[k] \in Glyph
    BY <1>1, ElementOfSeq
  <1>3. PICK to \in Nat : to = at + m
    OBVIOUS
  <1> DEFINE wrapped == piece # <<>> /\ to % Width = 0
  <1>4. PICK s : s = [i \in 0..Cells |->
                        IF i \in at..(to - 1) THEN piece[i - at + 1]
                        ELSE IF wrapped /\ i = to THEN Blank ELSE x.screen[i]]
    OBVIOUS
  <1>5. PICK z : z = [x EXCEPT !.writePos = to, !.screen = s]
    OBVIOUS
  <1>6. WriteRaw(x, piece) = z
    BY <1>1, <1>3, <1>4, <1>5 DEF WriteRaw, DisplaySet
  <1>7. x.screen \in [0..Cells -> Glyph] /\ Blank \in Glyph
    BY DEF DisplaySet, Glyph
  <1>8. s \in [0..Cells -> Glyph]
    <2>1. \A i \in 0..Cells : s[i] \in Glyph
      <3> TAKE i \in 0..Cells
      <3>1. CASE i \in at..(to - 1)
        <4>1. i - at + 1 \in 1..m
          BY <1>3, <3>1
        <4> QED  BY <1>2, <1>4, <3>1, <4>1
      <3>2. CASE i \notin at..(to - 1)
        BY <1>4, <1>7, <3>2
      <3> QED  BY <3>1, <3>2
    <2> QED  BY <1>4, <2>1
  <1>9. z \in DisplaySet /\ z.writePos = to /\ z.screen = s /\ z.writeLen = x.writeLen /\ z.old = x.old
    BY <1>5, <1>8 DEF DisplaySet
  <1>10. ASSUME NEW i \in 0..Cells
         PROVE  /\ i < at => s[i] = x.screen[i]
                /\ at <= i /\ i < at + m => s[i] = piece[0 + (i - at + 1)]
                /\ at + m <= i => s[i] = x.screen[i] \/ s[i] = Blank
                /\ at + m <= i /\ i % Width # 0 => s[i] = x.screen[i]
    <2>1. CASE i \in at..(to - 1)
      <3>1. s[i] = piece[i - at + 1] /\ at <= i /\ ~(at + m <= i) /\ 0 + (i - at + 1) = i - at + 1
        BY <1>3, <1>4, <2>1
      <3> QED  BY <3>1
    <2>2. CASE i \notin at..(to - 1)
      <3>1. s[i] = (IF wrapped /\ i = to THEN Blank ELSE x.screen[i]) /\ (i < at \/ i >= to) /\ to >= at
        BY <1>3, <1>4, <2>2
      <3> QED  BY <1>3, <3>1
    <2> QED  BY <2>1, <2>2
  <1> QED  BY <1>1, <1>3, <1>6, <1>9, <1>10 DEF Wrote

(* What is behind the text is erased, as far as there was something.         *)
LEMMA EraseKeeps ==
  ASSUME NEW x, x \in DisplaySet
  PROVE  LET z == EraseFrom(x, x.writePos)
         IN /\ z \in DisplaySet /\ z.writeLen = x.writeLen /\ z.old = x.old /\ z.writePos = x.writePos
            /\ \A i \in 0..Cells :
                 /\ i < x.writePos => z.screen[i] = x.screen[i]
                 /\ x.writePos <= i => z.screen[i] = x.screen[i] \/ z.screen[i] = Blank
                 /\ x.writePos <= i /\ i < x.writeLen => z.screen[i] = Blank
  <1>1. PICK at \in Nat, n \in Nat : at = x.writePos /\ n = x.writeLen
    BY DEF DisplaySet
  <1> DEFINE gone(i) == \/ at < n /\ i >= at /\ Row(i) = Row(at)
                        \/ Row(i) > Row(at) /\ Row(i) <= Row(n)
  <1>2. PICK s : s = [i \in 0..Cells |-> IF gone(i) THEN Blank ELSE x.screen[i]]
    OBVIOUS
  <1>3. PICK z : z = [x EXCEPT !.screen = s]
    OBVIOUS
  <1>4. EraseFrom(x, x.writePos) = z
    BY <1>1, <1>2, <1>3 DEF EraseFrom, DisplaySet
  <1>5. s \in [0..Cells -> Glyph]
    BY <1>2 DEF DisplaySet, Glyph
  <1>6. z \in DisplaySet /\ z.writePos = at /\ z.screen = s /\ z.writeLen = n /\ z.old = x.old
    BY <1>1, <1>3, <1>5 DEF DisplaySet
  <1>7. ASSUME NEW i \in 0..Cells
        PROVE  /\ i < at => s[i] = x.screen[i]
               /\ at <= i => s[i] = x.screen[i] \/ s[i] = Blank
               /\ at <= i /\ i < n => s[i] = Blank
    <2>1. i \in Nat
      BY TerminalAssumption
    <2>2. i < at => ~gone(i)
      <3>1. i < at => Row(i) <= Row(at) /\ Row(i) \in Nat /\ Row(at) \in Nat
        BY <2>1, RowFacts
      <3> QED  BY <2>1, <3>1
    <2>3. at <= i /\ i < n => gone(i)
      <3>1. SUFFICES ASSUME at <= i, i < n PROVE gone(i)
        OBVIOUS
      <3>2. Row(at) <= Row(i) /\ Row(i) <= Row(n) /\ Row(i) \in Nat /\ Row(at) \in Nat /\ Row(n) \in Nat
        BY <2>1, <3>1, RowFacts
      <3> QED  BY <2>1, <3>1, <3>2
    <2>4. s[i] = IF gone(i) THEN Blank ELSE x.screen[i]
      BY <1>2
    <2> QED  BY <2>2, <2>3, <2>4
  <1> QED  BY <1>1, <1>4, <1>6, <1>7

(* A part of a text goes to the cell where it belongs.                       *)
LEMMA PartWrites ==
  ASSUME NEW x, x \in DisplaySet, NEW text \in Seq(Glyph), NEW o \in 0..Len(text),
         NEW off \in Nat, x.writePos = off + o, NEW len \in Nat, len = End => Len(text) <= End
  PROVE  LET rest == Len(text) - o
             m == IF len <= rest THEN len ELSE rest
             all == len = End \/ len = rest
         IN Wrote(x, WriteWrappedTextPart(x, text, o, off, len), off + o, text, o, m, all)
  <1>0. PICK n \in Nat : n = Len(text) /\ o \in 0..n
    BY LenProperties
  <1>1. PICK at \in Nat : n = Len(text) /\ at = off + o /\ at = x.writePos
    BY <1>0
  <1>2. PICK rest \in Nat : rest = n - o
    <2>1. n - o \in Nat
      BY <1>0
    <2> QED  BY <2>1
  <1>3. PICK m \in Nat : m = IF len <= rest THEN len ELSE rest
    BY <1>2
  <1>4. Min({rest, len}) = m
    BY <1>2, <1>3, MinOfTwo
  <1>5. PICK piece : piece = SubSeq(text, o + 1, o + m)
    OBVIOUS
  <1>6. piece \in Seq(Glyph) /\ Len(piece) = m /\ \A k \in 1..m : piece[k] = text[o + k]
    <2>1. o + 1 \in Int /\ o + m \in Int /\ o + 1 <= o + m + 1 /\ o + m - (o + 1) + 1 = m
      BY <1>1, <1>3
    <2>2. \A i \in (o + 1)..(o + m) : text[i] \in Glyph
      <3>1. \A i \in (o + 1)..(o + m) : i \in 1..Len(text)
        BY <1>1, <1>2, <1>3
      <3> QED  BY <3>1, ElementOfSeq
    <2>5. /\ piece \in Seq(Glyph) /\ Len(piece) = o + m - (o + 1) + 1
          /\ \A i \in 1..(o + m - (o + 1) + 1) : piece[i] = text[o + 1 + i - 1]
      BY <1>5, <2>1, <2>2, SliceFacts
    <2>3. /\ piece \in Seq(Glyph) /\ Len(piece) = m
          /\ \A i \in 1..m : piece[i] = text[o + 1 + i - 1]
      BY <2>1, <2>5
    <2>4. \A i \in 1..m : o + 1 + i - 1 = o + i
      BY <1>1
    <2> QED  BY <2>3, <2>4
  <1>7. PICK w : w = WriteRaw(x, piece)
    OBVIOUS
  <1>8. Wrote(x, w, at, piece, 0, m, FALSE)
    BY <1>1, <1>6, <1>7, RawWrites
  <1>9. \A i \in 0..Cells : at <= i /\ i < at + m => piece[0 + (i - at + 1)] = text[o + (i - at + 1)]
    <2> TAKE i \in 0..Cells
    <2> HAVE at <= i /\ i < at + m
    <2>1. i - at + 1 \in 1..m /\ 0 + (i - at + 1) = i - at + 1
      BY <1>1, <1>3, TerminalAssumption
    <2> QED  BY <1>6, <2>1
  <1> DEFINE all == len = End \/ len = rest
  <1>10. CASE ~all
    <2>1. WriteWrappedTextPart(x, text, o, off, len) = w
      BY <1>1, <1>2, <1>4, <1>5, <1>7, <1>10 DEF WriteWrappedTextPart
    <2>2. Wrote(x, w, at, text, o, m, FALSE)
      BY <1>8, <1>9 DEF Wrote
    <2> QED  BY <1>1, <1>2, <1>3, <1>10, <2>1, <2>2
  <1>11. CASE all
    <2>1. m = rest
      BY <1>1, <1>2, <1>3, <1>11 DEF End
    <2>2. PICK z : z = EraseFrom(w, w.writePos)
      OBVIOUS
    <2>3. w \in DisplaySet /\ w.writePos = at + m /\ w.writeLen = x.writeLen /\ w.old = x.old
      BY <1>8 DEF Wrote
    <2>4. WriteWrappedTextPart(x, text, o, off, len) = z
      <3>1. off + o + rest = w.writePos
        BY <1>1, <2>1, <2>3
      <3>2. WriteWrappedTextPart(x, text, o, off, len) = EraseFrom(w, off + o + rest)
        BY <1>1, <1>2, <1>4, <1>5, <1>7, <1>11 DEF WriteWrappedTextPart
      <3> QED  BY <2>2, <3>1, <3>2
    <2>5. /\ z \in DisplaySet /\ z.writeLen = w.writeLen /\ z.old = w.old /\ z.writePos = w.writePos
          /\ \A i \in 0..Cells :
               /\ i < w.writePos => z.screen[i] = w.screen[i]
               /\ w.writePos <= i => z.screen[i] = w.screen[i] \/ z.screen[i] = Blank
               /\ w.writePos <= i /\ i < w.writeLen => z.screen[i] = Blank
      BY <2>2, <2>3, EraseKeeps
    <2>6. Wrote(x, z, at, text, o, m, TRUE)
      <3>1. \A i \in 0..Cells :
              /\ i < at => w.screen[i] = x.screen[i]
              /\ at <= i /\ i < at + m => w.screen[i] = text[o + (i - at + 1)]
              /\ at + m <= i => w.screen[i] = x.screen[i] \/ w.screen[i] = Blank
        BY <1>8, <1>9 DEF Wrote
      <3>2. \A i \in 0..Cells : i < at => i < at + m
        BY TerminalAssumption
      <3> QED  BY <2>3, <2>5, <3>1, <3>2 DEF Wrote
    <2> QED  BY <1>1, <1>2, <1>3, <1>11, <2>4, <2>6
  <1> QED  BY <1>10, <1>11

(* The same when everything is written that is left of the text.             *)
LEMMA WholeWrites ==
  ASSUME NEW x, x \in DisplaySet, NEW text \in Seq(Glyph), NEW o \in 0..Len(text),
         NEW off \in Nat, NEW at, at = off + o, x.writePos = at,
         NEW m, m = Len(text) - o, NEW len, len = m \/ len = End, len = End => Len(text) <= End
  PROVE  Wrote(x, WriteWrappedTextPart(x, text, o, off, len), at, text, o, m, TRUE)
  <1>1. PICK n \in Nat : n = Len(text) /\ o \in 0..n
    BY LenProperties
  <1>2. m \in Nat /\ len \in Nat /\ x.writePos = off + o
    BY <1>1 DEF End
  <1>3. PICK w : w = WriteWrappedTextPart(x, text, o, off, len)
    OBVIOUS
  <1>4. PICK k \in Nat : k = IF len <= m THEN len ELSE m
    BY <1>2
  <1>5. k = m
    BY <1>1, <1>2, <1>4 DEF End
  <1>6. Wrote(x, w, off + o, text, o, k, len = End \/ len = m)
    BY <1>2, <1>3, <1>4, PartWrites
  <1>7. Wrote(x, w, at, text, o, m, TRUE)
    BY <1>5, <1>6 DEF Wrote
  <1> QED  BY <1>3, <1>7

(* The prompts and the line. *)
Text(y) == Prompt \o y.prompt \o y.line

LEMMA TextFacts ==
  ASSUME NEW y, y \in EditorSet
  PROVE  LET p == Len(Prompt)
             q == Len(y.prompt)
             n == Len(y.line)
         IN /\ p \in Nat /\ q \in Nat /\ n \in Nat
            /\ Prompt \in Seq(Glyph) /\ y.prompt \in Seq(Glyph) /\ y.line \in Seq(Glyph)
            /\ Len(Text(y)) = p + q + n
            /\ \A k \in 1..p : Text(y)[k] = Prompt[k]
            /\ \A k \in 1..q : Text(y)[p + k] = y.prompt[k]
            /\ \A k \in 1..n : Text(y)[p + q + k] = y.line[k]
  <1>1. Prompt \in Seq(Glyph) /\ y.prompt \in Seq(Glyph) /\ y.line \in Seq(Glyph)
    <2>1. y.line \in Seq(Character) /\ Character \subseteq Glyph
      BY DEF EditorSet, Glyph
    <2>2. y.line \in Seq(Glyph)
      BY <2>1, SeqMonotonic
    <2> QED  BY <2>2, TextInputAssumption DEF EditorSet
  <1>2. PICK p \in Nat, q \in Nat, n \in Nat : p = Len(Prompt) /\ q = Len(y.prompt) /\ n = Len(y.line)
    BY <1>1, LenProperties
  <1>3. PICK pq \in Seq(Glyph) : Joined(pq, Prompt, y.prompt)
    BY <1>1, ConcatFacts
  <1>4. PICK t \in Seq(Glyph) : Joined(t, pq, y.line)
    BY <1>1, ConcatFacts
  <1>5. t = Text(y)
    BY <1>3, <1>4 DEF Joined, Text
  <1>6. /\ Len(pq) = p + q
        /\ \A k \in 1..p : pq[k] = Prompt[k]
        /\ \A k \in 1..q : pq[p + k] = y.prompt[k]
    BY <1>2, <1>3 DEF Joined
  <1>7. /\ Len(t) = p + q + n
        /\ \A k \in 1..(p + q) : t[k] = pq[k]
        /\ \A k \in 1..n : t[p + q + k] = y.line[k]
    BY <1>2, <1>4, <1>6 DEF Joined
  <1>8. \A k \in 1..p : t[k] = Prompt[k]
    BY <1>6, <1>7
  <1>9. \A k \in 1..q : t[p + k] = y.prompt[k]
    <2>1. \A k \in 1..q : p + k \in 1..(p + q)
      OBVIOUS
    <2> QED  BY <1>6, <1>7, <2>1
  <1> QED  BY <1>1, <1>2, <1>5, <1>7, <1>8, <1>9

LEMMA MoveFacts ==
  ASSUME NEW x, x \in DisplaySet, NEW to \in Nat
  PROVE  LET z == Move(x, to)
         IN /\ z \in DisplaySet /\ z.writePos = to /\ z.screen = x.screen
            /\ z.writeLen = x.writeLen /\ z.old = x.old
  <1>1. PICK z : z = [x EXCEPT !.writePos = to]
    OBVIOUS
  <1>2. z \in DisplaySet
    BY <1>1 DEF DisplaySet
  <1>3. z.writePos = to /\ z.screen = x.screen /\ z.writeLen = x.writeLen /\ z.old = x.old
    BY <1>1 DEF DisplaySet
  <1>4. Move(x, to) = z
    BY <1>1 DEF Move
  <1> QED  BY <1>2, <1>3, <1>4

LEMMA WriteLenFacts ==
  ASSUME NEW x, x \in DisplaySet, NEW n \in Nat, NEW z, z = [x EXCEPT !.writeLen = n]
  PROVE  /\ z \in DisplaySet /\ z.writePos = x.writePos /\ z.screen = x.screen
         /\ z.writeLen = n /\ z.old = x.old
  <1>1. z \in DisplaySet
    BY DEF DisplaySet
  <1> QED  BY <1>1 DEF DisplaySet

(* A prompt that has changed: it is written with the line behind it.         *)
LEMMA FullWrite ==
  ASSUME NEW x, x \in DisplaySet, NEW y, y \in EditorSet, Len(y.line) <= MaxLine,
         NEW r, r.prompts # {}
  PROVE  LET z == WriteWrapped(x, y, Prompt, r)
         IN /\ z \in DisplaySet /\ z.old = x.old /\ z.writeLen = Len(Text(y))
            /\ \A i \in 0..Cells :
                 /\ i < Len(Prompt) => z.screen[i] = IF "prompt" \in r.prompts THEN Text(y)[i + 1]
                                                     ELSE x.screen[i]
                 /\ Len(Prompt) <= i /\ i < Len(Text(y)) => z.screen[i] = Text(y)[i + 1]
                 /\ Len(Text(y)) <= i => \/ z.screen[i] = Blank
                                         \/ z.screen[i] = x.screen[i] /\ x.writeLen <= i
  <1>1. PICK p \in Nat, q \in Nat, n \in Nat : p = Len(Prompt) /\ q = Len(y.prompt) /\ n = Len(y.line)
    BY TextFacts
  <1>2. Prompt \in Seq(Glyph) /\ y.prompt \in Seq(Glyph) /\ y.line \in Seq(Glyph)
    BY TextFacts
  <1>16. n <= End
    BY <1>1, TextInputAssumption DEF End
  <1>3. PICK t : t = Text(y)
    OBVIOUS
  <1>4. /\ Len(t) = p + q + n
        /\ \A k \in 1..p : t[k] = Prompt[k]
        /\ \A k \in 1..q : t[p + k] = y.prompt[k]
        /\ \A k \in 1..n : t[p + q + k] = y.line[k]
    BY <1>1, <1>3, TextFacts
  <1>5. PICK W \in Nat : W = x.writeLen
    BY DEF DisplaySet
  <1>6. PICK d1 : d1 = IF "prompt" \in r.prompts
                       THEN WriteWrappedTextPart(Move(x, 0), Prompt, 0, 0, p) ELSE x
    OBVIOUS
  <1>7. PICK d2 : d2 = IF q > 0
                       THEN WriteWrappedTextPart(Move(d1, p), y.prompt, 0, p, q) ELSE d1
    OBVIOUS
  <1>8. PICK d3 : d3 = WriteWrappedTextPart(Move(d2, p + q), y.line, 0, p + q, End)
    OBVIOUS
  <1>9. PICK z : z = [d3 EXCEPT !.writeLen = p + q + n]
    OBVIOUS
  <1>10. WriteWrapped(x, y, Prompt, r) = z
    <2>1. p + q + 0 = p + q
      OBVIOUS
    <2> QED  BY <1>1, <1>6, <1>7, <1>8, <1>9, <2>1 DEF WriteWrapped
  <1>11. /\ d1 \in DisplaySet /\ d1.writeLen = W /\ d1.old = x.old
         /\ \A i \in 0..Cells :
              /\ i < p => d1.screen[i] = IF "prompt" \in r.prompts THEN Prompt[i + 1] ELSE x.screen[i]
              /\ p <= i => d1.screen[i] = x.screen[i] \/ d1.screen[i] = Blank
    <2>1. CASE "prompt" \in r.prompts
      <3>1. PICK f : f = Move(x, 0)
        OBVIOUS
      <3>2. /\ f \in DisplaySet /\ f.writePos = 0 /\ f.screen = x.screen
            /\ f.writeLen = W /\ f.old = x.old
        BY <1>5, <3>1, MoveFacts
      <3>3. Wrote(f, WriteWrappedTextPart(f, Prompt, 0, 0, p), 0, Prompt, 0, p, TRUE)
        <4>1. 0 \in 0..Len(Prompt) /\ p = Len(Prompt) - 0 /\ 0 = 0 + 0 /\ (p = End => Len(Prompt) <= End)
          <5>1. p <= p /\ 0 \in 0..p /\ p = p - 0
            OBVIOUS
          <5> QED  BY <1>1, <5>1
        <4>2. f.writePos = 0 /\ f \in DisplaySet
          BY <3>2
        <4>3. PICK o \in Nat : o = 0 /\ o = o + o
          OBVIOUS
        <4>4. o \in 0..Len(Prompt) /\ p = Len(Prompt) - o /\ f.writePos = o
          BY <4>1, <4>2, <4>3
        <4>5. Wrote(f, WriteWrappedTextPart(f, Prompt, o, o, p), o, Prompt, o, p, TRUE)
          BY <1>2, <4>1, <4>2, <4>3, <4>4, WholeWrites
        <4> QED  BY <4>3, <4>5
      <3>4. Wrote(f, d1, 0, Prompt, 0, p, TRUE)
        BY <1>6, <2>1, <3>1, <3>3
      <3>5. \A i \in 0..Cells : i < p => 0 <= i /\ i < 0 + p /\ 0 + (i - 0 + 1) = i + 1
        BY TerminalAssumption
      <3>6. \A i \in 0..Cells : p <= i => 0 + p <= i
        BY TerminalAssumption
      <3> QED  BY <2>1, <3>2, <3>4, <3>5, <3>6 DEF Wrote
    <2>2. CASE "prompt" \notin r.prompts
      BY <1>5, <1>6, <2>2
    <2> QED  BY <2>1, <2>2
  <1>12. /\ d2 \in DisplaySet /\ d2.writeLen = W /\ d2.old = x.old
         /\ \A i \in 0..Cells :
              /\ i < p => d2.screen[i] = d1.screen[i]
              /\ p <= i /\ i < p + q => d2.screen[i] = y.prompt[i - p + 1]
              /\ p + q <= i => d2.screen[i] = x.screen[i] \/ d2.screen[i] = Blank
    <2>1. CASE q > 0
      <3>1. PICK f : f = Move(d1, p)
        OBVIOUS
      <3>2. /\ f \in DisplaySet /\ f.writePos = p /\ f.screen = d1.screen
            /\ f.writeLen = W /\ f.old = x.old
        BY <1>11, <3>1, MoveFacts
      <3>3. Wrote(f, WriteWrappedTextPart(f, y.prompt, 0, p, q), p, y.prompt, 0, q, TRUE)
        <4>1. 0 \in 0..Len(y.prompt) /\ q = Len(y.prompt) - 0 /\ p = p + 0 /\ (q = End => Len(y.prompt) <= End)
          <5>1. q <= q /\ 0 \in 0..q /\ q = q - 0 /\ p = p + 0
            OBVIOUS
          <5> QED  BY <1>1, <5>1
        <4> QED  BY <1>2, <3>2, <4>1, WholeWrites
      <3>4. Wrote(f, d2, p, y.prompt, 0, q, TRUE)
        BY <1>7, <2>1, <3>1, <3>3
      <3>5. \A i \in 0..Cells : 0 + (i - p + 1) = i - p + 1 /\ (p + q <= i => p <= i)
        BY TerminalAssumption
      <3> QED  BY <1>11, <3>2, <3>4, <3>5 DEF Wrote
    <2>2. CASE ~(q > 0)
      <3>1. q = 0 /\ \A i \in 0..Cells : ~(p <= i /\ i < p + q) /\ (p + q <= i => p <= i)
        BY <2>2
      <3> QED  BY <1>7, <1>11, <2>2, <3>1
    <2> QED  BY <2>1, <2>2
  <1>17. PICK pq \in Nat : pq = p + q
    OBVIOUS
  <1>13. /\ d3 \in DisplaySet /\ d3.old = x.old
         /\ \A i \in 0..Cells :
              /\ i < pq => d3.screen[i] = d2.screen[i]
              /\ pq <= i /\ i < pq + n => d3.screen[i] = y.line[i - pq + 1]
              /\ pq + n <= i => d3.screen[i] = d2.screen[i] \/ d3.screen[i] = Blank
              /\ pq + n <= i /\ i < W => d3.screen[i] = Blank
    <2>2. PICK f : f = Move(d2, pq)
      OBVIOUS
    <2>3. /\ f \in DisplaySet /\ f.writePos = pq /\ f.screen = d2.screen
          /\ f.writeLen = W /\ f.old = x.old
      BY <1>12, <2>2, MoveFacts
    <2>4. Wrote(f, WriteWrappedTextPart(f, y.line, 0, pq, End), pq, y.line, 0, n, TRUE)
      <3>1. 0 \in 0..Len(y.line) /\ n = Len(y.line) - 0 /\ pq = pq + 0 /\ Len(y.line) <= End
        BY <1>1, <1>16
      <3> QED  BY <1>2, <2>3, <3>1, WholeWrites
    <2>5. Wrote(f, d3, pq, y.line, 0, n, TRUE)
      BY <1>8, <1>17, <2>2, <2>4
    <2>6. \A i \in 0..Cells : pq <= i /\ i < pq + n => d3.screen[i] = y.line[0 + (i - pq + 1)]
      BY <2>3, <2>5 DEF Wrote
    <2>7. \A i \in 0..Cells : 0 + (i - pq + 1) = i - pq + 1
      BY TerminalAssumption
    <2>8. \A i \in 0..Cells : pq <= i /\ i < pq + n => d3.screen[i] = y.line[i - pq + 1]
      BY <2>6, <2>7
    <2>9. d3 \in DisplaySet /\ d3.old = x.old
      BY <2>3, <2>5 DEF Wrote
    <2>10. \A i \in 0..Cells :
             /\ i < pq => d3.screen[i] = d2.screen[i]
             /\ pq + n <= i => d3.screen[i] = d2.screen[i] \/ d3.screen[i] = Blank
             /\ pq + n <= i /\ i < W => d3.screen[i] = Blank
      BY <2>3, <2>5 DEF Wrote
    <2> QED  BY <2>8, <2>9, <2>10
  <1>14. /\ z \in DisplaySet /\ z.screen = d3.screen /\ z.writeLen = p + q + n /\ z.old = x.old
    <2>1. PICK k \in Nat : k = p + q + n
      OBVIOUS
    <2>2. z \in DisplaySet /\ z.screen = d3.screen /\ z.writeLen = k /\ z.old = d3.old
      BY <1>9, <1>13, <2>1, WriteLenFacts
    <2> QED  BY <1>13, <2>1, <2>2
  <1>15. ASSUME NEW i \in 0..Cells
         PROVE  /\ i < p => d3.screen[i] = IF "prompt" \in r.prompts THEN t[i + 1] ELSE x.screen[i]
                /\ p <= i /\ i < p + q + n => d3.screen[i] = t[i + 1]
                /\ p + q + n <= i => d3.screen[i] = Blank \/ (d3.screen[i] = x.screen[i] /\ W <= i)
    <2>0. i \in Nat
      BY TerminalAssumption
    <2>1. CASE i < p
      <3>1. i + 1 \in 1..p /\ i < pq /\ ~(p <= i) /\ ~(p + q + n <= i)
        BY <1>17, <2>0, <2>1
      <3> QED  BY <1>4, <1>11, <1>12, <1>13, <2>1, <3>1
    <2>2. CASE p <= i /\ i < p + q
      <3>1. i - p + 1 \in 1..q /\ p + (i - p + 1) = i + 1 /\ i < pq /\ ~(i < p) /\ ~(p + q + n <= i)
        BY <1>17, <2>0, <2>2
      <3> QED  BY <1>4, <1>12, <1>13, <2>2, <3>1
    <2>3. CASE p + q <= i /\ i < p + q + n
      <3>1. /\ i - pq + 1 \in 1..n /\ p + q + (i - pq + 1) = i + 1 /\ ~(i < p) /\ ~(p + q + n <= i)
            /\ pq <= i /\ i < pq + n
        BY <1>17, <2>0, <2>3
      <3> QED  BY <1>4, <1>13, <2>3, <3>1
    <2>4. CASE p + q + n <= i
      <3>1. ~(i < p) /\ ~(i < p + q + n) /\ p + q <= i /\ pq + n <= i /\ (i < W \/ W <= i)
        BY <1>17, <2>0, <2>4
      <3> QED  BY <1>12, <1>13, <2>4, <3>1
    <2> QED  BY <2>0, <2>1, <2>2, <2>3, <2>4
  <1> QED  BY <1>1, <1>3, <1>4, <1>5, <1>10, <1>14, <1>15

(* The terminal shows the text and, behind it, nothing but what an earlier   *)
(* line has left.                                                            *)
Shows(z, y) ==
  /\ z \in DisplaySet /\ z.writeLen = Len(Text(y))
  /\ \A i \in 0..Cells :
       /\ i < Len(Text(y)) => z.screen[i] = Text(y)[i + 1] \/ (z.screen[i] = Blank /\ i % Width = 0)
       /\ Len(Text(y)) <= i => z.screen[i] = Blank \/ i \in z.old

LEMMA FullShows ==
  ASSUME NEW x, x \in DisplaySet, NEW y, y \in EditorSet, Len(y.line) <= MaxLine,
         NEW r, r.prompts # {},
         \A i \in 0..Cells :
           /\ i < Len(Prompt) /\ "prompt" \notin r.prompts =>
                x.screen[i] = Prompt[i + 1] \/ (x.screen[i] = Blank /\ i % Width = 0)
           /\ x.writeLen <= i => x.screen[i] = Blank \/ i \in x.old
  PROVE  Shows(WriteWrapped(x, y, Prompt, r), y)
  <1>1. PICK z : z = WriteWrapped(x, y, Prompt, r)
    OBVIOUS
  <1>2. PICK t : t = Text(y)
    OBVIOUS
  <1>3. PICK p \in Nat, n \in Nat : p = Len(Prompt) /\ n = Len(t) /\ p <= n
            /\ \A k \in 1..p : t[k] = Prompt[k]
    <2>1. PICK p \in Nat, q \in Nat, m \in Nat : p = Len(Prompt) /\ q = Len(y.prompt) /\ m = Len(y.line)
      BY TextFacts
    <2>2. Len(t) = p + q + m /\ \A k \in 1..p : t[k] = Prompt[k]
      BY <1>2, <2>1, TextFacts
    <2>3. PICK n \in Nat : n = p + q + m /\ p <= n
      OBVIOUS
    <2> QED  BY <2>1, <2>2, <2>3
  <1>4. /\ z \in DisplaySet /\ z.old = x.old /\ z.writeLen = n
        /\ \A i \in 0..Cells :
             /\ i < p => z.screen[i] = IF "prompt" \in r.prompts THEN t[i + 1] ELSE x.screen[i]
             /\ p <= i /\ i < n => z.screen[i] = t[i + 1]
             /\ n <= i => \/ z.screen[i] = Blank
                          \/ z.screen[i] = x.screen[i] /\ x.writeLen <= i
    <2>1. /\ z \in DisplaySet /\ z.old = x.old /\ z.writeLen = Len(Text(y))
          /\ \A i \in 0..Cells :
               /\ i < Len(Prompt) => z.screen[i] = IF "prompt" \in r.prompts THEN Text(y)[i + 1]
                                                   ELSE x.screen[i]
               /\ Len(Prompt) <= i /\ i < Len(Text(y)) => z.screen[i] = Text(y)[i + 1]
               /\ Len(Text(y)) <= i => \/ z.screen[i] = Blank
                                       \/ z.screen[i] = x.screen[i] /\ x.writeLen <= i
      BY <1>1, FullWrite
    <2> QED  BY ONLY <2>1, <1>2, <1>3
  <1>5. ASSUME NEW i \in 0..Cells
        PROVE  /\ i < n => z.screen[i] = t[i + 1] \/ (z.screen[i] = Blank /\ i % Width = 0)
               /\ n <= i => z.screen[i] = Blank \/ i \in z.old
    <2>0. i \in Nat
      BY TerminalAssumption
    <2>1. CASE i < p
      <3>1. i + 1 \in 1..p /\ ~(n <= i)
        BY <1>3, <2>0, <2>1
      <3> QED  BY <1>3, <1>4, <2>1, <3>1
    <2>2. CASE p <= i /\ i < n
      <3>1. ~(n <= i)
        BY <2>0, <2>2
      <3> QED  BY <1>4, <2>2, <3>1
    <2>3. CASE n <= i
      <3>1. ~(i < n)
        BY <2>0, <2>3
      <3> QED  BY <1>4, <2>3, <3>1
    <2> QED  BY <2>0, <2>1, <2>2, <2>3
  <1> QED  BY <1>1, <1>2, <1>3, <1>4, <1>5 DEF Shows

(* A part of the line that has changed.                                      *)
LEMMA PartShows ==
  ASSUME NEW w, w \in EditorSet, NEW y, y \in EditorSet, y.prompt = w.prompt,
         NEW x, Shows(x, w), Len(y.line) <= MaxLine,
         NEW r, ProperRange(r), r.prompts = {}, r.start <= Len(y.line),
         Changes(w.line, y.line, r)
  PROVE  Shows(WriteWrapped(x, y, Prompt, r), y)
  <1>1. PICK p \in Nat, q \in Nat, n \in Nat, m \in Nat :
          p = Len(Prompt) /\ q = Len(y.prompt) /\ n = Len(y.line) /\ m = Len(w.line)
    BY TextFacts
  <1>2. PICK pq \in Nat : pq = p + q
    OBVIOUS
  <1>3. PICK t, u : t = Text(y) /\ u = Text(w)
    OBVIOUS
  <1>4. /\ y.line \in Seq(Glyph) /\ Len(t) = p + q + n /\ Len(u) = p + q + m
        /\ \A k \in 1..p : t[k] = u[k]
        /\ \A k \in 1..q : t[p + k] = u[p + k]
        /\ \A k \in 1..n : t[p + q + k] = y.line[k]
        /\ \A k \in 1..m : u[p + q + k] = w.line[k]
    <2>1. /\ y.line \in Seq(Glyph) /\ Len(t) = p + q + n
          /\ \A k \in 1..p : t[k] = Prompt[k]
          /\ \A k \in 1..q : t[p + k] = y.prompt[k]
          /\ \A k \in 1..n : t[p + q + k] = y.line[k]
      BY <1>1, <1>3, TextFacts
    <2>2. /\ Len(u) = p + q + m
          /\ \A k \in 1..p : u[k] = Prompt[k]
          /\ \A k \in 1..q : u[p + k] = y.prompt[k]
          /\ \A k \in 1..m : u[p + q + k] = w.line[k]
      <3>1. p = Len(Prompt) /\ q = Len(w.prompt) /\ m = Len(w.line) /\ w.prompt = y.prompt
        BY <1>1
      <3>2. /\ Len(u) = p + q + m
            /\ \A k \in 1..p : u[k] = Prompt[k]
            /\ \A k \in 1..q : u[p + k] = w.prompt[k]
            /\ \A k \in 1..m : u[p + q + k] = w.line[k]
        BY <1>3, <3>1, TextFacts
      <3> QED  BY <3>1, <3>2
    <2> QED  BY <2>1, <2>2
  <1>5. /\ Len(t) = pq + n /\ Len(u) = pq + m
        /\ \A k \in 1..pq : t[k] = u[k]
        /\ \A k \in 1..n : t[pq + k] = y.line[k]
        /\ \A k \in 1..m : u[pq + k] = w.line[k]
    <2>1. ASSUME NEW k \in 1..pq PROVE t[k] = u[k]
      <3>1. CASE k <= p
        BY <1>4, <3>1
      <3>2. CASE k > p
        <4>1. PICK j \in 1..q : j = k - p
          BY <1>2, <3>2
        <4>2. p + j = k
          BY <4>1
        <4> QED  BY <1>4, <4>2
      <3> QED  BY <3>1, <3>2
    <2> QED  BY <1>2, <1>4, <2>1
  <1>6. PICK s \in Nat : s = r.start /\ s <= n
    BY <1>1 DEF ProperRange, RangeSet
  <1>7. r.end \in Nat /\ s < End /\ s <= r.end /\ r.end <= End
    BY <1>6 DEF ProperRange, RangeSet
  <1>8. PICK len \in Nat : len = IF r.end = End THEN End ELSE r.end - s
    BY <1>7 DEF End
  <1>9. PICK at \in Nat : at = pq + s
    OBVIOUS
  <1>10. PICK f : f = Move(x, at)
    OBVIOUS
  <1>11. PICK g : g = WriteWrappedTextPart(f, y.line, s, pq, len)
    OBVIOUS
  <1>12. PICK z : z = [g EXCEPT !.writeLen = p + q + n]
    OBVIOUS
  <1>13. WriteWrapped(x, y, Prompt, r) = z
    <2>1. ~("prompt" \in r.prompts) /\ ~(r.prompts # {})
      OBVIOUS
    <2>2. p + q + s = at
      BY <1>2, <1>9
    <2> QED  BY <1>1, <1>2, <1>6, <1>8, <1>10, <1>11, <1>12, <2>1, <2>2 DEF WriteWrapped
  <1>14. /\ x \in DisplaySet /\ x.writeLen = pq + m
         /\ \A i \in 0..Cells :
              /\ i < pq + m => x.screen[i] = u[i + 1] \/ (x.screen[i] = Blank /\ i % Width = 0)
              /\ pq + m <= i => x.screen[i] = Blank \/ i \in x.old
    BY <1>3, <1>5 DEF Shows
  <1>15. /\ f \in DisplaySet /\ f.writePos = at /\ f.screen = x.screen
         /\ f.writeLen = pq + m /\ f.old = x.old
    BY <1>10, <1>14, MoveFacts
  <1>16. PICK rest \in Nat : rest = n - s
    BY <1>6
  <1>17. PICK k \in Nat : k = IF len <= rest THEN len ELSE rest
    OBVIOUS
  <1>24. at + rest = pq + n /\ s + rest = n /\ k <= rest
    BY <1>6, <1>9, <1>16, <1>17
  <1> DEFINE all == len = End \/ len = rest
  <1>18. Wrote(f, g, at, y.line, s, k, all)
    <2>1. s \in 0..Len(y.line) /\ f.writePos = pq + s /\ rest = Len(y.line) - s
      BY <1>1, <1>6, <1>9, <1>15, <1>16
    <2>2. len = End => Len(y.line) <= End
      BY <1>1, TextInputAssumption DEF End
    <2>3. Wrote(f, g, pq + s, y.line, s, k, all)
      <3>1. PICK ln \in Seq(Glyph) : ln = y.line
        BY <1>4
      <3>2. s \in 0..Len(ln) /\ rest = Len(ln) - s /\ (len = End => Len(ln) <= End)
        BY <2>1, <2>2, <3>1
      <3>3. g = WriteWrappedTextPart(f, ln, s, pq, len)
        BY <1>11, <3>1
      <3>4. Wrote(f, g, pq + s, ln, s, k, len = End \/ len = rest)
        <4>1. f \in DisplaySet /\ f.writePos = pq + s
          BY <1>15, <2>1
        <4> QED  BY ONLY <1>17, <3>2, <3>3, <4>1, PartWrites, s \in Nat, pq \in Nat, len \in Nat, ln \in Seq(Glyph)
      <3> QED  BY <3>1, <3>4
    <2> QED  BY <1>9, <2>3
  <1>19. /\ g \in DisplaySet /\ g.old = x.old
         /\ \A i \in 0..Cells :
              /\ i < at => g.screen[i] = x.screen[i]
              /\ at <= i /\ i < at + k => g.screen[i] = y.line[s + (i - at + 1)]
              /\ at + k <= i => g.screen[i] = x.screen[i] \/ g.screen[i] = Blank
              /\ at + k <= i /\ ~all /\ i % Width # 0 => g.screen[i] = x.screen[i]
              /\ at + k <= i /\ all /\ i < pq + m => g.screen[i] = Blank
    BY <1>15, <1>18 DEF Wrote
  <1>20. z \in DisplaySet /\ z.screen = g.screen /\ z.writeLen = pq + n /\ z.old = x.old
    <2>1. PICK j \in Nat : j = p + q + n
      OBVIOUS
    <2>2. z \in DisplaySet /\ z.screen = g.screen /\ z.writeLen = j /\ z.old = g.old
      BY <1>12, <1>19, <2>1, WriteLenFacts
    <2> QED  BY <1>2, <1>19, <2>1, <2>2
  (* What has not changed is shown already. *)
  <1>21. ASSUME NEW i \in 0..Cells, i < pq + n, ~(pq <= i /\ InRange(r, i - pq))
         PROVE  i < pq + m /\ t[i + 1] = u[i + 1]
    <2>0. i \in Nat
      BY TerminalAssumption
    <2>1. CASE i < pq
      <3>1. i + 1 \in 1..pq /\ i < pq + m
        BY <2>0, <2>1
      <3> QED  BY <1>5, <3>1
    <2>2. CASE pq <= i
      <3>1. PICK j \in 1..n : j = i - pq + 1
        BY <1>21, <2>0, <2>2
      <3>2. ~InRange(r, j - 1) /\ pq + j = i + 1
        <4>1. j - 1 = i - pq /\ pq + j = i + 1
          BY <2>0, <3>1
        <4> QED  BY <1>21, <2>2, <4>1
      <3>3. j <= m /\ y.line[j] = w.line[j]
        BY <1>1, <3>2 DEF Changes
      <3>4. j \in 1..m /\ i < pq + m
        BY <2>0, <3>2, <3>3
      <3> QED  BY <1>5, <3>2, <3>3, <3>4
    <2> QED  BY <2>0, <2>1, <2>2
  <1>22. r.end # End => m <= n
    BY <1>1 DEF Changes
  <1>23. ASSUME NEW i \in 0..Cells
         PROVE  /\ i < pq + n => g.screen[i] = t[i + 1] \/ (g.screen[i] = Blank /\ i % Width = 0)
                /\ pq + n <= i => g.screen[i] = Blank \/ i \in x.old
    <2>0. i \in Nat
      BY TerminalAssumption
    <2>1. CASE i < at
      <3>1. i < pq + n /\ ~(pq + n <= i)
        BY <1>6, <1>9, <2>0, <2>1
      <3>2. ~(pq <= i /\ InRange(r, i - pq))
        BY <1>6, <1>9, <2>0, <2>1 DEF InRange
      <3>3. i < pq + m /\ t[i + 1] = u[i + 1]
        BY <1>21, <3>1, <3>2
      <3> QED  BY <1>14, <1>19, <2>1, <3>1, <3>3
    <2>2. CASE at <= i /\ i < at + k
      <3>1. PICK j \in 1..n : j = i - pq + 1
        <4>1. i - pq + 1 \in Int /\ i - pq + 1 >= 1 /\ i - pq + 1 <= n
          BY <1>9, <1>24, <2>0, <2>2
        <4>2. i - pq + 1 \in 1..n
          BY <4>1
        <4> QED  BY <4>2
      <3>2. s + (i - at + 1) = j /\ pq + j = i + 1 /\ ~(pq + n <= i)
        BY <1>9, <2>0, <3>1
      <3>3. g.screen[i] = y.line[s + (i - at + 1)]
        BY <1>19, <2>2
      <3>4. t[pq + j] = y.line[j]
        BY <1>5, <3>1
      <3> QED  BY <3>2, <3>3, <3>4
    <2>3. CASE at + k <= i /\ all
      <3>1. k = rest
        BY <1>1, <1>16, <1>17, <2>3, TextInputAssumption DEF End
      <3>2. ~(i < pq + n) /\ (i < pq + m \/ pq + m <= i)
        BY <1>24, <2>0, <2>3, <3>1
      <3>3. i < pq + m => g.screen[i] = Blank
        BY <1>19, <2>3
      <3>4. pq + m <= i => g.screen[i] = Blank \/ i \in x.old
        BY <1>14, <1>19, <2>3
      <3> QED  BY <3>2, <3>3, <3>4
    <2>4. CASE at + k <= i /\ ~all
      <3>1. r.end # End /\ m <= n /\ len = r.end - s
        BY <1>8, <1>22, <2>4
      <3>2. g.screen[i] = x.screen[i] \/ (g.screen[i] = Blank /\ i % Width = 0)
        BY <1>19, <2>4
      <3>3. ASSUME i < pq + n PROVE g.screen[i] = t[i + 1] \/ (g.screen[i] = Blank /\ i % Width = 0)
        <4>1. k = len /\ len < rest
          BY <1>17, <1>24, <2>0, <2>4, <3>3
        <4>2. ~(i - pq < r.end)
          <5>1. PICK c \in Nat : c = r.end
            BY <1>7
          <5>2. len = c - s /\ at + len <= i /\ at = pq + s
            BY <1>9, <2>4, <3>1, <4>1, <5>1
          <5>3. pq + c <= i
            BY <2>0, <5>2
          <5>4. ~(i - pq < c)
            BY <2>0, <5>3
          <5> QED  BY <5>1, <5>4
        <4>3. ~(pq <= i /\ InRange(r, i - pq))
          BY <3>1, <4>2 DEF InRange
        <4>4. i < pq + m /\ t[i + 1] = u[i + 1]
          BY <1>21, <3>3, <4>3
        <4> QED  BY <1>14, <3>2, <4>4
      <3>4. ASSUME pq + n <= i PROVE g.screen[i] = Blank \/ i \in x.old
        <4>1. pq + m <= i
          BY <2>0, <3>1, <3>4
        <4> QED  BY <1>14, <3>2, <4>1
      <3> QED  BY <3>3, <3>4
    <2> QED  BY <1>9, <2>0, <2>1, <2>2, <2>3, <2>4
  <1> QED  BY <1>3, <1>5, <1>13, <1>20, <1>23 DEF Shows

LEMMA MoveShows ==
  ASSUME NEW y, NEW x, Shows(x, y), NEW to \in Nat
  PROVE  Shows(Move(x, to), y) /\ Move(x, to).writePos = to
  <1>1. PICK z : z = Move(x, to)
    OBVIOUS
  <1>2. x \in DisplaySet
    BY DEF Shows
  <1>3. /\ z \in DisplaySet /\ z.writePos = to /\ z.screen = x.screen
        /\ z.writeLen = x.writeLen /\ z.old = x.old
    BY <1>1, <1>2, MoveFacts
  <1>4. Shows(z, y)
    BY <1>3 DEF Shows
  <1> QED  BY <1>1, <1>3, <1>4

LEMMA CursorCellFacts ==
  ASSUME NEW y, y \in EditorSet
  PROVE  CursorCell(y, Prompt) \in Nat
  <1>1. PICK p \in Nat, q \in Nat, c \in Nat : p = Len(Prompt) /\ q = Len(y.prompt) /\ c = y.cursor
    BY TextFacts DEF EditorSet
  <1> QED  BY <1>1 DEF CursorCell

(* What the code shows after a change, when it has shown the line before.    *)
LEMMA DisplayKeeps ==
  ASSUME NEW w, w \in EditorSet, NEW y, y \in EditorSet, Covered(w, y), Len(y.line) <= MaxLine,
         NEW x, Shows(x, w)
  PROVE  LET z == DisplayNewInput(x, y, Prompt)
         IN Shows(z, y) /\ z.writePos = CursorCell(y, Prompt)
  <1>1. PICK to \in Nat : to = CursorCell(y, Prompt)
    BY CursorCellFacts
  <1>2. PICK z : z = IF IsEmpty(y.R) THEN x ELSE WriteWrapped(x, y, Prompt, y.R)
    OBVIOUS
  <1>3. Shows(z, y)
    <2>1. CASE y.R.prompts # {}
      <3>1. ~IsEmpty(y.R)
        BY <2>1 DEF IsEmpty
      <3>2. x \in DisplaySet
        BY DEF Shows
      <3>3. ASSUME NEW i \in 0..Cells
            PROVE  /\ i < Len(Prompt) /\ "prompt" \notin y.R.prompts =>
                        x.screen[i] = Prompt[i + 1] \/ (x.screen[i] = Blank /\ i % Width = 0)
                   /\ x.writeLen <= i => x.screen[i] = Blank \/ i \in x.old
        <4>1. PICK p \in Nat, q \in Nat, m \in Nat :
                p = Len(Prompt) /\ q = Len(w.prompt) /\ m = Len(w.line)
          BY TextFacts
        <4>2. PICK u : u = Text(w) /\ Len(u) = p + q + m /\ \A k \in 1..p : u[k] = Prompt[k]
          BY <4>1, TextFacts
        <4>3. i < p => i < p + q + m /\ i + 1 \in 1..p
          BY TerminalAssumption
        <4>4. /\ x.writeLen = p + q + m
              /\ i < p + q + m => x.screen[i] = u[i + 1] \/ (x.screen[i] = Blank /\ i % Width = 0)
              /\ p + q + m <= i => x.screen[i] = Blank \/ i \in x.old
          BY <4>2 DEF Shows
        <4> QED  BY <4>1, <4>2, <4>3, <4>4
      <3>4. PICK r : r = y.R
        OBVIOUS
      <3>5. Shows(WriteWrapped(x, y, Prompt, r), y)
        BY <2>1, <3>2, <3>3, <3>4, FullShows
      <3> QED  BY <1>2, <3>1, <3>4, <3>5
    <2>2. CASE y.R.prompts = {} /\ ~IsEmpty(y.R)
      <3>1. PICK r : r = y.R
        OBVIOUS
      <3>2. /\ ProperRange(r) /\ r.prompts = {} /\ r.start <= Len(y.line)
            /\ Changes(w.line, y.line, r) /\ y.prompt = w.prompt
        BY <2>2, <3>1 DEF Covered
      <3>3. Shows(WriteWrapped(x, y, Prompt, r), y)
        BY <3>2, PartShows
      <3> QED  BY <1>2, <2>2, <3>1, <3>3
    <2>3. CASE IsEmpty(y.R)
      <3>1. y.R.prompts = {} /\ y.R.start = y.R.end
        BY <2>3 DEF IsEmpty
      <3>2. y.prompt = w.prompt
        BY <3>1 DEF Covered
      <3>3. y.R.start \in Nat /\ y.R.start < End /\ y.R.end # End
        BY <3>1 DEF Covered, ProperRange, RangeSet, End
      <3>4. \A i \in Nat : ~InRange(y.R, i)
        BY <3>1, <3>3 DEF InRange
      <3>5. y.line = w.line
        <4>1. PICK l \in Seq(Character), k \in Seq(Character) : l = y.line /\ k = w.line
          BY DEF EditorSet
        <4>2. PICK n \in Nat, m \in Nat : n = Len(l) /\ m = Len(k)
          BY LenProperties
        <4>3. \A i \in 1..n : i <= m /\ l[i] = k[i]
          <5>1. \A i \in 1..n : i - 1 \in Nat
            OBVIOUS
          <5> QED  BY <3>4, <4>1, <4>2, <5>1 DEF Covered, Changes
        <4>4. ~(n < m)
          BY <3>3, <4>1, <4>2 DEF Covered, Changes
        <4>5. n = m
          <5>1. n >= 1 => n <= m
            BY <4>3
          <5> QED  BY <4>4, <5>1
        <4> QED  BY <4>1, <4>2, <4>3, <4>5, SeqEqual
      <3>6. Text(y) = Text(w)
        BY <3>2, <3>5 DEF Text
      <3> QED  BY <1>2, <2>3, <3>6 DEF Shows
    <2> QED  BY <2>1, <2>2, <2>3
  <1>4. DisplayNewInput(x, y, Prompt) = Move(z, to)
    BY <1>1, <1>2 DEF DisplayNewInput
  <1>5. Shows(Move(z, to), y) /\ Move(z, to).writePos = to
    BY <1>3, MoveShows
  <1> QED  BY <1>1, <1>4, <1>5

(* When nothing has been shown: behind what the terminal says was written,   *)
(* there is nothing.                                                         *)
Clean(x) ==
  x \in DisplaySet /\ \A i \in 0..Cells : x.writeLen <= i => x.screen[i] = Blank \/ i \in x.old

LEMMA NotifyShows ==
  ASSUME NEW x, Clean(x), NEW y, y \in EditorSet, Len(y.line) <= MaxLine
  PROVE  LET z == NotifyTextChange(x, y, Prompt, AllWithPrompt)
         IN Shows(z, y) /\ z.writePos = CursorCell(y, Prompt)
  <1>1. PICK to \in Nat : to = CursorCell(y, Prompt)
    BY CursorCellFacts
  <1>2. PICK r : r = AllWithPrompt /\ r.prompts # {} /\ "prompt" \in r.prompts
    BY AllWithPromptFacts
  <1>3. PICK z : z = WriteWrapped(x, y, Prompt, r)
    OBVIOUS
  <1>4. Shows(z, y)
    BY <1>2, <1>3, FullShows DEF Clean
  <1>5. NotifyTextChange(x, y, Prompt, AllWithPrompt) = Move(z, to)
    BY <1>1, <1>2, <1>3 DEF NotifyTextChange
  <1>6. Shows(Move(z, to), y) /\ Move(z, to).writePos = to
    BY <1>4, MoveShows
  <1> QED  BY <1>1, <1>5, <1>6

LEMMA CleanBehind ==
  ASSUME NEW y, NEW x, Shows(x, y)
  PROVE  Clean(x)
  BY DEF Shows, Clean

(* A new row, or a terminal that has been cleared.                           *)
LEMMA TerminalClean ==
  ASSUME NEW s \in [0..Cells -> Glyph], NEW n \in Nat, NEW z, z = [Terminal(s) EXCEPT !.writeLen = n]
  PROVE  /\ z \in DisplaySet /\ z.writeLen = n /\ z.writePos = 0
         /\ \A i \in 0..Cells : z.screen[i] = Blank \/ i \in z.old
  <1>1. PICK o \in SUBSET (0..Cells) : o = {i \in DOMAIN s : s[i] # Blank}
    OBVIOUS
  <1>2. z = [screen |-> s, writePos |-> 0, writeLen |-> n, old |-> o]
    BY <1>1 DEF Terminal
  <1>3. z.screen = s /\ z.old = o /\ z.writePos = 0 /\ z.writeLen = n
    BY <1>2
  <1>4. z \in DisplaySet
    <2>1. o \in SUBSET (0..Cells) /\ 0 \in Nat
      OBVIOUS
    <2>2. PICK x : x \in DisplaySet /\ x = [screen |-> s, writePos |-> 0, writeLen |-> n, old |-> o]
      BY ONLY <2>1, s \in [0..Cells -> Glyph], n \in Nat DEF DisplaySet
    <2> QED  BY ONLY <1>2, <2>2
  <1>5. \A i \in 0..Cells : s[i] = Blank \/ i \in o
    BY <1>1
  <1> QED  BY <1>3, <1>4, <1>5

Bare(x) == x \in DisplaySet /\ \A i \in 0..Cells : x.screen[i] = Blank \/ i \in x.old

LEMMA NextRowFacts ==
  ASSUME NEW x, x \in DisplaySet
  PROVE  Bare(NextRow(x)) /\ Clean(NextRow(x))
  <1>1. PICK w \in Nat : w = Width /\ w > 0
    BY TerminalAssumption
  <1>2. PICK row \in Nat : row = Row(x.writePos)
    BY RowFacts DEF DisplaySet
  <1>3. PICK shift \in Nat : shift = (row + 1) * w
    BY <1>1, <1>2
  <1>4. PICK s : s = [i \in 0..Cells |-> IF i + shift <= Cells THEN x.screen[i + shift] ELSE Blank]
    OBVIOUS
  <1>5. s \in [0..Cells -> Glyph]
    <2>1. \A i \in 0..Cells : i + shift <= Cells => i + shift \in 0..Cells
      BY TerminalAssumption
    <2>2. x.screen \in [0..Cells -> Glyph] /\ Blank \in Glyph
      BY DEF DisplaySet, Glyph
    <2>3. \A i \in 0..Cells : s[i] \in Glyph
      BY <1>4, <2>1, <2>2
    <2> QED  BY <1>4, <2>3
  <1>6. PICK z : z = [Terminal(s) EXCEPT !.writeLen = 0]
    OBVIOUS
  <1>7. z = Terminal(s)
    BY <1>6 DEF Terminal
  <1>8. NextRow(x) = z
    BY <1>1, <1>2, <1>3, <1>4, <1>7 DEF NextRow
  <1>9. z \in DisplaySet /\ \A i \in 0..Cells : z.screen[i] = Blank \/ i \in z.old
    BY <1>5, <1>6, TerminalClean
  <1> QED  BY <1>8, <1>9 DEF Bare, Clean

LEMMA BlankFacts ==
  ASSUME NEW n \in Nat
  PROVE  Bare(BlankTerminal) /\ Clean(BlankTerminal) /\ Clean([BlankTerminal EXCEPT !.writeLen = n])
  <1>1. PICK s : s = [i \in 0..Cells |-> Blank]
    OBVIOUS
  <1>2. s \in [0..Cells -> Glyph]
    BY <1>1 DEF Glyph
  <1>3. PICK z : z = [Terminal(s) EXCEPT !.writeLen = n]
    OBVIOUS
  <1>4. Clean(z)
    BY <1>2, <1>3, TerminalClean DEF Clean
  <1>5. PICK y : y = [Terminal(s) EXCEPT !.writeLen = 0]
    OBVIOUS
  <1>6. Clean(y) /\ Bare(y)
    BY <1>2, <1>5, TerminalClean DEF Clean, Bare
  <1>7. y = Terminal(s)
    BY <1>5 DEF Terminal
  <1>8. BlankTerminal = Terminal(s)
    BY <1>1 DEF BlankTerminal
  <1> QED  BY <1>3, <1>4, <1>6, <1>7, <1>8

-----------------------------------------------------------------------------
(***************************************************************************)
(* The steps of TextInput.                                                 *)
(***************************************************************************)

(* Completions that were found are followed by the prompts and the line.     *)
LEMMA CompletionsShowAll ==
  ASSUME NEW x, Good(x, x), ~Searching(x)
  PROVE  "prompt" \in ProcessCommand(x, "CompleteFound").e.R.prompts
  <1>1. "CompleteFound" \in TextModifying /\ "CompleteFound" \notin AmidCuts
    BY DEF TextModifying, AmidCuts
  <1>2. PICK y : y = PushUndo(x)
    OBVIOUS
  <1>3. Good(x, y) /\ y.mode = x.mode
    BY <1>2, PushUndoKeeps
  <1>4. ProcessCommand(x, "CompleteFound") = Complete(y, TRUE)
    BY <1>1, <1>2, <1>3 DEF ProcessCommand, ProcessCommandInInput, Searching
  <1>5. PICK g : g = ProcessMove(y, "End").e
    OBVIOUS
  <1>6. Good(x, g)
    <2>1. "End" \in Moves
      BY DEF Moves
    <2> QED  BY <1>3, <1>5, <2>1, MoveKeeps
  <1>7. PICK f : f = [g EXCEPT !.cursor = y.cursor]
    OBVIOUS
  <1>8. f.R = g.R /\ ProperRange(g.R) /\ g \in EditorSet /\ y.cursor \in Nat
    BY <1>3, <1>6, <1>7 DEF Good, EditorOK, EditorSet, Covered
  <1>9. f \in EditorSet
    BY <1>7, <1>8 DEF EditorSet
  <1>10. PICK w : w = AllWithPrompt
    OBVIOUS
  <1>11. ProperRange(w) /\ "prompt" \in w.prompts
    BY <1>10, AllWithPromptFacts
  <1>12. PICK r : r = Extend(f.R, w)
    OBVIOUS
  <1>13. "prompt" \in r.prompts
    BY <1>8, <1>11, <1>12, ExtendFacts
  <1>14. PICK z : z = [f EXCEPT !.R = r]
    OBVIOUS
  <1>15. z.R = r
    BY <1>9, <1>14 DEF EditorSet
  <1>16. Complete(y, TRUE) = Done(z)
    <2>1. Shown(f, w) = z
      BY <1>9, <1>12, <1>14 DEF Shown, EditorSet
    <2> QED  BY <1>5, <1>7, <1>10, <2>1 DEF Complete
  <1>17. Complete(y, TRUE).e = z
    BY <1>16, ResultFacts
  <1> QED  BY <1>4, <1>13, <1>15, <1>17

(* Range::Extend, of any ranges. *)
LEMMA ExtendTyped ==
  ASSUME NEW r \in RangeSet, NEW w \in RangeSet
  PROVE  Extend(r, w) \in RangeSet
  <1>1. /\ r.start \in Nat /\ r.end \in Nat /\ w.start \in Nat /\ w.end \in Nat
        /\ r.prompts \in SUBSET {"prompt", "editor"} /\ w.prompts \in SUBSET {"prompt", "editor"}
    BY DEF RangeSet
  <1>2. PICK s \in Nat : s = Min({r.start, w.start})
    BY <1>1, MinOfTwo
  <1>3. PICK t \in Nat : t = Max({r.end, w.end})
    BY <1>1, MaxOfTwo
  <1>4. PICK p \in SUBSET {"prompt", "editor"} : p = r.prompts \cup w.prompts
    BY <1>1
  <1>5. [start |-> s, end |-> t, prompts |-> p] \in RangeSet
    BY DEF RangeSet
  <1> QED  BY <1>2, <1>3, <1>4, <1>5 DEF Extend

(* A line that is taken: the next one is empty, or an entry of the history.  *)
LEMMA ResetKeeps ==
  ASSUME NEW y, EditorOK(y), Len(y.line) <= MaxLine
  PROVE  LET z == ResetText(y)
         IN /\ EditorOK(z) /\ PasteOK(z) /\ Len(z.line) <= MaxLine /\ Len(z.search) = 0
            /\ y.replay = y.cur /\ ~(y.line = <<>> /\ y.replay # None) => Stems(z)
  <1>1. y \in EditorSet /\ y.line \in Line
    BY DEF EditorOK, EditorSet, Line
  <1>2. PICK h : h = IF y.line # <<>> THEN Append(y.hist, y.line) ELSE y.hist
    OBVIOUS
  <1>3. PICK n \in Nat : n = Len(y.hist)
    BY <1>1, LenProperties DEF EditorSet
  <1>4. h \in Seq(Line) /\ Len(h) = IF y.line # <<>> THEN n + 1 ELSE n
    <2>1. y.hist \in Seq(Line)
      BY <1>1 DEF EditorSet
    <2> QED  BY <1>1, <1>2, <1>3, <2>1, AppendProperties
  <1>5. PICK m \in Nat : m = Len(h) /\ n <= m /\ (y.line # <<>> => m = n + 1)
    BY <1>3, <1>4
  <1>6. y.cur \in Int /\ y.cur >= None /\ y.replay \in Int /\ y.replay >= None
        /\ (y.cur <= 0 \/ y.cur <= n - 1) /\ (y.replay <= 0 \/ y.replay <= n - 1)
    BY <1>1, <1>3, IndicesFacts DEF EditorOK
  <1>7. PICK j : j = IF y.replay = None THEN None ELSE IF y.line # <<>> THEN y.replay ELSE y.replay - 1
    OBVIOUS
  <1>8. j \in Int /\ j >= None /\ (j <= 0 \/ j <= m - 1) /\ (y.cur <= 0 \/ y.cur <= m - 1)
        /\ (y.replay <= 0 \/ y.replay <= m - 1)
    BY <1>5, <1>6, <1>7 DEF None
  <1>9. <<>> \in Seq(Character) /\ <<>> \in Seq(UndoSet) /\ Len(<<>>) = 0 /\ <<>> \in Seq(Glyph)
    BY EmptySeq
  <1>10. PICK f : f = [y EXCEPT !.hist = h, !.line = <<>>, !.cursor = 0, !.cutDir = 0, !.search = <<>>,
                                !.undo = <<>>, !.stem = 0]
    OBVIOUS
  <1>11. f \in EditorSet
    <2>1. PICK z : z = <<>>
      OBVIOUS
    <2>2. z \in Seq(Character) /\ z \in Seq(UndoSet) /\ 0 \in Nat /\ 0 \in Int /\ 0 \in {-1, 0, 1}
      BY <1>9, <2>1
    <2>3. PICK k \in Nat : k = 0 /\ k \in Int /\ k \in {-1, 0, 1}
      BY <2>2
    <2>4. [y EXCEPT !.hist = h, !.line = z, !.cursor = k, !.cutDir = k, !.search = z,
                    !.undo = z, !.stem = k] \in EditorSet
      BY ONLY <1>1, <1>4, <2>2, <2>3 DEF EditorSet
    <2> QED  BY <1>10, <2>1, <2>3, <2>4
  <1>12. /\ f.hist = h /\ f.line = <<>> /\ f.cursor = 0 /\ f.cutDir = 0 /\ f.search = <<>>
         /\ f.undo = <<>> /\ f.stem = 0 /\ f.cur = y.cur /\ f.replay = y.replay
         /\ f.mode = y.mode /\ f.prompt = y.prompt
    BY <1>1, <1>10 DEF EditorSet
  <1>13. PICK g : g = CancelSpecialInputMode(f)
    OBVIOUS
  <1>14. /\ g \in EditorSet /\ g.mode = "input" /\ g.prompt = <<>>
         /\ g.hist = h /\ g.line = <<>> /\ g.cursor = 0 /\ g.cutDir = 0 /\ g.search = <<>>
         /\ g.undo = <<>> /\ g.stem = 0 /\ g.cur = y.cur /\ g.replay = y.replay
    <2>1. CASE f.mode = "input"
      <3>1. g = f /\ y.prompt = <<>>
        BY <1>12, <1>13, <2>1 DEF CancelSpecialInputMode, EditorOK
      <3> QED  BY <1>11, <1>12, <2>1, <3>1
    <2>2. CASE f.mode # "input"
      <3>1. PICK w : w = PromptRange
        OBVIOUS
      <3>2. PICK r : r = Extend(f.R, w)
        OBVIOUS
      <3>3. r \in RangeSet
        <4>1. w \in RangeSet /\ f.R \in RangeSet
          BY <1>11, <3>1, PromptRangeFacts DEF ProperRange, EditorSet
        <4> QED  BY <3>2, <4>1, ExtendTyped
      <3>4. PICK k : k = [f EXCEPT !.prompt = <<>>, !.mode = "input", !.R = r]
        OBVIOUS
      <3>5. k \in EditorSet
        BY <1>9, <1>11, <3>3, <3>4 DEF EditorSet
      <3>6. /\ k.mode = "input" /\ k.prompt = <<>>
            /\ k.hist = f.hist /\ k.line = f.line /\ k.cursor = f.cursor /\ k.cutDir = f.cutDir
            /\ k.search = f.search /\ k.undo = f.undo /\ k.stem = f.stem /\ k.cur = f.cur
            /\ k.replay = f.replay
        BY <1>11, <3>4 DEF EditorSet
      <3>7. g = Shown([f EXCEPT !.prompt = <<>>, !.mode = "input"], PromptRange)
        BY <1>13, <2>2 DEF CancelSpecialInputMode, PromptRange
      <3>8. g = k
        BY <1>11, <3>1, <3>2, <3>4, <3>7 DEF Shown, EditorSet
      <3> QED  BY <1>12, <3>5, <3>6, <3>8
    <2> QED  BY <2>1, <2>2
  <1>15. g.cur \in Indices(g) /\ g.replay \in Indices(g) /\ j \in Indices(g)
    BY <1>5, <1>6, <1>8, <1>14, IndicesFacts
  <1>16. 0 <= MaxLine /\ 0 <= MaxUndoBufSize + 1
    BY TextInputAssumption, EditorAssumption
  <1>17. CASE y.replay = None
    <2>1. ResetText(y) = g
      BY <1>2, <1>10, <1>13, <1>17 DEF ResetText
    <2>2. EditorOK(g)
      BY <1>9, <1>14, <1>15, <1>16 DEF EditorOK
    <2>3. PasteOK(g)
      BY <1>14 DEF PasteOK
    <2>4. y.replay = y.cur => Stems(g)
      BY <1>14, <1>17 DEF Stems
    <2> QED  BY <1>9, <1>14, <1>16, <2>1, <2>2, <2>3, <2>4
  <1>18. CASE y.replay # None
    <2>1. PICK l : l = HistLine(g, j)
      OBVIOUS
    <2>2. l \in Seq(Character) /\ Len(l) <= MaxLine /\ PosOf(g, j) \in Int /\ Len(l) \in Nat
      <3>1. l \in Line /\ l \in Seq(Character) /\ PosOf(g, j) \in Int
        BY <1>14, <1>15, <2>1, HistLineFacts
      <3>2. Len(l) \in Nat
        BY <3>1, LenProperties
      <3> QED  BY <3>1, <3>2 DEF Line
    <2>3. PICK s \in Int : s = IF j = None THEN 0 ELSE PosOf(g, j)
      BY <2>2
    <2>4. PICK z : z = [g EXCEPT !.replay = j, !.line = l, !.stem = s]
      OBVIOUS
    <2>5. ResetText(y) = z
      BY <1>2, <1>7, <1>10, <1>13, <1>18, <2>1, <2>3, <2>4 DEF ResetText
    <2>6. z \in EditorSet
      BY <1>8, <1>14, <2>2, <2>4 DEF EditorSet
    <2>7. /\ z.mode = "input" /\ z.prompt = <<>> /\ z.hist = h /\ z.line = l /\ z.cursor = 0
          /\ z.cutDir = 0 /\ z.search = <<>> /\ z.undo = <<>> /\ z.stem = s /\ z.cur = y.cur
          /\ z.replay = j
      BY <1>14, <2>4 DEF EditorSet
    <2>8. EditorOK(z)
      <3>1. z.cur \in Indices(z) /\ z.replay \in Indices(z)
        BY <1>14, <1>15, <2>7 DEF Indices
      <3>2. z.cursor <= Len(z.line) /\ Len(z.undo) <= MaxUndoBufSize + 1
        BY <1>9, <1>16, <2>2, <2>7
      <3> QED  BY <2>6, <2>7, <3>1, <3>2 DEF EditorOK
    <2>9. PasteOK(z)
      BY <2>7 DEF PasteOK
    <2>10. y.replay = y.cur /\ ~(y.line = <<>> /\ y.replay # None) => Stems(z)
      <3>1. y.replay = y.cur /\ ~(y.line = <<>> /\ y.replay # None) => j = y.cur
        BY <1>7, <1>18
      <3>2. PosOf(z, j) = PosOf(g, j)
        BY <1>14, <2>7 DEF PosOf
      <3> QED  BY <1>18, <2>3, <2>7, <3>1, <3>2 DEF Stems
    <2> QED  BY <1>9, <2>2, <2>5, <2>7, <2>8, <2>9, <2>10
  <1> QED  BY <1>17, <1>18

(* What the keys mean. *)
Meanings ==
  {[kind |-> "char", id |-> c] : c \in Character} \cup {MoveCmd(m) : m \in Moves}
  \cup {Cmd(c) : c \in Commands} \cup {Bad} \cup {[kind |-> "control", id |-> c] : c \in {"c", "d", "z"}}

LEMMA KnownMeaning ==
  ASSUME NEW k, k.kind \in {"char", "ctrl", "special"}, k.kind = "char" => k.key \in Character,
         escPending \in BOOLEAN
  PROVE  ToCommand(k) \in Meanings
  <1>1. /\ \A m \in Moves : MoveCmd(m) \in Meanings
        /\ \A c \in Commands : Cmd(c) \in Meanings
        /\ Bad \in Meanings
        /\ \A c \in {"c", "d", "z"} : [kind |-> "control", id |-> c] \in Meanings
        /\ \A c \in Character : [kind |-> "char", id |-> c] \in Meanings
    BY DEF Meanings
  <1>2. {"Right", "End", "Front", "Left", "NextWord", "PrevWord"} \subseteq Moves
    BY DEF Moves
  <1>3. {"CutPrevWord", "DelLeft", "Complete", "Enter", "CutToEnd", "ClearScreen", "HistNewer",
         "HistReplay", "HistOlder", "ReverseSearch", "ForwardSearch", "SwapThisAndLeft",
         "CutToFront", "Paste", "Undo", "ToUpperMoveNextWord", "CutNextWord", "WordToLower",
         "WordToUpper", "Del", "ToggleOverwriteMode", "Esc", "Ignore"} \subseteq Commands
    BY DEF Commands, TextModifying
  <1>4. ASSUME NEW c, NEW b \in BOOLEAN PROVE CtrlCommand(c, b) \in Meanings
    <2>1. CASE c \in {"c", "d", "z"}
      BY <1>1, <2>1 DEF CtrlCommand
    <2>2. CASE c \in {"a", "b", "e", "f", "g"}
      BY <1>1, <1>2, <2>2 DEF CtrlCommand
    <2>3. CASE c = "h"
      <3>1. CtrlCommand(c, b) = Cmd(IF b THEN "CutPrevWord" ELSE "DelLeft")
        BY <2>3 DEF CtrlCommand
      <3> QED  BY <1>1, <1>3, <3>1
    <2>4. CASE c \in {"i", "j", "k", "l", "m", "n", "o", "p", "r", "s", "t", "u", "w", "y", "_"}
      <3>1. CtrlCommand(c, b) \in
              {Cmd("Complete"), Cmd("Enter"), Cmd("CutToEnd"), Cmd("ClearScreen"), Cmd("HistNewer"),
               Cmd("HistReplay"), Cmd("HistOlder"), Cmd("ReverseSearch"), Cmd("ForwardSearch"),
               Cmd("SwapThisAndLeft"), Cmd("CutToFront"), Cmd("CutPrevWord"), Cmd("Paste"),
               Cmd("Undo")}
        BY <2>4 DEF CtrlCommand
      <3> QED  BY <1>1, <1>3, <3>1
    <2>5. CASE c \notin {"a", "b", "c", "d", "e", "f", "g", "h", "i", "j", "k", "l", "m", "n", "o",
                         "p", "r", "s", "t", "u", "w", "y", "z", "_"}
      BY <1>1, <2>5 DEF CtrlCommand
    <2> QED  BY <2>1, <2>2, <2>3, <2>4, <2>5
  <1>5. ASSUME NEW c PROVE EscCommand(c) \in Meanings
    <2>1. EscCommand(c) \in
            {MoveCmd("PrevWord"), Cmd("ToUpperMoveNextWord"), Cmd("CutNextWord"), MoveCmd("NextWord"),
             Cmd("WordToLower"), Cmd("WordToUpper"), Bad}
      BY DEF EscCommand
    <2> QED  BY <1>1, <1>2, <1>3, <2>1
  <1>6. ASSUME NEW c, NEW b \in BOOLEAN PROVE SpecialCommand(c, b) \in Meanings
    <2>1. SpecialCommand(c, b) \in
            {MoveCmd("Front"), MoveCmd("End"), MoveCmd("Left"), MoveCmd("Right"),
             Cmd("HistOlder"), Cmd("HistNewer"), Cmd("CutPrevWord"), Cmd("Del"),
             Cmd("ToggleOverwriteMode"), Cmd("Enter"), Cmd("Esc"), Cmd("Ignore")}
      BY DEF SpecialCommand
    <2> QED  BY <1>1, <1>2, <1>3, <2>1
  <1>7. CASE k.kind = "ctrl"
    BY <1>4, <1>7 DEF ToCommand
  <1>8. CASE k.kind = "special"
    BY <1>6, <1>8 DEF ToCommand
  <1>9. CASE k.kind = "char"
    BY <1>1, <1>5, <1>9 DEF ToCommand
  <1> QED  BY <1>7, <1>8, <1>9

(* Any key that is given to the editor.                                      *)
LEMMA ProcessKeeps ==
  ASSUME Good(e, e), Len(e.line) <= MaxLine, NEW c \in Meanings,
         ~(c = Cmd("SwapThisAndLeft") /\ SwapsOutside(e)),
         ~(c = Cmd("HistNewer") /\ ModifiesNoEntry(e))
  PROVE  LET r == Process(c)
         IN /\ Good(e, r.e)
            /\ Stems(e) => Stems(r.e) \/ Leaves(e, c, r.e)
            /\ r.ok /\ c \in {Cmd("Enter"), Cmd("HistReplay")} => r.e.replay = r.e.cur
  <1>1. PICK r : r = Process(c)
    OBVIOUS
  <1>2. ASSUME NEW i \in Character, c = [kind |-> "char", id |-> i]
        PROVE  /\ Good(e, r.e) /\ (Stems(e) => Stems(r.e))
               /\ c \notin {Cmd("Enter"), Cmd("HistReplay")}
    <2>1. c.kind = "char" /\ c.id = i /\ Cmd("Enter").kind = "command" /\ Cmd("HistReplay").kind = "command"
      BY <1>2 DEF Cmd
    <2>2. r = ProcessChar(e, i)
      BY <1>1, <2>1 DEF Process
    <2>3. c \notin {Cmd("Enter"), Cmd("HistReplay")}
      BY <2>1
    <2> QED  BY <2>2, <2>3, CharKeeps
  <1>3. ASSUME NEW m \in Moves, c = MoveCmd(m)
        PROVE  /\ Good(e, r.e) /\ (Stems(e) => Stems(r.e) \/ Leaves(e, c, r.e))
               /\ c \notin {Cmd("Enter"), Cmd("HistReplay")}
    <2>1. c.kind = "move" /\ c.id = m /\ Cmd("Enter").kind = "command" /\ Cmd("HistReplay").kind = "command"
      BY <1>3 DEF Cmd, MoveCmd
    <2>2. r = ProcessMove(e, m)
      BY <1>1, <2>1 DEF Process
    <2>3. c \notin {Cmd("Enter"), Cmd("HistReplay")}
      BY <2>1
    <2>4. Good(e, r.e) /\ (~(m = "Right" /\ Searching(e)) => (Stems(e) => Stems(r.e)))
      BY <2>2, MoveKeeps
    <2>5. m = "Right" /\ Searching(e) => Stems(r.e) \/ Leaves(e, c, r.e)
      BY <1>3 DEF Stems, Leaves
    <2> QED  BY <2>3, <2>4, <2>5
  <1>4. ASSUME NEW i \in Commands, c = Cmd(i)
        PROVE  /\ Good(e, r.e) /\ (Stems(e) => Stems(r.e) \/ Leaves(e, c, r.e))
               /\ r.ok /\ c \in {Cmd("Enter"), Cmd("HistReplay")} => r.e.replay = r.e.cur
    <2>1. c.kind = "command" /\ c.id = i /\ Cmd("Enter").id = "Enter" /\ Cmd("HistReplay").id = "HistReplay"
      BY <1>4 DEF Cmd
    <2>2. r = ProcessCommand(e, i)
      BY <1>1, <2>1 DEF Process
    <2>3. ~(i = "SwapThisAndLeft" /\ SwapsOutside(e)) /\ ~(i = "HistNewer" /\ ModifiesNoEntry(e))
      BY <1>4
    <2>4. /\ Good(e, r.e)
          /\ Stems(e) => Stems(r.e) \/ Leaves(e, Cmd(i), r.e)
          /\ r.ok /\ i \in {"Enter", "HistReplay"} => r.e.replay = r.e.cur
      BY <2>2, <2>3, CommandKeeps
    <2>5. c \in {Cmd("Enter"), Cmd("HistReplay")} => i \in {"Enter", "HistReplay"}
      BY <2>1
    <2> QED  BY <1>4, <2>4, <2>5
  <1>5. ASSUME c = Bad \/ \E i \in {"c", "d", "z"} : c = [kind |-> "control", id |-> i]
        PROVE  /\ Good(e, r.e) /\ (Stems(e) => Stems(r.e))
               /\ r.ok = FALSE
    <2>1. c.kind \in {"error", "control"}
      BY <1>5 DEF Bad
    <2>2. r = Error(e)
      BY <1>1, <2>1 DEF Process
    <2> QED  BY <2>2, ResultFacts
  <1> QED  BY <1>1, <1>2, <1>3, <1>4, <1>5 DEF Meanings

(* Nothing has to be displayed again.                                        *)
LEMMA Redisplayed ==
  ASSUME NEW y, EditorOK(y)
  PROVE  LET z == [y EXCEPT !.R = Empty]
         IN /\ EditorOK(z) /\ (PasteOK(y) => PasteOK(z)) /\ (Stems(y) => Stems(z))
            /\ ProperRange(z.R) /\ z.R.start = 0
            /\ z.line = y.line /\ z.search = y.search /\ z.cur = y.cur /\ z.replay = y.replay
            /\ z.prompt = y.prompt /\ z.cursor = y.cursor
            /\ \A x : Shows(x, y) => Shows(x, z)
            /\ CursorCell(z, Prompt) = CursorCell(y, Prompt)
  <1>1. PICK w : w = Empty
    OBVIOUS
  <1>2. ProperRange(w) /\ w \in RangeSet /\ w.start = 0
    BY <1>1 DEF Empty, Span, ProperRange, RangeSet, End
  <1>3. PICK z : z = [y EXCEPT !.R = w]
    OBVIOUS
  <1>4. y \in EditorSet
    BY DEF EditorOK
  <1>5. z \in EditorSet
    BY <1>2, <1>3, <1>4 DEF EditorSet
  <1>6. /\ z.undo = y.undo /\ z.line = y.line /\ z.cursor = y.cursor /\ z.hist = y.hist
        /\ z.cur = y.cur /\ z.replay = y.replay /\ z.mode = y.mode /\ z.cutDir = y.cutDir
        /\ z.prompt = y.prompt /\ z.search = y.search /\ z.R = w /\ z.stem = y.stem
        /\ z.base = y.base /\ z.paste = y.paste
    BY <1>3, <1>4 DEF EditorSet
  <1>7. EditorOK(z)
    BY <1>5, <1>6 DEF EditorOK, Indices
  <1>8. PasteOK(y) => PasteOK(z)
    BY <1>6 DEF PasteOK
  <1>9. Stems(y) => Stems(z)
    BY <1>6 DEF Stems, PosOf
  <1>10. Text(z) = Text(y) /\ CursorCell(z, Prompt) = CursorCell(y, Prompt)
    BY <1>6 DEF Text, CursorCell
  <1>11. \A x : Shows(x, y) => Shows(x, z)
    BY <1>10 DEF Shows
  <1> QED  BY <1>1, <1>2, <1>3, <1>6, <1>7, <1>8, <1>9, <1>10, <1>11

(***************************************************************************)
(* The inductive invariant.                                                *)
(***************************************************************************)

SessionInv ==
  /\ session \in Session /\ pressed \in 0..MaxKeys(session)
  /\ state \in {"none", "reading", "eol", "eof", "over"}
  /\ escPending \in BOOLEAN /\ astray \in BOOLEAN

EditorInv ==
  /\ EditorOK(e) /\ Len(e.line) <= MaxLine /\ Len(e.search) <= pressed
  /\ state # "eof" => PasteOK(e)
  /\ state = "reading" => ProperRange(e.R) /\ e.R.start <= Len(e.line)
  /\ state = "eol" => e.replay = e.cur
  /\ state \in {"none", "reading", "eol"} /\ ~astray => Stems(e)

DisplayInv ==
  /\ d \in DisplaySet
  /\ state = "none" => Bare(d)
  /\ state = "reading" => Shows(d, e) /\ d.writePos = CursorCell(e, Prompt)

Inv == SessionInv /\ EditorInv /\ DisplayInv

(* While a line is read, the editor is as the commands want it.              *)
LEMMA GoodNow ==
  ASSUME EditorInv, state = "reading"
  PROVE  Good(e, e) /\ Len(e.line) <= MaxLine /\ e \in EditorSet
  <1>1. e \in EditorSet /\ ProperRange(e.R) /\ e.R.start <= Len(e.line) /\ Len(e.line) <= MaxLine
    BY DEF EditorInv, EditorOK
  <1>2. e.line \in Seq(Character) /\ Len(e.search) \in Nat
    BY <1>1, LenProperties DEF EditorSet
  <1>3. Changes(e.line, e.line, e.R)
    BY <1>1, <1>2, ChangesNothing
  <1>4. Covered(e, e)
    BY <1>1, <1>3 DEF Covered
  <1>5. Len(e.search) <= Len(e.search) + 1
    BY <1>2
  <1> QED  BY <1>1, <1>2, <1>4, <1>5 DEF EditorInv, Good

LEMMA InitInv ==
  Init => Inv
  <1>1. SUFFICES ASSUME Init PROVE Inv
    OBVIOUS
  <1>2. PICK h : h = Entries(session) /\ h \in Seq(Line) /\ 0 \in 0..MaxKeys(session)
    <2>1. session \in Session
      BY <1>1 DEF Init
    <2>2. Entries(session) \in Seq(Line) /\ MaxKeys(session) \in Nat
      BY <2>1, TextInputAssumption DEF Line
    <2>3. 0 \in 0..MaxKeys(session)
      BY <2>2
    <2> QED  BY <2>2, <2>3
  <1>3. PICK r : r = Empty
    OBVIOUS
  <1>4. r \in RangeSet
    BY <1>3 DEF Empty, Span, RangeSet
  <1>5. PICK z : z = <<>> /\ z \in Seq(Character) /\ z \in Seq(UndoSet) /\ z \in Seq(Glyph) /\ Len(z) = 0
    BY EmptySeq
  <1>6. PICK b \in BOOLEAN : b = FALSE
    OBVIOUS
  <1>7. PICK s \in SUBSET Seq(Character) : s = {}
    OBVIOUS
  <1>8. None \in Int
    BY DEF None
  <1>9. PICK y : y = [line |-> z, cursor |-> 0, hist |-> h, notInHist |-> z, paste |-> z,
                      search |-> z, cur |-> None, replay |-> None, mode |-> "input", overwrite |-> b,
                      cutDir |-> 0, undo |-> z, prompt |-> z, R |-> r, stem |-> 0, base |-> s]
    OBVIOUS
  <1>10. e = y
    BY <1>1, <1>2, <1>3, <1>5, <1>6, <1>7, <1>9 DEF Init, EditorState
  <1>11. y \in EditorSet
    BY ONLY <1>2, <1>4, <1>5, <1>8, <1>9, b \in BOOLEAN, s \in SUBSET Seq(Character) DEF EditorSet
  <1>12. /\ y.line = z /\ y.cursor = 0 /\ y.search = z /\ y.cur = None /\ y.replay = None
         /\ y.mode = "input" /\ y.cutDir = 0 /\ y.undo = z /\ y.prompt = z
    BY <1>9
  <1>13. None \in Indices(y)
    BY <1>8, <1>11, IndicesFacts DEF None
  <1>14. EditorOK(y)
    BY <1>5, <1>11, <1>12, <1>13, EditorAssumption DEF EditorOK
  <1>15. PasteOK(y) /\ Stems(y)
    BY <1>12 DEF PasteOK, Stems
  <1>16. EditorInv
    BY <1>1, <1>5, <1>10, <1>12, <1>14, <1>15, TextInputAssumption DEF EditorInv, Init
  <1>17. DisplayInv
    <2>1. Bare(d)
      BY <1>1, BlankFacts DEF Init
    <2> QED  BY <1>1, <2>1 DEF DisplayInv, Init, Bare
  <1>18. SessionInv
    BY <1>1, <1>2 DEF SessionInv, Init
  <1> QED  BY <1>16, <1>17, <1>18 DEF Inv

(* The line is drawn.                                                        *)
LEMMA ReadInputKeeps ==
  ASSUME Inv, ReadInput
  PROVE  Inv'
  <1>1. EditorOK(e) /\ PasteOK(e) /\ Bare(d) /\ Len(e.line) <= MaxLine
    BY DEF Inv, EditorInv, DisplayInv, ReadInput
  <1>2. PICK f : f = [e EXCEPT !.R = Empty]
    OBVIOUS
  <1>3. /\ EditorOK(f) /\ PasteOK(f) /\ (Stems(e) => Stems(f))
        /\ ProperRange(f.R) /\ f.R.start = 0
        /\ f.line = e.line /\ f.search = e.search
    BY <1>1, <1>2, Redisplayed
  <1>4. e' = f /\ d' = NotifyTextChange([d EXCEPT !.writePos = 0, !.writeLen = 0], f, Prompt, AllWithPrompt)
    BY <1>2 DEF ReadInput
  <1>5. PICK x : x = [d EXCEPT !.writePos = 0, !.writeLen = 0]
    OBVIOUS
  <1>6. Clean(x)
    <2>1. d \in DisplaySet
      BY <1>1 DEF Bare
    <2>2. x \in DisplaySet
      BY <1>5, <2>1 DEF DisplaySet
    <2>3. x.screen = d.screen /\ x.old = d.old
      BY <1>5, <2>1 DEF DisplaySet
    <2> QED  BY <1>1, <2>2, <2>3 DEF Bare, Clean
  <1>7. f \in EditorSet /\ Len(f.line) <= MaxLine /\ 0 <= Len(f.line)
    <2>1. f \in EditorSet /\ f.line \in Seq(Character)
      BY <1>3 DEF EditorOK, EditorSet
    <2>2. Len(f.line) \in Nat
      BY <2>1, LenProperties
    <2> QED  BY <1>1, <1>3, <2>1, <2>2
  <1>8. Shows(d', f) /\ d'.writePos = CursorCell(f, Prompt)
    BY <1>4, <1>5, <1>6, <1>7, NotifyShows
  <1>9. d' \in DisplaySet
    BY <1>8 DEF Shows
  <1>10. SessionInv'
    BY DEF Inv, SessionInv, ReadInput
  <1>11. EditorInv'
    BY <1>3, <1>4, <1>7 DEF Inv, EditorInv, ReadInput
  <1>12. DisplayInv'
    BY <1>4, <1>8, <1>9 DEF DisplayInv, ReadInput
  <1> QED  BY <1>10, <1>11, <1>12 DEF Inv

(* The line is taken.                                                        *)
LEMMA TakeInputKeeps ==
  ASSUME Inv, TakeInput
  PROVE  Inv'
  <1>1. EditorOK(e) /\ Len(e.line) <= MaxLine /\ d \in DisplaySet
    BY DEF Inv, EditorInv, DisplayInv
  <1>2. PICK z : z = ResetText(e)
    OBVIOUS
  <1>3. /\ EditorOK(z) /\ PasteOK(z) /\ Len(z.line) <= MaxLine /\ Len(z.search) = 0
        /\ e.replay = e.cur /\ ~(e.line = <<>> /\ e.replay # None) => Stems(z)
    BY <1>1, <1>2, ResetKeeps
  <1>4. e' = z /\ d' = NextRow(d) /\ pressed' = pressed /\ state' \in {"none", "over"}
        /\ (state' = "none" => state = "eol")
    BY <1>2 DEF TakeInput
  <1>5. SessionInv'
    BY DEF Inv, SessionInv, TakeInput
  <1>6. state' = "none" /\ ~astray' => Stems(z)
    BY <1>3, <1>4 DEF Inv, EditorInv, TakeInput
  <1>7. pressed \in Nat
    <2>1. MaxKeys(session) \in Nat
      BY TextInputAssumption DEF Inv, SessionInv
    <2> QED  BY <2>1 DEF Inv, SessionInv
  <1>8. EditorInv'
    BY <1>3, <1>4, <1>6, <1>7 DEF EditorInv
  <1>9. Bare(d')
    BY <1>1, <1>4, NextRowFacts
  <1>10. DisplayInv'
    BY <1>4, <1>9 DEF DisplayInv, Bare
  <1> QED  BY <1>5, <1>8, <1>10 DEF Inv

(* ^C: the next line is read.                                                *)
LEMMA InterruptKeeps ==
  ASSUME EditorInv, DisplayInv, state = "reading", Interrupt, pressed \in Nat, pressed' = pressed + 1
  PROVE  EditorInv' /\ DisplayInv' /\ state' = "reading" /\ astray' = TRUE
  <1>1. e \in EditorSet /\ EditorOK(e) /\ Shows(d, e) /\ Len(e.line) < MaxLine
    BY GoodNow DEF EditorInv, DisplayInv, Interrupt
  <1>2. PICK l : l = e.line \o <<"^C">>
    OBVIOUS
  <1>3. l \in Seq(Character) /\ Len(l) = Len(e.line) + 1 /\ Len(e.line) \in Nat /\ e.line \in Seq(Character)
    <2>1. PICK k \in Seq(Character), c \in Seq(Character) : k = e.line /\ c = <<"^C">> /\ Len(c) = 1
      <3>1. PICK ch \in Character : ch = "^C"
        BY EditorAssumption
      <3>2. <<ch>> \in Seq(Character) /\ Len(<<ch>>) = 1
        OBVIOUS
      <3> QED  BY <1>1, <3>1, <3>2 DEF EditorSet
    <2>2. k \o c \in Seq(Character) /\ Len(k \o c) = Len(k) + Len(c)
      BY ConcatProperties
    <2> QED  BY <1>2, <2>1, <2>2, LenProperties
  <1>4. PICK w : w = AllText
    OBVIOUS
  <1>5. ProperRange(w) /\ w \in RangeSet /\ w.start = 0 /\ w.end = End
    BY <1>4, AllTextFacts DEF ProperRange
  <1>6. PICK f : f = [e EXCEPT !.line = l, !.R = w]
    OBVIOUS
  <1>7. f \in EditorSet
    BY <1>1, <1>3, <1>5, <1>6 DEF EditorSet
  <1>8. /\ f.undo = e.undo /\ f.line = l /\ f.cursor = e.cursor /\ f.hist = e.hist
        /\ f.cur = e.cur /\ f.replay = e.replay /\ f.mode = e.mode
        /\ f.prompt = e.prompt /\ f.search = e.search /\ f.R = w
    BY <1>1, <1>6 DEF EditorSet
  <1>9. EditorOK(f) /\ Len(f.line) <= MaxLine
    <2>1. e.cursor \in Nat /\ e.cursor <= Len(e.line) /\ MaxLine \in Nat
      BY <1>1, TextInputAssumption DEF EditorOK, EditorSet
    <2>2. f.cursor <= Len(f.line) /\ Len(f.line) <= MaxLine
      BY <1>1, <1>3, <1>8, <2>1
    <2> QED  BY <1>1, <1>7, <1>8, <2>2 DEF EditorOK, Indices
  <1>10. Covered(e, f)
    <2>1. Changes(e.line, f.line, w)
      BY <1>3, <1>5, <1>8, ChangesAll
    <2>2. w.start <= Len(f.line)
      BY <1>3, <1>5, <1>8
    <2> QED  BY <1>5, <1>8, <2>1, <2>2 DEF Covered
  <1>11. PICK x : x = DisplayNewInput(d, f, Prompt)
    OBVIOUS
  <1>12. x \in DisplaySet
    <2>1. Shows(x, f)
      BY <1>1, <1>7, <1>9, <1>10, <1>11, DisplayKeeps
    <2> QED  BY <2>1 DEF Shows
  <1>13. PICK y : y = NextRow(x) /\ Clean(y)
    BY <1>12, NextRowFacts
  <1>14. PICK g : g = ResetText(f)
    OBVIOUS
  <1>15. EditorOK(g) /\ PasteOK(g) /\ Len(g.line) <= MaxLine /\ Len(g.search) = 0
    BY <1>9, <1>14, ResetKeeps
  <1>16. PICK z : z = [g EXCEPT !.R = Empty]
    OBVIOUS
  <1>17. /\ EditorOK(z) /\ PasteOK(z) /\ ProperRange(z.R) /\ z.R.start = 0
         /\ z.line = g.line /\ z.search = g.search
         /\ \A s : Shows(s, g) => Shows(s, z)
         /\ CursorCell(z, Prompt) = CursorCell(g, Prompt)
    BY <1>15, <1>16, Redisplayed
  <1>18. e' = z /\ d' = NotifyTextChange(y, g, Prompt, AllWithPrompt) /\ astray' = TRUE /\ state' = "reading"
    BY <1>2, <1>4, <1>6, <1>11, <1>13, <1>14, <1>16 DEF Interrupt
  <1>19. g \in EditorSet /\ 0 <= Len(g.line)
    <2>1. g \in EditorSet
      BY <1>15 DEF EditorOK
    <2>2. g.line \in Seq(Character)
      BY <2>1 DEF EditorSet
    <2> QED  BY <2>1, <2>2, LenProperties
  <1>20. Shows(d', g) /\ d'.writePos = CursorCell(g, Prompt)
    BY <1>13, <1>15, <1>18, <1>19, NotifyShows
  <1>21. EditorInv'
    BY <1>15, <1>17, <1>18, <1>19 DEF EditorInv
  <1>22. DisplayInv'
    <2>1. Shows(d', z) /\ d'.writePos = CursorCell(z, Prompt)
      BY <1>17, <1>20
    <2>2. d' \in DisplaySet
      BY <2>1 DEF Shows
    <2> QED  BY <1>18, <2>1, <2>2 DEF DisplayInv
  <1> QED  BY <1>18, <1>21, <1>22

(* ^Z: the line is shown again. *)
LEMMA SuspendKeeps ==
  ASSUME EditorInv, DisplayInv, state = "reading", Suspend, pressed \in Nat, pressed' = pressed + 1
  PROVE  EditorInv' /\ DisplayInv' /\ state' = "reading" /\ astray' = astray
  <1>1. e \in EditorSet /\ EditorOK(e) /\ PasteOK(e) /\ d \in DisplaySet /\ Len(e.line) <= MaxLine
        /\ Len(e.search) <= pressed
    BY GoodNow DEF EditorInv, DisplayInv
  <1>2. PICK z : z = [e EXCEPT !.R = Empty]
    OBVIOUS
  <1>3. /\ EditorOK(z) /\ PasteOK(z) /\ (Stems(e) => Stems(z)) /\ ProperRange(z.R) /\ z.R.start = 0
        /\ z.line = e.line /\ z.search = e.search
        /\ \A s : Shows(s, e) => Shows(s, z)
        /\ CursorCell(z, Prompt) = CursorCell(e, Prompt)
    BY <1>1, <1>2, Redisplayed
  <1>4. PICK y : y = NextRow(d) /\ Clean(y)
    BY <1>1, NextRowFacts
  <1>5. e' = z /\ d' = NotifyTextChange(y, e, Prompt, AllWithPrompt) /\ astray' = astray /\ state' = "reading"
    BY <1>2, <1>4 DEF Suspend
  <1>6. Shows(d', e) /\ d'.writePos = CursorCell(e, Prompt)
    BY <1>1, <1>4, <1>5, NotifyShows
  <1>7. 0 <= Len(e.line) /\ Len(e.search) <= pressed + 1
    <2>1. e.line \in Seq(Character) /\ e.search \in Seq(Character)
      BY <1>1 DEF EditorSet
    <2>2. Len(e.line) \in Nat /\ Len(e.search) \in Nat
      BY <2>1, LenProperties
    <2> QED  BY <1>1, <2>2
  <1>8. EditorInv'
    BY <1>1, <1>3, <1>5, <1>7 DEF EditorInv
  <1>9. DisplayInv'
    <2>1. Shows(d', z) /\ d'.writePos = CursorCell(z, Prompt)
      BY <1>3, <1>6
    <2>2. d' \in DisplaySet
      BY <2>1 DEF Shows
    <2> QED  BY <1>5, <2>1, <2>2 DEF DisplayInv
  <1> QED  BY <1>5, <1>8, <1>9

(* ^D: the line ".q" is shown. *)
LEMMA EofKeeps ==
  ASSUME EditorInv, DisplayInv, state = "reading", AtEOF, e.line = <<>>,
         pressed \in Nat, pressed' = pressed + 1
  PROVE  EditorInv' /\ DisplayInv' /\ state' = "eof" /\ astray' = astray
  <1>1. /\ e \in EditorSet /\ EditorOK(e) /\ Shows(d, e) /\ d \in DisplaySet /\ Len(e.search) <= pressed
        /\ ProperRange(e.R) /\ e.R.start <= Len(e.line)
    BY GoodNow DEF EditorInv, DisplayInv
  <1>2. PICK l : l = <<".q">> /\ l \in Seq(Character) /\ Len(l) = 1
    <2>1. PICK ch \in Character : ch = ".q"
      BY EditorAssumption
    <2>2. <<ch>> \in Seq(Character) /\ Len(<<ch>>) = 1
      OBVIOUS
    <2> QED  BY <2>1, <2>2
  <1>3. PICK f : f = [e EXCEPT !.line = l]
    OBVIOUS
  <1>4. f \in EditorSet
    BY <1>1, <1>2, <1>3 DEF EditorSet
  <1>5. /\ f.undo = e.undo /\ f.line = l /\ f.cursor = e.cursor /\ f.hist = e.hist
        /\ f.cur = e.cur /\ f.replay = e.replay /\ f.mode = e.mode
        /\ f.prompt = e.prompt /\ f.search = e.search /\ f.R = e.R
    BY <1>1, <1>3 DEF EditorSet
  <1>6. Len(e.line) = 0
    BY EmptySeq
  <1>7. e.cursor \in Nat /\ e.cursor <= 0 /\ e.R.start \in Nat /\ e.R.start <= 0 /\ 1 <= MaxLine
    BY <1>1, <1>6, TextInputAssumption DEF EditorOK, EditorSet, ProperRange, RangeSet
  <1>8. EditorOK(f) /\ Len(f.line) <= MaxLine
    <2>1. f.cursor <= Len(f.line) /\ Len(f.line) <= MaxLine
      BY <1>2, <1>5, <1>7
    <2> QED  BY <1>1, <1>4, <1>5, <2>1 DEF EditorOK, Indices
  <1>9. PICK x : x = NotifyTextChange(d, f, Prompt, AllWithPrompt)
    OBVIOUS
  <1>10. Shows(x, f)
    BY <1>1, <1>4, <1>8, <1>9, CleanBehind, NotifyShows
  <1>11. Covered(f, f)
    <2>1. Changes(f.line, f.line, f.R)
      BY <1>2, <1>5, ChangesNothing
    <2>2. f.R.start <= Len(f.line)
      BY <1>2, <1>5, <1>7
    <2> QED  BY <1>1, <1>5, <2>1, <2>2 DEF Covered
  <1>12. e' = f /\ d' = DisplayNewInput(x, f, Prompt) /\ state' = "eof" /\ astray' = astray
    BY <1>2, <1>3, <1>9 DEF AtEOF
  <1>13. Shows(d', f)
    BY <1>4, <1>8, <1>10, <1>11, <1>12, DisplayKeeps
  <1>14. Len(f.search) <= pressed + 1
    <2>1. e.search \in Seq(Character)
      BY <1>1 DEF EditorSet
    <2>2. Len(e.search) \in Nat
      BY <2>1, LenProperties
    <2> QED  BY <1>1, <1>5, <2>2
  <1>15. EditorInv'
    BY <1>8, <1>12, <1>14 DEF EditorInv
  <1>16. DisplayInv'
    BY <1>12, <1>13 DEF DisplayInv, Shows
  <1> QED  BY <1>12, <1>15, <1>16

(* After completions the terminal is written from the begin.                 *)
LEMMA FreshDisplay ==
  ASSUME NEW x, Clean(x), NEW y, y \in EditorSet, Len(y.line) <= MaxLine, "prompt" \in y.R.prompts
  PROVE  LET z == DisplayNewInput(x, y, Prompt)
         IN Shows(z, y) /\ z.writePos = CursorCell(y, Prompt)
  <1>1. PICK to \in Nat : to = CursorCell(y, Prompt)
    BY CursorCellFacts
  <1>2. PICK r : r = y.R /\ r.prompts # {} /\ "prompt" \in r.prompts
    OBVIOUS
  <1>3. PICK z : z = WriteWrapped(x, y, Prompt, r)
    OBVIOUS
  <1>4. Shows(z, y)
    BY <1>2, <1>3, FullShows DEF Clean
  <1>5. DisplayNewInput(x, y, Prompt) = Move(z, to)
    BY <1>1, <1>2, <1>3 DEF DisplayNewInput, IsEmpty
  <1>6. Shows(Move(z, to), y) /\ Move(z, to).writePos = to
    BY <1>4, MoveShows
  <1> QED  BY <1>1, <1>5, <1>6

(* Everything else is done by the editor, and shown.                         *)
LEMMA EditKeeps ==
  ASSUME EditorInv, DisplayInv, state = "reading", astray \in BOOLEAN,
         NEW cmd \in Meanings, Edit(cmd),
         ~(cmd = Cmd("SwapThisAndLeft") /\ SwapsOutside(e)),
         ~(cmd = Cmd("HistNewer") /\ ModifiesNoEntry(e)),
         pressed \in Nat, pressed' = pressed + 1
  PROVE  EditorInv' /\ DisplayInv' /\ state' \in {"reading", "eol"} /\ astray' \in BOOLEAN
  <1>1. Good(e, e) /\ Len(e.line) <= MaxLine /\ e \in EditorSet
    BY GoodNow
  <1>2. Shows(d, e) /\ d \in DisplaySet /\ Len(e.search) <= pressed
    BY DEF EditorInv, DisplayInv
  <1>3. PICK c, r, x :
          /\ c \in Outcomes(cmd)
          /\ r = Process(c)
          /\ x = CASE c = Cmd("CompleteFound") /\ ~Searching(e) -> BlankTerminal
                   [] cmd = Cmd("ClearScreen") /\ ~Searching(e) ->
                        NotifyTextChange([BlankTerminal EXCEPT !.writeLen = d.writeLen], e, Prompt, AllWithPrompt)
                   [] OTHER -> d
          /\ Len(r.e.line) <= MaxLine
          /\ e' = r.e
          /\ d' = DisplayNewInput(x, r.e, Prompt)
          /\ state' = IF r.ok /\ cmd \in {Cmd("Enter"), Cmd("HistReplay")} THEN "eol" ELSE "reading"
          /\ astray' = IF r.e.cur = None THEN FALSE ELSE astray \/ LeavesEntry(cmd, r.e)
    BY DEF Edit
  <1>4. c = cmd \/ (cmd = Cmd("Complete") /\ c = Cmd("CompleteFound"))
    BY <1>3 DEF Outcomes
  <1>5. /\ Cmd("CompleteFound").id = "CompleteFound" /\ Cmd("Complete").id = "Complete"
        /\ Cmd("Enter").id = "Enter" /\ Cmd("HistReplay").id = "HistReplay"
        /\ Cmd("SwapThisAndLeft").id = "SwapThisAndLeft" /\ Cmd("HistNewer").id = "HistNewer"
        /\ Cmd("Undo").id = "Undo" /\ MoveCmd("Right").id = "Right"
    BY DEF Cmd, MoveCmd
  <1>6. c \in Meanings
    <2>1. "CompleteFound" \in Commands
      BY DEF Commands, TextModifying
    <2> QED  BY <1>4, <2>1 DEF Meanings
  <1>7. ~(c = Cmd("SwapThisAndLeft") /\ SwapsOutside(e)) /\ ~(c = Cmd("HistNewer") /\ ModifiesNoEntry(e))
    BY <1>4, <1>5
  <1>8. /\ Good(e, r.e)
        /\ Stems(e) => Stems(r.e) \/ Leaves(e, c, r.e)
        /\ r.ok /\ c \in {Cmd("Enter"), Cmd("HistReplay")} => r.e.replay = r.e.cur
    BY <1>1, <1>3, <1>6, <1>7, ProcessKeeps
  <1>9. PICK y : y = r.e
    OBVIOUS
  <1>10. y \in EditorSet /\ EditorOK(y) /\ PasteOK(y) /\ Covered(e, y) /\ Len(y.line) <= MaxLine
         /\ ProperRange(y.R) /\ y.R.start <= Len(y.line)
    BY <1>3, <1>8, <1>9 DEF Good, EditorOK, Covered
  <1>11. Shows(d', y) /\ d'.writePos = CursorCell(y, Prompt)
    <2>1. CASE c = Cmd("CompleteFound") /\ ~Searching(e)
      <3>1. x = BlankTerminal
        <4>1. cmd # Cmd("ClearScreen")
          <5>1. Cmd("ClearScreen").id = "ClearScreen" /\ (cmd = c \/ cmd = Cmd("Complete"))
            BY <1>4 DEF Cmd
          <5> QED  BY <1>5, <2>1, <5>1
        <4> QED  BY <1>3, <2>1, <4>1
      <3>2. r = ProcessCommand(e, "CompleteFound")
        BY <1>3, <2>1 DEF Process, Cmd
      <3>3. "prompt" \in y.R.prompts
        BY <1>1, <1>9, <2>1, <3>2, CompletionsShowAll
      <3>4. Clean(x)
        BY <3>1, BlankFacts
      <3> QED  BY <1>3, <1>9, <1>10, <3>3, <3>4, FreshDisplay
    <2>2. CASE ~(c = Cmd("CompleteFound") /\ ~Searching(e))
      <3>1. Shows(x, e)
        <4>1. CASE cmd = Cmd("ClearScreen") /\ ~Searching(e)
          <5>1. PICK n \in Nat : n = d.writeLen
            BY <1>2 DEF DisplaySet
          <5>2. PICK z : z = [BlankTerminal EXCEPT !.writeLen = n]
            OBVIOUS
          <5>3. Clean(z)
            BY <5>2, BlankFacts
          <5>4. x = NotifyTextChange(z, e, Prompt, AllWithPrompt)
            BY <1>3, <2>2, <4>1, <5>1, <5>2
          <5> QED  BY <1>1, <5>3, <5>4, NotifyShows
        <4>2. CASE ~(cmd = Cmd("ClearScreen") /\ ~Searching(e))
          <5>1. x = d
            BY <1>3, <2>2, <4>2
          <5> QED  BY <1>2, <5>1
        <4> QED  BY <4>1, <4>2
      <3> QED  BY <1>1, <1>3, <1>9, <1>10, <3>1, DisplayKeeps
    <2> QED  BY <2>1, <2>2
  <1>12. state' \in {"reading", "eol"} /\ (state' = "eol" => y.replay = y.cur)
    <2>1. cmd \in {Cmd("Enter"), Cmd("HistReplay")} => c = cmd
      BY <1>4, <1>5
    <2> QED  BY <1>3, <1>8, <1>9, <2>1
  <1>13. astray' \in BOOLEAN /\ (~astray' => Stems(y))
    <2>1. LeavesEntry(cmd, y) \in BOOLEAN
      BY DEF LeavesEntry
    <2>2. Leaves(e, c, y) => LeavesEntry(cmd, y)
      <3>1. c # cmd => c # Cmd("Undo") /\ c # MoveCmd("Right")
        BY <1>4, <1>5
      <3> QED  BY <3>1 DEF Leaves, LeavesEntry
    <2>3. y.cur = None => Stems(y)
      BY DEF Stems
    <2>4. ~astray => Stems(e)
      BY DEF EditorInv
    <2>5. astray' = IF y.cur = None THEN FALSE ELSE astray \/ LeavesEntry(cmd, y)
      BY <1>3, <1>9
    <2> QED  BY <1>8, <1>9, <2>1, <2>2, <2>3, <2>4, <2>5
  <1>14. Len(y.search) <= pressed + 1
    <2>1. e.search \in Seq(Character) /\ y.search \in Seq(Character)
      BY <1>1, <1>10 DEF EditorSet
    <2>2. PICK n \in Nat, m \in Nat : n = Len(e.search) /\ m = Len(y.search)
      BY <2>1, LenProperties
    <2>3. m <= n + 1
      BY <1>8, <1>9, <2>2 DEF Good
    <2> QED  BY <1>2, <2>2, <2>3
  <1>15. EditorInv'
    BY <1>3, <1>9, <1>10, <1>12, <1>13, <1>14 DEF EditorInv
  <1>16. DisplayInv'
    BY <1>3, <1>9, <1>11, <1>12 DEF DisplayInv, Shows
  <1> QED  BY <1>12, <1>13, <1>15, <1>16

(* A key.                                                                    *)
LEMMA NewInputKeeps ==
  ASSUME Inv, NEW k \in Keys(session), ProcessNewInput(k)
  PROVE  Inv'
  <1>1. /\ session \in Session /\ state = "reading" /\ astray \in BOOLEAN /\ escPending \in BOOLEAN
        /\ EditorInv /\ DisplayInv
    BY DEF Inv, SessionInv, ProcessNewInput
  <1>2. PICK cmd : cmd = Meant(ToCommand(k))
    OBVIOUS
  <1>3. /\ ~(cmd = Cmd("SwapThisAndLeft") /\ SwapsOutside(e))
        /\ ~(cmd = Cmd("HistNewer") /\ ModifiesNoEntry(e))
        /\ pressed < MaxKeys(session) /\ pressed' = pressed + 1 /\ session' = session
        /\ escPending' \in BOOLEAN
        /\ CASE cmd = [kind |-> "control", id |-> "c"] -> Interrupt
             [] cmd = [kind |-> "control", id |-> "z"] -> Suspend
             [] cmd = [kind |-> "control", id |-> "d"] -> AtEOF
             [] OTHER -> Edit(cmd)
    BY <1>2 DEF ProcessNewInput
  <1>4. cmd \in Meanings
    <2>1. k.kind \in {"char", "ctrl", "special"} /\ (k.kind = "char" => k.key \in Character)
      <3>1. \A j \in Keys(session) :
              j.kind \in {"char", "ctrl", "special"} /\ (j.kind = "char" => j.key \in Character)
        <4>1. \A s \in Session : \A j \in Keys(s) :
                j.kind \in {"char", "ctrl", "special"} /\ (j.kind = "char" => j.key \in Character)
          BY ONLY TextInputAssumption
        <4> QED  BY ONLY <1>1, <4>1
      <3> QED  BY <3>1
    <2>2. ToCommand(k) \in Meanings
      BY <1>1, <2>1, KnownMeaning
    <2>3. Cmd("Del") \in Meanings
      BY DEF Meanings, Commands, TextModifying
    <2> QED  BY <1>2, <2>2, <2>3 DEF Meant
  <1>5. pressed \in Nat /\ pressed' \in 0..MaxKeys(session')
    <2>1. MaxKeys(session) \in Nat /\ pressed \in 0..MaxKeys(session)
      BY <1>1, TextInputAssumption DEF Inv, SessionInv
    <2> QED  BY <1>3, <2>1
  <1>6. /\ [kind |-> "control", id |-> "c"] # [kind |-> "control", id |-> "d"]
        /\ [kind |-> "control", id |-> "z"] # [kind |-> "control", id |-> "d"]
        /\ [kind |-> "control", id |-> "c"] # [kind |-> "control", id |-> "z"]
    <2>1. /\ [kind |-> "control", id |-> "c"].id = "c" /\ [kind |-> "control", id |-> "d"].id = "d"
          /\ [kind |-> "control", id |-> "z"].id = "z"
      OBVIOUS
    <2> QED  BY <2>1
  <1>7. EditorInv' /\ DisplayInv' /\ state' \in {"reading", "eol", "eof"} /\ astray' \in BOOLEAN
    <2>1. CASE cmd = [kind |-> "control", id |-> "c"]
      <3>1. Interrupt
        BY <1>3, <2>1
      <3> QED  BY <1>1, <1>3, <1>5, <3>1, InterruptKeeps
    <2>2. CASE cmd = [kind |-> "control", id |-> "z"]
      <3>1. Suspend
        BY <1>3, <1>6, <2>2
      <3> QED  BY <1>1, <1>3, <1>5, <3>1, SuspendKeeps
    <2>3. CASE cmd = [kind |-> "control", id |-> "d"]
      <3>1. AtEOF
        BY <1>3, <1>6, <2>3
      <3>2. e.line = <<>>
        <4>1. cmd.kind = "control" /\ Cmd("Del").kind = "command"
          BY <2>3 DEF Cmd
        <4> QED  BY <1>2, <2>3, <4>1 DEF Meant
      <3> QED  BY <1>1, <1>3, <1>5, <3>1, <3>2, EofKeeps
    <2>4. CASE /\ cmd # [kind |-> "control", id |-> "c"] /\ cmd # [kind |-> "control", id |-> "z"]
               /\ cmd # [kind |-> "control", id |-> "d"]
      <3>1. Edit(cmd)
        BY <1>3, <2>4
      <3> QED  BY <1>1, <1>3, <1>4, <1>5, <3>1, EditKeeps
    <2> QED  BY <2>1, <2>2, <2>3, <2>4
  <1>8. SessionInv'
    BY <1>1, <1>3, <1>5, <1>7 DEF SessionInv
  <1> QED  BY <1>7, <1>8 DEF Inv

LEMMA NextKeeps ==
  Inv /\ [Next]_vars => Inv'
  <1>1. SUFFICES ASSUME Inv, [Next]_vars PROVE Inv'
    OBVIOUS
  <1>2. CASE ReadInput
    BY <1>1, <1>2, ReadInputKeeps
  <1>3. CASE \E k \in Keys(session) : ProcessNewInput(k)
    BY <1>1, <1>3, NewInputKeeps
  <1>4. CASE TakeInput
    BY <1>1, <1>4, TakeInputKeeps
  <1>5. CASE UNCHANGED vars
    BY <1>1, <1>5 DEF vars, Inv, SessionInv, EditorInv, DisplayInv
  <1> QED  BY <1>1, <1>2, <1>3, <1>4, <1>5 DEF Next

-----------------------------------------------------------------------------
(***************************************************************************)
(* The theorems.                                                           *)
(***************************************************************************)

THEOREM Invariance == Spec => []Inv
  BY InitInv, NextKeeps, PTL DEF Spec

LEMMA InvTypes == Inv => TypeOK
  <1>1. SUFFICES ASSUME Inv PROVE TypeOK
    OBVIOUS
  <1>2. e \in EditorSet /\ EditorOK(e) /\ d \in DisplaySet
    BY <1>1 DEF Inv, EditorInv, DisplayInv, EditorOK
  <1>3. e.line \in Seq(Character) /\ e.cursor \in Nat /\ e.mode \in {"input", "bkw", "fwd"}
    BY <1>2 DEF EditorSet
  <1>4. Len(e.line) \in Nat /\ e.cursor <= Len(e.line)
    BY <1>2, <1>3, LenProperties DEF EditorOK
  <1>5. e.cursor \in 0..Len(e.line)
    BY <1>3, <1>4
  <1>6. e.cur \in Indices(e) /\ e.replay \in Indices(e) /\ Len(e.undo) <= MaxUndoBufSize + 1
    BY <1>2 DEF EditorOK
  <1>7. d.screen \in [0..Cells -> Glyph]
    BY <1>2 DEF DisplaySet
  <1>8. state = "reading" => e.R.start <= Len(e.line)
    BY <1>1 DEF Inv, EditorInv
  <1>9. SessionInv
    BY <1>1 DEF Inv
  <1> QED  BY <1>3, <1>5, <1>6, <1>7, <1>8, <1>9 DEF TypeOK, SessionInv

(* Editor never has its cursor outside the line, an index that is not in the *)
(* history, an undo buffer that is too long, or a range that begins behind   *)
(* the line.                                                                 *)
THEOREM TypeCorrect == Spec => []TypeOK
  BY Invariance, InvTypes, PTL

(* fCurHistEntry is the entry the line was taken from, unless undo, ^G or a  *)
(* search for nothing has put another line in its place.                     *)
THEOREM EntryCorrect == Spec => []EntryOK
  <1>1. Inv => EntryIsStem
    BY DEF Inv, EditorInv, EntryIsStem, StemsFromEntry, Stems
  <1>2. Inv => EntryOK
    BY <1>1, InvTypes DEF EntryOK
  <1> QED  BY <1>2, Invariance, PTL

(* fPasteBuf, put in at the cursor, gives the line from before the cuts.     *)
THEOREM PasteRestored == Spec => []PasteRestores
  <1>1. Inv => PasteRestores
    BY DEF Inv, EditorInv, PasteOK, PasteRestores
  <1> QED  BY <1>1, Invariance, PTL

(* The terminal has room for the prompts and the line. *)
LEMMA TextFits ==
  ASSUME Inv
  PROVE  Len(Text(e)) \in Nat /\ Len(Text(e)) <= Cells
  <1>1. /\ e \in EditorSet /\ EditorOK(e) /\ Len(e.line) <= MaxLine /\ Len(e.search) <= pressed
        /\ session \in Session /\ pressed \in 0..MaxKeys(session)
    BY DEF Inv, EditorInv, SessionInv, EditorOK
  <1>2. PICK k \in Nat : k = MaxKeys(session) /\ Len(Prompt) + 1 + k + MaxLine <= Cells
    BY <1>1, TextInputAssumption
  <1>3. PICK p \in Nat, q \in Nat, n \in Nat : p = Len(Prompt) /\ q = Len(e.prompt) /\ n = Len(e.line)
    BY <1>1, TextFacts
  <1>4. PICK s \in Seq(Character) : s = e.search
    BY <1>1 DEF EditorSet
  <1>5. PICK j \in Nat : j = Len(s)
    BY LenProperties
  <1>6. q <= 1 + j
    <2>1. CASE e.mode = "input"
      <3>1. e.prompt = <<>>
        BY <1>1, <2>1 DEF EditorOK
      <3>2. q = 0
        BY <1>3, <3>1, EmptySeq
      <3> QED  BY <3>2
    <2>2. CASE e.mode # "input"
      <3>1. e.prompt = <<e.mode>> \o s
        BY <1>1, <1>4, <2>2 DEF EditorOK
      <3>2. PICK S : S = Character \cup {e.mode}
        OBVIOUS
      <3>3. s \in Seq(S)
        <4>1. Character \subseteq S
          BY <3>2
        <4> QED  BY <4>1, SeqMonotonic
      <3>4. PICK m \in Seq(S) : m = <<e.mode>> /\ Len(m) = 1
        <4>1. PICK c \in S : c = e.mode
          BY <3>2
        <4>2. <<c>> \in Seq(S) /\ Len(<<c>>) = 1
          OBVIOUS
        <4> QED  BY <4>1, <4>2
      <3>5. Len(m \o s) = Len(m) + Len(s)
        BY <3>3, ConcatProperties
      <3> QED  BY <1>3, <1>5, <3>1, <3>4, <3>5
    <2> QED  BY <2>1, <2>2
  <1>7. Len(Text(e)) = p + q + n
    BY <1>1, <1>3, TextFacts
  <1>8. p + q + n \in Nat /\ p + q + n <= Cells
    <2>1. PICK l \in Nat : l = MaxLine /\ n <= l
      BY <1>1, <1>3, TextInputAssumption
    <2>2. j <= pressed /\ pressed \in Nat /\ pressed <= k
      BY <1>1, <1>2, <1>4, <1>5
    <2>3. Cells \in Nat /\ p + 1 + k + l <= Cells
      BY <1>2, <1>3, <2>1, TerminalAssumption
    <2> QED  BY <1>6, <2>1, <2>2, <2>3
  <1> QED  BY <1>7, <1>8

(* Whatever part of the line the code writes again, and wherever it erases,  *)
(* the terminal shows the prompts and the line and nothing behind them, with *)
(* the cursor at its place.                                                  *)
THEOREM DisplayCorrect == Spec => []DisplayShows
  <1>1. Inv => DisplayShows
    <2>1. SUFFICES ASSUME Inv, state = "reading"
                   PROVE  /\ d.writePos = CursorCell(e, Prompt)
                          /\ \A i \in 1..Len(Wanted) :
                               \/ d.screen[i - 1] = Wanted[i]
                               \/ d.screen[i - 1] = Blank /\ (i - 1) % Width = 0
                          /\ \A i \in Len(Wanted)..Cells : d.screen[i] = Blank \/ i \in d.old
      BY DEF DisplayShows
    <2>2. Shows(d, e) /\ d.writePos = CursorCell(e, Prompt)
      BY <2>1 DEF Inv, DisplayInv
    <2>3. PICK t : t = Text(e)
      OBVIOUS
    <2>4. Wanted = t
      <3>1. Prompt \in Seq(Glyph) /\ e.prompt \in Seq(Glyph) /\ e.line \in Seq(Glyph)
        BY <2>1, TextFacts DEF Inv, EditorInv, EditorOK
      <3> QED  BY <2>3, <3>1 DEF Wanted, Text
    <2>5. PICK n \in Nat : n = Len(t) /\ n <= Cells
      BY <2>1, <2>3, TextFits
    <2>6. \A i \in 0..Cells :
            /\ i < n => d.screen[i] = t[i + 1] \/ (d.screen[i] = Blank /\ i % Width = 0)
            /\ n <= i => d.screen[i] = Blank \/ i \in d.old
      BY <2>2, <2>3, <2>5 DEF Shows
    <2>7. ASSUME NEW i \in 1..n
          PROVE  d.screen[i - 1] = t[i] \/ (d.screen[i - 1] = Blank /\ (i - 1) % Width = 0)
      <3>1. PICK j \in 0..Cells : j = i - 1 /\ j < n /\ j + 1 = i
        BY <2>5, TerminalAssumption
      <3> QED  BY <2>6, <3>1
    <2>8. \A i \in n..Cells : d.screen[i] = Blank \/ i \in d.old
      <3>1. \A i \in n..Cells : i \in 0..Cells /\ n <= i
        BY <2>5, TerminalAssumption
      <3> QED  BY <2>6, <3>1
    <2> QED  BY <2>2, <2>4, <2>5, <2>7, <2>8
  <1> QED  BY <1>1, Invariance, PTL

=============================================================================
