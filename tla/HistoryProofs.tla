---------------------------- MODULE HistoryProofs ----------------------------
(***************************************************************************)
(* Invariants of History, proved for any number of processes, depth and    *)
(* prune length.                                                           *)
(***************************************************************************)
EXTENDS History, SequenceLemmas

(* The lines of the file are counted every Period lines. *)
Period == MaxDepth - NPrune

(* The most lines that the file has if no two processes wrote at once. *)
MostLines == MaxDepth + (Cardinality(Proc) - 1) * (Period - 1)

(* How many lines a process with a count of n adds before it counts again or *)
(* prunes.                                                                   *)
After(n) ==
  IF n >= MaxDepth \/ n % Period = 0 THEN 0
  ELSE IF Period - (n % Period) <= MaxDepth - n THEN Period - (n % Period)
  ELSE MaxDepth - n

(* The lines that p adds without another count: to those to come, one that *)
(* it is about to write.                                                   *)
Credit ==
  [p \in Proc |-> IF pc[p] \in {"append", "write"} THEN 1 + After(num[p] + 1)
                  ELSE After(num[p])]

(* One element for each line that a process may add. *)
Tickets(f) == {c \in Proc \X (1..Period) : c[2] <= f[c[1]]}

Owed == Cardinality(Tickets(Credit))

(* t ends with s. *)
IsTail(s, t) ==
  /\ Len(s) <= Len(t)
  /\ \A i \in 1..Len(s) : s[i] = t[Len(t) - Len(s) + i]

(* Steps of AppendToFile at which its line is not in any file yet. *)
Pending == {"count", "prune", "append", "write"}

(* A line that its process has added before the one that it is about to write. *)
Behind(l) ==
  /\ l[2] <= added[l[1]]
  /\ pc[l[1]] \in Pending => l[2] < added[l[1]]

Ascending(s) ==
  \A i, j \in DOMAIN s : i < j /\ s[i][1] = s[j][1] => s[i][2] < s[j][2]

Placed(s) == Ascending(s) /\ \A i \in DOMAIN s : Behind(s[i])

-----------------------------------------------------------------------------
(* AppendToFile does nothing if the depth is 0, and prunes only what has been *)
(* counted to be too long.                                                    *)
StepsOK ==
  /\ MaxDepth = 0 => file = <<>>
  /\ \A p \in Proc :
       /\ pc[p] \notin {"idle", "dead"} => MaxDepth > 0 /\ added[p] > 0
       /\ pc[p] \in {"prune", "unlink", "rename"} => num[p] >= MaxDepth

Typed == TypeOK /\ log \in Seq(LineType) /\ StepsOK

(* Lines of one process are in order, in each file. *)
OrderOK == Placed(file) /\ \A p \in Proc : Placed(tmp[p])

(* What a process alone in AppendToFile finds at each step of it. *)
Alone(p) ==
  /\ pc[p] \in {"unlink", "rename"} => IsTail(tmp[p], Append(log, Line(p)))
  /\ pc[p] = "unlink" => Len(tmp[p]) <= 1 \/ Len(tmp[p]) + Period <= Len(file)
  /\ pc[p] = "rename" => file = <<>>
  /\ pc[p] \in {"append", "write"} /\ num[p] % Period = 0 => num[p] = Len(file)
  /\ pc[p] = "write" => handle[p] = inode /\ ~gone

SerialOK ==
  ~raced =>
    /\ \A p, q \in Busy : p = q
    /\ IsTail(file, log)
    /\ \A p \in Proc : Alone(p)

(* The file, and the one that is to take its place, have room for what the *)
(* processes add without another count.                                    *)
SizeOK ==
  ~raced /\ MaxDepth > 0 =>
    /\ Len(file) + Owed <= MostLines
    /\ \A p \in Proc : pc[p] \in {"unlink", "rename"} =>
                         Len(tmp[p]) + Owed + After(NPrune) <= MostLines

IInv == Typed /\ OrderOK /\ SerialOK /\ SizeOK

(***************************************************************************)
(* Counting.                                                               *)
(***************************************************************************)

LEMMA PeriodFacts ==
  /\ NPrune \in Int
  /\ MaxDepth > 0 => /\ NPrune \in 0..(MaxDepth - 1)
                     /\ Period \in 1..MaxDepth /\ Period \in Nat \ {0}
                     /\ Period = MaxDepth - NPrune
  BY PruneAssumption DEF NPrune, Period

LEMMA DivisionFacts ==
  ASSUME NEW k \in Nat \ {0}, NEW n \in Nat
  PROVE  (n % k) \in 0..(k - 1) /\ n = k * (n \div k) + (n % k) /\ (n \div k) \in Int
  OBVIOUS

LEMMA RemainderUnique ==
  ASSUME NEW k \in Nat \ {0}, NEW q \in Int, NEW r \in 0..(k - 1),
         NEW p \in Int, NEW s \in 0..(k - 1), k * q + r = k * p + s
  PROVE  r = s
  <1>1. k * (q - p) = s - r
    OBVIOUS
  <1>2. q - p >= 1 => k * (q - p) >= k
    OBVIOUS
  <1>3. q - p <= -1 => k * (q - p) <= -k
    OBVIOUS
  <1> QED  BY <1>1, <1>2, <1>3

(* The remainder grows by one, or starts again. *)
LEMMA NextRemainder ==
  ASSUME NEW k \in Nat \ {0}, NEW n \in Nat
  PROVE  ((n + 1) % k) = IF (n % k) + 1 = k THEN 0 ELSE (n % k) + 1
  <1>1. PICK q \in Int, r \in 0..(k - 1) : n = k * q + r /\ r = (n % k)
    BY DivisionFacts
  <1>2. PICK p \in Int, s \in 0..(k - 1) : n + 1 = k * p + s /\ s = ((n + 1) % k)
    <2>1. n + 1 \in Nat
      OBVIOUS
    <2> QED  BY <2>1, DivisionFacts
  <1>3. CASE r + 1 = k
    <2>1. k * (q + 1) + 0 = k * p + s
      BY <1>1, <1>2, <1>3
    <2>2. 0 \in 0..(k - 1) /\ q + 1 \in Int
      OBVIOUS
    <2>3. 0 = s
      BY ONLY k \in Nat \ {0}, p \in Int, s \in 0..(k - 1), <2>1, <2>2, RemainderUnique
    <2> QED  BY <1>1, <1>2, <1>3, <2>3
  <1>4. CASE r + 1 # k
    <2>1. k * q + (r + 1) = k * p + s
      BY <1>1, <1>2
    <2>2. r + 1 \in 0..(k - 1)
      BY <1>4
    <2>3. r + 1 = s
      BY ONLY k \in Nat \ {0}, q \in Int, p \in Int, s \in 0..(k - 1), <2>1, <2>2,
         RemainderUnique
    <2> QED  BY <1>1, <1>2, <1>4, <2>3
  <1> QED  BY <1>3, <1>4

(* A line that is written without a count is one of those to come. *)
LEMMA AfterFacts ==
  ASSUME MaxDepth > 0, NEW n \in Nat
  PROVE  /\ After(n) \in 0..(Period - 1)
         /\ n >= MaxDepth => After(n) = 0
         /\ n < MaxDepth => After(n) <= MaxDepth - n
         /\ (n % Period) = 0 => After(n) = 0
         /\ n < MaxDepth /\ (n % Period) # 0 => After(n) = 1 + After(n + 1)
  <1>1. PICK k \in Nat \ {0} : k = Period
    BY PeriodFacts, MaxDepth > 0
  <1>2. PICK r \in 0..(k - 1) : r = (n % k)
    BY DivisionFacts
  <1>3. PICK s \in 0..(k - 1) : s = ((n + 1) % k) /\ (s = IF r + 1 = k THEN 0 ELSE r + 1)
    <2>1. ((n + 1) % k) = IF r + 1 = k THEN 0 ELSE r + 1
      BY <1>2, NextRemainder
    <2>2. (IF r + 1 = k THEN 0 ELSE r + 1) \in 0..(k - 1)
      BY <1>2
    <2> QED  BY <2>1, <2>2
  <1>4. PICK m \in Nat : m = MaxDepth
    BY PruneAssumption
  <1>5. After(n) = IF n >= m \/ r = 0 THEN 0 ELSE IF k - r <= m - n THEN k - r ELSE m - n
    BY <1>1, <1>2, <1>4 DEF After
  <1>6. After(n + 1) = IF n + 1 >= m \/ s = 0 THEN 0
                       ELSE IF k - s <= m - (n + 1) THEN k - s ELSE m - (n + 1)
    BY <1>1, <1>3, <1>4 DEF After
  <1>7. CASE n >= m \/ r = 0
    BY <1>1, <1>2, <1>4, <1>5, <1>7
  <1>8. CASE n < m /\ r # 0
    <2>1. After(n) \in 0..(k - 1) /\ After(n) <= m - n
      BY <1>5, <1>8
    <2>2. After(n) = 1 + After(n + 1)
      BY <1>3, <1>5, <1>6, <1>8
    <2> QED  BY <1>1, <1>2, <1>4, <1>8, <2>1, <2>2
  <1> QED  BY <1>7, <1>8

(***************************************************************************)
(* Tickets.                                                                *)
(***************************************************************************)

LEMMA TicketsFinite ==
  ASSUME MaxDepth > 0, NEW f
  PROVE  IsFiniteSet(Tickets(f)) /\ Cardinality(Tickets(f)) \in Nat
  <1>1. IsFiniteSet(Proc \X (1..Period))
    <2>1. 1 \in Int /\ Period \in Int
      BY PeriodFacts, MaxDepth > 0
    <2>2. IsFiniteSet(1..Period)
      BY <2>1, FS_Interval
    <2> QED  BY <2>2, FS_Product, ProcAssumption
  <1>2. Tickets(f) \in SUBSET (Proc \X (1..Period))
    BY DEF Tickets
  <1>3. IsFiniteSet(Tickets(f))
    BY <1>1, <1>2, FS_Subset
  <1> QED  BY <1>3, FS_CardinalityType

(* Credits that do not grow. *)
LEMMA TicketsShrink ==
  ASSUME MaxDepth > 0, NEW f \in [Proc -> Nat], NEW g \in [Proc -> Nat],
         \A q \in Proc : g[q] <= f[q]
  PROVE  Cardinality(Tickets(g)) <= Cardinality(Tickets(f))
  <1>1. Tickets(g) \in SUBSET Tickets(f)
    <2> SUFFICES ASSUME NEW q \in Proc, NEW k \in 1..Period, k <= g[q]
                 PROVE  k <= f[q]
      BY DEF Tickets
    <2>1. Period \in Int
      BY PeriodFacts, MaxDepth > 0
    <2>2. f[q] \in Nat /\ g[q] \in Nat /\ g[q] <= f[q] /\ k \in Int
      BY <2>1
    <2> QED  BY <2>2
  <1>2. IsFiniteSet(Tickets(f))
    BY TicketsFinite, MaxDepth > 0
  <1> QED  BY <1>1, <1>2, FS_Subset

(* A credit that is spent. *)
LEMMA TicketsSpent ==
  ASSUME MaxDepth > 0, NEW f \in [Proc -> Nat], NEW g \in [Proc -> Nat],
         \A q \in Proc : g[q] <= f[q], NEW p \in Proc, g[p] < f[p], f[p] <= Period
  PROVE  Cardinality(Tickets(g)) + 1 <= Cardinality(Tickets(f))
  <1>0. Period \in Int /\ f[p] \in Nat /\ g[p] \in Nat
    BY PeriodFacts, MaxDepth > 0
  <1> DEFINE c == <<p, f[p]>>
  <1>1. c \in Tickets(f)
    <2>1. f[p] \in 1..Period /\ f[p] <= f[p]
      BY <1>0
    <2> QED  BY <2>1 DEF Tickets
  <1>2. Tickets(g) \in SUBSET (Tickets(f) \ {c})
    <2> SUFFICES ASSUME NEW q \in Proc, NEW k \in 1..Period, k <= g[q]
                 PROVE  k <= f[q] /\ <<q, k>> # c
      BY DEF Tickets
    <2>1. f[q] \in Nat /\ g[q] \in Nat /\ g[q] <= f[q] /\ k \in Int
      BY <1>0
    <2>2. k <= f[q]
      BY <2>1
    <2>3. q = p => k # f[p]
      BY <1>0, <2>1
    <2> QED  BY <2>2, <2>3
  <1> HIDE DEF c
  <1>3. IsFiniteSet(Tickets(f)) /\ Cardinality(Tickets(f)) \in Nat
    BY TicketsFinite, MaxDepth > 0
  <1>4. /\ IsFiniteSet(Tickets(f) \ {c})
        /\ Cardinality(Tickets(f) \ {c}) = Cardinality(Tickets(f)) - 1
    BY <1>1, <1>3, FS_RemoveElement
  <1>5. Cardinality(Tickets(g)) <= Cardinality(Tickets(f) \ {c})
    BY <1>2, <1>4, FS_Subset
  <1>6. Cardinality(Tickets(g)) \in Nat
    BY TicketsFinite, MaxDepth > 0
  <1> QED  BY <1>3, <1>4, <1>5, <1>6

(* Only the credit of p grows. *)
LEMMA TicketsOfOne ==
  ASSUME MaxDepth > 0, NEW f \in [Proc -> Nat], NEW g \in [Proc -> Nat], NEW p \in Proc,
         \A q \in Proc : q # p => g[q] <= f[q]
  PROVE  Cardinality(Tickets(g)) <= Cardinality(Tickets(f)) + g[p]
  <1>0. Period \in Int /\ g[p] \in Nat
    BY PeriodFacts, MaxDepth > 0
  <1> DEFINE own == {p} \X (1..g[p])
  <1>1. IsFiniteSet(own) /\ Cardinality(own) = g[p]
    <2>1. 1 \in Int /\ g[p] \in Int
      BY <1>0
    <2>2. IsFiniteSet(1..g[p]) /\ Cardinality(1..g[p]) = g[p]
      <3>1. Cardinality(1..g[p]) = IF 1 > g[p] THEN 0 ELSE g[p] - 1 + 1
        BY <2>1, FS_Interval
      <3>2. (IF 1 > g[p] THEN 0 ELSE g[p] - 1 + 1) = g[p]
        BY <1>0
      <3> QED  BY <2>1, <3>1, <3>2, FS_Interval
    <2>3. IsFiniteSet({p}) /\ Cardinality({p}) = 1
      BY FS_Singleton
    <2>4. IsFiniteSet(own) /\ Cardinality(own) = 1 * Cardinality(1..g[p])
      BY <2>2, <2>3, FS_Product
    <2> QED  BY <1>0, <2>2, <2>4
  <1>2. Tickets(g) \in SUBSET (Tickets(f) \cup own)
    <2> SUFFICES ASSUME NEW q \in Proc, NEW k \in 1..Period, k <= g[q]
                 PROVE  k <= f[q] \/ (q = p /\ k \in 1..g[p])
      BY DEF Tickets
    <2>1. f[q] \in Nat /\ g[q] \in Nat /\ k \in Int /\ 1 <= k
      BY <1>0
    <2> QED  BY <1>0, <2>1
  <1> HIDE DEF own
  <1>3. IsFiniteSet(Tickets(f)) /\ Cardinality(Tickets(f)) \in Nat
    BY TicketsFinite, MaxDepth > 0
  <1>4. /\ IsFiniteSet(Tickets(f) \cup own)
        /\ Cardinality(Tickets(f) \cup own) =
             Cardinality(Tickets(f)) + g[p] - Cardinality(Tickets(f) \cap own)
    BY <1>1, <1>3, FS_Union
  <1>5. Cardinality(Tickets(f) \cap own) \in Nat
    <2>1. Tickets(f) \cap own \in SUBSET own
      OBVIOUS
    <2> QED  BY <1>1, <2>1, FS_Subset, FS_CardinalityType
  <1>6. Cardinality(Tickets(g)) <= Cardinality(Tickets(f) \cup own)
    BY <1>2, <1>4, FS_Subset
  <1>7. Cardinality(Tickets(g)) \in Nat
    BY TicketsFinite, MaxDepth > 0
  <1> QED  BY <1>0, <1>3, <1>4, <1>5, <1>6, <1>7

(* Nobody but p is about to write a line. *)
LEMMA TicketsOfOthers ==
  ASSUME MaxDepth > 0, NEW g \in [Proc -> Nat], NEW p \in Proc,
         \A q \in Proc : q # p => g[q] <= Period - 1
  PROVE  Cardinality(Tickets(g)) <= (Cardinality(Proc) - 1) * (Period - 1) + g[p]
  <1>0. PICK k \in Nat \ {0} : k = Period
    BY PeriodFacts, MaxDepth > 0
  <1> DEFINE most == (Proc \ {p}) \X (1..(k - 1))
             f == [q \in Proc |-> IF q = p THEN 0 ELSE k - 1]
  <1>1. IsFiniteSet(most) /\ Cardinality(most) = (Cardinality(Proc) - 1) * (k - 1)
    <2>1. 1 \in Int /\ k - 1 \in Int
      OBVIOUS
    <2>2. IsFiniteSet(1..(k - 1)) /\ Cardinality(1..(k - 1)) = k - 1
      <3>1. Cardinality(1..(k - 1)) = IF 1 > k - 1 THEN 0 ELSE (k - 1) - 1 + 1
        BY <2>1, FS_Interval
      <3>2. (IF 1 > k - 1 THEN 0 ELSE (k - 1) - 1 + 1) = k - 1
        OBVIOUS
      <3> QED  BY <2>1, <3>1, <3>2, FS_Interval
    <2>3. IsFiniteSet(Proc \ {p}) /\ Cardinality(Proc \ {p}) = Cardinality(Proc) - 1
      BY FS_RemoveElement, ProcAssumption
    <2> QED  BY <2>2, <2>3, FS_Product
  <1>2. Tickets(f) \in SUBSET most
    <2> SUFFICES ASSUME NEW q \in Proc, NEW i \in 1..k, i <= f[q]
                 PROVE  q # p /\ i \in 1..(k - 1)
      BY <1>0 DEF Tickets
    <2> QED  OBVIOUS
  <1>3. f \in [Proc -> Nat]
    OBVIOUS
  <1>4. \A q \in Proc : q # p => g[q] <= f[q]
    BY <1>0
  <1> HIDE DEF most, f
  <1>5. Cardinality(Tickets(g)) <= Cardinality(Tickets(f)) + g[p]
    BY <1>3, <1>4, TicketsOfOne, MaxDepth > 0
  <1>6. Cardinality(Tickets(f)) <= Cardinality(most)
    BY <1>1, <1>2, FS_Subset
  <1>7. /\ Cardinality(Tickets(f)) \in Nat /\ Cardinality(Tickets(g)) \in Nat
        /\ Cardinality(most) \in Nat /\ g[p] \in Nat
    BY <1>1, TicketsFinite, FS_CardinalityType, MaxDepth > 0
  <1> QED  BY <1>0, <1>1, <1>5, <1>6, <1>7

(***************************************************************************)
(* The ends of a file.                                                     *)
(***************************************************************************)

LEMMA TailOfTail ==
  ASSUME NEW S, NEW s \in Seq(S), NEW t \in Seq(S), NEW u \in Seq(S),
         IsTail(s, t), IsTail(t, u)
  PROVE  IsTail(s, u)
  <1>1. PICK a, b, c \in Nat : a = Len(s) /\ b = Len(t) /\ c = Len(u)
    BY LenProperties
  <1>2. /\ a <= b /\ \A i \in 1..a : s[i] = t[b - a + i]
        /\ b <= c /\ \A i \in 1..b : t[i] = u[c - b + i]
    BY <1>1 DEF IsTail
  <1>3. ASSUME NEW i \in 1..a
        PROVE  s[i] = u[c - a + i]
    <2>1. b - a + i \in 1..b /\ c - b + (b - a + i) = c - a + i
      BY <1>2
    <2> QED  BY <1>2, <2>1
  <1>4. a <= c
    BY <1>2
  <1> QED  BY <1>1, <1>3, <1>4 DEF IsTail

LEMMA TailAppend ==
  ASSUME NEW S, NEW s \in Seq(S), NEW t \in Seq(S), NEW x \in S, IsTail(s, t)
  PROVE  IsTail(Append(s, x), Append(t, x))
  <1>1. PICK a, b \in Nat : a = Len(s) /\ b = Len(t)
    BY LenProperties
  <1>2. /\ Len(Append(s, x)) = a + 1 /\ Append(s, x)[a + 1] = x
        /\ \A i \in 1..a : Append(s, x)[i] = s[i]
    BY <1>1, AppendProperties
  <1>3. /\ Len(Append(t, x)) = b + 1 /\ Append(t, x)[b + 1] = x
        /\ \A i \in 1..b : Append(t, x)[i] = t[i]
    BY <1>1, AppendProperties
  <1>4. a <= b /\ \A i \in 1..a : s[i] = t[b - a + i]
    BY <1>1 DEF IsTail
  <1>5. ASSUME NEW i \in 1..(a + 1)
        PROVE  Append(s, x)[i] = Append(t, x)[(b + 1) - (a + 1) + i]
    <2>1. CASE i = a + 1
      <3>1. (b + 1) - (a + 1) + i = b + 1
        BY <2>1
      <3> QED  BY <1>2, <1>3, <2>1, <3>1
    <2>2. CASE i # a + 1
      <3>1. i \in 1..a /\ b - a + i \in 1..b /\ (b + 1) - (a + 1) + i = b - a + i
        BY <1>4, <2>2
      <3> QED  BY <1>2, <1>3, <1>4, <3>1
    <2> QED  BY <2>1, <2>2
  <1>6. a + 1 <= b + 1
    BY <1>4
  <1> QED  BY <1>2, <1>3, <1>5, <1>6 DEF IsTail

LEMMA TailIsSuffix ==
  ASSUME NEW S, NEW s \in Seq(S), NEW t \in Seq(S), IsTail(s, t)
  PROVE  IsSuffix(s, t)
  <1>1. PICK a, b \in Nat : a = Len(s) /\ b = Len(t)
    BY LenProperties
  <1>2. a <= b /\ \A i \in 1..a : s[i] = t[b - a + i]
    BY <1>1 DEF IsTail
  <1> DEFINE r == Reverse(s)
             v == Reverse(t)
  <1>3. r = [i \in 1..a |-> s[(a - i) + 1]] /\ v = [i \in 1..b |-> t[(b - i) + 1]]
    BY <1>1 DEF Reverse
  <1>4. Len(r) = a /\ Len(v) = b
    BY <1>3
  <1>5. \A i \in 1..a : r[i] = v[i]
    <2> SUFFICES ASSUME NEW i \in 1..a  PROVE r[i] = v[i]
      OBVIOUS
    <2>1. i \in 1..b /\ (a - i) + 1 \in 1..a /\ b - a + ((a - i) + 1) = (b - i) + 1
      BY <1>2
    <2>2. r[i] = s[(a - i) + 1] /\ v[i] = t[(b - i) + 1]
      BY <1>3, <2>1
    <2> QED  BY <1>2, <2>1, <2>2
  <1>6. \A i \in 1..a : r[i] \in S /\ v[i] \in S
    <2> SUFFICES ASSUME NEW i \in 1..a  PROVE r[i] \in S
      BY <1>5
    <2>1. (a - i) + 1 \in 1..Len(s)
      BY <1>1
    <2>2. s[(a - i) + 1] \in S
      BY <2>1, ElementOfSeq
    <2> QED  BY <1>3, <2>2
  <1> HIDE DEF r, v
  <1>7. /\ SubSeq(r, 1, a) \in Seq(S) /\ Len(SubSeq(r, 1, a)) = a - 1 + 1
        /\ \A i \in 1..(a - 1 + 1) : SubSeq(r, 1, a)[i] = r[1 + i - 1]
    <2>1. 1 \in Int /\ a \in Int /\ 1 <= a + 1 /\ \A i \in 1..a : r[i] \in S
      BY <1>6
    <2> QED  BY ONLY <2>1, SliceFacts
  <1>8. /\ SubSeq(v, 1, a) \in Seq(S) /\ Len(SubSeq(v, 1, a)) = a - 1 + 1
        /\ \A i \in 1..(a - 1 + 1) : SubSeq(v, 1, a)[i] = v[1 + i - 1]
    <2>1. 1 \in Int /\ a \in Int /\ 1 <= a + 1 /\ \A i \in 1..a : v[i] \in S
      BY <1>6
    <2> QED  BY ONLY <2>1, SliceFacts
  <1>9. \A i \in 1..(a - 1 + 1) : i \in 1..a /\ 1 + i - 1 = i
    OBVIOUS
  <1>10. SubSeq(r, 1, a) = SubSeq(v, 1, a)
    BY <1>5, <1>7, <1>8, <1>9, SeqEqual
  <1> QED  BY <1>2, <1>4, <1>10 DEF r, v, IsSuffix, IsPrefix

(* What PruneCopy keeps of the file. *)
Kept(p) == SubSeq(file, Skipped(p) + 1, Len(file))

LEMMA KeptFacts ==
  ASSUME Typed, NEW p \in Proc, pc[p] = "prune"
  PROVE  /\ Kept(p) \in Seq(LineType) /\ IsTail(Kept(p), file)
         /\ Len(Kept(p)) = 0 \/ Len(Kept(p)) + 1 + Period <= Len(file)
  <1>1. PICK n \in Nat : n = Len(file)
    BY LenProperties DEF Typed, TypeOK
  <1>2. MaxDepth > 0 /\ num[p] >= MaxDepth /\ num[p] \in Nat /\ file \in Seq(LineType)
    BY DEF Typed, TypeOK, StepsOK
  <1>3. PICK k \in Nat : k = Skipped(p) /\ (k >= n \/ k >= Period + 1)
    <2>1. CASE NPrune = 0
      BY <1>1, <2>1 DEF Skipped
    <2>2. CASE NPrune # 0
      <3>1. Skipped(p) = num[p] - NPrune + 1
        BY <2>2 DEF Skipped
      <3>2. NPrune \in 0..(MaxDepth - 1) /\ Period = MaxDepth - NPrune /\ MaxDepth \in Nat
        BY <1>2, PeriodFacts, PruneAssumption
      <3>3. num[p] - NPrune + 1 \in Nat /\ num[p] - NPrune + 1 >= Period + 1
        BY <1>2, <3>2
      <3> QED  BY <3>1, <3>3
    <2> QED  BY <2>1, <2>2
  <1>4. Kept(p) = SubSeq(file, k + 1, n)
    BY <1>1, <1>3 DEF Kept
  <1>5. CASE k >= n
    <2>1. k + 1 \in Int /\ n \in Int /\ n < k + 1
      BY <1>5
    <2>2. Kept(p) = <<>>
      BY <1>4, <2>1, SubSeqEmpty
    <2>3. Len(Kept(p)) = 0 /\ Kept(p) \in Seq(LineType)
      BY <2>2
    <2>4. IsTail(Kept(p), file)
      BY <1>1, <2>3 DEF IsTail
    <2> QED  BY <2>3, <2>4
  <1>6. CASE k < n
    <2>1. k + 1 \in Int /\ n \in Int /\ k + 1 <= n + 1 /\ \A i \in (k + 1)..n : file[i] \in LineType
      BY <1>1, <1>2, <1>6, ElementOfSeq
    <2>2. /\ SubSeq(file, k + 1, n) \in Seq(LineType)
          /\ Len(SubSeq(file, k + 1, n)) = n - (k + 1) + 1
          /\ \A i \in 1..(n - (k + 1) + 1) :
               SubSeq(file, k + 1, n)[i] = file[k + 1 + i - 1]
      BY ONLY <2>1, SliceFacts
    <2>3. n - (k + 1) + 1 = n - k /\ n - k <= n /\ n - k \in Nat
      BY <1>6
    <2>4. Len(Kept(p)) = n - k /\ Kept(p) \in Seq(LineType)
      BY <1>4, <2>2, <2>3
    <2>5. \A i \in 1..(n - k) : k + 1 + i - 1 = n - (n - k) + i
      OBVIOUS
    <2>6. IsTail(Kept(p), file)
      <3>1. \A i \in 1..(n - k) : Kept(p)[i] = file[n - (n - k) + i]
        BY <1>4, <2>2, <2>3, <2>5
      <3>2. Len(Kept(p)) <= Len(file)
        BY <1>1, <2>3, <2>4
      <3> QED  BY <1>1, <2>4, <3>1, <3>2 DEF IsTail
    <2>7. Period \in Int
      BY <1>2, PeriodFacts
    <2>8. (n - k) + 1 + Period <= n
      BY <1>3, <1>6, <2>7
    <2> QED  BY <1>1, <2>4, <2>6, <2>8
  <1>7. k >= n \/ k < n
    OBVIOUS
  <1> QED  BY <1>5, <1>6, <1>7

(***************************************************************************)
(* Types.                                                                  *)
(***************************************************************************)

LEMMA LineOK ==
  ASSUME Typed, NEW p \in Proc, pc[p] \notin {"idle", "dead"}
  PROVE  Line(p) \in LineType /\ Line(p)[1] = p /\ Line(p)[2] = added[p]
  <1>1. added[p] \in 1..MaxLines
    BY ProcAssumption DEF Typed, TypeOK, StepsOK
  <1> QED  BY <1>1 DEF Line, LineType

LEMMA TypedStep ==
  ASSUME Typed, [Next]_vars
  PROVE  Typed'
  <1>0. /\ MaxDepth \in Nat /\ MaxLines \in Nat
        /\ file \in Seq(LineType) /\ log \in Seq(LineType) /\ inode \in Nat
        /\ num \in [Proc -> Nat] /\ added \in [Proc -> 0..MaxLines]
        /\ tmp \in [Proc -> Seq(LineType)] /\ handle \in [Proc -> Nat]
        /\ raced \in BOOLEAN /\ (gone => file = <<>>)
        /\ pc \in [Proc -> {"idle", "count", "prune", "unlink", "rename", "append",
                            "write", "dead"}]
    BY PruneAssumption, ProcAssumption DEF Typed, TypeOK
  <1>1. StepsOK
    BY DEF Typed
  <1>2. Len(file) \in Nat /\ <<>> \in Seq(LineType)
    BY <1>0, LenProperties
  <1>3. CASE UNCHANGED vars
    BY <1>3, <1>0, <1>1 DEF vars, Typed, TypeOK, StepsOK
  <1>4. CASE Next
    <2> PICK p \in Proc :
          \/ AddLine(p) \/ CountLines(p) \/ PruneCopy(p) \/ Unlink(p) \/ Rename(p)
          \/ OpenToAppend(p) \/ WriteLine(p) \/ Kill(p) \/ Start(p)
      BY <1>4 DEF Next
    <2>1. CASE AddLine(p)
      <3>1. added' \in [Proc -> 0..MaxLines] /\ added'[p] > 0
            /\ \A q \in Proc : added[q] > 0 => added'[q] > 0
        BY <1>0, <2>1 DEF AddLine
      <3>2. StepsOK'
        BY <1>0, <1>1, <2>1, <3>1 DEF AddLine, Go, StepsOK
      <3> QED  BY <1>0, <2>1, <3>1, <3>2 DEF AddLine, Go, Typed, TypeOK
    <2>2. CASE CountLines(p)
      <3>1. num' \in [Proc -> Nat] /\ \A q \in Proc : q # p => num'[q] = num[q]
        BY <1>0, <1>2, <2>2 DEF CountLines
      <3>2. StepsOK'
        BY <1>0, <1>1, <2>2, <3>1 DEF CountLines, Go, StepsOK
      <3> QED  BY <1>0, <2>2, <3>1, <3>2 DEF CountLines, Go, Typed, TypeOK
    <2>3. CASE PruneCopy(p)
      <3>1. Kept(p) \in Seq(LineType)
        BY <2>3, KeptFacts DEF PruneCopy
      <3>2. Line(p) \in LineType
        BY <2>3, LineOK DEF PruneCopy
      <3>3. tmp' = [tmp EXCEPT ![p] = Append(Kept(p), Line(p))]
        BY <2>3 DEF PruneCopy, Kept
      <3>4. tmp' \in [Proc -> Seq(LineType)]
        BY <1>0, <3>1, <3>2, <3>3
      <3>5. StepsOK'
        BY <1>0, <1>1, <2>3 DEF PruneCopy, Go, StepsOK
      <3> QED  BY <1>0, <2>3, <3>4, <3>5 DEF PruneCopy, Go, Typed, TypeOK
    <2>4. CASE Unlink(p)
      <3>1. StepsOK'
        BY <1>0, <1>1, <2>4 DEF Unlink, Go, StepsOK
      <3> QED  BY <1>0, <1>2, <2>4, <3>1 DEF Unlink, Go, Typed, TypeOK
    <2>5. CASE Rename(p)
      <3>0. MaxDepth > 0
        BY <1>1, <2>5 DEF Rename, StepsOK
      <3>1. num' \in [Proc -> Nat] /\ \A q \in Proc : q # p => num'[q] = num[q]
        BY <1>0, <2>5, <3>0, PeriodFacts DEF Rename
      <3>2. Line(p) \in LineType
        BY <2>5, LineOK DEF Rename
      <3>3. tmp' \in [Proc -> Seq(LineType)] /\ log' \in Seq(LineType) /\ file' \in Seq(LineType)
        BY <1>0, <1>2, <2>5, <3>2 DEF Rename
      <3>4. StepsOK'
        BY <1>0, <1>1, <2>5, <3>0, <3>1 DEF Rename, Go, StepsOK
      <3> QED  BY <1>0, <2>5, <3>1, <3>3, <3>4 DEF Rename, Go, Typed, TypeOK
    <2>6. CASE OpenToAppend(p)
      <3>1. inode' \in Nat
        BY <1>0, <2>6 DEF OpenToAppend
      <3>2. handle' \in [Proc -> Nat]
        BY <1>0, <2>6, <3>1 DEF OpenToAppend
      <3>3. StepsOK'
        BY <1>0, <1>1, <2>6 DEF OpenToAppend, Go, StepsOK
      <3> QED  BY <1>0, <2>6, <3>1, <3>2, <3>3 DEF OpenToAppend, Go, Typed, TypeOK
    <2>7. CASE WriteLine(p)
      <3>1. Line(p) \in LineType
        BY <2>7, LineOK DEF WriteLine
      <3>2. file' \in Seq(LineType) /\ log' \in Seq(LineType) /\ (gone => file' = <<>>)
        BY <1>0, <2>7, <3>1 DEF WriteLine
      <3>3. num' \in [Proc -> Nat] /\ \A q \in Proc : q # p => num'[q] = num[q]
        BY <1>0, <2>7 DEF WriteLine
      <3>0. MaxDepth > 0
        BY <1>1, <2>7 DEF WriteLine, StepsOK
      <3>4. StepsOK'
        BY <1>0, <1>1, <2>7, <3>0, <3>3 DEF WriteLine, Go, StepsOK
      <3> QED  BY <1>0, <2>7, <3>2, <3>3, <3>4 DEF WriteLine, Go, Typed, TypeOK
    <2>8. CASE Kill(p)
      <3>1. StepsOK'
        BY <1>0, <1>1, <2>8 DEF Kill, Go, StepsOK
      <3> QED  BY <1>0, <2>8, <3>1 DEF Kill, Go, Typed, TypeOK
    <2>9. CASE Start(p)
      <3>1. num' \in [Proc -> Nat] /\ tmp' \in [Proc -> Seq(LineType)]
            /\ \A q \in Proc : q # p => num'[q] = num[q]
        BY <1>0, <1>2, <2>9 DEF Start
      <3>2. StepsOK'
        BY <1>0, <1>1, <2>9, <3>1 DEF Start, Go, StepsOK
      <3> QED  BY <1>0, <2>9, <3>1, <3>2 DEF Start, Go, Typed, TypeOK
    <2> QED  BY <2>1, <2>2, <2>3, <2>4, <2>5, <2>6, <2>7, <2>8, <2>9
  <1> QED  BY <1>3, <1>4

(***************************************************************************)
(* The order of the lines.                                                 *)
(***************************************************************************)

(* No step takes a line back, and one that begins to add a line numbers it. *)
Later ==
  \A q \in Proc :
    /\ added[q] <= added'[q]
    /\ pc'[q] \in Pending => pc[q] \in Pending \/ added[q] < added'[q]

LEMMA StepsAreLater ==
  ASSUME Typed, [Next]_vars
  PROVE  Later
  <1>0. added \in [Proc -> 0..MaxLines] /\ MaxLines \in Nat
        /\ pc \in [Proc -> {"idle", "count", "prune", "unlink", "rename", "append",
                            "write", "dead"}]
    BY ProcAssumption DEF Typed, TypeOK
  <1>1. CASE UNCHANGED vars
    BY <1>0, <1>1 DEF vars, Later
  <1>2. CASE Next
    <2> PICK p \in Proc :
          \/ AddLine(p) \/ CountLines(p) \/ PruneCopy(p) \/ Unlink(p) \/ Rename(p)
          \/ OpenToAppend(p) \/ WriteLine(p) \/ Kill(p) \/ Start(p)
      BY <1>2 DEF Next
    <2>1. CASE AddLine(p)
      BY <1>0, <2>1 DEF AddLine, Go, Later
    <2>2. CASE CountLines(p)
      BY <1>0, <2>2 DEF CountLines, Go, Later, Pending
    <2>3. CASE PruneCopy(p)
      BY <1>0, <2>3 DEF PruneCopy, Go, Later, Pending
    <2>4. CASE Unlink(p)
      BY <1>0, <2>4 DEF Unlink, Go, Later, Pending
    <2>5. CASE Rename(p)
      BY <1>0, <2>5 DEF Rename, Go, Later, Pending
    <2>6. CASE OpenToAppend(p)
      BY <1>0, <2>6 DEF OpenToAppend, Go, Later, Pending
    <2>7. CASE WriteLine(p)
      BY <1>0, <2>7 DEF WriteLine, Go, Later, Pending
    <2>8. CASE Kill(p)
      BY <1>0, <2>8 DEF Kill, Go, Later, Pending
    <2>9. CASE Start(p)
      BY <1>0, <2>9 DEF Start, Go, Later, Pending
    <2> QED  BY <2>1, <2>2, <2>3, <2>4, <2>5, <2>6, <2>7, <2>8, <2>9
  <1> QED  BY <1>1, <1>2

LEMMA LaterBehind ==
  ASSUME Typed, Typed', Later, NEW l \in LineType, Behind(l)
  PROVE  Behind(l)'
  <1>1. l[1] \in Proc /\ l[2] \in Int
    BY ProcAssumption DEF LineType
  <1>2. PICK q \in Proc : q = l[1]
    BY <1>1
  <1>3. added[q] \in Int /\ added'[q] \in Int
    BY <1>2, ProcAssumption DEF Typed, TypeOK
  <1>4. l[2] <= added[q] /\ (pc[q] \in Pending => l[2] < added[q])
    BY <1>2 DEF Behind
  <1>5. added[q] <= added'[q]
        /\ (pc'[q] \in Pending => pc[q] \in Pending \/ added[q] < added'[q])
    BY DEF Later
  <1>6. l[2] <= added'[q] /\ (pc'[q] \in Pending => l[2] < added'[q])
    BY <1>1, <1>3, <1>4, <1>5
  <1> QED  BY <1>2, <1>6 DEF Behind

LEMMA LaterPlaced ==
  ASSUME Typed, Typed', Later, NEW s \in Seq(LineType), Placed(s)
  PROVE  Placed(s)'
  <1>1. \A i \in DOMAIN s : s[i] \in LineType /\ Behind(s[i])
    BY ElementOfSeq DEF Placed
  <1>2. ASSUME NEW i \in DOMAIN s  PROVE Behind(s[i])'
    <2>1. PICK l \in LineType : l = s[i]
      BY <1>1
    <2>2. Behind(l)
      BY <1>1, <2>1
    <2>3. Behind(l)'
      BY <2>2, LaterBehind
    <2> QED  BY <2>1, <2>3
  <1> QED  BY <1>2 DEF Placed

(* The end of a file is as ordered as the file. *)
LEMMA TailPlaced ==
  ASSUME NEW s \in Seq(LineType), NEW t \in Seq(LineType), IsTail(s, t), Placed(t)
  PROVE  Placed(s)
  <1>1. PICK a, b \in Nat : a = Len(s) /\ b = Len(t) /\ DOMAIN s = 1..a /\ DOMAIN t = 1..b
    BY LenProperties
  <1>2. a <= b /\ \A i \in 1..a : s[i] = t[b - a + i] /\ b - a + i \in 1..b
    BY <1>1 DEF IsTail
  <1>3. \A i \in DOMAIN s : Behind(s[i])
    BY <1>1, <1>2 DEF Placed
  <1>4. Ascending(s)
    <2> SUFFICES ASSUME NEW i \in 1..a, NEW j \in 1..a, i < j, s[i][1] = s[j][1]
                 PROVE  s[i][2] < s[j][2]
      BY <1>1 DEF Ascending
    <2>1. PICK u, v \in 1..b : u = b - a + i /\ v = b - a + j
      BY <1>2
    <2>2. u < v /\ s[i] = t[u] /\ s[j] = t[v]
      BY <1>2, <2>1
    <2> QED  BY <1>1, <2>2 DEF Placed, Ascending
  <1> QED  BY <1>3, <1>4 DEF Placed

(* A process appends the line that it has added last. *)
LEMMA AppendPlaced ==
  ASSUME Typed, Typed', Later, NEW p \in Proc, pc[p] \in Pending, pc'[p] \notin Pending,
         added'[p] = added[p], NEW l \in LineType, l = Line(p),
         NEW s \in Seq(LineType), Placed(s)
  PROVE  Placed(Append(s, l))'
  <1>1. PICK n \in Nat : n = Len(s) /\ DOMAIN s = 1..n
    BY LenProperties
  <1> DEFINE t == Append(s, l)
  <1>2. DOMAIN t = 1..(n + 1) /\ t[n + 1] = l /\ \A i \in 1..n : t[i] = s[i]
    BY <1>1, AppendProperties
  <1>3. l[1] = p /\ l[2] = added[p]
    BY DEF Line
  <1> HIDE DEF t
  <1>4. added[p] \in Int /\ added'[p] \in Int
    BY ProcAssumption DEF Typed, TypeOK
  <1>5. Behind(l)'
    BY <1>3, <1>4 DEF Behind
  <1>6. Placed(s)'
    BY LaterPlaced
  <1>7. \A i \in DOMAIN s : Behind(s[i])'
    BY <1>6 DEF Placed
  <1>8. ASSUME NEW i \in DOMAIN t  PROVE Behind(t[i])'
    <2>1. i = n + 1 \/ i \in 1..n
      BY <1>2
    <2>2. CASE i = n + 1
      BY <1>2, <1>5, <2>2
    <2>3. CASE i \in 1..n
      <3>1. t[i] = s[i] /\ i \in DOMAIN s
        BY <1>1, <1>2, <2>3
      <3> QED  BY <1>7, <3>1
    <2> QED  BY <2>1, <2>2, <2>3
  <1>9. Ascending(t)
    <2> SUFFICES ASSUME NEW i \in 1..(n + 1), NEW j \in 1..(n + 1), i < j, t[i][1] = t[j][1]
                 PROVE  t[i][2] < t[j][2]
      BY <1>2 DEF Ascending
    <2>1. i \in 1..n /\ t[i] = s[i]
      BY <1>2
    <2>2. CASE j = n + 1
      <3>1. Behind(s[i]) /\ s[i][1] = p
        BY <1>1, <1>2, <1>3, <2>1, <2>2 DEF Placed
      <3>2. s[i][2] < added[p]
        BY <3>1 DEF Behind
      <3> QED  BY <1>2, <1>3, <2>1, <2>2, <3>2
    <2>3. CASE j # n + 1
      <3>1. j \in 1..n /\ t[j] = s[j]
        BY <1>2, <2>3
      <3> QED  BY <1>1, <2>1, <3>1 DEF Placed, Ascending
    <2> QED  BY <2>2, <2>3
  <1> QED  BY <1>8, <1>9 DEF t, Placed

LEMMA OrderStep ==
  ASSUME Typed, Typed', OrderOK, [Next]_vars
  PROVE  OrderOK'
  <1>0. Later
    BY StepsAreLater
  <1>1. /\ file \in Seq(LineType) /\ tmp \in [Proc -> Seq(LineType)]
        /\ Placed(file) /\ \A q \in Proc : Placed(tmp[q])
    BY DEF Typed, TypeOK, OrderOK
  <1>2. ASSUME NEW s \in Seq(LineType), Placed(s)  PROVE Placed(s)'
    BY <1>0, <1>2, LaterPlaced
  <1>3. Placed(<<>>)'
    BY DEF Placed, Ascending
  <1>4. PICK f \in Seq(LineType) : f = file /\ Placed(f)'
    BY <1>1, <1>2
  <1>5. PICK g \in [Proc -> Seq(LineType)] : g = tmp
    BY <1>1
  <1>6. \A q \in Proc : g[q] \in Seq(LineType) /\ Placed(g[q])
    BY <1>1, <1>5
  <1>7. \A q \in Proc : Placed(g[q])'
    BY <1>2, <1>6
  <1>8. file' = f => Placed(file)'
    BY <1>4
  <1>9. file' = <<>> => Placed(file)'
    BY <1>3
  <1>10. tmp' = g => \A q \in Proc : Placed(tmp[q])'
    BY <1>7
  <1>11. ASSUME NEW p \in Proc, tmp' = [tmp EXCEPT ![p] = <<>>]
         PROVE  \A q \in Proc : Placed(tmp[q])'
    <2> TAKE q \in Proc
    <2>1. tmp'[q] = IF q = p THEN <<>> ELSE g[q]
      BY <1>5, <1>11
    <2> QED  BY <1>3, <1>7, <2>1
  <1>12. CASE UNCHANGED vars
    BY <1>4, <1>5, <1>8, <1>10, <1>12 DEF vars, OrderOK
  <1>13. CASE Next
    <2> PICK p \in Proc :
          \/ AddLine(p) \/ CountLines(p) \/ PruneCopy(p) \/ Unlink(p) \/ Rename(p)
          \/ OpenToAppend(p) \/ WriteLine(p) \/ Kill(p) \/ Start(p)
      BY <1>13 DEF Next
    <2>1. CASE AddLine(p) \/ CountLines(p) \/ OpenToAppend(p) \/ Kill(p)
      <3>1. file' = f /\ tmp' = g
        BY <1>4, <1>5, <2>1 DEF AddLine, CountLines, OpenToAppend, Kill
      <3> QED  BY <1>8, <1>10, <3>1 DEF OrderOK
    <2>2. CASE PruneCopy(p)
      <3>1. /\ Kept(p) \in Seq(LineType) /\ IsTail(Kept(p), file)
            /\ Line(p) \in LineType
        BY <2>2, KeptFacts, LineOK DEF PruneCopy
      <3>2. PICK k \in Seq(LineType), l \in LineType : k = Kept(p) /\ l = Line(p)
        BY <3>1
      <3>3. Placed(k)
        BY <1>1, <3>1, <3>2, TailPlaced
      <3>4. /\ tmp' = [g EXCEPT ![p] = Append(k, l)] /\ file' = f
            /\ pc[p] \in Pending /\ pc'[p] \notin Pending /\ added'[p] = added[p]
        BY <1>4, <1>5, <2>2, <3>2 DEF PruneCopy, Kept, Go, Pending, Typed, TypeOK
      <3>5. Placed(Append(k, l))'
        BY <1>0, <3>2, <3>3, <3>4, AppendPlaced
      <3>6. ASSUME NEW q \in Proc  PROVE Placed(tmp[q])'
        <4>1. tmp'[q] = IF q = p THEN Append(k, l) ELSE g[q]
          BY <3>4
        <4> QED  BY <1>7, <3>5, <4>1
      <3> QED  BY <1>8, <3>4, <3>6 DEF OrderOK
    <2>3. CASE Unlink(p)
      <3>1. file' = <<>> /\ tmp' = g
        BY <1>5, <2>3 DEF Unlink
      <3> QED  BY <1>9, <1>10, <3>1 DEF OrderOK
    <2>4. CASE Rename(p)
      <3>1. file' = g[p] /\ tmp' = [tmp EXCEPT ![p] = <<>>]
        BY <1>5, <2>4 DEF Rename
      <3>2. Placed(file)'
        BY <1>7, <3>1
      <3> QED  BY <1>11, <3>1, <3>2 DEF OrderOK
    <2>5. CASE WriteLine(p)
      <3>1. PICK l \in LineType : l = Line(p)
        BY <2>5, LineOK DEF WriteLine
      <3>2. /\ tmp' = g /\ (file' = f \/ file' = Append(f, l))
            /\ pc[p] \in Pending /\ pc'[p] \notin Pending /\ added'[p] = added[p]
        BY <1>4, <1>5, <2>5, <3>1 DEF WriteLine, Go, Pending, Typed, TypeOK
      <3>3. Placed(Append(f, l))'
        BY <1>0, <1>1, <1>4, <3>1, <3>2, AppendPlaced
      <3>4. Placed(file)'
        BY <1>8, <3>2, <3>3
      <3> QED  BY <1>10, <3>2, <3>4 DEF OrderOK
    <2>6. CASE Start(p)
      <3>1. file' = f /\ tmp' = [tmp EXCEPT ![p] = <<>>]
        BY <1>4, <2>6 DEF Start
      <3> QED  BY <1>8, <1>11, <3>1 DEF OrderOK
    <2> QED  BY <2>1, <2>2, <2>3, <2>4, <2>5, <2>6
  <1> QED  BY <1>12, <1>13

(***************************************************************************)
(* A process alone in AppendToFile.                                        *)
(***************************************************************************)

(* If two processes have not been in AppendToFile at once, nobody else is  *)
(* there when p takes a step of it.                                        *)
LEMMA NobodyElse ==
  ASSUME SerialOK, ~raced, NEW p \in Proc, pc[p] \notin {"idle", "dead"},
         NEW q \in Proc, q # p
  PROVE  pc[q] \in {"idle", "dead"}
  BY DEF SerialOK, Busy

(* A step that q does not notice. *)
LEMMA StillAlone ==
  ASSUME NEW q \in Proc, Alone(q),
         pc'[q] = pc[q], tmp'[q] = tmp[q], num'[q] = num[q], added'[q] = added[q],
         handle'[q] = handle[q], file' = file, log' = log, inode' = inode, gone' = gone
  PROVE  Alone(q)'
  <1>1. Append(log, Line(q))' = Append(log, Line(q))
    BY DEF Line
  <1>2. IsTail(tmp[q], Append(log, Line(q)))' <=> IsTail(tmp[q], Append(log, Line(q)))
    BY <1>1 DEF IsTail
  <1> QED  BY <1>2 DEF Alone

LEMMA SerialStep ==
  ASSUME Typed, Typed', SerialOK, [Next]_vars
  PROVE  SerialOK'
  <1>0. /\ file \in Seq(LineType) /\ log \in Seq(LineType) /\ inode \in Nat
        /\ num \in [Proc -> Nat] /\ added \in [Proc -> 0..MaxLines]
        /\ tmp \in [Proc -> Seq(LineType)] /\ handle \in [Proc -> Nat]
        /\ raced \in BOOLEAN
        /\ pc \in [Proc -> {"idle", "count", "prune", "unlink", "rename", "append",
                            "write", "dead"}]
    BY DEF Typed, TypeOK
  <1>1. CASE UNCHANGED vars
    BY <1>1 DEF vars, SerialOK, Alone, Busy, Line, IsTail
  <1>2. CASE Next
    <2> PICK p \in Proc :
          \/ AddLine(p) \/ CountLines(p) \/ PruneCopy(p) \/ Unlink(p) \/ Rename(p)
          \/ OpenToAppend(p) \/ WriteLine(p) \/ Kill(p) \/ Start(p)
      BY <1>2 DEF Next
    <2> SUFFICES ASSUME ~raced'
                 PROVE  /\ \A q, r \in Busy' : q = r
                        /\ IsTail(file, log)'
                        /\ \A q \in Proc : Alone(q)'
      BY DEF SerialOK
    <2>0. ~raced
      BY DEF AddLine, CountLines, PruneCopy, Unlink, Rename, OpenToAppend, WriteLine, Kill, Start
    <2>a. /\ \A q, r \in Busy : q = r
          /\ IsTail(file, log) /\ \A q \in Proc : Alone(q)
      BY <2>0 DEF SerialOK
    <2>b. Busy' \subseteq Busy => \A q, r \in Busy' : q = r
      BY <2>a
    <2>c. ASSUME NEW q \in Proc, pc'[q] \in {"idle", "dead", "count", "prune"}
          PROVE  Alone(q)'
      BY <2>c DEF Alone
    <2>d. file' = file /\ log' = log => IsTail(file, log)'
      BY <2>a DEF IsTail
    <2>e. ASSUME pc[p] \notin {"idle", "dead"}, NEW q \in Proc, q # p, pc'[q] = pc[q]
          PROVE  Alone(q)'
      BY <2>0, <2>c, <2>e, NobodyElse
    <2>f. pc[p] \notin {"idle", "dead"} /\ (\A q \in Proc : q # p => pc'[q] = pc[q])
            => Busy' \subseteq Busy
      BY DEF Busy
    <2>1. CASE AddLine(p)
      <3>1. CASE MaxDepth = 0
        <4>1. /\ pc' = pc /\ file' = file /\ log' = log /\ num' = num /\ tmp' = tmp
              /\ handle' = handle /\ inode' = inode /\ gone' = gone
              /\ \A q \in Proc : q # p => added'[q] = added[q]
          BY <1>0, <2>1, <3>1 DEF AddLine
        <4>2. Busy' = Busy /\ pc'[p] = "idle"
          BY <2>1, <4>1 DEF AddLine, Busy
        <4>3. ASSUME NEW q \in Proc, q # p  PROVE Alone(q)'
          BY <2>a, <4>1, <4>3, StillAlone
        <4> QED  BY <2>b, <2>c, <2>d, <4>1, <4>2, <4>3
      <3>2. CASE MaxDepth # 0
        <4>1. Busy = {} /\ file' = file /\ log' = log /\ pc' = [pc EXCEPT ![p] = "count"]
          BY <2>1, <3>2 DEF AddLine, Go
        <4>2. \A q \in Proc : pc'[q] \in {"idle", "dead", "count"} /\ (q # p => pc'[q] = pc[q])
          BY <1>0, <4>1 DEF Busy
        <4>3. Busy' \subseteq {p}
          BY <4>1, <4>2 DEF Busy
        <4> QED  BY <2>c, <2>d, <4>1, <4>2, <4>3
      <3> QED  BY <3>1, <3>2
    <2>2. CASE CountLines(p)
      <3>1. /\ file' = file /\ log' = log /\ pc[p] = "count"
            /\ \A q \in Proc : q # p => pc'[q] = pc[q]
            /\ pc'[p] = IF num'[p] >= MaxDepth THEN "prune" ELSE "append"
            /\ num'[p] = IF num[p] < MaxDepth /\ (num[p] % Period) = 0 THEN Len(file) ELSE num[p]
        BY <1>0, <2>2 DEF CountLines, Go, Period
      <3>2. ASSUME pc'[p] = "append", (num'[p] % Period) = 0  PROVE num'[p] = Len(file')
        <4>1. num'[p] < MaxDepth
          BY <1>0, <3>1, <3>2, PruneAssumption DEF Typed, TypeOK
        <4> QED  BY <3>1, <3>2, <4>1
      <3>3. Alone(p)'
        BY <3>1, <3>2 DEF Alone
      <3> QED  BY <2>b, <2>d, <2>e, <2>f, <3>1, <3>3
    <2>3. CASE PruneCopy(p)
      <3>1. /\ Kept(p) \in Seq(LineType) /\ IsTail(Kept(p), file)
            /\ Len(Kept(p)) = 0 \/ Len(Kept(p)) + 1 + Period <= Len(file)
            /\ Line(p) \in LineType
        BY <2>3, KeptFacts, LineOK DEF PruneCopy
      <3>2. /\ file' = file /\ log' = log /\ pc[p] = "prune" /\ pc'[p] = "unlink"
            /\ \A q \in Proc : q # p => pc'[q] = pc[q]
            /\ tmp'[p] = Append(Kept(p), Line(p)) /\ Line(p)' = Line(p)
        BY <1>0, <2>3 DEF PruneCopy, Go, Kept, Line
      <3>3. IsTail(tmp'[p], Append(log, Line(p)))
        <4>1. IsTail(Kept(p), log)
          BY <1>0, <2>a, <3>1, TailOfTail
        <4> QED  BY <1>0, <3>1, <3>2, <4>1, TailAppend
      <3>4. Len(tmp'[p]) <= 1 \/ Len(tmp'[p]) + Period <= Len(file)
        <4>1. Len(tmp'[p]) = Len(Kept(p)) + 1 /\ Len(Kept(p)) \in Nat
          BY <3>1, <3>2, AppendProperties, LenProperties
        <4>2. Period \in Int /\ Len(file) \in Int
          BY <1>0, LenProperties, PeriodFacts, PruneAssumption DEF Period
        <4> QED  BY <3>1, <4>1, <4>2
      <3>5. Alone(p)'
        BY <3>2, <3>3, <3>4 DEF Alone, IsTail
      <3> QED  BY <2>b, <2>d, <2>e, <2>f, <3>2, <3>5
    <2>4. CASE Unlink(p)
      <3>1. /\ file' = <<>> /\ log' = log /\ tmp' = tmp /\ pc[p] = "unlink" /\ pc'[p] = "rename"
            /\ \A q \in Proc : q # p => pc'[q] = pc[q]
            /\ Line(p)' = Line(p)
        BY <1>0, <2>4 DEF Unlink, Go, Line
      <3>2. IsTail(file, log)'
        BY <1>0, <3>1, LenProperties DEF IsTail
      <3>3. Alone(p)'
        BY <2>a, <3>1 DEF Alone, IsTail
      <3> QED  BY <2>b, <2>e, <2>f, <3>1, <3>2, <3>3
    <2>5. CASE Rename(p)
      <3>1. /\ file' = tmp[p] /\ log' = Append(log, Line(p)) /\ pc[p] = "rename" /\ pc'[p] = "idle"
            /\ \A q \in Proc : q # p => pc'[q] = pc[q]
        BY <1>0, <2>5 DEF Rename, Go
      <3>2. IsTail(file, log)'
        BY <2>a, <3>1 DEF Alone, IsTail
      <3> QED  BY <2>b, <2>c, <2>e, <2>f, <3>1, <3>2
    <2>6. CASE OpenToAppend(p)
      <3>1. /\ file' = file /\ log' = log /\ num' = num
            /\ pc[p] = "append" /\ pc'[p] = "write" /\ ~gone' /\ handle'[p] = inode'
            /\ \A q \in Proc : q # p => pc'[q] = pc[q]
        BY <1>0, <2>6 DEF OpenToAppend, Go
      <3>2. Alone(p)'
        BY <2>a, <3>1 DEF Alone
      <3> QED  BY <2>b, <2>d, <2>e, <2>f, <3>1, <3>2
    <2>7. CASE WriteLine(p)
      <3>1. handle[p] = inode /\ ~gone /\ pc[p] = "write"
        BY <2>7, <2>a DEF WriteLine, Alone
      <3>2. /\ file' = Append(file, Line(p)) /\ log' = Append(log, Line(p)) /\ pc'[p] = "idle"
            /\ \A q \in Proc : q # p => pc'[q] = pc[q]
        BY <1>0, <2>7, <3>1 DEF WriteLine, Go
      <3>3. Line(p) \in LineType
        BY <3>1, LineOK
      <3>4. IsTail(Append(file, Line(p)), Append(log, Line(p)))
        BY <1>0, <2>a, <3>3, TailAppend
      <3>5. IsTail(file, log)'
        BY <3>2, <3>4 DEF IsTail
      <3> QED  BY <2>b, <2>c, <2>e, <2>f, <3>1, <3>2, <3>5
    <2>8. CASE Kill(p) \/ Start(p)
      <3>1. /\ file' = file /\ log' = log /\ inode' = inode /\ gone' = gone /\ added' = added
            /\ handle' = handle /\ pc'[p] \in {"idle", "dead"}
            /\ \A q \in Proc : q # p => pc'[q] = pc[q] /\ num'[q] = num[q] /\ tmp'[q] = tmp[q]
        BY <1>0, <2>8 DEF Kill, Start, Go
      <3>2. Busy' \subseteq Busy
        BY <3>1 DEF Busy
      <3>3. ASSUME NEW q \in Proc, q # p  PROVE Alone(q)'
        BY <2>a, <3>1, <3>3, StillAlone
      <3> QED  BY <2>b, <2>c, <2>d, <3>1, <3>2, <3>3
    <2> QED  BY <2>1, <2>2, <2>3, <2>4, <2>5, <2>6, <2>7, <2>8
  <1> QED  BY <1>1, <1>2

(***************************************************************************)
(* The size of the file.                                                   *)
(***************************************************************************)

LEMMA CreditFacts ==
  Typed /\ MaxDepth > 0 =>
    /\ Credit \in [Proc -> Nat]
    /\ \A q \in Proc :
         /\ Credit[q] = IF pc[q] \in {"append", "write"} THEN 1 + After(num[q] + 1)
                        ELSE After(num[q])
         /\ Credit[q] <= Period
         /\ pc[q] \notin {"append", "write"} => Credit[q] <= Period - 1
  <1> SUFFICES ASSUME Typed, MaxDepth > 0
               PROVE  /\ Credit \in [Proc -> Nat]
                      /\ \A q \in Proc :
                           /\ Credit[q] = IF pc[q] \in {"append", "write"}
                                          THEN 1 + After(num[q] + 1) ELSE After(num[q])
                           /\ Credit[q] <= Period
                           /\ pc[q] \notin {"append", "write"} => Credit[q] <= Period - 1
    OBVIOUS
  <1>1. PICK k \in Nat \ {0} : k = Period
    BY PeriodFacts
  <1>2. ASSUME NEW q \in Proc
        PROVE  After(num[q]) \in 0..(k - 1) /\ After(num[q] + 1) \in 0..(k - 1)
    <2>1. num[q] \in Nat /\ num[q] + 1 \in Nat
      BY DEF Typed, TypeOK
    <2> QED  BY <1>1, <2>1, AfterFacts
  <1>3. \A q \in Proc : Credit[q] = IF pc[q] \in {"append", "write"} THEN 1 + After(num[q] + 1)
                                    ELSE After(num[q])
    BY DEF Credit
  <1>4. ASSUME NEW q \in Proc
        PROVE  /\ Credit[q] \in 0..k
               /\ pc[q] \notin {"append", "write"} => Credit[q] <= k - 1
    BY <1>2, <1>3
  <1>5. Credit \in [Proc -> Nat]
    BY <1>4 DEF Credit
  <1> QED  BY <1>1, <1>3, <1>4, <1>5

LEMMA SizeStep ==
  ASSUME Typed, Typed', SerialOK, SizeOK, [Next]_vars
  PROVE  SizeOK'
  <1> SUFFICES ASSUME ~raced', MaxDepth > 0
               PROVE  /\ (Len(file) + Owed <= MostLines)'
                      /\ \A q \in Proc : pc'[q] \in {"unlink", "rename"} =>
                           Len(tmp'[q]) + Owed' + After(NPrune) <= MostLines
    BY DEF SizeOK
  <1>0. /\ file \in Seq(LineType) /\ num \in [Proc -> Nat]
        /\ tmp \in [Proc -> Seq(LineType)]
        /\ pc \in [Proc -> {"idle", "count", "prune", "unlink", "rename", "append",
                            "write", "dead"}]
    BY DEF Typed, TypeOK
  <1>1. file' \in Seq(LineType) /\ num' \in [Proc -> Nat] /\ tmp' \in [Proc -> Seq(LineType)]
    BY DEF Typed, TypeOK
  <1>2. /\ \A q \in Proc : num[q] \in Nat /\ num'[q] \in Nat
        /\ \A q \in Proc : Len(tmp[q]) \in Nat /\ Len(tmp'[q]) \in Nat
        /\ Len(file) \in Nat /\ Len(file') \in Nat
    BY <1>0, <1>1, LenProperties
  <1>3. PICK m \in Nat \ {0}, k \in Nat \ {0} : m = MaxDepth /\ k = Period /\ k <= m
    BY PeriodFacts, PruneAssumption
  <1>4. PICK x \in Nat : x = (Cardinality(Proc) - 1) * (Period - 1) \/ Proc = {}
    <2>1. Cardinality(Proc) \in Nat /\ (Cardinality(Proc) = 0 <=> Proc = {})
      BY ProcAssumption, FS_CardinalityType, FS_EmptySet
    <2>2. CASE Cardinality(Proc) = 0
      BY <2>1, <2>2
    <2>3. CASE Cardinality(Proc) # 0
      <3>1. Cardinality(Proc) - 1 \in Nat /\ k - 1 \in Nat
        BY <2>1, <2>3
      <3>2. (Cardinality(Proc) - 1) * (k - 1) \in Nat
        BY <3>1
      <3> QED  BY <1>3, <3>2
    <2> QED  BY <2>2, <2>3
  <1>5. PICK f \in [Proc -> Nat], g \in [Proc -> Nat] : f = Credit /\ g = Credit'
    <2>1. Credit \in [Proc -> Nat]
      BY CreditFacts
    <2>2. (Typed /\ MaxDepth > 0)' => (Credit \in [Proc -> Nat])'
      BY CreditFacts, PTL
    <2> QED  BY <2>1, <2>2
  <1>6. \A q \in Proc :
          /\ f[q] = IF pc[q] \in {"append", "write"} THEN 1 + After(num[q] + 1) ELSE After(num[q])
          /\ f[q] <= k /\ (pc[q] \notin {"append", "write"} => f[q] <= k - 1)
    BY <1>3, <1>5, CreditFacts
  <1>7. \A q \in Proc :
          /\ g[q] = IF pc'[q] \in {"append", "write"} THEN 1 + After(num'[q] + 1)
                    ELSE After(num'[q])
          /\ g[q] <= k /\ (pc'[q] \notin {"append", "write"} => g[q] <= k - 1)
    <2>1. (Typed /\ MaxDepth > 0)' =>
            (\A q \in Proc :
               /\ Credit[q] = IF pc[q] \in {"append", "write"} THEN 1 + After(num[q] + 1)
                              ELSE After(num[q])
               /\ Credit[q] <= Period
               /\ pc[q] \notin {"append", "write"} => Credit[q] <= Period - 1)'
      BY CreditFacts, PTL
    <2> QED  BY <1>3, <1>5, <2>1
  <1>8. PICK o, n \in Nat : /\ o = Cardinality(Tickets(f)) /\ n = Cardinality(Tickets(g))
                            /\ o = Owed /\ n = Owed'
    BY <1>5, TicketsFinite DEF Owed
  <1>9. (\A q \in Proc : g[q] <= f[q]) => n <= o
    BY <1>8, TicketsShrink
  <1>10. \A q \in Proc : pc'[q] = pc[q] /\ num'[q] = num[q] => g[q] = f[q]
    BY <1>6, <1>7
  <1>11. \A i \in Nat : /\ After(i) \in 0..(k - 1)
                        /\ i >= m => After(i) = 0
                        /\ i < m => After(i) <= m - i
                        /\ (i % k) = 0 => After(i) = 0
                        /\ i < m /\ (i % k) # 0 => After(i) = 1 + After(i + 1)
    BY <1>3, AfterFacts
  <1>12. NPrune \in Nat /\ \E z \in 0..(k - 1) : z = After(NPrune)
    BY <1>11, PeriodFacts
  <1>13. PICK z \in 0..(k - 1) : z = After(NPrune)
    BY <1>12
  <1>14. \A q \in Proc : /\ num[q] + 1 \in Nat /\ num'[q] + 1 \in Nat
                        /\ After(num[q] + 1) \in 0..(k - 1) /\ After(num'[q] + 1) \in 0..(k - 1)
    <2>1. \A i \in Nat : After(i) \in 0..(k - 1)
      BY <1>11
    <2>2. \A i \in Nat : i + 1 \in Nat
      OBVIOUS
    <2> QED  BY <1>2, <2>1, <2>2
  <1>15. CASE UNCHANGED vars
    <2>1. SizeOK' <=> SizeOK
      BY <1>15 DEF vars, SizeOK, Owed, Credit
    <2> QED  BY <2>1, <1>15 DEF vars, SizeOK
  <1>16. CASE Next
    <2> PICK p \in Proc :
          \/ AddLine(p) \/ CountLines(p) \/ PruneCopy(p) \/ Unlink(p) \/ Rename(p)
          \/ OpenToAppend(p) \/ WriteLine(p) \/ Kill(p) \/ Start(p)
      BY <1>16 DEF Next
    <2>0. MostLines = m + x /\ x = (Cardinality(Proc) - 1) * (Period - 1)
      BY <1>3, <1>4 DEF MostLines
    <2>a. ~raced
      BY DEF AddLine, CountLines, PruneCopy, Unlink, Rename, OpenToAppend, WriteLine, Kill, Start
    <2>b. /\ Len(file) + o <= m + x
          /\ \A q \in Proc : pc[q] \in {"unlink", "rename"} =>
               Len(tmp[q]) + o + z <= m + x
      BY <1>8, <1>13, <2>0, <2>a DEF SizeOK
    <2> SUFFICES /\ Len(file') + n <= m + x
                 /\ \A q \in Proc : pc'[q] \in {"unlink", "rename"} =>
                      Len(tmp'[q]) + n + z <= m + x
      BY <1>8, <1>13, <2>0 DEF MostLines
    <2>c. ASSUME NEW r \in Proc, \A q \in Proc : q # r => g[q] <= k - 1
          PROVE  n <= x + g[r]
      BY <1>3, <1>8, <2>0, <2>c, TicketsOfOthers
    <2>d. ASSUME pc[p] \notin {"idle", "dead"}, NEW q \in Proc, q # p
          PROVE  pc[q] \in {"idle", "dead"}
      BY <2>a, <2>d, NobodyElse
    <2>e. Alone(p) /\ \A q \in Proc : Alone(q)
      BY <2>a DEF SerialOK
    <2>f. ASSUME file' = file, n <= o  PROVE Len(file') + n <= m + x
      <3>1. PICK a \in Nat : a = Len(file) /\ a = Len(file')
        BY <1>2, <2>f
      <3>2. a + o <= m + x
        BY <2>b, <3>1
      <3>3. a + n <= m + x
        BY <2>f, <3>2
      <3> QED  BY <3>1, <3>3
    <2>1. CASE AddLine(p)
      <3>1. /\ Busy = {} /\ file' = file /\ num' = num /\ pc[p] = "idle" /\ pc'[p] = "count"
            /\ \A q \in Proc : q # p => pc'[q] = pc[q]
        BY <1>0, <1>3, <2>1 DEF AddLine, Go
      <3>2. \A q \in Proc : g[q] <= f[q] /\ pc'[q] \notin {"unlink", "rename"}
        BY <1>6, <1>7, <3>1 DEF Busy
      <3> QED  BY <1>9, <2>f, <3>1, <3>2
    <2>2. CASE CountLines(p)
      <3>1. /\ file' = file /\ pc[p] = "count"
            /\ \A q \in Proc : q # p => pc'[q] = pc[q] /\ num'[q] = num[q]
            /\ pc'[p] = IF num'[p] >= m THEN "prune" ELSE "append"
            /\ num'[p] = IF num[p] < m /\ (num[p] % k) = 0 THEN Len(file) ELSE num[p]
        BY <1>0, <1>3, <2>2 DEF CountLines, Go, Period
      <3>2. \A q \in Proc : q # p => g[q] = f[q] /\ g[q] <= k - 1 /\ pc'[q] \in {"idle", "dead"}
        BY <1>7, <1>10, <2>d, <3>1
      <3>3. \A q \in Proc : pc'[q] \notin {"unlink", "rename"}
        BY <3>1, <3>2
      <3>4. CASE num'[p] >= m
        <4>1. g[p] = 0
          BY <1>2, <1>7, <1>11, <3>1, <3>4
        <4>2. n <= o
          BY <1>9, <3>2, <4>1
        <4> QED  BY <2>f, <3>1, <3>3, <4>2
      <3>5. CASE num'[p] < m /\ num[p] < m /\ (num[p] % k) = 0
        <4>1. g[p] = 1 + After(num'[p] + 1) /\ num'[p] = Len(file)
          BY <1>2, <1>3, <1>7, <3>1, <3>5
        <4>2. After(num'[p] + 1) <= m - (num'[p] + 1)
          <5>1. PICK v \in Nat : v = num'[p] /\ v + 1 \in Nat
            BY <1>2
          <5>2. v + 1 < m => After(v + 1) <= m - (v + 1)
            BY <1>11, <5>1
          <5>3. v + 1 >= m => After(v + 1) = 0
            BY <1>11, <5>1
          <5> QED  BY <3>5, <5>1, <5>2, <5>3
        <4>3. n <= x + g[p]
          BY <2>c, <3>2
        <4>4. PICK v \in Nat, w \in Nat : v = Len(file) /\ w = After(v + 1)
          BY <1>2, <1>14, <4>1
        <4>5. n <= x + 1 + w /\ w <= m - (v + 1)
          BY <4>1, <4>2, <4>3, <4>4
        <4>6. Len(file') + n <= m + x
          BY <3>1, <4>4, <4>5
        <4> QED  BY <3>3, <4>6
      <3>6. CASE num'[p] < m /\ ~(num[p] < m /\ (num[p] % k) = 0)
        <4>1. num'[p] = num[p] /\ num[p] < m /\ (num[p] % k) # 0
          BY <3>1, <3>6
        <4>2. g[p] = 1 + After(num[p] + 1) /\ f[p] = After(num[p])
          BY <1>2, <1>3, <1>6, <1>7, <3>1, <4>1
        <4>3. g[p] = f[p]
          BY <1>2, <1>11, <4>1, <4>2
        <4>4. n <= o
          BY <1>9, <3>2, <4>3
        <4> QED  BY <2>f, <3>1, <3>3, <4>4
      <3> QED  BY <1>2, <3>4, <3>5, <3>6
    <2>3. CASE PruneCopy(p)
      <3>1. /\ file' = file /\ num' = num /\ pc[p] = "prune" /\ pc'[p] = "unlink"
            /\ \A q \in Proc : q # p => pc'[q] = pc[q]
            /\ tmp'[p] = Append(Kept(p), Line(p))
        BY <1>0, <2>3 DEF PruneCopy, Go, Kept
      <3>2. /\ Kept(p) \in Seq(LineType) /\ Line(p) \in LineType
            /\ Len(Kept(p)) = 0 \/ Len(Kept(p)) + 1 + k <= Len(file)
        BY <1>3, <3>1, KeptFacts, LineOK
      <3>3. Len(tmp'[p]) = Len(Kept(p)) + 1 /\ Len(Kept(p)) \in Nat
        BY <3>1, <3>2, AppendProperties, LenProperties
      <3>4. \A q \in Proc : q # p => g[q] = f[q] /\ g[q] <= k - 1 /\ pc'[q] \in {"idle", "dead"}
        BY <1>7, <1>10, <2>d, <3>1
      <3>5. g[p] = f[p] /\ g[p] = 0
        <4>1. num[p] >= m
          BY <1>3, <3>1 DEF Typed, StepsOK
        <4> QED  BY <1>2, <1>6, <1>7, <1>11, <3>1, <4>1
      <3>6. n <= o /\ n <= x + g[p]
        BY <1>9, <2>c, <3>4, <3>5
      <3>7. Len(tmp'[p]) + n + z <= m + x
        <4>1. PICK a, b, u \in Nat : a = Len(file) /\ b = Len(Kept(p)) /\ u = Len(tmp'[p])
          BY <1>2, <3>3
        <4>2. u = b + 1 /\ (b = 0 \/ b + 1 + k <= a) /\ a + o <= m + x
          BY <2>b, <3>2, <3>3, <4>1
        <4>3. n <= o /\ n <= x
          BY <3>5, <3>6
        <4>4. u + n + z <= m + x
          BY <1>3, <4>2, <4>3
        <4> QED  BY <4>1, <4>4
      <3>8. \A q \in Proc : pc'[q] \in {"unlink", "rename"} => Len(tmp'[q]) + n + z <= m + x
        BY <3>4, <3>7
      <3>9. Len(file') + n <= m + x
        BY <2>f, <3>1, <3>6
      <3> QED  BY <3>8, <3>9
    <2>4. CASE Unlink(p)
      <3>1. /\ file' = <<>> /\ num' = num /\ tmp' = tmp /\ pc[p] = "unlink" /\ pc'[p] = "rename"
            /\ \A q \in Proc : q # p => pc'[q] = pc[q]
        BY <1>0, <2>4 DEF Unlink, Go
      <3>2. \A q \in Proc : g[q] <= f[q]
        BY <1>6, <1>7, <3>1
      <3>3. Len(file') = 0 /\ n <= o
        BY <1>9, <3>1, <3>2
      <3>4. \A q \in Proc : pc'[q] \in {"unlink", "rename"} => pc[q] \in {"unlink", "rename"}
        BY <3>1
      <3> QED  BY <1>2, <1>13, <2>b, <3>1, <3>3, <3>4
    <2>5. CASE Rename(p)
      <3>1. /\ file' = tmp[p] /\ num'[p] = NPrune /\ pc[p] = "rename" /\ pc'[p] = "idle"
            /\ \A q \in Proc : q # p => pc'[q] = pc[q] /\ num'[q] = num[q]
        BY <1>0, <2>5 DEF Rename, Go
      <3>2. g[p] = After(NPrune) /\ \A q \in Proc : q # p => g[q] <= f[q]
        BY <1>7, <1>10, <3>1
      <3>3. n <= o + g[p]
        BY <1>8, <3>2, TicketsOfOne
      <3>4. \A q \in Proc : pc'[q] \notin {"unlink", "rename"}
        BY <2>d, <3>1
      <3>5. n <= o + z /\ Len(tmp[p]) + o + z <= m + x /\ Len(tmp[p]) \in Nat
        BY <1>2, <1>13, <2>b, <3>1, <3>2, <3>3
      <3>6. Len(file') + n <= m + x
        BY <3>1, <3>5
      <3> QED  BY <3>4, <3>6
    <2>6. CASE OpenToAppend(p)
      <3>1. /\ file' = file /\ num' = num /\ pc[p] = "append" /\ pc'[p] = "write"
            /\ \A q \in Proc : q # p => pc'[q] = pc[q]
        BY <1>0, <2>6 DEF OpenToAppend, Go
      <3>2. \A q \in Proc : g[q] <= f[q] /\ pc'[q] \notin {"unlink", "rename"}
        BY <1>6, <1>7, <2>d, <3>1
      <3> QED  BY <1>9, <2>f, <3>1, <3>2
    <2>7. CASE WriteLine(p)
      <3>1. /\ file' = file \/ file' = Append(file, Line(p))
            /\ num'[p] = num[p] + 1 /\ pc[p] = "write" /\ pc'[p] = "idle"
            /\ \A q \in Proc : q # p => pc'[q] = pc[q] /\ num'[q] = num[q]
        BY <1>0, <2>7 DEF WriteLine, Go
      <3>2. f[p] = 1 + After(num[p] + 1) /\ g[p] = After(num[p] + 1) /\ After(num[p] + 1) \in Nat
        BY <1>6, <1>7, <1>14, <3>1
      <3>3. n + 1 <= o
        <4>1. \A q \in Proc : g[q] <= f[q]
          BY <1>10, <3>1, <3>2
        <4>2. g[p] < f[p] /\ f[p] <= Period
          BY <1>3, <1>6, <3>2
        <4> QED  BY <1>8, <4>1, <4>2, TicketsSpent
      <3>4. Len(file') <= Len(file) + 1
        <4>1. Line(p) \in LineType
          BY <3>1, LineOK
        <4> QED  BY <1>0, <1>2, <3>1, <4>1, AppendProperties
      <3>5. \A q \in Proc : pc'[q] \notin {"unlink", "rename"}
        BY <2>d, <3>1
      <3>6. PICK a, b \in Nat : a = Len(file) /\ b = Len(file')
        BY <1>2
      <3>7. b <= a + 1 /\ a + o <= m + x
        BY <2>b, <3>4, <3>6
      <3>8. b + n <= m + x
        BY <3>3, <3>7
      <3> QED  BY <3>5, <3>6, <3>8
    <2>8. CASE Kill(p)
      <3>1. /\ file' = file /\ num' = num /\ tmp' = tmp /\ pc'[p] = "dead"
            /\ \A q \in Proc : q # p => pc'[q] = pc[q]
        BY <1>0, <2>8 DEF Kill, Go
      <3>2. g[p] <= f[p]
        <4>1. PICK i \in Nat, v \in Nat, w \in Nat :
                i = num[p] /\ v = After(i) /\ w = After(i + 1)
          <5>1. PICK i \in Nat : i = num[p]
            BY <1>2
          <5>2. After(i + 1) \in 0..(k - 1)
            BY <1>14, <5>1
          <5>3. After(i) \in 0..(k - 1)
            BY <1>11
          <5> QED  BY <5>1, <5>2, <5>3
        <4>2. i >= m \/ (i % k) = 0 => v = 0
          BY <1>11, <4>1
        <4>3. ~(i >= m) /\ (i % k) # 0 => v = 1 + w
          BY <1>11, <4>1
        <4>4. v <= 1 + w
          BY <4>2, <4>3
        <4>5. g[p] = v /\ (f[p] = v \/ f[p] = 1 + w)
          BY <1>6, <1>7, <3>1, <4>1
        <4> QED  BY <4>4, <4>5
      <3>3. n <= o
        BY <1>9, <1>10, <3>1, <3>2
      <3>4. \A q \in Proc : pc'[q] \in {"unlink", "rename"} => pc[q] \in {"unlink", "rename"}
        BY <3>1
      <3>5. Len(file') + n <= m + x
        BY <2>f, <3>1, <3>3
      <3>6. ASSUME NEW q \in Proc, pc[q] \in {"unlink", "rename"}
            PROVE  Len(tmp'[q]) + n + z <= m + x
        BY <1>2, <2>b, <3>1, <3>3, <3>6
      <3> QED  BY <3>4, <3>5, <3>6
    <2>9. CASE Start(p)
      <3>1. /\ file' = file /\ num'[p] = Len(file) /\ pc[p] = "dead" /\ pc'[p] = "idle"
            /\ \A q \in Proc : q # p => pc'[q] = pc[q] /\ num'[q] = num[q] /\ tmp'[q] = tmp[q]
        BY <1>0, <2>9 DEF Start, Go
      <3>2. g[p] = After(Len(file)) /\ \A q \in Proc : q # p => g[q] = f[q]
        BY <1>7, <1>10, <3>1
      <3>3. \A q \in Proc : pc'[q] \in {"unlink", "rename"} =>
              q # p /\ pc[q] \in {"unlink", "rename"} /\ tmp'[q] = tmp[q]
        BY <3>1
      <3>4. CASE After(Len(file)) = 0
        <4>1. n <= o
          BY <1>9, <3>2, <3>4
        <4>2. Len(file') + n <= m + x
          BY <2>f, <3>1, <4>1
        <4>3. ASSUME NEW q \in Proc, pc'[q] \in {"unlink", "rename"}
              PROVE  Len(tmp'[q]) + n + z <= m + x
          <5>1. Len(tmp'[q]) \in Nat /\ Len(tmp'[q]) + o + z <= m + x
            BY <1>2, <2>b, <3>3, <4>3
          <5> QED  BY <4>1, <5>1
        <4> QED  BY <4>2, <4>3
      <3>5. CASE After(Len(file)) # 0
        <4>1. Len(file) < m /\ After(Len(file)) <= m - Len(file) /\ After(Len(file)) <= k - 1
              /\ (Len(file) % k) # 0 /\ After(Len(file)) \in Nat
          <5>1. PICK a \in Nat : a = Len(file)
            BY <1>2
          <5>2. After(a) # 0
            BY <3>5, <5>1
          <5>3. a < m /\ (a % k) # 0
            BY <1>11, <5>2
          <5>4. After(a) \in 0..(k - 1) /\ After(a) <= m - a
            BY <1>11, <5>3
          <5> QED  BY <5>1, <5>3, <5>4
        <4>2. \A q \in Proc : q # p => g[q] <= k - 1
          <5> SUFFICES ASSUME NEW q \in Proc, q # p, pc[q] \in {"append", "write"}
                       PROVE  g[q] <= k - 1
            BY <1>6, <3>2
          <5>1. (num[q] % k) # 0
            BY <1>3, <2>e, <4>1 DEF Alone
          <5>2. f[q] = 1 + After(num[q] + 1)
            BY <1>6
          <5>3. CASE num[q] < m
            BY <1>2, <1>11, <3>2, <5>1, <5>2, <5>3
          <5>4. CASE num[q] >= m
            <6>1. num[q] + 1 \in Nat /\ num[q] + 1 >= m
              BY <1>2, <5>4
            <6>2. f[q] = 1
              BY <1>11, <5>2, <6>1
            <6>3. 2 <= k
              BY <4>1, <3>5
            <6> QED  BY <3>2, <6>2, <6>3
          <5> QED  BY <1>2, <5>3, <5>4
        <4>3. n <= x + g[p]
          BY <2>c, <4>2
        <4>4. Len(file') + n <= m + x
          BY <1>2, <3>1, <3>2, <4>1, <4>3
        <4>5. ASSUME NEW q \in Proc, pc'[q] \in {"unlink", "rename"}
              PROVE  Len(tmp'[q]) + n + z <= m + x
          <5>1. q # p /\ pc[q] \in {"unlink", "rename"} /\ tmp'[q] = tmp[q]
            BY <3>3, <4>5
          <5>2. Len(file) # 0
            BY <1>11, <1>3, <4>1
          <5>3. pc[q] = "unlink"
            BY <2>e, <5>1, <5>2 DEF Alone
          <5>4. Len(tmp[q]) <= 1 \/ Len(tmp[q]) + k <= Len(file)
            BY <1>3, <2>e, <5>3 DEF Alone
          <5>5. PICK u, a, v \in Nat : u = Len(tmp'[q]) /\ a = Len(file) /\ v = After(a)
            BY <1>2, <4>1
          <5>6. n <= x + v /\ v <= m - a /\ v <= k - 1 /\ (u <= 1 \/ u + k <= a)
            BY <3>2, <4>1, <4>3, <5>1, <5>4, <5>5
          <5>7. n <= x
            <6>1. g[p] <= k - 1
              BY <1>7, <3>1
            <6>2. \A r \in Proc : r # q => g[r] <= k - 1
              BY <4>2, <6>1
            <6>3. num[q] >= m
              BY <1>3, <5>3 DEF Typed, StepsOK
            <6>4. g[q] = 0
              BY <1>2, <1>6, <1>11, <3>2, <5>1, <5>3, <6>3
            <6> QED  BY <2>c, <6>2, <6>4
          <5>8. u + n + z <= m + x
            BY <1>3, <5>6, <5>7
          <5> QED  BY <5>5, <5>8, Zenon
        <4> QED  BY <4>4, <4>5
      <3> QED  BY <3>4, <3>5
    <2> QED  BY <2>1, <2>2, <2>3, <2>4, <2>5, <2>6, <2>7, <2>8, <2>9
  <1> QED  BY <1>15, <1>16

-----------------------------------------------------------------------------
LEMMA IInvInit == Init => IInv
  <1> SUFFICES ASSUME Init  PROVE IInv
    OBVIOUS
  <1>1. /\ file = <<>> /\ inode = 0 /\ gone = TRUE /\ log = <<>> /\ raced = FALSE
        /\ pc = [p \in Proc |-> "dead"] /\ added = [p \in Proc |-> 0]
        /\ num = [p \in Proc |-> 0] /\ tmp = [p \in Proc |-> <<>>]
        /\ handle = [p \in Proc |-> 0]
    BY DEF Init
  <1>2. Typed
    <2>1. 0 \in 0..MaxLines
      BY ProcAssumption
    <2>2. TypeOK
      <3>1. <<>> \in Seq(LineType)
        OBVIOUS
      <3>2. tmp \in [Proc -> Seq(LineType)]
        BY <1>1, <3>1, Zenon
      <3>3. /\ added \in [Proc -> 0..MaxLines] /\ num \in [Proc -> Nat] /\ handle \in [Proc -> Nat]
            /\ pc \in [Proc -> {"idle", "count", "prune", "unlink", "rename", "append",
                                "write", "dead"}]
        BY <1>1, <2>1
      <3> QED  BY <1>1, <3>1, <3>2, <3>3 DEF TypeOK
    <2>3. StepsOK
      BY <1>1 DEF StepsOK
    <2> QED  BY <1>1, <2>2, <2>3 DEF Typed
  <1>3. OrderOK
    BY <1>1 DEF OrderOK, Placed, Ascending
  <1>4. SerialOK
    <2>1. Busy = {} /\ IsTail(file, log)
      BY <1>1 DEF Busy, IsTail
    <2>2. \A p \in Proc : Alone(p)
      BY <1>1 DEF Alone
    <2> QED  BY <2>1, <2>2 DEF SerialOK
  <1>5. ASSUME MaxDepth > 0
        PROVE  Len(file) + Owed <= MostLines
    <2>1. PICK m \in Nat \ {0}, k \in Nat \ {0} : m = MaxDepth /\ k = Period /\ k <= m
      BY <1>5, PeriodFacts, PruneAssumption
    <2>2. After(0) = 0
      <3>1. (0 % k) = 0
        <4>1. PICK q \in Int, r \in 0..(k - 1) : 0 = k * q + r /\ r = (0 % k)
          BY DivisionFacts
        <4>2. 0 \in 0..(k - 1) /\ 0 \in Int /\ k * q + r = k * 0 + 0
          BY <4>1
        <4>3. r = 0
          BY ONLY k \in Nat \ {0}, q \in Int, r \in 0..(k - 1), <4>2, RemainderUnique
        <4> QED  BY <4>1, <4>3
      <3> QED  BY <1>5, <2>1, <3>1, AfterFacts
    <2>3. \A q \in Proc : Credit[q] = 0
      BY <1>1, <2>2 DEF Credit
    <2>4. Tickets(Credit) = {}
      <3> SUFFICES ASSUME NEW q \in Proc, NEW i \in 1..k, i <= Credit[q]  PROVE FALSE
        BY <2>1 DEF Tickets
      <3> QED  BY <2>3
    <2>5. Owed = 0 /\ Len(file) = 0
      BY <1>1, <2>4, FS_EmptySet DEF Owed
    <2>6. 0 <= MostLines
      <3>1. PICK n \in Nat : n = Cardinality(Proc)
        BY ProcAssumption, FS_CardinalityType
      <3>2. 0 <= m + (n - 1) * (k - 1)
        <4>1. CASE n = 0
          BY <2>1, <4>1
        <4>2. CASE n # 0
          <5>1. n - 1 \in Nat /\ k - 1 \in Nat
            BY <4>2
          <5>2. (n - 1) * (k - 1) \in Nat
            BY <5>1
          <5> QED  BY <5>2
        <4> QED  BY <4>1, <4>2
      <3> QED  BY <2>1, <3>1, <3>2 DEF MostLines
    <2> QED  BY <2>5, <2>6
  <1>6. SizeOK
    BY <1>1, <1>5 DEF SizeOK
  <1> QED  BY <1>2, <1>3, <1>4, <1>6 DEF IInv

LEMMA IInvStep ==
  ASSUME IInv, [Next]_vars
  PROVE  IInv'
  <1>1. Typed'
    BY TypedStep DEF IInv
  <1> QED  BY <1>1, OrderStep, SerialStep, SizeStep DEF IInv

(* The invariant says what AppendToFile promises. *)
LEMMA IInvImplies == IInv => HistoryKept
  <1> SUFFICES ASSUME IInv  PROVE HistoryKept
    OBVIOUS
  <1>0. file \in Seq(LineType) /\ log \in Seq(LineType) /\ Typed
    BY DEF IInv, Typed, TypeOK
  <1>1. TypeOK
    BY DEF IInv, Typed
  <1>2. KeepsOrder
    BY DEF IInv, OrderOK, Placed, Ascending, KeepsOrder
  <1>3. LosesOldOnly
    BY <1>0, TailIsSuffix DEF IInv, SerialOK, LosesOldOnly
  <1>4. Bounded
    <2>1. CASE MaxDepth = 0
      BY <2>1 DEF IInv, Typed, StepsOK, Bounded
    <2>2. CASE MaxDepth # 0
      <3>1. MaxDepth > 0
        BY <2>2, PruneAssumption
      <3>2. Len(file) \in Nat /\ Owed \in Nat
        BY <1>0, <3>1, LenProperties, TicketsFinite DEF Owed
      <3>3. MostLines \in Int
        <4>1. Cardinality(Proc) \in Nat
          BY ProcAssumption, FS_CardinalityType
        <4> QED  BY <3>1, <4>1, PeriodFacts, PruneAssumption DEF MostLines
      <3>4. MostLines = MaxDepth + (Cardinality(Proc) - 1) * (MaxDepth - NPrune - 1)
        BY DEF MostLines, Period
      <3>5. ~raced => Len(file) + Owed <= MostLines
        BY <3>1 DEF IInv, SizeOK
      <3>6. ~raced => Len(file) <= MostLines
        BY <3>2, <3>3, <3>5
      <3> QED  BY <2>2, <3>4, <3>6 DEF Bounded
    <2> QED  BY <2>1, <2>2
  <1> QED  BY <1>1, <1>2, <1>3, <1>4 DEF HistoryKept

(* Any number of processes that add lines, prune the file and are killed at  *)
(* any step of AppendToFile keep the order of the lines; and lines are lost, *)
(* or the file grows beyond its bound, only after two were there at once.    *)
THEOREM HistoryIsKept == Spec => []HistoryKept
  <1>1. IInv /\ [Next]_vars => IInv'
    BY IInvStep
  <1> QED  BY IInvInit, <1>1, IInvImplies, PTL DEF Spec

=============================================================================
