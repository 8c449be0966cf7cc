---------------------- MODULE IncrementalParserProofs ----------------------
(***************************************************************************)
(* Invariants of IncrementalParser, proved for any set of transactions,    *)
(* any bound on the events of a frame and any user code.  First what the   *)
(* operations of Transaction preserve: types, and the nesting tree with    *)
(* its markers; then the call stack, and the two together.                 *)
(***************************************************************************)
EXTENDS IncrementalParser, SequenceLemmas

(***************************************************************************)
(* The markers in a decl queue.                                            *)
(***************************************************************************)

(* The markers of a decl queue are finitely many of its places.              *)
LEMMA MarkersFacts ==
  ASSUME NEW q \in Seq(Entry)
  PROVE  /\ Markers(q) \in SUBSET (1..Len(q))
         /\ IsFiniteSet(Markers(q))
         /\ Cardinality(Markers(q)) \in Nat
  <1>1. Len(q) \in Nat /\ DOMAIN q = 1..Len(q)
    BY LenProperties
  <1>2. Markers(q) \in SUBSET (1..Len(q))
    BY <1>1 DEF Markers
  <1>3. IsFiniteSet(1..Len(q))
    BY <1>1, FS_Interval
  <1> QED  BY <1>2, <1>3, FS_Subset, FS_CardinalityType

(* A decl leaves the number of markers alone. *)
LEMMA AppendDeclMarkers ==
  ASSUME NEW q \in Seq(Entry)
  PROVE  Cardinality(Markers(Append(q, "decl"))) = Cardinality(Markers(q))
  <1>1. PICK n \in Nat : n = Len(q)
    BY LenProperties
  <1>2. /\ DOMAIN q = 1..n /\ DOMAIN Append(q, "decl") = 1..(n + 1)
        /\ Append(q, "decl")[n + 1] = "decl"
        /\ \A i \in 1..n : Append(q, "decl")[i] = q[i]
    BY <1>1
  <1>3. \A i : i \in 1..(n + 1) <=> i \in 1..n \/ i = n + 1
    OBVIOUS
  <1>4. n + 1 \notin 1..n
    OBVIOUS
  <1>5. Markers(Append(q, "decl")) = Markers(q)
    BY <1>2, <1>3, <1>4 DEF Markers
  <1> QED  BY <1>5

(* A nested transaction leaves one more. *)
LEMMA AppendMarkerMarkers ==
  ASSUME NEW q \in Seq(Entry)
  PROVE  Cardinality(Markers(Append(q, "marker"))) = Cardinality(Markers(q)) + 1
  <1>1. PICK n \in Nat : n = Len(q)
    BY LenProperties
  <1>2. /\ DOMAIN q = 1..n /\ DOMAIN Append(q, "marker") = 1..(n + 1)
        /\ Append(q, "marker")[n + 1] = "marker"
        /\ \A i \in 1..n : Append(q, "marker")[i] = q[i]
    BY <1>1
  <1>3. \A i : i \in 1..(n + 1) <=> i \in 1..n \/ i = n + 1
    OBVIOUS
  <1>4. n + 1 \notin 1..n
    OBVIOUS
  <1>5. /\ Markers(Append(q, "marker")) = Markers(q) \cup {n + 1}
        /\ n + 1 \notin Markers(q)
    BY <1>2, <1>3, <1>4 DEF Markers
  <1> QED  BY <1>5, MarkersFacts, FS_AddElement

(* The k-th marker is found when there are at least k. *)
LEMMA MarkerPositionFacts ==
  ASSUME NEW q \in Seq(Entry), NEW k \in Nat, 1 <= k, k <= Cardinality(Markers(q))
  PROVE  MarkerPosition(q, k) \in Markers(q)
  <1>1. PICK n \in Nat : n = Len(q)
    BY LenProperties
  <1>2. Markers(q) \in SUBSET (1..n)
    BY <1>1, MarkersFacts
  <1>3. \E i \in Markers(q) : Cardinality({j \in Markers(q) : j <= i}) = k
    BY <1>2, KthElement
  <1> QED  BY <1>3 DEF MarkerPosition

(* Erasing a marker leaves one less. *)
LEMMA RemoveMarkerMarkers ==
  ASSUME NEW q \in Seq(Entry), NEW m \in Markers(q)
  PROVE  /\ RemoveAt(q, m) \in Seq(Entry)
         /\ Cardinality(Markers(RemoveAt(q, m))) = Cardinality(Markers(q)) - 1
  <1>1. PICK n \in Nat : n = Len(q)
    BY LenProperties
  <1> DEFINE r == RemoveAt(q, m)
             others == Markers(q) \ {m}
             back == [j \in Markers(r) |-> IF j < m THEN j ELSE j + 1]
  <1>2. m \in 1..n /\ DOMAIN q = 1..n
    BY <1>1, MarkersFacts
  <1>3. /\ r \in Seq(Entry)
        /\ Len(r) = n - 1
        /\ \A j \in 1..(n - 1) : r[j] = IF j < m THEN q[j] ELSE q[j + 1]
    <2>1. m \in 1..Len(q)
      BY <1>1, <1>2
    <2>2. /\ r \in Seq(Entry)
          /\ Len(r) = Len(q) - 1
          /\ \A j \in 1..(Len(q) - 1) : r[j] = IF j < m THEN q[j] ELSE q[j + 1]
      BY ONLY q \in Seq(Entry), <2>1, RemoveAtFacts
    <2> QED  BY <1>1, <2>2
  <1> HIDE DEF r
  <1>4. DOMAIN r = 1..(n - 1)
    BY <1>3
  <1>5. Markers(r) \subseteq 1..(n - 1) /\ Markers(q) \subseteq 1..n
    BY <1>2, <1>4 DEF Markers
  <1>6. back \in [Markers(r) -> others]
    <2> SUFFICES ASSUME NEW j \in Markers(r)
                 PROVE  (IF j < m THEN j ELSE j + 1) \in others
      OBVIOUS
    <2>1. j \in 1..(n - 1) /\ r[j] = "marker"
      BY <1>5 DEF Markers
    <2>2. CASE j < m
      <3>1. j \in 1..n /\ j # m /\ q[j] = "marker"
        BY <1>2, <1>3, <2>1, <2>2
      <3> QED  BY <1>2, <2>2, <3>1 DEF Markers
    <2>3. CASE ~(j < m)
      <3>1. j + 1 \in 1..n /\ j + 1 # m /\ q[j + 1] = "marker"
        BY <1>2, <1>3, <2>1, <2>3
      <3> QED  BY <1>2, <2>3, <3>1 DEF Markers
    <2> QED  BY <2>2, <2>3
  <1>7. \A a, b \in Markers(r) : back[a] = back[b] => a = b
    <2> SUFFICES ASSUME NEW a \in Markers(r), NEW b \in Markers(r),
                        (IF a < m THEN a ELSE a + 1) = (IF b < m THEN b ELSE b + 1)
                 PROVE  a = b
      OBVIOUS
    <2>1. a \in 1..(n - 1) /\ b \in 1..(n - 1)
      BY <1>5
    <2> QED  BY <1>2, <2>1
  <1>8. ASSUME NEW i \in others
        PROVE  \E j \in Markers(r) : back[j] = i
    <2>1. i \in 1..n /\ i # m /\ q[i] = "marker"
      BY <1>5 DEF Markers
    <2>2. CASE i < m
      <3>1. i \in 1..(n - 1) /\ r[i] = "marker"
        <4>1. i \in 1..(n - 1)
          BY <1>2, <2>1, <2>2
        <4> QED  BY <1>3, <2>1, <2>2, <4>1
      <3>2. i \in Markers(r)
        BY <1>4, <3>1 DEF Markers
      <3> QED  BY <2>2, <3>2
    <2>3. CASE ~(i < m)
      <3>1. i - 1 \in 1..(n - 1) /\ ~(i - 1 < m) /\ i - 1 + 1 = i
        BY <1>2, <2>1, <2>3
      <3>2. r[i - 1] = "marker"
        BY <1>3, <2>1, <3>1
      <3>3. i - 1 \in Markers(r)
        BY <1>4, <3>1, <3>2 DEF Markers
      <3> QED  BY <3>1, <3>3
    <2> QED  BY <2>2, <2>3
  <1>9. ExistsBijection(Markers(r), others)
    <2>1. back \in Bijection(Markers(r), others)
      BY <1>6, <1>7, <1>8 DEF Bijection, Injection, Surjection, IsInjective
    <2> QED  BY <2>1 DEF ExistsBijection
  <1>10. Cardinality(Markers(r)) = Cardinality(others)
    BY <1>3, <1>9, MarkersFacts, FS_Bijection
  <1>11. Cardinality(others) = Cardinality(Markers(q)) - 1
    BY MarkersFacts, FS_RemoveElement
  <1> QED  BY <1>3, <1>10, <1>11 DEF r

(***************************************************************************)
(* The operations.                                                         *)
(***************************************************************************)
TreeTypeOK ==
  /\ state \in [Txn -> State]
  /\ parent \in [Txn -> Pointer]
  /\ nested \in [Txn -> Seq(Txn)]
  /\ queue \in [Txn -> Seq(Entry)]
  /\ unloading \in [Txn -> BOOLEAN]

TreeInv == TreeTypeOK /\ TreeOK

ListTypeOK ==
  /\ next \in [Txn -> Pointer]
  /\ transactions \in Seq(Txn)

RestTypeOK ==
  /\ ListTypeOK
  /\ diags \in [Txn -> Diags]
  /\ consumer \in Pointer
  /\ diagError \in BOOLEAN

TransactionInv == TransactionTypeOK /\ TreeOK

(* The invariant in two parts: what the nesting tree needs, and the rest.    *)
LEMMA TransactionInvSplit == TransactionInv <=> TreeInv /\ RestTypeOK
  BY DEF TransactionInv, TreeInv, TransactionTypeOK, TreeTypeOK, RestTypeOK, ListTypeOK

(* addNestedTransaction hangs a transaction that has no relatives into the   *)
(* tree.                                                                     *)
LEMMA AddNestedPreserves ==
  ASSUME TreeInv, NEW p \in Txn, NEW t \in Txn, Live(p), ~Live(t),
         AddNestedTransaction(p, t),
         state' = [state EXCEPT ![t] = "kCollecting"],
         UNCHANGED unloading
  PROVE  TreeInv'
  <1> USE DEF TreeInv
  <1>1. /\ parent[t] = None
        /\ p # t
        /\ t # None /\ p # None
    BY TxnAssumption DEF TreeOK, NestingOK
  <1>2. \A q \in Txn : t \notin Range(nested[q])
    BY <1>1, TxnAssumption DEF TreeOK, NestingOK
  <1>3. TreeTypeOK'
    BY DEF TreeTypeOK, AddNestedTransaction, Pointer, State, Entry
  <1>4. /\ parent' = [parent EXCEPT ![t] = p]
        /\ \A n \in Txn : parent'[n] = IF n = t THEN p ELSE parent[n]
        /\ \A q \in Txn : nested'[q] = IF q = p THEN Append(nested[p], t) ELSE nested[q]
        /\ \A q \in Txn : queue'[q] = IF q = p THEN Append(queue[p], "marker") ELSE queue[q]
        /\ \A n \in Txn : state'[n] = IF n = t THEN "kCollecting" ELSE state[n]
    BY DEF TreeTypeOK, AddNestedTransaction
  <1>5. /\ IsInjective(Append(nested[p], t))
        /\ Range(Append(nested[p], t)) = Range(nested[p]) \cup {t}
    <2>1. nested[p] \in Seq(Txn) /\ IsInjective(nested[p])
      BY DEF TreeTypeOK, TreeOK, NestingOK
    <2> QED  BY <1>2, <2>1, AppendNew
  <1>6. \A q \in Txn : Range(nested'[q]) =
          IF q = p THEN Range(nested[p]) \cup {t} ELSE Range(nested[q])
    BY <1>4, <1>5
  <1>7. NestingOK'
    <2>1. \A q \in Txn : IsInjective(nested'[q])
      BY <1>4, <1>5 DEF TreeOK, NestingOK
    <2>2. \A n \in Txn : Live(n) => Live(n)'
      BY <1>4 DEF Live
    <2>3. ASSUME NEW n \in Txn, parent'[n] # None
          PROVE  Live(n)' /\ n \in Range(nested'[parent'[n]])
      <3>1. CASE n = t
        BY <1>4, <1>6, <3>1 DEF Live
      <3>2. CASE n # t
        <4>1. parent'[n] = parent[n] /\ parent[n] \in Txn
          BY <1>4, <2>3, <3>2 DEF TreeTypeOK, Pointer
        <4>2. Live(n) /\ n \in Range(nested[parent[n]])
          BY <2>3, <4>1 DEF TreeOK, NestingOK
        <4> QED  BY <1>6, <2>2, <4>1, <4>2
      <3> QED  BY <3>1, <3>2
    <2>4. ASSUME NEW q \in Txn, NEW n \in Range(nested'[q])
          PROVE  parent'[n] = q /\ Live(q)'
      <3>1. CASE q = p /\ n = t
        BY <1>1, <1>4, <2>2, <3>1
      <3>2. CASE ~(q = p /\ n = t)
        <4>1. n \in Range(nested[q])
          BY <1>6, <2>4, <3>2
        <4>2. parent[n] = q /\ Live(q) /\ n # t
          BY <1>2, <4>1 DEF TreeOK, NestingOK
        <4>3. n \in Txn
          BY <4>1, ElementOfSeq, LenProperties DEF TreeTypeOK, Range
        <4> QED  BY <1>4, <2>2, <4>2, <4>3
      <3> QED  BY <3>1, <3>2
    <2> QED  BY <2>1, <2>3, <2>4 DEF NestingOK
  <1>8. MarkersOK'
    <2> SUFFICES ASSUME NEW q \in Txn
                 PROVE  Cardinality(Markers(queue'[q])) = Len(nested'[q])
      BY DEF MarkersOK, Markers
    <2>1. queue[q] \in Seq(Entry) /\ nested[q] \in Seq(Txn)
      BY DEF TreeTypeOK
    <2>2. Cardinality(Markers(queue[q])) = Len(nested[q])
      BY DEF TreeOK, MarkersOK
    <2>3. Cardinality(Markers(Append(queue[q], "marker"))) = Len(Append(nested[q], t))
      BY <2>1, <2>2, AppendMarkerMarkers
    <2> QED  BY <1>4, <2>2, <2>3
  <1> QED  BY <1>3, <1>7, <1>8 DEF TreeOK

(* releaseTransaction takes a transaction without children out of the tree. *)
LEMMA ReleasePreserves ==
  ASSUME TreeInv, NEW t \in Txn, nested[t] = <<>>, ReleaseTransaction(t)
  PROVE  TreeInv'
  <1> USE DEF TreeInv
  <1> DEFINE p == parent[t]
  <1>1. Range(nested[t]) = {}
    BY DEF Range
  <1>2. p # t /\ p \in Pointer
    BY <1>1, TxnAssumption DEF TreeOK, NestingOK, TreeTypeOK
  <1>3. \A q \in Txn : t \in Range(nested[q]) => q = p
    BY DEF TreeOK, NestingOK
  <1>4. \A n \in Txn : parent[n] # t
    BY <1>1, TxnAssumption DEF TreeOK, NestingOK
  <1>5. ASSUME p # None
        PROVE  /\ p \in Txn
               /\ NestedWithout(p, t) \in Seq(Txn)
               /\ Len(NestedWithout(p, t)) = Len(nested[p]) - 1
               /\ IsInjective(NestedWithout(p, t))
               /\ Range(NestedWithout(p, t)) = Range(nested[p]) \ {t}
               /\ QueueWithout(p, t) \in Seq(Entry)
               /\ Cardinality(Markers(QueueWithout(p, t))) = Cardinality(Markers(queue[p])) - 1
    <2> DEFINE k == NestedPosition(p, t)
    <2>1. p \in Txn /\ nested[p] \in Seq(Txn) /\ queue[p] \in Seq(Entry)
      BY <1>2, <1>5 DEF Pointer, TreeTypeOK
    <2>2. IsInjective(nested[p]) /\ t \in Range(nested[p])
      BY <1>5, <2>1 DEF TreeOK, NestingOK
    <2>3. k \in DOMAIN nested[p] /\ nested[p][k] = t
      BY <2>2 DEF NestedPosition, Range
    <2> HIDE DEF k
    <2>4. /\ RemoveAt(nested[p], k) \in Seq(Txn)
          /\ Len(RemoveAt(nested[p], k)) = Len(nested[p]) - 1
          /\ IsInjective(RemoveAt(nested[p], k))
          /\ Range(RemoveAt(nested[p], k)) = Range(nested[p]) \ {nested[p][k]}
      BY ONLY <2>1, <2>2, <2>3, RemoveOnly
    <2>5. Cardinality(Markers(queue[p])) = Len(nested[p])
      BY <2>1 DEF TreeOK, MarkersOK
    <2>6. k \in Nat /\ 1 <= k /\ k <= Cardinality(Markers(queue[p]))
      BY <2>1, <2>3, <2>5, LenProperties
    <2>7. MarkerPosition(queue[p], k) \in Markers(queue[p])
      BY ONLY <2>1, <2>6, MarkerPositionFacts
    <2>8. /\ RemoveAt(queue[p], MarkerPosition(queue[p], k)) \in Seq(Entry)
          /\ Cardinality(Markers(RemoveAt(queue[p], MarkerPosition(queue[p], k))))
               = Cardinality(Markers(queue[p])) - 1
      BY ONLY <2>1, <2>7, RemoveMarkerMarkers
    <2> QED  BY <2>1, <2>3, <2>4, <2>8 DEF NestedWithout, QueueWithout, k
  <1>6. TreeTypeOK'
    <2>1. state' \in [Txn -> State] /\ parent' \in [Txn -> Pointer] /\ unloading' \in [Txn -> BOOLEAN]
      BY DEF ReleaseTransaction, TreeTypeOK, State, Pointer
    <2>2. nested' \in [Txn -> Seq(Txn)] /\ queue' \in [Txn -> Seq(Entry)]
      <3>1. <<>> \in Seq(Txn) /\ <<>> \in Seq(Entry)
        OBVIOUS
      <3>2. CASE p = None
        BY <3>1, <3>2 DEF ReleaseTransaction, TreeTypeOK
      <3>3. CASE p # None
        <4>1. NestedWithout(p, t) \in Seq(Txn) /\ QueueWithout(p, t) \in Seq(Entry)
          BY <1>5, <3>3
        <4>2. /\ nested' = [nested EXCEPT ![t] = <<>>, ![p] = NestedWithout(p, t)]
              /\ queue' = [queue EXCEPT ![t] = <<>>, ![p] = QueueWithout(p, t)]
          BY <3>3 DEF ReleaseTransaction
        <4>3. nested \in [Txn -> Seq(Txn)] /\ queue \in [Txn -> Seq(Entry)]
          BY DEF TreeTypeOK
        <4> HIDE DEF p
        <4> QED  BY ONLY <3>1, <4>1, <4>2, <4>3
      <3> QED  BY <3>2, <3>3
    <2> QED  BY <2>1, <2>2 DEF TreeTypeOK
  <1>7. /\ \A n \in Txn : state'[n] = IF n = t THEN "kNumStates" ELSE state[n]
        /\ \A n \in Txn : parent'[n] = IF n = t THEN None ELSE parent[n]
    BY DEF ReleaseTransaction, TreeTypeOK
  <1>8. ASSUME NEW q \in Txn
        PROVE  /\ nested'[q] = IF q = t THEN <<>>
                               ELSE IF q = p THEN NestedWithout(p, t) ELSE nested[q]
               /\ queue'[q] = IF q = t THEN <<>>
                              ELSE IF q = p THEN QueueWithout(p, t) ELSE queue[q]
    <2>1. CASE p = None
      BY <2>1, TxnAssumption DEF ReleaseTransaction, TreeTypeOK
    <2>2. CASE p # None
      BY <1>2, <1>5, <2>2 DEF ReleaseTransaction, TreeTypeOK
    <2> QED  BY <2>1, <2>2
  <1>9. \A q \in Txn : /\ IsInjective(nested'[q])
                       /\ Range(nested'[q]) = Range(nested[q]) \ {t}
    <2> SUFFICES ASSUME NEW q \in Txn
                 PROVE  IsInjective(nested'[q]) /\ Range(nested'[q]) = Range(nested[q]) \ {t}
      OBVIOUS
    <2>1. CASE q = t
      <3>1. nested'[q] = nested[q]
        BY <1>8, <2>1
      <3> QED  BY <1>1, <2>1, <3>1 DEF TreeOK, NestingOK
    <2>2. CASE q # t /\ q = p
      BY <1>5, <1>8, <2>2, TxnAssumption
    <2>3. CASE q # t /\ q # p
      <3>1. nested'[q] = nested[q] /\ t \notin Range(nested[q])
        BY <1>3, <1>8, <2>3
      <3> QED  BY <3>1 DEF TreeOK, NestingOK
    <2> QED  BY <2>1, <2>2, <2>3
  <1>10. NestingOK'
    <2>1. ASSUME NEW n \in Txn, parent'[n] # None
          PROVE  Live(n)' /\ n \in Range(nested'[parent'[n]])
      <3>1. n # t /\ parent'[n] = parent[n] /\ parent[n] \in Txn
        BY <1>7, <2>1 DEF TreeTypeOK, Pointer
      <3>2. Live(n) /\ n \in Range(nested[parent[n]])
        BY <2>1, <3>1 DEF TreeOK, NestingOK
      <3> QED  BY <1>7, <1>9, <3>1, <3>2 DEF Live
    <2>2. ASSUME NEW q \in Txn, NEW n \in Range(nested'[q])
          PROVE  parent'[n] = q /\ Live(q)'
      <3>1. n \in Range(nested[q]) /\ n # t
        BY <1>9, <2>2
      <3>2. parent[n] = q /\ Live(q)
        BY <3>1 DEF TreeOK, NestingOK
      <3>3. n \in Txn
        BY <3>1, ElementOfSeq, LenProperties DEF TreeTypeOK, Range
      <3>4. q # t
        BY <1>4, <3>2, <3>3
      <3> QED  BY <1>7, <3>1, <3>2, <3>3, <3>4 DEF Live
    <2> QED  BY <1>9, <2>1, <2>2 DEF NestingOK
  <1>11. MarkersOK'
    <2> SUFFICES ASSUME NEW q \in Txn
                 PROVE  Cardinality(Markers(queue'[q])) = Len(nested'[q])
      BY DEF MarkersOK, Markers
    <2>1. Cardinality(Markers(queue[q])) = Len(nested[q])
      BY DEF TreeOK, MarkersOK
    <2>2. CASE q = t
      <3>1. queue'[q] = <<>> /\ nested'[q] = <<>>
        BY <1>8, <2>2
      <3>2. Markers(<<>>) = {} /\ Len(<<>>) = 0
        BY DEF Markers
      <3> QED  BY <3>1, <3>2, FS_EmptySet
    <2>3. CASE q # t /\ q = p
      <3>1. queue'[q] = QueueWithout(p, t) /\ nested'[q] = NestedWithout(p, t)
        BY <1>8, <2>3
      <3> QED  BY <1>5, <2>1, <2>3, <3>1, TxnAssumption
    <2>4. CASE q # t /\ q # p
      <3>1. queue'[q] = queue[q] /\ nested'[q] = nested[q]
        BY <1>8, <2>4
      <3> QED  BY <2>1, <3>1
    <2> QED  BY <2>2, <2>3, <2>4
  <1> QED  BY <1>6, <1>10, <1>11 DEF TreeOK

(* A transaction of the tree changes its state, or all keep it; neither goes *)
(* to the pool.                                                              *)
LEMMA TreeUnchanged ==
  ASSUME TreeInv, unloading' \in [Txn -> BOOLEAN], UNCHANGED treeVars,
         \/ UNCHANGED state
         \/ \E t \in Txn, s \in State \ {"kNumStates"} : state' = [state EXCEPT ![t] = s]
  PROVE  TreeInv'
  <1> USE DEF TreeInv
  <1>1. /\ state' \in [Txn -> State]
        /\ \A t \in Txn : state[t] # "kNumStates" => state'[t] # "kNumStates"
    BY DEF TreeTypeOK, State
  <1>2. \A t \in Txn : Live(t) => Live(t)'
    BY <1>1 DEF Live
  <1>3. parent' = parent /\ nested' = nested /\ queue' = queue
    BY DEF treeVars
  <1>4. TreeTypeOK'
    BY <1>1, <1>3 DEF TreeTypeOK
  <1>5. NestingOK'
    <2>1. ASSUME NEW n \in Txn, parent[n] # None
          PROVE  Live(n)' /\ n \in Range(nested[parent[n]])
      BY <1>2, <2>1 DEF TreeOK, NestingOK
    <2>2. ASSUME NEW q \in Txn, NEW n \in Range(nested[q])
          PROVE  parent[n] = q /\ Live(q)'
      BY <1>2, <2>2 DEF TreeOK, NestingOK
    <2>3. \A q \in Txn : IsInjective(nested[q])
      BY DEF TreeOK, NestingOK
    <2> QED  BY <1>3, <2>1, <2>2, <2>3 DEF NestingOK
  <1>6. MarkersOK'
    BY <1>3 DEF TreeOK, MarkersOK, Markers
  <1> QED  BY <1>4, <1>5, <1>6 DEF TreeOK

(* The DeclCollector appends a decl to a transaction. *)
LEMMA AppendDeclPreserves ==
  ASSUME TreeInv, NEW t \in Txn,
         queue' = [queue EXCEPT ![t] = Append(@, "decl")],
         UNCHANGED <<state, parent, nested, unloading>>
  PROVE  TreeInv'
  <1> USE DEF TreeInv
  <1>1. /\ queue' \in [Txn -> Seq(Entry)]
        /\ \A q \in Txn : queue'[q] = IF q = t THEN Append(queue[t], "decl") ELSE queue[q]
    BY DEF TreeTypeOK, Entry
  <1>2. TreeTypeOK'
    BY <1>1 DEF TreeTypeOK
  <1>3. NestingOK'
    BY DEF TreeOK, NestingOK, Live
  <1>4. MarkersOK'
    <2> SUFFICES ASSUME NEW q \in Txn
                 PROVE  Cardinality(Markers(queue'[q])) = Len(nested[q])
      BY DEF MarkersOK, Markers
    <2>1. queue[q] \in Seq(Entry) /\ Cardinality(Markers(queue[q])) = Len(nested[q])
      BY DEF TreeTypeOK, TreeOK, MarkersOK
    <2> QED  BY <1>1, <2>1, AppendDeclMarkers
  <1> QED  BY <1>2, <1>3, <1>4 DEF TreeOK

(* What leaves the tree and the lists alone: diagnostics, the current        *)
(* transaction, the flag m_Unloading and a state.                            *)
LEMMA StatePreserves ==
  ASSUME TransactionInv, UNCHANGED <<treeVars, listVars>>,
         \/ UNCHANGED state
         \/ \E t \in Txn, s \in State \ {"kNumStates"} : state' = [state EXCEPT ![t] = s],
         unloading' \in [Txn -> BOOLEAN], diags' \in [Txn -> Diags],
         consumer' \in Pointer, diagError' \in BOOLEAN
  PROVE  TransactionInv'
  <1>1. TreeInv'
    BY TransactionInvSplit, TreeUnchanged
  <1>2. RestTypeOK'
    BY TransactionInvSplit DEF RestTypeOK, ListTypeOK, listVars
  <1> QED  BY <1>1, <1>2 DEF TransactionInv, TreeInv, TransactionTypeOK, TreeTypeOK,
                             RestTypeOK, ListTypeOK

(* beginTransaction. *)
LEMMA BeginPreserves ==
  ASSUME TransactionInv, NEW cur \in Pointer, NEW t \in Txn,
         BeginTransaction(cur, t), UNCHANGED diagVars
  PROVE  TransactionInv'
  <1>1. TreeInv /\ RestTypeOK
    BY TransactionInvSplit
  <1>2. /\ state' = [state EXCEPT ![t] = "kCollecting"]
        /\ UNCHANGED unloading
        /\ unloading' \in [Txn -> BOOLEAN]
        /\ ~Live(t)
    BY <1>1 DEF BeginTransaction, TreeInv, TreeTypeOK
  <1>3. TreeInv'
    <2>1. CASE NestsIn(cur)
      <3>1. cur \in Txn /\ Live(cur) /\ AddNestedTransaction(cur, t)
        BY <2>1 DEF NestsIn, Pointer, Live, BeginTransaction
      <3> QED  BY <1>1, <1>2, <3>1, AddNestedPreserves
    <2>2. CASE ~NestsIn(cur)
      <3>1. UNCHANGED treeVars /\ "kCollecting" \in State \ {"kNumStates"}
        BY <2>2 DEF BeginTransaction, State
      <3> QED  BY <1>1, <1>2, <3>1, TreeUnchanged
    <2> QED  BY <2>1, <2>2
  <1>4. RestTypeOK'
    BY <1>1 DEF BeginTransaction, RestTypeOK, ListTypeOK, listVars, diagVars, Pointer
  <1> QED  BY <1>3, <1>4 DEF TransactionInv, TreeInv, TransactionTypeOK, TreeTypeOK,
                             RestTypeOK, ListTypeOK

(* addTransaction: push_back, and the old last transaction gets a next one. *)
LEMMA AddTransactionType ==
  ASSUME ListTypeOK, NEW t \in Txn, AddTransaction(t)
  PROVE  ListTypeOK'
  <1>1. CASE parent[t] = None /\ t # GetLastTransaction
    <2>1. transactions' = Append(transactions, t)
      BY <1>1 DEF AddTransaction
    <2>2. next' \in [Txn -> Pointer]
      BY <1>1 DEF AddTransaction, ListTypeOK, Pointer
    <2> QED  BY <2>1, <2>2 DEF ListTypeOK
  <1>2. CASE ~(parent[t] = None /\ t # GetLastTransaction)
    BY <1>2 DEF AddTransaction, ListTypeOK, listVars
  <1> QED  BY <1>1, <1>2

(* The deque half of deregisterTransaction: pop_back, or nothing. *)
LEMMA RemoveTransactionType ==
  ASSUME ListTypeOK, NEW t \in Txn, RemoveTransaction(t)
  PROVE  ListTypeOK'
  <1>1. CASE parent[t] = None /\ t = GetLastTransaction
    <2>1. transactions # <<>>
      BY <1>1, TxnAssumption DEF GetLastTransaction
    <2>2. Front(transactions) \in Seq(Txn)
      <3>1. transactions \in Seq(Txn)
        BY DEF ListTypeOK
      <3> QED  BY ONLY <2>1, <3>1, FrontFacts
    <2>3. transactions' = Front(transactions) /\ next' \in [Txn -> Pointer]
      BY <1>1 DEF RemoveTransaction, ListTypeOK, Pointer
    <2> QED  BY <2>2, <2>3 DEF ListTypeOK
  <1>2. CASE ~(parent[t] = None /\ t = GetLastTransaction)
    BY <1>2 DEF RemoveTransaction, ListTypeOK, Pointer
  <1> QED  BY <1>1, <1>2

(* setIssuedDiags() keeps the type of m_IssuedDiags.                         *)
LEMMA SetErrorsType ==
  ASSUME diags \in [Txn -> Diags], NEW t
  PROVE  SetErrors(t) \in [Txn -> Diags]
  BY DEF SetErrors, Diags

(* endTransaction of a transaction that collected nothing. *)
LEMMA EndEmptyPreserves ==
  ASSUME TransactionInv, NEW t \in Txn, EndEmptyTransaction(t), diagError' \in BOOLEAN
  PROVE  TransactionInv'
  <1>1. TreeInv /\ RestTypeOK
    BY TransactionInvSplit
  <1>2. TreeInv'
    <2>1. nested[t] = <<>> /\ ReleaseTransaction(t)
      BY DEF EndEmptyTransaction, IsEmpty
    <2> QED  BY <1>1, <2>1, ReleasePreserves
  <1>3. diags' \in [Txn -> Diags]
    <2>1. diags \in [Txn -> Diags] /\ SetErrors(t) \in [Txn -> Diags] /\ "kNone" \in Diags
      BY <1>1, SetErrorsType DEF RestTypeOK, Diags
    <2> QED  BY <2>1 DEF EndEmptyTransaction
  <1>4. consumer' \in Pointer /\ ListTypeOK'
    BY <1>1 DEF EndEmptyTransaction, TreeInv, TreeTypeOK, RestTypeOK, ListTypeOK, listVars
  <1> QED  BY <1>2, <1>3, <1>4 DEF TransactionInv, TreeInv, TransactionTypeOK, TreeTypeOK,
                                   RestTypeOK, ListTypeOK

(* endTransaction of any other. *)
LEMMA EndFullPreserves ==
  ASSUME TransactionInv, NEW t \in Txn, EndFullTransaction(t), UNCHANGED diagError
  PROVE  TransactionInv'
  <1>1. TreeInv /\ RestTypeOK
    BY TransactionInvSplit
  <1>2. TreeInv'
    <2>1. /\ state' = [state EXCEPT ![t] = "kCompleted"]
          /\ "kCompleted" \in State \ {"kNumStates"}
          /\ UNCHANGED treeVars
          /\ unloading' \in [Txn -> BOOLEAN]
      BY <1>1 DEF EndFullTransaction, State, TreeInv, TreeTypeOK
    <2> QED  BY <1>1, <2>1, TreeUnchanged
  <1>3. diags' \in [Txn -> Diags] /\ consumer' \in Pointer /\ diagError' \in BOOLEAN
    BY <1>1, SetErrorsType DEF EndFullTransaction, RestTypeOK
  <1>4. ListTypeOK'
    BY <1>1, AddTransactionType DEF EndFullTransaction, RestTypeOK
  <1> QED  BY <1>2, <1>3, <1>4 DEF TransactionInv, TreeInv, TransactionTypeOK, TreeTypeOK,
                                   RestTypeOK, ListTypeOK

(* deregisterTransaction of a transaction whose nested ones are gone. *)
LEMMA DeregisterPreserves ==
  ASSUME TransactionInv, NEW t \in Txn, nested[t] = <<>>,
         DeregisterTransaction(t), UNCHANGED diagError
  PROVE  TransactionInv'
  <1>1. TreeInv /\ RestTypeOK
    BY TransactionInvSplit
  <1>2. TreeInv'
    BY <1>1, ReleasePreserves DEF DeregisterTransaction
  <1>3. /\ diags' \in [Txn -> Diags] /\ consumer' \in Pointer /\ diagError' \in BOOLEAN
    BY <1>1 DEF DeregisterTransaction, TreeInv, TreeTypeOK, RestTypeOK, Diags
  <1>4. ListTypeOK'
    BY <1>1, RemoveTransactionType DEF DeregisterTransaction, RestTypeOK
  <1> QED  BY <1>2, <1>3, <1>4 DEF TransactionInv, TreeInv, TransactionTypeOK, TreeTypeOK,
                                   RestTypeOK, ListTypeOK

(***************************************************************************)
(* Roots of the nesting tree, for any value p of m_Parent.                 *)
(***************************************************************************)

(* f finds the root of every transaction.                                    *)
IsRootMap(p, f) == f = [u \in Txn |-> IF p[u] = None THEN u ELSE f[p[u]]]
RootOf(p, t) == (CHOOSE f : IsRootMap(p, f))[t]

(* m_Parent leads every transaction to a root, and to only one. *)
Rooted(p) ==
  /\ p \in [Txn -> Pointer]
  /\ \E f : IsRootMap(p, f)
  /\ \A S \in SUBSET Txn : S # {} => \E t \in S : p[t] \notin S

LEMMA TopmostIsRootOf == \A t : Topmost(t) = RootOf(parent, t)
  BY DEF Topmost, RootOf, IsRootMap

(* getTopmostParent() takes one step towards the root at a time. *)
LEMMA RootStep ==
  ASSUME NEW p, Rooted(p), NEW t \in Txn
  PROVE  RootOf(p, t) = IF p[t] = None THEN t ELSE RootOf(p, p[t])
  <1> DEFINE f == CHOOSE f : IsRootMap(p, f)
  <1>1. IsRootMap(p, f)
    BY DEF Rooted
  <1>2. f[t] = IF p[t] = None THEN t ELSE f[p[t]]
    BY <1>1 DEF IsRootMap
  <1> QED  BY <1>2 DEF RootOf

(* What it finds is a top-level transaction. *)
LEMMA RootIsRoot ==
  ASSUME NEW p, Rooted(p), NEW t \in Txn
  PROVE  RootOf(p, t) \in Txn /\ p[RootOf(p, t)] = None
  <1> DEFINE S == {u \in Txn : ~(RootOf(p, u) \in Txn /\ p[RootOf(p, u)] = None)}
  <1> SUFFICES ASSUME S # {}  PROVE FALSE
    OBVIOUS
  <1>1. PICK u \in S : p[u] \notin S
    BY DEF Rooted
  <1>2. RootOf(p, u) = IF p[u] = None THEN u ELSE RootOf(p, p[u])
    BY RootStep
  <1> QED  BY <1>1, <1>2 DEF Pointer, Rooted

(* It never finds a transaction without nested ones, except from there. *)
LEMMA RootOfOthers ==
  ASSUME NEW p, Rooted(p), NEW t \in Txn, \A u \in Txn : p[u] # t,
         NEW v \in Txn, v # t
  PROVE  RootOf(p, v) # t
  <1> DEFINE S == {u \in Txn : u # t /\ RootOf(p, u) = t}
  <1> SUFFICES ASSUME S # {}  PROVE FALSE
    OBVIOUS
  <1>1. PICK u \in S : p[u] \notin S
    BY DEF Rooted
  <1>2. RootOf(p, u) = IF p[u] = None THEN u ELSE RootOf(p, p[u])
    BY RootStep
  <1> QED  BY <1>1, <1>2 DEF Pointer, Rooted

(* A transaction without nested ones gets another parent, or none: the       *)
(* others keep their roots.                                                  *)
LEMMA RootsKept ==
  ASSUME NEW p, Rooted(p), NEW r, r \in [Txn -> Pointer],
         NEW t \in Txn, r[t] # t, \A u \in Txn : p[u] # t,
         \A u \in Txn : u # t => r[u] = p[u]
  PROVE  Rooted(r) /\ \A u \in Txn : u # t => RootOf(r, u) = RootOf(p, u)
  <1> DEFINE q == r[t]
  <1>1. q \in Pointer /\ \A u \in Txn : r[u] = IF u = t THEN q ELSE p[u]
    OBVIOUS
  <1>2. \E f : IsRootMap(r, f)
    <2>1. PICK f : IsRootMap(p, f)
      BY DEF Rooted
    <2> DEFINE g == [u \in Txn |-> IF u = t THEN IF q = None THEN t ELSE f[q] ELSE f[u]]
    <2>2. \A u \in Txn : f[u] = IF p[u] = None THEN u ELSE f[p[u]]
      BY <2>1 DEF IsRootMap
    <2>3. \A u \in Txn : g[u] = IF r[u] = None THEN u ELSE g[r[u]]
      <3> SUFFICES ASSUME NEW u \in Txn
                   PROVE  g[u] = IF r[u] = None THEN u ELSE g[r[u]]
        OBVIOUS
      <3>1. CASE u = t
        BY <1>1, <3>1 DEF Pointer
      <3>2. CASE u # t
        BY <1>1, <2>2, <3>2 DEF Pointer
      <3> QED  BY <3>1, <3>2
    <2>4. g = [u \in Txn |-> IF r[u] = None THEN u ELSE g[r[u]]]
      BY <2>3
    <2> HIDE DEF g
    <2> QED  BY <2>4 DEF IsRootMap
  <1>3. ASSUME NEW S \in SUBSET Txn, S # {}
        PROVE  \E u \in S : r[u] \notin S
    <2>1. CASE S = {t}
      BY <1>1, <2>1
    <2>2. CASE S # {t}
      <3>1. PICK u \in S \ {t} : p[u] \notin S \ {t}
        BY <1>3, <2>2 DEF Rooted
      <3> QED  BY <1>1, <3>1
    <2> QED  BY <2>1, <2>2
  <1>4. Rooted(r)
    BY <1>1, <1>2, <1>3 DEF Rooted
  <1> DEFINE S == {u \in Txn : u # t /\ RootOf(r, u) # RootOf(p, u)}
  <1>5. S = {}
    <2> SUFFICES ASSUME S # {}  PROVE FALSE
      OBVIOUS
    <2>1. PICK u \in S : p[u] \notin S
      BY DEF Rooted
    <2>2. RootOf(p, u) = IF p[u] = None THEN u ELSE RootOf(p, p[u])
      BY RootStep
    <2>3. RootOf(r, u) = IF r[u] = None THEN u ELSE RootOf(r, r[u])
      BY <1>4, RootStep
    <2> QED  BY <1>1, <2>1, <2>2, <2>3 DEF Pointer, Rooted
  <1> QED  BY <1>4, <1>5

(* No transaction is nested. *)
LEMMA RootsInit ==
  ASSUME NEW p, p = [t \in Txn |-> None]
  PROVE  Rooted(p)
  <1>1. IsRootMap(p, [u \in Txn |-> u])
    BY DEF IsRootMap
  <1> QED  BY <1>1, TxnAssumption DEF Rooted, Pointer

(***************************************************************************)
(* The call stack.                                                         *)
(***************************************************************************)

(* TypeOK in parts: the transactions, the call stack, the rest. *)
FrameOK(f) == f \in Frame /\ f.pc \notin BottomPc /\ f.t \in Txn

WellFormed(s) ==
  /\ s \in Seq(Frame) /\ s # <<>>
  /\ \A i \in DOMAIN s : IF i = 1 THEN s[i].pc \in BottomPc
                         ELSE s[i].pc \notin BottomPc /\ s[i].t \in Txn

StackOK == WellFormed(stack)

RestOK == prt \in Pointer /\ erred \in SUBSET Txn /\ errorOut \in BOOLEAN

(* Types alone are not inductive: that a released transaction leaves its     *)
(* parent's list and decl queue well formed needs the tree.                  *)
IInv == TransactionInv /\ StackOK /\ RestOK

(* The invariant is the two properties that are proved from it.             *)
LEMMA IInvSplit == IInv <=> TypeOK /\ TreeOK
  BY DEF IInv, TransactionInv, StackOK, WellFormed, RestOK, TypeOK

(***************************************************************************)
(* The call stack.                                                         *)
(***************************************************************************)

(* Only the constructor and the client have a bottom frame.                  *)
LEMMA PcDistinct ==
  /\ BottomPc \subseteq Pc /\ ParsePc \subseteq Pc /\ CommitPc \subseteq Pc /\ UnloadPc \subseteq Pc
  /\ \A pc \in ParsePc \cup CommitPc \cup UnloadPc : pc \notin BottomPc
  BY DEF BottomPc, ParsePc, CommitPc, UnloadPc, Pc

(* The bottom frame is the only one whose function is not at work on a       *)
(* transaction.                                                              *)
LEMMA TopFacts ==
  ASSUME StackOK
  PROVE  /\ Len(stack) \in Nat \ {0} /\ Top = stack[Len(stack)] /\ Top \in Frame
         /\ Top.pc \in BottomPc => Len(stack) = 1
         /\ Top.pc \notin BottomPc => Len(stack) > 1 /\ FrameOK(Top)
  <1>1. PICK n \in Nat : n = Len(stack)
    BY LenProperties DEF StackOK, WellFormed
  <1>2. n # 0 /\ DOMAIN stack = 1..n
    BY <1>1, EmptySeq, LenProperties DEF StackOK, WellFormed
  <1>3. n \in 1..n
    BY <1>2
  <1>4. Top = stack[n]
    BY <1>1 DEF Top, Last
  <1>5. Top \in Frame
    BY <1>1, <1>3, <1>4, ElementOfSeq DEF StackOK, WellFormed
  <1>6. IF n = 1 THEN Top.pc \in BottomPc ELSE Top.pc \notin BottomPc /\ Top.t \in Txn
    BY <1>2, <1>3, <1>4 DEF StackOK, WellFormed
  <1> QED  BY <1>1, <1>2, <1>4, <1>5, <1>6 DEF FrameOK

(* A function goes on. *)
LEMMA GotoPreserves ==
  ASSUME StackOK, NEW f \in Frame, Goto(f),
         IF Top.pc \in BottomPc THEN f.pc \in BottomPc ELSE FrameOK(f)
  PROVE  StackOK'
  <1>1. PICK n \in Nat : n = Len(stack)
    BY LenProperties DEF StackOK, WellFormed
  <1>2. n # 0 /\ DOMAIN stack = 1..n
    BY <1>1, EmptySeq, LenProperties DEF StackOK, WellFormed
  <1>3. stack' \in Seq(Frame) /\ Len(stack') = n /\ stack'[n] = f
        /\ \A i \in 1..n : i # n => stack'[i] = stack[i]
    BY <1>1, <1>2, ExceptSeq DEF Goto, StackOK, WellFormed
  <1>4. stack' # <<>> /\ DOMAIN stack' = 1..n
    BY <1>2, <1>3
  <1>5. IF n = 1 THEN f.pc \in BottomPc ELSE f.pc \notin BottomPc /\ f.t \in Txn
    BY <1>1, TopFacts DEF FrameOK
  <1>6. \A i \in 1..n : IF i = 1 THEN stack'[i].pc \in BottomPc
                        ELSE stack'[i].pc \notin BottomPc /\ stack'[i].t \in Txn
    BY <1>2, <1>3, <1>5 DEF StackOK, WellFormed
  <1> QED  BY <1>3, <1>4, <1>6 DEF StackOK, WellFormed

(* A function calls another. *)
LEMMA PushPreserves ==
  ASSUME StackOK, NEW g, FrameOK(g), Push(g)
  PROVE  StackOK'
  <1>1. PICK n \in Nat : n = Len(stack)
    BY LenProperties DEF StackOK, WellFormed
  <1>2. n # 0 /\ DOMAIN stack = 1..n
    BY <1>1, EmptySeq, LenProperties DEF StackOK, WellFormed
  <1>3. stack' \in Seq(Frame) /\ Len(stack') = n + 1 /\ stack'[n + 1] = g
        /\ \A i \in 1..n : stack'[i] = stack[i]
    BY <1>1, AppendProperties DEF Push, StackOK, WellFormed, FrameOK
  <1>4. stack' # <<>> /\ DOMAIN stack' = 1..(n + 1)
    BY <1>3
  <1>5. \A i \in 1..(n + 1) : i \in 1..n \/ (i = n + 1 /\ i # 1)
    BY <1>2
  <1>6. \A i \in 1..(n + 1) : IF i = 1 THEN stack'[i].pc \in BottomPc
                              ELSE stack'[i].pc \notin BottomPc /\ stack'[i].t \in Txn
    BY <1>2, <1>3, <1>5 DEF StackOK, WellFormed, FrameOK
  <1> QED  BY <1>3, <1>4, <1>6 DEF StackOK, WellFormed

(* The two at once. *)
LEMMA CallFromPreserves ==
  ASSUME StackOK, NEW f \in Frame, NEW g, FrameOK(g), CallFrom(f, g),
         IF Top.pc \in BottomPc THEN f.pc \in BottomPc ELSE FrameOK(f)
  PROVE  StackOK'
  <1>1. PICK n \in Nat : n = Len(stack)
    BY LenProperties DEF StackOK, WellFormed
  <1>2. n # 0 /\ DOMAIN stack = 1..n
    BY <1>1, EmptySeq, LenProperties DEF StackOK, WellFormed
  <1> DEFINE caller == [stack EXCEPT ![Len(stack)] = f]
  <1>3. caller \in Seq(Frame) /\ Len(caller) = n /\ caller[n] = f
        /\ \A i \in 1..n : i # n => caller[i] = stack[i]
    BY <1>1, <1>2, ExceptSeq DEF StackOK, WellFormed
  <1>4. stack' = Append(caller, g) /\ g \in Frame
    BY DEF CallFrom, FrameOK
  <1> HIDE DEF caller
  <1>5. stack' \in Seq(Frame) /\ Len(stack') = n + 1 /\ stack'[n + 1] = g
        /\ \A i \in 1..n : stack'[i] = caller[i]
    BY <1>3, <1>4, AppendProperties
  <1>6. stack' # <<>> /\ DOMAIN stack' = 1..(n + 1)
    BY <1>5
  <1>7. IF n = 1 THEN f.pc \in BottomPc ELSE f.pc \notin BottomPc /\ f.t \in Txn
    BY <1>1, TopFacts DEF FrameOK
  <1>8. \A i \in 1..(n + 1) : i \in 1..n \/ (i = n + 1 /\ i # 1)
    BY <1>2
  <1>9. \A i \in 1..(n + 1) : IF i = 1 THEN stack'[i].pc \in BottomPc
                              ELSE stack'[i].pc \notin BottomPc /\ stack'[i].t \in Txn
    BY <1>2, <1>3, <1>5, <1>7, <1>8 DEF StackOK, WellFormed, FrameOK
  <1> QED  BY <1>5, <1>6, <1>9 DEF StackOK, WellFormed

(* A function returns; the bottom frame never does. *)
LEMMA PopPreserves ==
  ASSUME StackOK, Top.pc \notin BottomPc, NEW s, s = Front(stack)
  PROVE  WellFormed(s) /\ Len(s) = Len(stack) - 1
  <1>1. PICK n \in Nat : n = Len(stack)
    BY LenProperties DEF StackOK, WellFormed
  <1>2. n > 1 /\ DOMAIN stack = 1..n
    BY <1>1, TopFacts, LenProperties DEF StackOK, WellFormed
  <1>3. s \in Seq(Frame) /\ Len(s) = n - 1 /\ \A i \in 1..(n - 1) : s[i] = stack[i]
    BY <1>1, FrontFacts DEF StackOK, WellFormed
  <1>4. s # <<>> /\ DOMAIN s = 1..(n - 1)
    BY <1>2, <1>3
  <1>5. \A i \in 1..(n - 1) : i \in 1..n
    OBVIOUS
  <1> QED  BY <1>1, <1>2, <1>3, <1>4, <1>5 DEF StackOK, WellFormed

(* A function that is called gets a frame.                                   *)
LEMMA NewFrameType ==
  ASSUME NEW pc \in Pc, NEW t \in Pointer, NEW flag \in BOOLEAN
  PROVE  /\ NewFrame(pc, t, flag) \in Frame
         /\ [NewFrame(pc, t, flag) EXCEPT !.fuel = 0] \in Frame
         /\ NewFrame(pc, t, flag).pc = pc /\ NewFrame(pc, t, flag).t = t
         /\ [NewFrame(pc, t, flag) EXCEPT !.fuel = 0].pc = pc
         /\ [NewFrame(pc, t, flag) EXCEPT !.fuel = 0].t = t
  BY FuelAssumption DEF NewFrame, Frame, Pointer

(* A frame of a function at work on a transaction. *)
LEMMA NewFrameOK ==
  ASSUME NEW pc \in ParsePc \cup CommitPc \cup UnloadPc, NEW t \in Txn, NEW flag \in BOOLEAN
  PROVE  /\ FrameOK(NewFrame(pc, t, flag))
         /\ FrameOK([NewFrame(pc, t, flag) EXCEPT !.fuel = 0])
  <1>1. pc \in Pc /\ pc \notin BottomPc /\ t \in Pointer
    BY PcDistinct DEF Pointer
  <1> QED  BY <1>1, NewFrameType DEF FrameOK

(* A frame that has used up one of its events is a frame.                    *)
LEMMA SpendType ==
  ASSUME NEW f \in Frame, f.fuel > 0
  PROVE  Spend(f) \in Frame /\ Spend(f).pc = f.pc /\ Spend(f).t = f.t
  BY FuelAssumption DEF Spend, Frame

(* One event less in the frame at the top. *)
LEMMA SpendPreserves ==
  ASSUME StackOK, Top.fuel > 0, Goto(Spend(Top))
  PROVE  StackOK'
  <1>1. Spend(Top) \in Frame /\ Spend(Top).pc = Top.pc /\ Spend(Top).t = Top.t
    BY TopFacts, SpendType
  <1>2. Top.pc \notin BottomPc => FrameOK(Spend(Top))
    BY <1>1, TopFacts DEF FrameOK
  <1> QED  BY <1>1, <1>2, GotoPreserves

(* So is the frame of a caller while its callee runs.                        *)
LEMMA CallerType ==
  ASSUME StackOK, Top.pc \in BottomPc \/ Top.fuel > 0
  PROVE  /\ CallerAfter(Top) \in Frame
         /\ IF Top.pc \in BottomPc THEN CallerAfter(Top).pc \in BottomPc
            ELSE FrameOK(CallerAfter(Top))
  <1>1. CASE Top.pc \in BottomPc
    BY <1>1, TopFacts DEF CallerAfter
  <1>2. CASE Top.pc \notin BottomPc
    <2>1. CallerAfter(Top) = Spend(Top)
      BY <1>2 DEF CallerAfter
    <2>2. FrameOK(Top) /\ Top \in Frame
      BY <1>2, TopFacts
    <2> QED  BY <1>2, <2>1, <2>2, SpendType DEF FrameOK
  <1> QED  BY <1>1, <1>2

(* The function at the top moves to another of its places. *)
LEMMA TopAt ==
  ASSUME StackOK, NEW pc \in ParsePc \cup CommitPc \cup UnloadPc,
         Top.pc \in ParsePc \cup CommitPc \cup UnloadPc,
         NEW prev \in Pointer
  PROVE  /\ FrameOK([Top EXCEPT !.pc = pc])
         /\ FrameOK([Top EXCEPT !.pc = pc, !.prev = prev])
         /\ Top.pc \notin BottomPc /\ FrameOK(Top)
  <1>1. Top.pc \notin BottomPc /\ Top \in Frame /\ Top.t \in Txn
    BY TopFacts, PcDistinct DEF FrameOK
  <1>2. pc \in Pc /\ pc \notin BottomPc
    BY PcDistinct
  <1> QED  BY <1>1, <1>2 DEF FrameOK, Frame

(* Remembering that the module was dropped changes no program counter.       *)
LEMMA DroppedType ==
  ASSUME NEW f \in Frame, diagError \in BOOLEAN
  PROVE  /\ ModuleDropped(f) \in Frame
         /\ ModuleDropped(f).pc = f.pc /\ ModuleDropped(f).t = f.t
  BY DEF ModuleDropped, Frame

(* The caller of a commit learns that the module was dropped. *)
LEMMA CallerDropped ==
  ASSUME NEW s, WellFormed(s), NEW i \in DOMAIN s, diagError \in BOOLEAN
  PROVE  WellFormed([s EXCEPT ![i] = ModuleDropped(@)])
  <1> DEFINE r == [s EXCEPT ![i] = ModuleDropped(@)]
  <1>0. s \in Seq(Frame)
    BY DEF WellFormed
  <1>1. s[i] \in Frame
    BY <1>0, ElementOfSeq, LenProperties
  <1>2. /\ ModuleDropped(s[i]) \in Frame
        /\ ModuleDropped(s[i]).pc = s[i].pc /\ ModuleDropped(s[i]).t = s[i].t
    BY <1>1, DroppedType
  <1>3. r = [s EXCEPT ![i] = ModuleDropped(s[i])]
    OBVIOUS
  <1>4. /\ r \in Seq(Frame) /\ DOMAIN r = DOMAIN s
        /\ \A j \in DOMAIN s : r[j] = IF j = i THEN ModuleDropped(s[i]) ELSE s[j]
    <2>1. DOMAIN r = DOMAIN s /\ DOMAIN s = 1..Len(s) /\ Len(s) \in Nat
      BY <1>0, <1>3, LenProperties
    <2>2. \A j \in DOMAIN s : r[j] = IF j = i THEN ModuleDropped(s[i]) ELSE s[j]
      BY <1>3
    <2>3. \A j \in DOMAIN s : s[j] \in Frame
      BY <1>0, ElementOfSeq, LenProperties
    <2>4. r \in Seq(Frame)
      BY <1>0, <1>2, <1>3, <2>1, ExceptSeq
    <2> QED  BY <2>1, <2>2, <2>4
  <1> HIDE DEF r
  <1>5. r # <<>>
    BY <1>4
  <1>6. WellFormed(r)
    BY <1>0, <1>2, <1>4, <1>5 DEF WellFormed
  <1> QED  BY <1>6 DEF r

(***************************************************************************)
(* The invariant.                                                          *)
(***************************************************************************)

(* A fresh interpreter. *)
LEMMA InitIInv == Init => IInv
  <1> SUFFICES ASSUME Init  PROVE IInv
    OBVIOUS
  <1>1. TransactionTypeOK
    <2>1. <<>> \in Seq(Txn) /\ <<>> \in Seq(Entry)
      OBVIOUS
    <2>2. /\ state \in [Txn -> State] /\ parent \in [Txn -> Pointer]
          /\ next \in [Txn -> Pointer] /\ diags \in [Txn -> Diags]
          /\ unloading \in [Txn -> BOOLEAN]
          /\ consumer \in Pointer /\ diagError \in BOOLEAN
      BY DEF Init, TransactionInit, State, Pointer, Diags
    <2>3. /\ nested \in [Txn -> Seq(Txn)] /\ queue \in [Txn -> Seq(Entry)]
          /\ transactions \in Seq(Txn)
      BY <2>1 DEF Init, TransactionInit
    <2> QED  BY <2>2, <2>3 DEF TransactionTypeOK
  <1>2. TreeOK
    <2>1. \A t \in Txn : parent[t] = None /\ nested[t] = <<>> /\ queue[t] = <<>>
      BY DEF Init, TransactionInit
    <2>2. NestingOK
      BY <2>1 DEF NestingOK, IsInjective, Range
    <2>3. Markers(<<>>) = {} /\ Len(<<>>) = 0
      BY DEF Markers
    <2>4. MarkersOK
      BY <2>1, <2>3, FS_EmptySet DEF MarkersOK
    <2> QED  BY <2>2, <2>4 DEF TreeOK
  <1>3. StackOK
    <2>1. "boot" \in Pc /\ "boot" \in BottomPc /\ None \in Pointer
      BY DEF Pc, BottomPc, Pointer
    <2>2. NewFrame("boot", None, FALSE) \in Frame /\ NewFrame("boot", None, FALSE).pc = "boot"
      BY <2>1, NewFrameType
    <2>3. stack = <<NewFrame("boot", None, FALSE)>>
      BY DEF Init
    <2>4. stack \in Seq(Frame) /\ stack # <<>> /\ DOMAIN stack = 1..1 /\ stack[1].pc \in BottomPc
      <3>1. \A f \in Frame : /\ <<f>> \in Seq(Frame) /\ <<f>> # <<>>
                             /\ DOMAIN <<f>> = 1..1 /\ <<f>>[1] = f
        OBVIOUS
      <3> QED  BY <2>1, <2>2, <2>3, <3>1
    <2> QED  BY <2>4 DEF StackOK, WellFormed
  <1>4. RestOK
    BY DEF Init, RestOK, Pointer
  <1> QED  BY <1>1, <1>2, <1>3, <1>4 DEF IInv, TransactionInv

(* Between begin and end of a transaction. *)
LEMMA ParseStep ==
  ASSUME IInv, Parse \/ InitThrow \/ UnloadLast
  PROVE  TransactionInv' /\ StackOK' /\ erred' \in SUBSET Txn
  <1> USE DEF IInv, RestOK
  <1>1. TransactionTypeOK
    BY DEF TransactionInv
  <1>2. \A t : Erring(t) \subseteq Txn
    BY DEF Erring
  <1>3. CASE AppendDecl
    <2>1. StackOK' /\ erred' \in SUBSET Txn
      BY <1>3, SpendPreserves DEF AppendDecl
    <2>2. TreeInv /\ RestTypeOK
      BY TransactionInvSplit
    <2>3. consumer \in Txn
      BY <1>1, <1>3 DEF AppendDecl, TransactionTypeOK, Pointer
    <2>4. TreeInv'
      BY <1>3, <2>2, <2>3, AppendDeclPreserves DEF AppendDecl
    <2>5. RestTypeOK'
      BY <1>3, <2>2 DEF AppendDecl, RestTypeOK, ListTypeOK
    <2>6. TransactionInv'
      BY <2>4, <2>5 DEF TransactionInv, TreeInv, TransactionTypeOK, TreeTypeOK,
                        RestTypeOK, ListTypeOK
    <2> QED  BY <2>1, <2>6
  <1>4. CASE ParseError
    <2>1. StackOK'
      BY <1>4, SpendPreserves DEF ParseError
    <2>2. TransactionInv'
      BY <1>1, <1>4, StatePreserves DEF ParseError, TransactionTypeOK
    <2> QED  BY <1>2, <1>4, <2>1, <2>2 DEF ParseError
  <1>5. CASE TransformerError
    <2>1. StackOK'
      BY <1>5, SpendPreserves DEF TransformerError
    <2>2. diags' \in [Txn -> Diags]
      BY <1>1, <1>5, SetErrorsType DEF TransformerError, TransactionTypeOK
    <2>3. TransactionInv'
      BY <1>1, <1>5, <2>2, StatePreserves DEF TransformerError, TransactionTypeOK
    <2> QED  BY <1>2, <1>5, <2>1, <2>3 DEF TransformerError
  <1>6. CASE LookupReset
    <2>1. TransactionInv'
      BY <1>1, <1>6, StatePreserves DEF LookupReset, TransactionTypeOK
    <2> QED  BY <1>6, <2>1 DEF LookupReset, StackOK, WellFormed
  <1>7. CASE InitThrow
    <2>1. TransactionInv'
      BY <1>1, <1>7, StatePreserves DEF InitThrow, TransactionTypeOK, diagVars
    <2>2. Top.pc \notin BottomPc
      BY <1>7 DEF InitThrow, At, BottomPc
    <2>3. StackOK'
      BY <1>7, <2>2, PopPreserves DEF InitThrow, Pop, StackOK, WellFormed
    <2> QED  BY <1>7, <2>1, <2>3 DEF InitThrow
  <1>8. CASE UnloadLast
    <2>1. CallerAfter(Top) \in Frame
          /\ IF Top.pc \in BottomPc THEN CallerAfter(Top).pc \in BottomPc
             ELSE FrameOK(CallerAfter(Top))
      BY <1>8, CallerType DEF UnloadLast, MayCall
    <2>2. unloading' \in [Txn -> BOOLEAN]
      BY <1>1, <1>8 DEF UnloadLast, TransactionTypeOK
    <2>3. TransactionInv'
      BY <1>1, <1>8, <2>2, StatePreserves DEF UnloadLast, TransactionTypeOK, diagVars
    <2>4. StackOK'
      <3>1. CASE GetLastTransaction = GetFirstTransaction
        BY <1>8, <2>1, <3>1, GotoPreserves DEF UnloadLast
      <3>2. CASE GetLastTransaction # GetFirstTransaction
        <4>1. transactions # <<>>
          BY <3>2 DEF GetLastTransaction, GetFirstTransaction
        <4>2. GetLastTransaction \in Txn
          BY <1>1, <4>1, FrontFacts DEF GetLastTransaction, TransactionTypeOK
        <4>3. FrameOK(UnloadFrame(GetLastTransaction, FALSE))
          BY <4>2, NewFrameOK DEF UnloadFrame, UnloadPc
        <4> QED  BY <1>8, <2>1, <3>2, <4>3, CallFromPreserves DEF UnloadLast
      <3> QED  BY <3>1, <3>2
    <2> QED  BY <1>8, <2>3, <2>4 DEF UnloadLast
  <1> QED  BY <1>3, <1>4, <1>5, <1>6, <1>7, <1>8 DEF Parse

(* A transaction is opened: by a caller, by the constructor, by a commit. *)
LEMMA OpenStep ==
  ASSUME IInv, NEW t \in Txn,
         (\E c \in {"compile", "lookup"} : Begin(c, t)) \/ BootBegin(t) \/ Open(t)
  PROVE  TransactionInv' /\ StackOK' /\ erred' \in SUBSET Txn
  <1> USE DEF IInv, RestOK
  <1>1. consumer \in Pointer /\ diagError \in BOOLEAN
    BY DEF TransactionInv, TransactionTypeOK
  <1>2. Top.pc \in CommitPc => Top.t \in Pointer
    BY TopFacts, PcDistinct DEF FrameOK, Pointer
  <1>3. FrameOK(NewFrame("sub", t, FALSE)) /\ FrameOK([NewFrame("sub", t, FALSE) EXCEPT !.fuel = 0])
    BY NewFrameOK DEF ParsePc
  <1>4. ASSUME NEW c \in {"compile", "lookup"}, Begin(c, t)
        PROVE  TransactionInv' /\ StackOK' /\ erred' \in SUBSET Txn
    <2>1. TransactionInv'
      BY <1>1, <1>4, BeginPreserves DEF Begin
    <2>2. FrameOK(NewFrame(c, t, c = "lookup" /\ diagError))
      BY <1>1, NewFrameOK DEF ParsePc
    <2>3. CallerAfter(Top) \in Frame
          /\ IF Top.pc \in BottomPc THEN CallerAfter(Top).pc \in BottomPc
             ELSE FrameOK(CallerAfter(Top))
      BY <1>4, CallerType DEF Begin, MayCall
    <2>4. StackOK'
      BY <1>4, <2>2, <2>3, CallFromPreserves DEF Begin
    <2> QED  BY <1>4, <2>1, <2>4 DEF Begin
  <1>5. CASE BootBegin(t)
    <2>1. TransactionInv'
      BY <1>1, <1>5, BeginPreserves DEF BootBegin
    <2>2. FrameOK(NewFrame("bootparse", t, FALSE))
      BY NewFrameOK DEF ParsePc
    <2>3. Top.pc \in BottomPc /\ Top \in Frame
      BY <1>5, TopFacts DEF BootBegin, At, BottomPc
    <2>4. StackOK'
      BY <1>5, <2>2, <2>3, CallFromPreserves DEF BootBegin
    <2> QED  BY <1>5, <2>1, <2>4 DEF BootBegin
  <1>6. CASE OpenInstantiations(t)
    <2>1. Top.pc \in CommitPc
      BY <1>6 DEF OpenInstantiations, At, CommitPc
    <2>2. TransactionInv'
      BY <1>2, <1>6, <2>1, BeginPreserves DEF OpenInstantiations
    <2>3. FrameOK([Top EXCEPT !.pc = "deser", !.prev = consumer]) /\ Top.pc \notin BottomPc
      BY <1>1, <2>1, TopAt DEF CommitPc
    <2>4. StackOK'
      BY <1>3, <1>6, <2>3, CallFromPreserves DEF OpenInstantiations, FrameOK
    <2> QED  BY <1>6, <2>2, <2>4 DEF OpenInstantiations
  <1>7. CASE OpenDeserialization(t)
    <2>1. Top.pc \in CommitPc
      BY <1>7 DEF OpenDeserialization, At, CommitPc
    <2>2. TransactionInv'
      BY <1>2, <1>7, <2>1, BeginPreserves DEF OpenDeserialization
    <2> DEFINE pc == IF parent[Top.t] = None THEN "weak" ELSE "exec"
    <2>3. pc \in CommitPc
      BY DEF CommitPc
    <2>4. CallFrom([Top EXCEPT !.pc = pc], [NewFrame("sub", t, FALSE) EXCEPT !.fuel = 0])
      BY <1>7 DEF OpenDeserialization
    <2> HIDE DEF pc
    <2>5. FrameOK([Top EXCEPT !.pc = pc]) /\ Top.pc \notin BottomPc
      BY <1>1, <2>1, <2>3, TopAt
    <2>6. StackOK'
      BY <1>3, <2>4, <2>5, CallFromPreserves DEF FrameOK
    <2> QED  BY <1>7, <2>2, <2>6 DEF OpenDeserialization
  <1>8. CASE OpenTranslation(t)
    <2>1. Top.pc \in CommitPc
      BY <1>8 DEF OpenTranslation, At, CommitPc
    <2>2. TransactionInv'
      BY <1>1, <1>8, BeginPreserves DEF OpenTranslation
    <2>3. FrameOK([Top EXCEPT !.pc = "exec"]) /\ Top.pc \notin BottomPc
      BY <1>1, <2>1, TopAt DEF CommitPc
    <2>4. StackOK'
      BY <1>3, <1>8, <2>3, CallFromPreserves DEF OpenTranslation, FrameOK
    <2> QED  BY <1>8, <2>2, <2>4 DEF OpenTranslation
  <1> QED  BY <1>4, <1>5, <1>6, <1>7, <1>8 DEF Open

(* A transaction is ended. *)
LEMMA EndStep ==
  ASSUME IInv, EndEmpty \/ EndFull
  PROVE  TransactionInv' /\ StackOK' /\ erred' \in SUBSET Txn
  <1> USE DEF IInv, RestOK
  <1>1. Top.pc \in ParsePc
    BY DEF EndEmpty, EndFull
  <1>2. Top.pc \notin BottomPc /\ FrameOK(Top) /\ Top.t \in Txn
    BY <1>1, TopFacts, PcDistinct DEF FrameOK
  <1>3. diagError \in BOOLEAN /\ None \in Pointer /\ Top.t \in Pointer
    BY <1>2 DEF TransactionInv, TransactionTypeOK, Pointer
  <1>4. PICK n \in Nat : n = Len(stack) /\ n > 1 /\ DOMAIN stack = 1..n
    BY <1>2, TopFacts, LenProperties DEF StackOK, WellFormed
  <1>5. "booted" \in Pc /\ "booted" \in BottomPc
    BY DEF Pc, BottomPc
  <1>6. \A f \in Frame : f.pc \in BottomPc => WellFormed(<<f>>)
    <2>1. \A f \in Frame : /\ <<f>> \in Seq(Frame) /\ <<f>> # <<>>
                           /\ DOMAIN <<f>> = 1..1 /\ <<f>>[1] = f
      OBVIOUS
    <2> QED  BY <2>1 DEF WellFormed
  <1>7. CASE EndEmpty
    <2>1. TransactionInv'
      BY <1>2, <1>3, <1>7, EndEmptyPreserves DEF EndEmpty
    <2> DEFINE failed == ParseFailed(Top.t)
    <2>2. CASE At("bootparse")
      <3>1. stack' = <<[NewFrame("booted", None, failed) EXCEPT !.fuel = 0]>>
        BY <1>7, <2>2 DEF EndEmpty
      <3>2. failed \in BOOLEAN
        BY <1>3 DEF ParseFailed, IssuedErrors
      <3> HIDE DEF failed
      <3>3. /\ [NewFrame("booted", None, failed) EXCEPT !.fuel = 0] \in Frame
            /\ [NewFrame("booted", None, failed) EXCEPT !.fuel = 0].pc = "booted"
        BY <1>3, <1>5, <3>2, NewFrameType
      <3>4. StackOK'
        BY <1>5, <1>6, <3>1, <3>3 DEF StackOK
      <3> QED  BY <1>7, <2>1, <3>4 DEF EndEmpty
    <2>3. CASE ~At("bootparse") /\ At("sub")
      <3> DEFINE s == Front(stack)
      <3>1. stack' = [s EXCEPT ![n - 1] = ModuleDropped(@)]
        BY <1>4, <1>7, <2>3 DEF EndEmpty
      <3>2. WellFormed(s) /\ Len(s) = n - 1
        BY <1>2, <1>4, PopPreserves
      <3> HIDE DEF s
      <3>3. n - 1 \in DOMAIN s
        BY <1>4, <3>2, LenProperties DEF WellFormed
      <3>4. WellFormed(stack')
        BY <1>3, <3>1, <3>2, <3>3, CallerDropped, Zenon
      <3> QED  BY <1>7, <2>1, <3>4 DEF EndEmpty, StackOK
    <2>4. CASE ~At("bootparse") /\ ~At("sub")
      <3>1. stack' = Front(stack)
        BY <1>7, <2>4 DEF EndEmpty
      <3> QED  BY <1>2, <1>7, <2>1, <3>1, PopPreserves DEF EndEmpty, StackOK
    <2> QED  BY <2>2, <2>3, <2>4
  <1>8. CASE EndFull
    <2>1. TransactionInv'
      BY <1>2, <1>8, EndFullPreserves DEF EndFull
    <2> DEFINE commit == NewFrame("check", Top.t, FALSE)
    <2>2. FrameOK(commit)
      BY <1>2, NewFrameOK DEF CommitPc
    <2>3. CASE At("bootparse")
      <3>1. stack' = <<[NewFrame("booted", Top.t, FALSE) EXCEPT !.fuel = 0]>>
        BY <1>8, <2>3 DEF EndFull
      <3>2. /\ [NewFrame("booted", Top.t, FALSE) EXCEPT !.fuel = 0] \in Frame
            /\ [NewFrame("booted", Top.t, FALSE) EXCEPT !.fuel = 0].pc = "booted"
        BY <1>3, <1>5, NewFrameType
      <3>3. StackOK'
        BY <1>5, <1>6, <3>1, <3>2 DEF StackOK
      <3> QED  BY <1>8, <2>1, <3>3 DEF EndFull
    <2> DEFINE s == [stack EXCEPT ![n] = commit]
    <2> HIDE DEF commit
    <2>4. /\ s \in Seq(Frame) /\ DOMAIN s = 1..n
          /\ \A i \in 1..n : s[i] = IF i = n THEN commit ELSE stack[i]
      <3>1. stack \in Seq(Frame) /\ n \in 1..Len(stack) /\ commit \in Frame
        BY <1>4, <2>2 DEF StackOK, WellFormed, FrameOK
      <3>2. /\ s \in Seq(Frame) /\ Len(s) = Len(stack)
            /\ \A i \in 1..Len(stack) : s[i] = IF i = n THEN commit ELSE stack[i]
        BY ONLY <3>1, ExceptSeq
      <3> HIDE DEF s
      <3> QED  BY <1>4, <3>2, LenProperties
    <2>5. n - 1 \in DOMAIN s /\ n - 1 # n
      BY <1>4, <2>4
    <2>6. WellFormed(s)
      <3> HIDE DEF s
      <3>1. s # <<>>
        BY <2>5
      <3> QED  BY <1>4, <2>2, <2>4, <3>1 DEF StackOK, WellFormed, FrameOK
    <2>7. CASE ~At("bootparse") /\ At("sub")
      <3>1. stack' = [stack EXCEPT ![n] = commit, ![n - 1] = ModuleDropped(@)]
        BY <1>4, <1>8, <2>7 DEF EndFull, commit
      <3>2. stack' = [s EXCEPT ![n - 1] = ModuleDropped(@)]
        BY <2>5, <3>1
      <3> HIDE DEF s
      <3>3. WellFormed(stack')
        BY <1>3, <2>5, <2>6, <3>2, CallerDropped, Zenon
      <3> QED  BY <1>8, <2>1, <3>3 DEF EndFull, StackOK
    <2>8. CASE ~At("bootparse") /\ ~At("sub")
      <3>1. stack' = s
        BY <1>4, <1>8, <2>8 DEF EndFull, commit
      <3> HIDE DEF s
      <3> QED  BY <1>8, <2>1, <2>6, <3>1 DEF EndFull, StackOK
    <2> QED  BY <2>3, <2>7, <2>8
  <1> QED  BY <1>7, <1>8

(* The constructor's commit, and the phases of any commit that open and end  *)
(* nothing.                                                                  *)
LEMMA CommitStep ==
  ASSUME IInv, BootCommit \/ CommitCheck \/ SkipCodeGen \/ Execute \/ InitReturn \/ CommitReturn
  PROVE  TransactionInv' /\ StackOK' /\ erred' \in SUBSET Txn
  <1> USE DEF IInv, RestOK
  <1>1. TransactionTypeOK /\ Top \in Frame /\ Top.prev \in Pointer
    BY TopFacts DEF TransactionInv, Frame
  <1>2. "kCommitted" \in State \ {"kNumStates"}
    BY DEF State
  <1>3. CASE BootCommit
    <2>1. TransactionInv'
      BY <1>1, <1>3, StatePreserves DEF BootCommit, TransactionTypeOK
    <2> DEFINE client == NewFrame("client", None, FALSE)
               commit == NewFrame("check", Top.t, FALSE)
    <2>2. client \in Frame /\ client.pc \in BottomPc
      <3>1. "client" \in Pc /\ "client" \in BottomPc /\ None \in Pointer
        BY DEF Pc, BottomPc, Pointer
      <3> QED  BY <3>1, NewFrameType
    <2>3. Top.t # None => FrameOK(commit)
      BY <1>1, NewFrameOK DEF CommitPc, Frame, Pointer
    <2>4. stack' = IF Top.t = None THEN <<client>> ELSE <<client, commit>>
      BY <1>3 DEF BootCommit
    <2> HIDE DEF client, commit
    <2>5. WellFormed(<<client>>)
      <3>1. /\ <<client>> \in Seq(Frame) /\ <<client>> # <<>>
            /\ DOMAIN <<client>> = 1..1 /\ <<client>>[1] = client
        BY <2>2
      <3> QED  BY <2>2, <3>1 DEF WellFormed
    <2>6. Top.t # None => WellFormed(<<client, commit>>)
      <3> SUFFICES ASSUME FrameOK(commit)  PROVE WellFormed(<<client, commit>>)
        BY <2>3
      <3>1. commit \in Frame
        BY DEF FrameOK
      <3>2. /\ <<client, commit>> \in Seq(Frame) /\ <<client, commit>> # <<>>
            /\ DOMAIN <<client, commit>> = 1..2
            /\ <<client, commit>>[1] = client /\ <<client, commit>>[2] = commit
        BY <2>2, <3>1
      <3>3. \A i \in 1..2 : i = 1 \/ i = 2
        OBVIOUS
      <3> QED  BY <2>2, <3>2, <3>3 DEF WellFormed, FrameOK
    <2>7. StackOK'
      BY <2>4, <2>5, <2>6 DEF StackOK
    <2> QED  BY <1>3, <2>1, <2>7 DEF BootCommit
  <1>4. ASSUME Top.pc \in CommitPc
        PROVE  /\ Top.t \in Txn /\ Top.pc \notin BottomPc
               /\ \A pc \in CommitPc, prev \in Pointer :
                    /\ FrameOK([Top EXCEPT !.pc = pc])
                    /\ FrameOK([Top EXCEPT !.pc = pc, !.prev = prev])
               /\ \A flag \in BOOLEAN : FrameOK(UnloadFrame(Top.t, flag))
    <2>1. Top.pc \notin BottomPc /\ Top.t \in Txn
      BY <1>4, TopFacts, PcDistinct DEF FrameOK
    <2>2. \A pc \in CommitPc, prev \in Pointer :
            /\ FrameOK([Top EXCEPT !.pc = pc])
            /\ FrameOK([Top EXCEPT !.pc = pc, !.prev = prev])
      BY <1>4, TopAt
    <2>3. \A flag \in BOOLEAN : FrameOK(UnloadFrame(Top.t, flag))
      BY <2>1, NewFrameOK DEF UnloadFrame, UnloadPc
    <2> QED  BY <2>1, <2>2, <2>3
  <1>5. ASSUME NEW f, Top.pc \in CommitPc, FrameOK(f), Goto(f)
        PROVE  StackOK'
    BY <1>4, <1>5, GotoPreserves DEF FrameOK
  <1>6. CASE CommitCheck
    <2>1. Top.pc \in CommitPc
      BY <1>6 DEF CommitCheck, At, CommitPc
    <2>2. consumer' \in Pointer /\ unloading' \in [Txn -> BOOLEAN] /\ diagError' \in BOOLEAN
      BY <1>1, <1>4, <1>6, <2>1 DEF CommitCheck, TransactionTypeOK
    <2>3. TransactionInv'
      BY <1>1, <1>6, <2>2, StatePreserves DEF CommitCheck, TransactionTypeOK
    <2>4. StackOK'
      <3>1. CASE IssuedErrors(Top.t)
        BY <1>4, <1>5, <1>6, <2>1, <3>1 DEF CommitCheck
      <3>2. CASE ~IssuedErrors(Top.t)
        <4>1. Goto([Top EXCEPT !.pc = "inst"]) /\ "inst" \in CommitPc
          BY <1>6, <3>2 DEF CommitCheck, CommitPc
        <4> QED  BY <1>1, <1>4, <1>5, <2>1, <4>1
      <3> QED  BY <3>1, <3>2
    <2> QED  BY <1>6, <2>3, <2>4 DEF CommitCheck
  <1>7. CASE SkipCodeGen \/ InitReturn
    <2>1. Top.pc \in CommitPc
      BY <1>7 DEF SkipCodeGen, InitReturn, At, CommitPc
    <2>2. /\ consumer' = Top.prev
          /\ state' = [state EXCEPT ![Top.t] = "kCommitted"]
          /\ Goto([Top EXCEPT !.pc = "callback"]) /\ "callback" \in CommitPc
          /\ UNCHANGED <<treeVars, listVars, diagVars, unloading, erred>>
      BY <1>7 DEF SkipCodeGen, InitReturn, CommitPc
    <2>3. Top.t \in Txn
      BY <1>4, <2>1
    <2>4. TransactionInv'
      BY <1>1, <1>2, <2>2, <2>3, StatePreserves DEF TransactionTypeOK, diagVars
    <2>5. StackOK'
      BY <1>1, <1>4, <1>5, <2>1, <2>2
    <2> QED  BY <2>2, <2>4, <2>5
  <1>8. CASE Execute
    <2>1. Top.pc \in CommitPc
      BY <1>8 DEF Execute, At, CommitPc
    <2>2. Top.t \in Txn
      BY <1>4, <2>1
    <2>3. consumer' \in Pointer /\ unloading' \in [Txn -> BOOLEAN]
      BY <1>1, <1>8 DEF Execute, TransactionTypeOK
    <2>4. TransactionInv'
      BY <1>1, <1>2, <1>8, <2>2, <2>3, StatePreserves DEF Execute, TransactionTypeOK, diagVars
    <2>5. StackOK'
      <3>1. CASE parent[Top.t] # None
        <4>1. Goto([Top EXCEPT !.pc = "callback", !.prev = consumer']) /\ "callback" \in CommitPc
          BY <1>8, <3>1 DEF Execute, CommitPc
        <4>2. FrameOK([Top EXCEPT !.pc = "callback", !.prev = consumer'])
          BY <1>4, <2>1, <2>3, <4>1
        <4> QED  BY <1>5, <2>1, <4>1, <4>2
      <3>2. CASE parent[Top.t] = None /\ Top.flag
        BY <1>4, <1>5, <1>8, <2>1, <3>2 DEF Execute
      <3>3. CASE parent[Top.t] = None /\ ~Top.flag
        <4>1. Goto([Top EXCEPT !.pc = "init"]) /\ "init" \in CommitPc
          BY <1>8, <3>3 DEF Execute, CommitPc
        <4> QED  BY <1>1, <1>4, <1>5, <2>1, <4>1
      <3> QED  BY <3>1, <3>2, <3>3
    <2> QED  BY <1>8, <2>4, <2>5 DEF Execute
  <1>9. CASE CommitReturn
    <2>1. Top.pc \in CommitPc
      BY <1>9 DEF CommitReturn, At, CommitPc
    <2>2. TransactionInv'
      BY <1>1, <1>9, StatePreserves DEF CommitReturn, TransactionTypeOK, diagVars
    <2>3. StackOK'
      BY <1>4, <1>9, <2>1, PopPreserves DEF CommitReturn, Pop, StackOK
    <2> QED  BY <1>9, <2>2, <2>3 DEF CommitReturn
  <1> QED  BY <1>3, <1>6, <1>7, <1>8, <1>9

(* Interpreter::unload. *)
LEMMA UnloadStep ==
  ASSUME IInv, DtorReturn \/ RevertNested \/ RevertReturn
  PROVE  TransactionInv' /\ StackOK' /\ erred' \in SUBSET Txn
  <1> USE DEF IInv, RestOK
  <1>1. TransactionTypeOK
    BY DEF TransactionInv
  <1>2. Top.pc \in UnloadPc /\ Top.pc \notin BottomPc /\ Top.t \in Txn
    <2>1. Top.pc \in UnloadPc
      BY DEF DtorReturn, RevertNested, RevertReturn, At, UnloadPc
    <2> QED  BY <2>1, TopFacts, PcDistinct DEF FrameOK
  <1>3. Pop => StackOK'
    BY <1>2, PopPreserves DEF Pop, StackOK
  <1>4. CASE DtorReturn
    <2>1. TransactionInv'
      <3>1. "kRolledBack" \in State \ {"kNumStates"}
        BY DEF State
      <3> QED  BY <1>1, <1>2, <1>4, <3>1, StatePreserves DEF DtorReturn, TransactionTypeOK, diagVars
    <2>2. StackOK'
      <3>1. CASE errorOut
        BY <1>3, <1>4, <3>1 DEF DtorReturn
      <3>2. CASE ~errorOut
        <4>1. Goto([Top EXCEPT !.pc = "revert"]) /\ "revert" \in UnloadPc
          BY <1>4, <3>2 DEF DtorReturn, UnloadPc
        <4>2. FrameOK([Top EXCEPT !.pc = "revert"])
          BY <1>2, <4>1, TopAt DEF Pointer
        <4> QED  BY <1>2, <4>1, <4>2, GotoPreserves DEF FrameOK
      <3> QED  BY <3>1, <3>2
    <2> QED  BY <1>4, <2>1, <2>2 DEF DtorReturn
  <1>5. CASE RevertNested
    <2>1. unloading' \in [Txn -> BOOLEAN]
      BY <1>1, <1>5 DEF RevertNested, TransactionTypeOK
    <2>2. TransactionInv'
      BY <1>1, <1>5, <2>1, StatePreserves DEF RevertNested, TransactionTypeOK, diagVars
    <2>3. Last(nested[Top.t]) \in Txn
      <3>1. nested[Top.t] \in Seq(Txn) /\ nested[Top.t] # <<>>
        BY <1>1, <1>2, <1>5 DEF RevertNested, TransactionTypeOK
      <3> QED  BY <3>1, FrontFacts
    <2>4. FrameOK(UnloadFrame(Last(nested[Top.t]), FALSE))
      BY <2>3, NewFrameOK DEF UnloadFrame, UnloadPc
    <2>5. StackOK'
      BY <1>5, <2>4, PushPreserves DEF RevertNested
    <2> QED  BY <1>5, <2>2, <2>5 DEF RevertNested
  <1>6. CASE RevertReturn
    <2>1. TransactionInv'
      BY <1>2, <1>6, DeregisterPreserves DEF RevertReturn
    <2> QED  BY <1>3, <1>6, <2>1 DEF RevertReturn
  <1> QED  BY <1>4, <1>5, <1>6

(* Every step keeps the invariant. *)
LEMMA NextIInv == IInv /\ [Next]_vars => IInv'
  <1> SUFFICES ASSUME IInv, [Next]_vars  PROVE IInv'
    OBVIOUS
  <1>0. errorOut' = errorOut
    BY DEF Next, Run, Choose, vars
  <1>1. CASE Return
    <2>1. TransactionInv' /\ StackOK' /\ erred' \in SUBSET Txn
      BY <1>1, CommitStep, UnloadStep DEF Return
    <2>2. Top.t \in Txn
      <3>1. Top.pc \in CommitPc \cup UnloadPc
        BY <1>1 DEF Return, CommitReturn, DtorReturn, RevertReturn, At, CommitPc, UnloadPc
      <3> QED  BY <3>1, TopFacts, PcDistinct DEF IInv, FrameOK
    <2>3. prt' \in Pointer
      BY <1>1, <2>2 DEF Return, Pointer
    <2> QED  BY <1>0, <2>1, <2>3 DEF IInv, RestOK
  <1>2. CASE prt' = None /\ (Finish \/ \E n \in Txn : Open(n) \/ BootBegin(n))
    <2>1. TransactionInv' /\ StackOK' /\ erred' \in SUBSET Txn
      <3>1. CASE Finish
        BY <3>1, EndStep, CommitStep, UnloadStep DEF Finish
      <3>2. CASE \E n \in Txn : Open(n) \/ BootBegin(n)
        BY <3>2, OpenStep
      <3> QED  BY <1>2, <3>1, <3>2
    <2> QED  BY <1>0, <1>2, <2>1 DEF IInv, RestOK, Pointer
  <1>3. CASE Choose
    <2>1. TransactionInv' /\ StackOK' /\ erred' \in SUBSET Txn
      <3>1. CASE Parse \/ InitThrow \/ UnloadLast
        BY <3>1, ParseStep
      <3>2. CASE \E c \in {"compile", "lookup"}, t \in Txn : Begin(c, t)
        BY <3>2, OpenStep
      <3> QED  BY <1>3, <3>1, <3>2 DEF Choose
    <2> QED  BY <1>0, <1>3, <2>1 DEF Choose, IInv, RestOK, Pointer
  <1>4. CASE UNCHANGED vars
    BY <1>4 DEF vars, IInv, TransactionInv, TransactionTypeOK, TreeOK, NestingOK, MarkersOK,
                Live, StackOK, RestOK
  <1> QED  BY <1>1, <1>2, <1>3, <1>4 DEF Next, Run

(* The inductive invariant holds of every behaviour of begin, end, commit and *)
(* unload.                                                                    *)
THEOREM Invariance == Spec => []IInv
  BY InitIInv, NextIInv, PTL DEF Spec

(* The variables keep the types of the C++ members, and every function on    *)
(* the call stack but the outermost has a transaction to work on: unload is  *)
(* never entered with a null pointer, however user code re-enters.           *)
THEOREM TypeCorrect == Spec => []TypeOK
  <1>1. IInv => TypeOK
    BY IInvSplit
  <1> QED  BY <1>1, Invariance, PTL

(* begin, end, commit and unload, in any order that re-entrant calls can     *)
(* produce, keep parents, nested lists and markers consistent.               *)
THEOREM TreeCorrect == Spec => []TreeOK
  <1>1. IInv => TreeOK
    BY IInvSplit
  <1> QED  BY <1>1, Invariance, PTL

-----------------------------------------------------------------------------
(***************************************************************************)
(* The call stack and the transactions, step by step: CallsInv, what every *)
(* call relies on when it returns to the frame below - which transaction a *)
(* frame works for, which one is current, which one collects - is kept by  *)
(* every action, for user code that compiles and looks up in static        *)
(* initializers and in commit callbacks but runs nothing in static         *)
(* destructors and does not unload while a commit is under way.  DequeOK,  *)
(* ScopesOK and RollbackOK follow further down.                            *)
(***************************************************************************)
(* The user code assumed here.                                              *)
Tame ==
  /\ Reenter["dtor"] = {}
  /\ "unload" \notin Reenter["init"] \cup Reenter["callback"]

(***************************************************************************)
(* The inductive invariant.                                                *)
(***************************************************************************)

Depth == Len(stack)
WorkPc == {"check", "inst", "deser", "weak", "exec"}
DonePc == {"init", "callback"}
Building == {"kCollecting", "kCompleted"}
Final == {"kCommitted", "kRolledBack"}

(* Where the call stack can be cut: a commit is in its first phases only at  *)
(* the top, the constructor parses first, and unload calls nothing but       *)
(* itself, when the destructors are done.                                    *)
ShapeOK ==
  \A i \in 1..Depth :
    /\ stack[i].pc = "bootparse" => i = 2 /\ stack[1].pc = "boot"
    /\ stack[i].pc \in {"check", "inst", "dtor"} => i = Depth
    /\ stack[i].pc \in {"boot", "client"} => stack[i].t = None
    /\ stack[i].t = None => stack[i].prev = None
    /\ stack[i].pc = "revert" => ~errorOut
    /\ stack[i].pc \in UnloadPc => \A j \in i..Depth : stack[j].pc \in UnloadPc

(* The transaction in which code called from a frame opens another.          *)
Target(f) ==
  IF f.pc \in {"client", "init"} THEN None
  ELSE IF f.pc = "callback" THEN parent[f.t] ELSE f.t

(* Every frame has a transaction of its own, nested in one further down.     *)
LineageOK ==
  /\ \A i, j \in 1..Depth : stack[i].t # None /\ stack[i].t = stack[j].t => i = j
  /\ \A i \in 2..Depth : parent[stack[i].t] # None =>
       \E j \in 1..(i - 1) : stack[j].t = parent[stack[i].t]
  /\ \A i \in 1..(Depth - 1) : parent[stack[i + 1].t] = Target(stack[i])

(* The transaction that is current when a commit is over.                    *)
Home(t) == IF parent[t] = None THEN t ELSE parent[t]

(* What a function may rely on about its transaction.                        *)
PhaseOK(f) ==
  /\ f.pc \in ParsePc => state[f.t] = "kCollecting"
  /\ f.pc \in WorkPc \cup {"booted"} => state[f.t] = "kCompleted"
  /\ f.pc \in DonePc => state[f.t] = "kCommitted"
  /\ f.pc \in UnloadPc => state[f.t] \in Final \cup {"kCompleted"}
  /\ f.pc \in {"bootparse", "booted", "weak", "init"} => parent[f.t] = None
  /\ f.pc \notin UnloadPc =>
       /\ ~unloading[f.t]
       /\ parent[f.t] # None => state[parent[f.t]] \in Building /\ ~unloading[parent[f.t]]
  /\ f.prev = IF f.pc \in {"deser", "weak", "exec", "init", "callback"} THEN Home(f.t) ELSE None

PhasesOK ==
  /\ \A i \in 1..Depth : stack[i].t # None => PhaseOK(stack[i])
  /\ \A t \in Txn : state[t] \in Building => \E i \in 1..Depth : stack[i].t = t
  /\ \A t \in Txn : ~Live(t) => ~unloading[t]

(* The current transaction of the DeclCollector: the one in which a new one  *)
(* has to be nested, or one that takes no nested ones any more.              *)
Settled(c) ==
  \/ c = None
  \/ state[c] \in Final /\ parent[c] = None
Expected(f) == IF Target(f) = None THEN Settled(consumer) ELSE consumer = Target(f)
CurrentOK ==
  /\ consumer # None => Live(consumer)
  /\ At("inst") => consumer = Home(Top.t)
  /\ Top.pc \notin UnloadPc \cup {"inst"} => Expected(Top)
  /\ \A i \in 2..Depth : stack[i].pc \in UnloadPc /\ stack[i - 1].pc \notin UnloadPc =>
       \/ consumer = stack[i].t /\ parent[stack[i].t] = None
       \/ Expected(stack[i - 1])

(* Code called from such a frame works beside its transaction. *)
Aside(f) == f.t = None \/ f.pc = "init" \/ (f.pc = "callback" /\ parent[f.t] = None)

(* The last top-level transaction, if it was ended, is the one at work. *)
FrontOK ==
  /\ ChainOK
  /\ \A i \in 1..Depth : ~Aside(stack[i]) =>
       /\ next[RootOf(parent, stack[i].t)] = None
       /\ parent[stack[i].t] = None /\ stack[i].pc \notin ParsePc =>
            stack[i].t = GetLastTransaction
  /\ \A i, j \in 1..Depth : i < j /\ ~Aside(stack[i]) =>
       /\ parent[stack[j].t] # None
       /\ RootOf(parent, stack[i].t) = RootOf(parent, stack[j].t)
  /\ \A i \in 2..Depth : \E j \in 1..i : stack[j].t = RootOf(parent, stack[i].t)

(***************************************************************************)
(* How the call stack changes.                                             *)
(***************************************************************************)

(* The same function at the same place. *)
Same(f, g) ==
  /\ f.pc = g.pc /\ f.t = g.t /\ f.prev = g.prev
  /\ f.pc = "lookup" => f.flag = g.flag

(* The k outermost functions are where they were. *)
Kept(k) == \A i \in 1..k : Same(stack'[i], stack[i])

(* The frames of a well-formed stack. *)
LEMMA DepthFacts ==
  ASSUME NEW s, WellFormed(s)
  PROVE  /\ Len(s) \in Nat /\ Len(s) >= 1 /\ DOMAIN s = 1..Len(s)
         /\ Last(s) = s[Len(s)]
         /\ s[1].pc \in BottomPc
         /\ \A i \in 1..Len(s) : s[i] \in Frame
         /\ \A i \in 2..Len(s) : s[i].pc \notin BottomPc /\ s[i].t \in Txn
  <1>1. PICK n \in Nat : n = Len(s)
    BY LenProperties DEF WellFormed
  <1>2. n # 0 /\ DOMAIN s = 1..n
    BY <1>1, EmptySeq, LenProperties DEF WellFormed
  <1>3. \A i \in 1..n : s[i] \in Frame
    BY <1>1, ElementOfSeq DEF WellFormed
  <1>4. 1 \in 1..n /\ \A i \in 2..n : i \in 1..n /\ i # 1
    BY <1>2
  <1> QED  BY <1>1, <1>2, <1>3, <1>4 DEF WellFormed, Last

(* A function goes on. *)
LEMMA GotoFrames ==
  ASSUME StackOK, NEW f \in Frame, Goto(f)
  PROVE  /\ Len(stack') = Depth /\ stack'[Depth] = f
         /\ \A i \in 1..(Depth - 1) : stack'[i] = stack[i]
  <1>1. PICK n \in Nat : n = Len(stack)
    BY DepthFacts DEF StackOK
  <1>2. n >= 1 /\ stack \in Seq(Frame)
    BY <1>1, DepthFacts DEF StackOK, WellFormed
  <1>3. /\ Len(stack') = n /\ stack'[n] = f
        /\ \A i \in 1..n : i # n => stack'[i] = stack[i]
    BY <1>1, <1>2, ExceptSeq DEF Goto
  <1> QED  BY <1>1, <1>3 DEF Depth

(* A function calls another. *)
LEMMA PushFrames ==
  ASSUME StackOK, NEW g \in Frame, Push(g)
  PROVE  /\ Len(stack') = Depth + 1 /\ stack'[Depth + 1] = g
         /\ \A i \in 1..Depth : stack'[i] = stack[i]
  <1>1. stack \in Seq(Frame)
    BY DEF StackOK, WellFormed
  <1> QED  BY <1>1, AppendProperties DEF Push, Depth

(* It has moved on when the other returns. *)
LEMMA CallFrames ==
  ASSUME StackOK, NEW f \in Frame, NEW g \in Frame, CallFrom(f, g)
  PROVE  /\ Len(stack') = Depth + 1 /\ stack'[Depth] = f /\ stack'[Depth + 1] = g
         /\ \A i \in 1..(Depth - 1) : stack'[i] = stack[i]
  <1>1. PICK n \in Nat : n = Len(stack)
    BY DepthFacts DEF StackOK
  <1>2. n >= 1 /\ stack \in Seq(Frame)
    BY <1>1, DepthFacts DEF StackOK, WellFormed
  <1> DEFINE caller == [stack EXCEPT ![Len(stack)] = f]
  <1>3. /\ caller \in Seq(Frame) /\ Len(caller) = n /\ caller[n] = f
        /\ \A i \in 1..n : i # n => caller[i] = stack[i]
    BY <1>1, <1>2, ExceptSeq
  <1>4. stack' = Append(caller, g)
    BY DEF CallFrom
  <1> HIDE DEF caller
  <1>5. /\ Len(stack') = n + 1 /\ stack'[n + 1] = g
        /\ \A i \in 1..n : stack'[i] = caller[i]
    BY <1>3, <1>4, AppendProperties
  <1> QED  BY <1>1, <1>2, <1>3, <1>5 DEF Depth

(* A function returns. *)
LEMMA PopFrames ==
  ASSUME StackOK, NEW s, s = Front(stack)
  PROVE  /\ Len(s) = Depth - 1
         /\ \A i \in 1..(Depth - 1) : s[i] = stack[i]
  BY FrontFacts DEF StackOK, WellFormed, Depth

(* The frame at the top. *)
LEMMA TopFrame ==
  ASSUME IInv
  PROVE  /\ Depth \in Nat /\ Depth >= 1 /\ Top = stack[Depth]
         /\ stack[1].pc \in BottomPc
         /\ \A i \in 1..Depth : stack[i] \in Frame
         /\ \A i \in 2..Depth : stack[i].pc \notin BottomPc /\ stack[i].t \in Txn
         /\ Depth > 1 => Top.t \in Txn /\ Top.pc \notin BottomPc
         /\ Top.pc \notin BottomPc => Depth > 1
  <1>1. WellFormed(stack)
    BY DEF IInv, StackOK
  <1> QED  BY <1>1, DepthFacts DEF Top, Depth

(* The functions further down neither work on the transaction of the one at  *)
(* the top nor inside it.                                                    *)
LEMMA LowerFrames ==
  ASSUME IInv, ShapeOK, LineageOK, PhasesOK, Depth > 1
  PROVE  \A i \in 1..(Depth - 1) :
           /\ stack[i].t # Top.t
           /\ stack[i].t # None => stack[i].t \in Txn /\ parent[stack[i].t] # Top.t
  <1> SUFFICES ASSUME NEW i \in 1..(Depth - 1)
               PROVE  /\ stack[i].t # Top.t
                      /\ stack[i].t # None => stack[i].t \in Txn /\ parent[stack[i].t] # Top.t
    OBVIOUS
  <1>1. /\ Depth \in Nat /\ Top = stack[Depth] /\ Top.t \in Txn
        /\ i \in 1..Depth /\ Depth \in 1..Depth /\ i # Depth
    BY TopFrame
  <1>2. stack[i].t # Top.t
    BY <1>1, TxnAssumption DEF LineageOK
  <1>3. ASSUME stack[i].t # None  PROVE stack[i].t \in Txn
    BY <1>1, <1>3, TopFrame DEF Frame, Pointer
  <1>4. ASSUME stack[i].t # None  PROVE parent[stack[i].t] # Top.t
    <2>1. CASE i = 1
      <3>1. stack[i].pc \in BottomPc
        BY <2>1, TopFrame
      <3>2. stack[i].pc = "booted"
        BY <1>1, <1>4, <3>1 DEF BottomPc, ShapeOK
      <3>3. parent[stack[i].t] = None
        BY <1>1, <1>4, <3>2 DEF PhasesOK, PhaseOK
      <3> QED  BY <1>1, <3>3, TxnAssumption
    <2>2. CASE i # 1
      <3>1. i \in 2..Depth
        BY <1>1, <2>2
      <3> QED  BY <1>1, <1>2, <3>1, TxnAssumption DEF LineageOK
    <2> QED  BY <2>1, <2>2
  <1> QED  BY <1>2, <1>3, <1>4

(* Nothing that the k outermost functions rely on changes when only x does.  *)
LEMMA PhasesKept ==
  ASSUME IInv, IInv', PhasesOK, NEW x \in Txn, NEW k \in 0..Depth, Kept(k),
         \A u \in Txn : u # x => /\ state'[u] = state[u] /\ parent'[u] = parent[u]
                                 /\ unloading'[u] = unloading[u],
         \A i \in 1..k : stack[i].t # None =>
           stack[i].t \in Txn /\ stack[i].t # x /\ parent[stack[i].t] # x
  PROVE  \A i \in 1..k : stack'[i].t # None => PhaseOK(stack[i])'
  <1> SUFFICES ASSUME NEW i \in 1..k, stack'[i].t # None
               PROVE  PhaseOK(stack[i])'
    OBVIOUS
  <1>1. i \in 1..Depth
    BY TopFrame
  <1>2. Same(stack'[i], stack[i])
    BY DEF Kept
  <1>3. PhaseOK(stack[i]) /\ stack[i].t \in Txn /\ stack[i].t # x /\ parent[stack[i].t] # x
    BY <1>1, <1>2 DEF PhasesOK, Same
  <1>4. parent[stack[i].t] \in Pointer
    BY <1>3 DEF IInv, TransactionInv, TransactionTypeOK
  <1> QED  BY <1>2, <1>3, <1>4 DEF PhaseOK, Same, Home, Pointer

(* Transactions at work are live, and so are those they are nested in. *)
LEMMA FramesLive ==
  ASSUME IInv, ShapeOK, PhasesOK
  PROVE  \A i \in 1..Depth : stack[i].t # None =>
           /\ stack[i].t \in Txn /\ Live(stack[i].t)
           /\ parent[stack[i].t] \in Pointer
           /\ parent[stack[i].t] # None => Live(parent[stack[i].t])
  <1> SUFFICES ASSUME NEW i \in 1..Depth, stack[i].t # None
               PROVE  /\ stack[i].t \in Txn /\ Live(stack[i].t)
                      /\ parent[stack[i].t] \in Pointer
                      /\ parent[stack[i].t] # None => Live(parent[stack[i].t])
    OBVIOUS
  <1>1. stack[i].t \in Txn /\ stack[i].pc \in Pc
    BY TopFrame DEF Frame, Pointer
  <1>2. PhaseOK(stack[i])
    BY DEF PhasesOK
  <1>3. stack[i].pc \notin {"boot", "client"} => Live(stack[i].t)
    BY <1>1, <1>2 DEF PhaseOK, Pc, BottomPc, ParsePc, CommitPc, UnloadPc, WorkPc, DonePc, Final, Live
  <1>4. parent[stack[i].t] \in Pointer
    BY <1>1 DEF IInv, TransactionInv, TransactionTypeOK
  <1>5. \A u \in Txn : parent[u] # None => Live(u) /\ Live(parent[u])
    BY DEF IInv, TransactionInv, TransactionTypeOK, TreeOK, NestingOK, Pointer
  <1> QED  BY <1>1, <1>3, <1>4, <1>5 DEF ShapeOK

(***************************************************************************)
(* A transaction t is opened: g is the frame of the caller, h that of the  *)
(* parse.                                                                  *)
(***************************************************************************)

StateInv == ShapeOK /\ LineageOK /\ PhasesOK /\ CurrentOK

Opens(g, h, t) ==
  /\ Len(stack') = Depth + 1 /\ Kept(Depth - 1)
  /\ stack'[Depth] = g /\ stack'[Depth + 1] = h
  /\ Top.pc \notin UnloadPc
  /\ g.t = Top.t /\ g.pc \notin UnloadPc \cup {"check", "inst"}
  /\ g.pc \in {"boot", "client"} => g.t = None
  /\ g.t = None => g.prev = None
  /\ g.pc = "bootparse" => Top.pc = "bootparse"
  /\ g.t # None => PhaseOK(g)
  /\ Aside(g) <=> Aside(Top)
  /\ g.pc \in ParsePc <=> Top.pc \in ParsePc
  /\ h.t = t /\ h.pc \in ParsePc /\ h.prev = None
  /\ h.pc = "bootparse" => Depth = 1 /\ g.pc = "boot"
  /\ ~Live(t) /\ state' = [state EXCEPT ![t] = "kCollecting"]
  /\ parent' = [parent EXCEPT ![t] = Target(g)]
  /\ consumer' = t
  /\ UNCHANGED <<unloading, listVars, errorOut>>

LEMMA OpenKeepsState ==
  ASSUME IInv, IInv', StateInv, NEW t \in Txn, NEW g, NEW h, Opens(g, h, t)
  PROVE  StateInv'
  <1> USE DEF StateInv
  <1> DEFINE n == Depth
  <1>1. /\ n \in Nat /\ n >= 1 /\ Depth' = n + 1 /\ Top = stack[n] /\ Top' = h
        /\ g \in Frame /\ h \in Frame
        /\ n > 1 => Top.t \in Txn /\ g.pc \notin BottomPc
        /\ n = 1 => g.pc \in BottomPc
    <2>1. Depth' = n + 1
      BY DEF Opens, Depth
    <2>2. WellFormed(stack')
      BY DEF IInv, StackOK
    <2>3. /\ Top' = h /\ g \in Frame /\ h \in Frame
          /\ n > 1 => g.pc \notin BottomPc
          /\ n = 1 => g.pc \in BottomPc
      BY <2>1, <2>2, TopFrame, DepthFacts DEF Opens, Top, Depth
    <2> QED  BY <2>1, <2>3, TopFrame
  <1>2. /\ \A u \in Txn : state'[u] = IF u = t THEN "kCollecting" ELSE state[u]
        /\ \A u \in Txn : parent'[u] = IF u = t THEN Target(g) ELSE parent[u]
        /\ unloading' = unloading
    BY DEF Opens, IInv, TransactionInv, TransactionTypeOK
  <1>3. \A i \in 1..n : stack[i].t # None =>
          /\ stack[i].t \in Txn /\ stack[i].t # t /\ parent[stack[i].t] # t
          /\ Live(stack[i].t) /\ parent[stack[i].t] \in Pointer
    BY FramesLive, TxnAssumption DEF Opens
  <1>4. \A i \in 1..(n - 1) : Same(stack'[i], stack[i])
    BY DEF Opens, Kept
  <1>5. stack'[n] = g /\ stack'[n + 1] = h /\ g.t = stack[n].t /\ h.t = t
    BY <1>1 DEF Opens
  <1>6. \A i \in 1..n : stack'[i].t = stack[i].t
    BY <1>1, <1>4, <1>5 DEF Same
  <1>7. /\ Target(g) \in Pointer /\ Target(g) # t
        /\ Target(g) # None =>
             /\ state[Target(g)] \in Building /\ ~unloading[Target(g)]
             /\ \E j \in 1..n : stack[j].t = Target(g)
    <2>1. CASE g.t = None
      <3>1. n = 1
        BY <1>1, <1>5, <2>1, TxnAssumption
      <3>2. g.pc \notin CommitPc
        BY <1>1, <3>1 DEF CommitPc, BottomPc
      <3> QED  BY <2>1, <3>2, TxnAssumption DEF Target, Pointer, CommitPc
    <2>2. CASE g.t # None
      <3>1. PhaseOK(g) /\ g.pc \in Pc /\ g.t \in Txn /\ g.t # t /\ parent[g.t] \in Pointer
            /\ parent[g.t] # t
        BY <1>1, <1>3, <1>5, <2>2 DEF Opens, Frame
      <3>2. g.pc \notin UnloadPc /\ g.pc # "boot"
        BY <2>2 DEF Opens
      <3>3. CASE g.pc \in {"client", "init"}
        BY <3>3, TxnAssumption DEF Target, Pointer
      <3>4. CASE g.pc = "callback"
        <4>1. Target(g) = parent[g.t] /\ n > 1
          BY <1>1, <3>4 DEF Target, BottomPc
        <4>2. n \in 2..n
          BY <1>1, <4>1
        <4>3. parent[g.t] # None => \E j \in 1..(n - 1) : stack[j].t = parent[g.t]
          BY <1>5, <4>2 DEF LineageOK
        <4> QED  BY <1>1, <3>1, <3>2, <4>1, <4>3 DEF PhaseOK
      <3>5. CASE g.pc \notin {"client", "init", "callback"}
        <4>1. Target(g) = g.t
          BY <3>5 DEF Target
        <4>2. state[g.t] \in Building /\ ~unloading[g.t]
          BY <3>1, <3>2, <3>5 DEF PhaseOK, Pc, BottomPc, ParsePc, CommitPc, WorkPc, Building
        <4> QED  BY <1>1, <1>5, <3>1, <4>1, <4>2 DEF Pointer
      <3> QED  BY <3>3, <3>4, <3>5
    <2> QED  BY <2>1, <2>2
  <1>8. ShapeOK'
    <2> SUFFICES ASSUME NEW i \in 1..(n + 1)
                 PROVE  /\ stack'[i].pc = "bootparse" => i = 2 /\ stack'[1].pc = "boot"
                        /\ stack'[i].pc \in {"check", "inst", "dtor"} => i = n + 1
                        /\ stack'[i].pc \in {"boot", "client"} => stack'[i].t = None
                        /\ stack'[i].t = None => stack'[i].prev = None
                        /\ stack'[i].pc = "revert" => ~errorOut'
                        /\ stack'[i].pc \in UnloadPc =>
                             \A j \in i..(n + 1) : stack'[j].pc \in UnloadPc
      BY <1>1 DEF ShapeOK
    <2>0. errorOut' = errorOut /\ n \in 1..n
      BY <1>1 DEF Opens
    <2>1. CASE i \in 1..(n - 1)
      <3>1. Same(stack'[i], stack[i]) /\ i \in 1..n /\ i # n
        BY <1>1, <1>4, <2>1
      <3>2. stack[i].pc \notin UnloadPc
        BY <1>1, <3>1 DEF Opens, ShapeOK
      <3>3. i = 2 => 1 \in 1..(n - 1)
        BY <1>1, <2>1
      <3> QED  BY <1>4, <2>0, <3>1, <3>2, <3>3 DEF Same, ShapeOK, Opens
    <2>2. CASE i = n
      <3>1. g.pc = "bootparse" => n = 2 /\ stack'[1].pc = "boot"
        <4> SUFFICES ASSUME g.pc = "bootparse"  PROVE n = 2 /\ stack'[1].pc = "boot"
          OBVIOUS
        <4>1. n = 2 /\ stack[1].pc = "boot"
          BY <1>1, <2>0 DEF Opens, ShapeOK
        <4> QED  BY <1>4, <4>1 DEF Same
      <3> QED  BY <1>5, <2>2, <3>1 DEF Opens, UnloadPc
    <2>3. CASE i = n + 1
      BY <1>1, <1>5, <2>3 DEF Opens, ParsePc, UnloadPc
    <2> QED  BY <1>1, <2>1, <2>2, <2>3
  <1>9. LineageOK'
    <2>1. ASSUME NEW i \in 1..(n + 1), NEW j \in 1..(n + 1),
                 stack'[i].t # None, stack'[i].t = stack'[j].t
          PROVE  i = j
      <3>1. (i \in 1..n \/ i = n + 1) /\ (j \in 1..n \/ j = n + 1)
        BY <1>1
      <3> QED  BY <1>3, <1>5, <1>6, <2>1, <3>1 DEF LineageOK
    <2>2. ASSUME NEW i \in 2..(n + 1), parent'[stack'[i].t] # None
          PROVE  \E j \in 1..(i - 1) : stack'[j].t = parent'[stack'[i].t]
      <3>1. CASE i = n + 1
        <4>1. parent'[stack'[i].t] = Target(g)
          BY <1>2, <1>5, <3>1
        <4>2. PICK j \in 1..n : stack[j].t = Target(g)
          BY <1>7, <2>2, <4>1
        <4>3. j \in 1..(i - 1)
          BY <1>1, <3>1
        <4> QED  BY <1>6, <4>1, <4>2, <4>3
      <3>2. CASE i # n + 1
        <4>1. i \in 2..n /\ i \in 1..n /\ stack[i].t # None
          BY <1>1, <3>2, TopFrame, TxnAssumption
        <4>2. parent'[stack'[i].t] = parent[stack[i].t]
          BY <1>2, <1>3, <1>6, <4>1
        <4>3. PICK j \in 1..(i - 1) : stack[j].t = parent[stack[i].t]
          BY <2>2, <4>1, <4>2 DEF LineageOK
        <4>4. j \in 1..n
          BY <1>1, <4>1
        <4> QED  BY <1>6, <4>2, <4>3, <4>4
      <3> QED  BY <3>1, <3>2
    <2>3. ASSUME NEW i \in 1..n
          PROVE  parent'[stack'[i + 1].t] = Target(stack[i])'
      <3>1. CASE i = n
        <4>1. parent'[stack'[i + 1].t] = Target(g)
          BY <1>2, <1>5, <3>1
        <4>2. g.pc = "callback" => g.t \in Txn /\ g.t # t
          BY <1>1, <1>3, <1>5, TxnAssumption DEF BottomPc
        <4> QED  BY <1>2, <1>5, <3>1, <4>1, <4>2 DEF Target
      <3>2. CASE i # n
        <4>1. i \in 1..(n - 1) /\ i + 1 \in 1..n /\ i + 1 \in 2..n /\ i \in 1..n
          BY <1>1, <3>2
        <4>2. parent[stack[i + 1].t] = Target(stack[i])
          BY <4>1 DEF LineageOK
        <4>3. parent'[stack'[i + 1].t] = parent[stack[i + 1].t]
          BY <1>2, <1>3, <1>6, <4>1, TopFrame, TxnAssumption
        <4>4. Same(stack'[i], stack[i])
          BY <1>4, <4>1
        <4>5. stack[i].pc = "callback" => stack[i].t \in Txn /\ stack[i].t # t
          BY <1>1, <1>3, <4>1, TopFrame, TxnAssumption DEF BottomPc
        <4> QED  BY <1>2, <4>2, <4>3, <4>4, <4>5 DEF Target, Same
      <3> QED  BY <3>1, <3>2
    <2>4. \A i \in 1..(n + 1 - 1) : i \in 1..n
      BY <1>1
    <2> QED  BY <1>1, <2>1, <2>2, <2>3, <2>4 DEF LineageOK
  <1>10. PhasesOK'
    <2>1. ASSUME NEW i \in 1..(n + 1), stack'[i].t # None
          PROVE  PhaseOK(stack[i])'
      <3>1. CASE i \in 1..(n - 1)
        <4>1. n - 1 \in 0..n /\ \A j \in 1..(n - 1) : j \in 1..n
          BY <1>1
        <4>2. \A j \in 1..(n - 1) : stack[j].t # None =>
                stack[j].t \in Txn /\ stack[j].t # t /\ parent[stack[j].t] # t
          BY <1>3, <4>1
        <4>3. Kept(n - 1)
          BY DEF Opens
        <4>4. \A u \in Txn : u # t =>
                /\ state'[u] = state[u] /\ parent'[u] = parent[u]
                /\ unloading'[u] = unloading[u]
          BY <1>2
        <4>5. PhasesOK /\ Depth - 1 \in 0..Depth
          BY <1>1
        <4>6. \A j \in 1..(Depth - 1) : stack'[j].t # None => PhaseOK(stack[j])'
          BY ONLY <4>2, <4>3, <4>4, <4>5, IInv, IInv', PhasesKept
        <4> QED  BY <2>1, <3>1, <4>6
      <3>2. CASE i = n
        <4>1. PhaseOK(g) /\ g.t \in Txn /\ g.t # t /\ parent[g.t] # t /\ parent[g.t] \in Pointer
          BY <1>1, <1>3, <1>5, <2>1, <3>2 DEF Opens
        <4> QED  BY <1>2, <1>5, <3>2, <4>1 DEF PhaseOK, Home, Pointer
      <3>3. CASE i = n + 1
        <4>1. /\ stack'[i].pc \in ParsePc /\ stack'[i].t = t /\ stack'[i].prev = None
              /\ state'[t] = "kCollecting" /\ parent'[t] = Target(g) /\ ~unloading'[t]
          BY <1>2, <1>5, <3>3 DEF Opens, PhasesOK
        <4>2. parent'[t] # None =>
                state'[parent'[t]] \in Building /\ ~unloading'[parent'[t]]
          BY <1>2, <1>7, <4>1 DEF Pointer
        <4>3. stack'[i].pc = "bootparse" => parent'[t] = None
          <5>1. g.pc = "boot" => Target(g) = None
            BY DEF Opens, Target
          <5> QED  BY <1>5, <3>3, <4>1, <5>1 DEF Opens
        <4> HIDE DEF StateInv, n
        <4> QED  BY <4>1, <4>2, <4>3 DEF PhaseOK, ParsePc, WorkPc, DonePc, UnloadPc
      <3> QED  BY <1>1, <3>1, <3>2, <3>3
    <2>2. ASSUME NEW u \in Txn, state'[u] \in Building
          PROVE  \E i \in 1..(n + 1) : stack'[i].t = u
      <3>1. CASE u = t
        BY <1>1, <1>5, <3>1
      <3>2. CASE u # t
        <4>1. PICK i \in 1..n : stack[i].t = u
          BY <1>2, <2>2, <3>2 DEF PhasesOK
        <4>2. i \in 1..(n + 1)
          BY <1>1
        <4> QED  BY <1>6, <4>1, <4>2
      <3> QED  BY <3>1, <3>2
    <2>3. \A u \in Txn : ~Live(u)' => ~unloading'[u]
      BY <1>2 DEF Live, PhasesOK
    <2> QED  BY <1>1, <2>1, <2>2, <2>3 DEF PhasesOK
  <1>11. CurrentOK'
    <2>1. consumer' = t /\ Live(t)'
      BY <1>2 DEF Live, Opens
    <2>2. Top'.pc \in ParsePc /\ Top'.t = t
      BY <1>1 DEF Opens
    <2>3. Expected(Top)'
      BY <2>1, <2>2, TxnAssumption DEF Expected, Target, ParsePc
    <2>4. \A i \in 2..(n + 1) : stack'[i].pc \notin UnloadPc
      BY <1>1, <1>5, <1>8, <2>2 DEF ShapeOK, ParsePc, UnloadPc
    <2> QED  BY <1>1, <2>1, <2>2, <2>3, <2>4 DEF CurrentOK, At, ParsePc
  <1> QED  BY <1>8, <1>9, <1>10, <1>11

(* A transaction that is not live is nobody's parent, and in no list. *)
LEMMA FreeFacts ==
  ASSUME IInv, NEW t \in Txn, ~Live(t)
  PROVE  /\ \A u \in Txn : parent[u] # t
         /\ parent[t] = None
         /\ ChainOK => t \notin Range(transactions) /\ next[t] = None
  <1>1. \A u \in Txn : parent[u] # None => Live(u) /\ Live(parent[u])
    BY DEF IInv, TransactionInv, TransactionTypeOK, TreeOK, NestingOK, Pointer
  <1>2. (\A u \in Txn : parent[u] # t) /\ parent[t] = None
    BY <1>1, TxnAssumption
  <1>3. ChainOK => t \notin Range(transactions)
    BY DEF ChainOK, Range, Live
  <1>4. ChainOK => next[t] = None
    BY <1>3 DEF ChainOK
  <1> QED  BY <1>2, <1>3, <1>4

(* The list stays what it is as long as its transactions stay where they are *)
(* and come no nearer to their beginning.                                    *)
LEMMA ChainKept ==
  ASSUME IInv, ChainOK, UNCHANGED listVars,
         \A u \in Range(transactions) :
           parent'[u] = None /\ state'[u] \in {"kCompleted", "kCommitted", "kRolledBack"}
  PROVE  ChainOK'
  <1>1. \A i \in DOMAIN transactions : transactions[i] \in Range(transactions)
    BY DEF Range
  <1> QED  BY <1>1 DEF ChainOK, listVars

LEMMA OpenKeepsFront ==
  ASSUME IInv, IInv', StateInv, Rooted(parent), FrontOK,
         NEW t \in Txn, NEW g, NEW h, Opens(g, h, t)
  PROVE  Rooted(parent)' /\ FrontOK'
  <1> DEFINE n == Depth
             root(u) == RootOf(parent, u)
             root1(u) == RootOf(parent', u)
  <1>1. /\ n \in Nat /\ n >= 1 /\ Depth' = n + 1 /\ Top = stack[n]
        /\ g \in Frame
        /\ n > 1 => g.t \in Txn /\ g.pc \notin BottomPc
        /\ n = 1 => g.pc \in BottomPc
    <2>1. Depth' = n + 1
      BY DEF Opens, Depth
    <2>2. WellFormed(stack')
      BY DEF IInv, StackOK
    <2>3. /\ g \in Frame
          /\ n > 1 => g.t \in Txn /\ g.pc \notin BottomPc
          /\ n = 1 => g.pc \in BottomPc
      BY <2>1, <2>2, TopFrame, DepthFacts DEF Opens, Depth
    <2> QED  BY <2>1, <2>3, TopFrame
  <1>2. \A i \in 1..n : stack[i].t # None =>
          /\ stack[i].t \in Txn /\ stack[i].t # t /\ Live(stack[i].t)
    BY FramesLive, TxnAssumption DEF Opens, StateInv
  <1>3. /\ \A i \in 1..(n - 1) : Same(stack'[i], stack[i])
        /\ stack'[n] = g /\ stack'[n + 1] = h /\ g.t = stack[n].t /\ h.t = t
    BY <1>1 DEF Opens, Kept
  <1>4. \A i \in 1..n : stack'[i].t = stack[i].t
    BY <1>1, <1>3 DEF Same
  <1>5. \A u \in Txn : parent[u] # t
    BY FreeFacts DEF Opens
  <1>6. /\ Target(g) \in Pointer /\ Target(g) # t
        /\ Aside(g) <=> Target(g) = None
        /\ Target(g) # None => Target(g) \in Txn /\ root(Target(g)) = root(g.t)
    <2>1. CASE g.t = None
      <3>1. n = 1
        BY <1>1, <2>1, TxnAssumption
      <3>2. g.pc \notin DonePc
        BY <1>1, <3>1 DEF DonePc, BottomPc
      <3> QED  BY <2>1, <3>2, TxnAssumption DEF Target, Aside, Pointer, DonePc
    <2>2. CASE g.t # None
      <3>1. g.t \in Txn /\ g.t # t
        BY <1>1, <1>2, <1>3, <2>2
      <3>2. parent[g.t] \in Pointer /\ parent[g.t] # t
        BY <1>5, <3>1 DEF IInv, TransactionInv, TransactionTypeOK
      <3>3. g.pc # "client"
        BY <2>2 DEF Opens
      <3>4. root(g.t) = IF parent[g.t] = None THEN g.t ELSE root(parent[g.t])
        BY <3>1, RootStep
      <3> HIDE DEF root
      <3> QED  BY <2>2, <3>1, <3>2, <3>3, <3>4, TxnAssumption DEF Target, Aside, Pointer
    <2> QED  BY <2>1, <2>2
  <1>7. Rooted(parent') /\ \A u \in Txn : u # t => root1(u) = root(u)
    <2>1. /\ parent' \in [Txn -> Pointer] /\ parent'[t] # t
          /\ \A u \in Txn : u # t => parent'[u] = parent[u]
      BY <1>6 DEF Opens, IInv, TransactionInv, TransactionTypeOK
    <2> QED  BY ONLY Rooted(parent), t \in Txn, <1>5, <2>1, RootsKept
  <1>8. root1(t) = IF Target(g) = None THEN t ELSE root(g.t)
    <2>1. parent'[t] = Target(g)
      BY DEF Opens, IInv, TransactionInv, TransactionTypeOK
    <2>2. root1(t) = IF parent'[t] = None THEN t ELSE root1(parent'[t])
      BY <1>7, RootStep
    <2> HIDE DEF root, root1
    <2> QED  BY <1>6, <1>7, <2>1, <2>2
  <1>9. \A u \in Txn : u # t => state'[u] = state[u] /\ parent'[u] = parent[u]
    BY DEF Opens, IInv, TransactionInv, TransactionTypeOK
  <1>10. t \notin Range(transactions) /\ next[t] = None
    BY FreeFacts DEF Opens, FrontOK
  <1>11. next' = next /\ transactions' = transactions
    BY DEF Opens, listVars
  <1>12. ChainOK'
    <2>1. \A u \in Range(transactions) : u \in Txn /\ u # t /\ parent[u] = None
            /\ state[u] \in {"kCompleted", "kCommitted", "kRolledBack"}
      BY <1>10, ElementOfSeq, LenProperties
         DEF FrontOK, ChainOK, Range, IInv, TransactionInv, TransactionTypeOK
    <2> QED  BY <1>9, <2>1, ChainKept DEF Opens, FrontOK
  <1>13. \A i \in 1..n : stack[i].t # None =>
           /\ root1(stack[i].t) = root(stack[i].t)
           /\ parent'[stack[i].t] = parent[stack[i].t]
    BY <1>2, <1>7, <1>9
  <1>14. \A i \in 1..n : Aside(stack[i])' <=> Aside(stack[i])
    <2> SUFFICES ASSUME NEW i \in 1..n  PROVE Aside(stack[i])' <=> Aside(stack[i])
      OBVIOUS
    <2>1. CASE i = n
      BY <1>1, <1>3, <1>13, <2>1 DEF Aside, Opens
    <2>2. CASE i # n
      <3>1. Same(stack'[i], stack[i])
        BY <1>1, <1>3, <2>2
      <3> QED  BY <1>13, <3>1 DEF Aside, Same
    <2> QED  BY <2>1, <2>2
  <1> HIDE DEF root, root1
  <1>15. ASSUME NEW i \in 1..(n + 1), ~Aside(stack[i])'
         PROVE  /\ next[root1(stack'[i].t)] = None
                /\ parent'[stack'[i].t] = None /\ stack'[i].pc \notin ParsePc =>
                     stack'[i].t = GetLastTransaction
    <2>1. CASE i \in 1..n
      <3>1. ~Aside(stack[i]) /\ stack[i].t # None
        BY <1>14, <1>15, <2>1 DEF Aside
      <3>2. stack'[i].pc \notin ParsePc => stack[i].pc \notin ParsePc
        <4>1. CASE i = n
          BY <1>1, <1>3, <4>1 DEF Opens
        <4>2. CASE i # n
          BY <1>1, <1>3, <2>1, <4>2 DEF Same
        <4> QED  BY <4>1, <4>2
      <3>3. /\ next[root(stack[i].t)] = None
            /\ parent[stack[i].t] = None /\ stack[i].pc \notin ParsePc =>
                 stack[i].t = GetLastTransaction
        BY <2>1, <3>1 DEF FrontOK, root
      <3> QED  BY <1>4, <1>13, <2>1, <3>1, <3>2, <3>3
    <2>2. CASE i = n + 1
      <3>1. stack'[i].t = t /\ stack'[i].pc \in ParsePc
        BY <1>3, <2>2 DEF Opens
      <3>2. CASE Target(g) = None
        BY <1>8, <1>10, <3>1, <3>2
      <3>3. CASE Target(g) # None
        <4>1. ~Aside(Top) /\ n \in 1..n
          BY <1>1, <1>6, <3>3 DEF Opens
        <4>2. next[root(g.t)] = None
          BY <1>1, <1>3, <4>1 DEF FrontOK, root
        <4> QED  BY <1>8, <3>1, <3>3, <4>2
      <3> QED  BY <3>2, <3>3
    <2> QED  BY <1>1, <2>1, <2>2
  <1>16. ASSUME NEW i \in 1..(n + 1), NEW j \in 1..(n + 1), i < j, ~Aside(stack[i])'
         PROVE  parent'[stack'[j].t] # None /\ root1(stack'[i].t) = root1(stack'[j].t)
    <2>1. i \in 1..n /\ ~Aside(stack[i]) /\ stack[i].t # None
      <3>1. i \in 1..n
        BY <1>1, <1>16
      <3> QED  BY <1>14, <1>16, <3>1 DEF Aside
    <2>2. root1(stack'[i].t) = root(stack[i].t)
      BY <1>4, <1>13, <2>1
    <2>3. CASE j \in 1..n
      <3>1. parent[stack[j].t] # None /\ root(stack[i].t) = root(stack[j].t)
        BY <1>16, <2>1, <2>3 DEF FrontOK, root
      <3>2. stack[j].t # None
        <4>1. j \in 2..n
          BY <1>1, <1>16, <2>1, <2>3
        <4> QED  BY <4>1, TopFrame, TxnAssumption
      <3> QED  BY <1>4, <1>13, <2>2, <2>3, <3>1, <3>2
    <2>4. CASE j = n + 1
      <3>1. Target(g) # None /\ root(stack[i].t) = root(g.t)
        <4>1. CASE i = n
          <5>1. ~Aside(g)
            BY <1>1, <2>1, <4>1 DEF Opens
          <5> QED  BY <1>3, <1>6, <4>1, <5>1
        <4>2. CASE i # n
          <5>1. i < n /\ n \in 1..n /\ n > 1
            BY <1>1, <2>1, <4>2
          <5>2. parent[g.t] # None /\ root(stack[i].t) = root(g.t)
            BY <1>3, <2>1, <5>1 DEF FrontOK, root
          <5>3. PhaseOK(g) /\ g.t # None /\ g.pc \notin BottomPc
            BY <1>1, <5>1, TxnAssumption DEF Opens
          <5>4. ~Aside(g)
            BY <5>2, <5>3 DEF PhaseOK, Aside
          <5> QED  BY <1>6, <5>2, <5>4
        <4> QED  BY <4>1, <4>2
      <3>2. stack'[j].t = t /\ parent'[t] = Target(g)
        BY <1>3, <2>4 DEF Opens, IInv, TransactionInv, TransactionTypeOK
      <3> QED  BY <1>8, <2>2, <3>1, <3>2
    <2> QED  BY <1>1, <2>3, <2>4
  <1>17. ASSUME NEW i \in 2..(n + 1)
         PROVE  \E j \in 1..i : stack'[j].t = root1(stack'[i].t)
    <2>1. CASE i \in 2..n
      <3>1. PICK j \in 1..i : stack[j].t = root(stack[i].t)
        BY <2>1 DEF FrontOK, root
      <3>2. i \in 1..n /\ j \in 1..n /\ stack[i].t # None
        BY <1>1, <2>1, TopFrame, TxnAssumption
      <3> QED  BY <1>4, <1>13, <3>1, <3>2
    <2>2. CASE i = n + 1
      <3>1. stack'[i].t = t
        BY <1>3, <2>2
      <3>2. CASE Target(g) = None
        BY <1>1, <1>8, <2>2, <3>1, <3>2
      <3>3. CASE Target(g) # None
        <4>1. g.t # None /\ g.t \in Txn
          BY <1>1, <1>2, <1>3, <1>6, <3>3 DEF Aside
        <4>2. PICK j \in 1..n : stack[j].t = root(g.t)
          <5>1. CASE n = 1
            <6>1. g.pc = "booted"
              BY <1>1, <4>1, <5>1 DEF Opens, BottomPc
            <6>2. parent[g.t] = None
              BY <4>1, <6>1 DEF Opens, PhaseOK
            <6>3. root(g.t) = g.t
              BY <4>1, <6>2, RootStep DEF root
            <6> QED  BY <1>1, <1>3, <6>3
          <5>2. CASE n # 1
            <6>1. n \in 2..n
              BY <1>1, <5>2
            <6> QED  BY <1>3, <6>1 DEF FrontOK, root
          <5> QED  BY <5>1, <5>2
        <4>3. j \in 1..i
          BY <1>1, <2>2
        <4> QED  BY <1>4, <1>8, <3>1, <3>3, <4>2, <4>3
      <3> QED  BY <3>2, <3>3
    <2> QED  BY <1>1, <2>1, <2>2
  <1>18. GetLastTransaction' = GetLastTransaction
    BY <1>11 DEF GetLastTransaction
  <1>19. FrontOK'
    BY <1>1, <1>11, <1>12, <1>15, <1>16, <1>17, <1>18 DEF FrontOK, root1
  <1> QED  BY <1>7, <1>19

(***************************************************************************)
(* Nothing happens but events of the function at the top.                  *)
(***************************************************************************)

Stays ==
  /\ Len(stack') = Depth /\ Kept(Depth)
  /\ UNCHANGED <<state, parent, unloading, consumer, listVars, errorOut>>

LEMMA StayKeeps ==
  ASSUME IInv, StateInv, Rooted(parent), FrontOK, Stays
  PROVE  StateInv' /\ Rooted(parent)' /\ FrontOK'
  <1> DEFINE n == Depth
  <1>1. /\ n \in Nat /\ n >= 1 /\ Depth' = n /\ Top = stack[n] /\ Top' = stack'[n]
        /\ Same(Top', Top)
    BY TopFrame DEF Stays, Depth, Top, Last, Kept
  <1>2. \A i \in 1..n : Same(stack'[i], stack[i])
    BY DEF Stays, Kept
  <1>3. /\ state' = state /\ parent' = parent /\ unloading' = unloading
        /\ consumer' = consumer /\ next' = next /\ transactions' = transactions
        /\ errorOut' = errorOut
    BY DEF Stays, listVars
  <1>4. \A i \in 1..n : Target(stack[i])' = Target(stack[i]) /\ Aside(stack[i])' = Aside(stack[i])
    BY <1>2, <1>3 DEF Target, Aside, Same
  <1>5. ShapeOK'
    <2>1. 1 \in 1..n /\ \A i \in 1..n : i..n \subseteq 1..n
      BY <1>1
    <2> QED  BY <1>1, <1>2, <1>3, <2>1 DEF StateInv, ShapeOK, Same
  <1>6. LineageOK'
    <2>1. \A i \in 1..n : stack'[i].t = stack[i].t
      BY <1>2 DEF Same
    <2>2. /\ \A i \in 1..(n - 1) : i \in 1..n /\ i + 1 \in 1..n
          /\ \A i \in 2..n : i \in 1..n /\ 1..(i - 1) \subseteq 1..n
      BY <1>1
    <2>3. \A i \in 1..(n - 1) : parent'[stack'[i + 1].t] = Target(stack[i])'
      BY <1>3, <1>4, <2>1, <2>2 DEF StateInv, LineageOK
    <2>4. \A i \in 2..n : parent'[stack'[i].t] # None =>
            \E j \in 1..(i - 1) : stack'[j].t = parent'[stack'[i].t]
      <3> SUFFICES ASSUME NEW i \in 2..n, parent'[stack'[i].t] # None
                   PROVE  \E j \in 1..(i - 1) : stack'[j].t = parent'[stack'[i].t]
        OBVIOUS
      <3>1. PICK j \in 1..(i - 1) : stack[j].t = parent[stack[i].t]
        BY <1>3, <2>1, <2>2 DEF StateInv, LineageOK
      <3> QED  BY <1>3, <2>1, <2>2, <3>1
    <2> QED  BY <1>1, <2>1, <2>3, <2>4 DEF StateInv, LineageOK
  <1>7. PhasesOK'
    <2>1. \A i \in 1..n : stack'[i].t # None => PhaseOK(stack[i])'
      BY <1>2, <1>3 DEF StateInv, PhasesOK, PhaseOK, Same, Home
    <2>2. \A i \in 1..n : stack'[i].t = stack[i].t
      BY <1>2 DEF Same
    <2>3. \A u \in Txn : Live(u)' = Live(u)
      BY <1>3 DEF Live
    <2> QED  BY <1>1, <1>3, <2>1, <2>2, <2>3 DEF StateInv, PhasesOK
  <1>8. CurrentOK'
    <2>1. Settled(consumer)' = Settled(consumer) /\ Live(consumer)' = Live(consumer)
      BY <1>3 DEF Settled, Live
    <2>2. \A i \in 1..n : Expected(stack[i])' = Expected(stack[i])
      BY <1>3, <1>4, <2>1 DEF Expected
    <2>3. Expected(Top)' = Expected(Top)
      BY <1>1, <1>3, <2>1 DEF Expected, Target, Same
    <2>4. \A i \in 2..n : i \in 1..n /\ i - 1 \in 1..n
      BY <1>1
    <2>5. \A i \in 2..n : stack'[i].pc \in UnloadPc /\ stack'[i - 1].pc \notin UnloadPc =>
            \/ consumer' = stack'[i].t /\ parent'[stack'[i].t] = None
            \/ Expected(stack[i - 1])'
      BY <1>2, <1>3, <2>2, <2>4 DEF StateInv, CurrentOK, Same
    <2>6. Home(Top.t)' = Home(Top.t) /\ At("inst")' = At("inst")
      BY <1>1, <1>3 DEF Home, At, Same
    <2> QED  BY <1>1, <1>3, <2>1, <2>3, <2>5, <2>6 DEF StateInv, CurrentOK, Same
  <1>9. FrontOK'
    <2>1. ChainOK'
      BY <1>3 DEF FrontOK, ChainOK
    <2>2. GetLastTransaction' = GetLastTransaction
      BY <1>3 DEF GetLastTransaction
    <2>3. \A i \in 2..n : \E j \in 1..i : stack'[j].t = RootOf(parent', stack'[i].t)
      <3> SUFFICES ASSUME NEW i \in 2..n
                   PROVE  \E j \in 1..i : stack'[j].t = RootOf(parent', stack'[i].t)
        OBVIOUS
      <3>1. PICK j \in 1..i : stack[j].t = RootOf(parent, stack[i].t)
        BY DEF FrontOK
      <3>2. i \in 1..n /\ j \in 1..n
        BY <1>1
      <3> QED  BY <1>2, <1>3, <3>1, <3>2 DEF Same
    <2> QED  BY <1>1, <1>2, <1>3, <1>4, <2>1, <2>2, <2>3 DEF FrontOK, Same
  <1> QED  BY <1>3, <1>5, <1>6, <1>7, <1>8, <1>9 DEF StateInv

(***************************************************************************)
(* The function at the top goes on with the same transaction.              *)
(***************************************************************************)

Moves ==
  /\ Depth > 1 /\ Len(stack') = Depth /\ Kept(Depth - 1)
  /\ Top'.t = Top.t
  /\ Top'.pc \notin ParsePc
  /\ Top.pc \in UnloadPc => Top'.pc \in UnloadPc /\ UNCHANGED <<state, consumer>>
  /\ Top'.pc = "revert" => ~errorOut
  /\ PhaseOK(Top)'
  /\ \A u \in Txn : u # Top.t => state'[u] = state[u] /\ unloading'[u] = unloading[u]
  /\ UNCHANGED <<parent, errorOut>>
  /\ consumer' \in {consumer, Home(Top.t)}
  /\ Top'.pc = "inst" => consumer' = Home(Top.t)
  /\ Top'.pc \notin UnloadPc \cup {"inst"} => Expected(Top)'
  /\ Top'.pc \in UnloadPc /\ stack[Depth - 1].pc \notin UnloadPc =>
       IF parent[Top.t] = None THEN consumer' = Top.t \/ Settled(consumer)'
       ELSE consumer' = parent[Top.t]

LEMMA MoveFacts ==
  ASSUME IInv, IInv', Moves
  PROVE  /\ Depth \in Nat /\ Depth > 1 /\ Depth' = Depth
         /\ Top = stack[Depth] /\ Top' = stack'[Depth] /\ Top.t \in Txn
         /\ Top'.pc \in CommitPc \cup UnloadPc
         /\ state'[Top.t] \in Final \cup {"kCompleted"}
         /\ \A i \in 1..Depth : stack'[i].t = stack[i].t
         /\ \A i \in 1..(Depth - 1) : Same(stack'[i], stack[i])
  <1> DEFINE n == Depth
  <1>1. n \in Nat /\ n > 1 /\ Top = stack[n] /\ Top.t \in Txn
    BY TopFrame DEF Moves
  <1>2. n' = n
    BY DEF Moves, Depth
  <1>3. WellFormed(stack')
    BY DEF IInv, StackOK
  <1>4. Top' = stack'[n] /\ stack'[n] \in Frame /\ stack'[n].pc \notin BottomPc
    BY <1>1, <1>2, <1>3, DepthFacts DEF Top, Depth
  <1>5. \A i \in 1..(n - 1) : Same(stack'[i], stack[i])
    BY DEF Moves, Kept
  <1>6. \A i \in 1..n : i \in 1..(n - 1) \/ i = n
    BY <1>1
  <1>7. Top'.pc \in CommitPc \cup UnloadPc
    BY <1>4 DEF Moves, Frame, Pc
  <1>8. state'[Top.t] \in Final \cup {"kCompleted"}
    BY <1>7 DEF Moves, PhaseOK, CommitPc, WorkPc, DonePc, Final
  <1>9. \A i \in 1..n : stack'[i].t = stack[i].t
    BY <1>1, <1>4, <1>5, <1>6 DEF Moves, Same
  <1> QED  BY <1>1, <1>2, <1>4, <1>5, <1>7, <1>8, <1>9

LEMMA MoveKeepsState ==
  ASSUME IInv, IInv', StateInv, Moves
  PROVE  StateInv'
  <1> USE DEF StateInv
  <1> DEFINE n == Depth
  <1>1. /\ n \in Nat /\ n > 1 /\ Depth' = n
        /\ Top = stack[n] /\ Top' = stack'[n] /\ Top.t \in Txn
        /\ Top'.pc \in CommitPc \cup UnloadPc
        /\ state'[Top.t] \in Final \cup {"kCompleted"}
    BY MoveFacts
  <1>2. \A i \in 1..n : stack'[i].t = stack[i].t
    BY MoveFacts
  <1>3. \A i \in 1..(n - 1) : Same(stack'[i], stack[i])
    BY MoveFacts
  <1>4. \A i \in 1..n : i = n \/ i \in 1..(n - 1)
    BY <1>1
  <1>5. parent' = parent /\ errorOut' = errorOut
    BY DEF Moves
  <1>6. \A i \in 1..(n - 1) : Target(stack[i])' = Target(stack[i])
    BY <1>3, <1>5 DEF Target, Same
  <1>7. ShapeOK'
    <2> SUFFICES ASSUME NEW i \in 1..n
                 PROVE  /\ stack'[i].pc = "bootparse" => i = 2 /\ stack'[1].pc = "boot"
                        /\ stack'[i].pc \in {"check", "inst", "dtor"} => i = n
                        /\ stack'[i].pc \in {"boot", "client"} => stack'[i].t = None
                        /\ stack'[i].t = None => stack'[i].prev = None
                        /\ stack'[i].pc = "revert" => ~errorOut
                        /\ stack'[i].pc \in UnloadPc => \A j \in i..n : stack'[j].pc \in UnloadPc
      BY <1>1, <1>5 DEF ShapeOK
    <2>1. CASE i \in 1..(n - 1)
      <3>1. Same(stack'[i], stack[i]) /\ i \in 1..n /\ i # n /\ 1 \in 1..(n - 1)
        BY <1>1, <1>3, <2>1
      <3>2. Same(stack'[1], stack[1])
        BY <1>3, <3>1
      <3>3. ASSUME stack'[i].pc \in UnloadPc, NEW j \in i..n
            PROVE  stack'[j].pc \in UnloadPc
        <4>1. stack[i].pc \in UnloadPc /\ j \in 1..n /\ n \in i..n
          BY <1>1, <3>1, <3>3 DEF Same
        <4>2. stack[j].pc \in UnloadPc /\ Top.pc \in UnloadPc
          BY <1>1, <3>1, <3>3, <4>1 DEF ShapeOK
        <4> QED  BY <1>1, <1>3, <1>4, <4>1, <4>2 DEF Moves, Same
      <3> QED  BY <3>1, <3>2, <3>3 DEF Same, ShapeOK
    <2>2. CASE i = n
      BY <1>1, <2>2, TxnAssumption DEF Moves, CommitPc, UnloadPc
    <2> QED  BY <1>4, <2>1, <2>2
  <1>8. LineageOK'
    <2>1. \A i, j \in 1..n : stack'[i].t # None /\ stack'[i].t = stack'[j].t => i = j
      BY <1>2 DEF LineageOK
    <2>2. /\ \A i \in 1..(n - 1) : i \in 1..n /\ i + 1 \in 1..n
          /\ \A i \in 2..n : i \in 1..n /\ 1..(i - 1) \subseteq 1..n
      BY <1>1
    <2>3. \A i \in 1..(n - 1) : parent'[stack'[i + 1].t] = Target(stack[i])'
      BY <1>2, <1>5, <1>6, <2>2 DEF LineageOK
    <2>4. ASSUME NEW i \in 2..n, parent'[stack'[i].t] # None
          PROVE  \E j \in 1..(i - 1) : stack'[j].t = parent'[stack'[i].t]
      <3>1. PICK j \in 1..(i - 1) : stack[j].t = parent[stack[i].t]
        BY <1>2, <1>5, <2>2, <2>4 DEF LineageOK
      <3> QED  BY <1>2, <1>5, <2>2, <3>1
    <2> QED  BY <1>1, <2>1, <2>3, <2>4 DEF LineageOK
  <1>9. PhasesOK'
    <2>1. ASSUME NEW i \in 1..n, stack'[i].t # None
          PROVE  PhaseOK(stack[i])'
      <3>1. CASE i \in 1..(n - 1)
        <4>1. Depth - 1 \in 0..Depth /\ Kept(Depth - 1)
          BY <1>1 DEF Moves
        <4>2. \A j \in 1..(Depth - 1) : stack[j].t # None =>
                stack[j].t \in Txn /\ stack[j].t # Top.t /\ parent[stack[j].t] # Top.t
          BY <1>1, LowerFrames
        <4>3. \A u \in Txn : u # Top.t =>
                /\ state'[u] = state[u] /\ parent'[u] = parent[u]
                /\ unloading'[u] = unloading[u]
          BY DEF Moves
        <4>4. PhasesOK /\ Top.t \in Txn
          BY <1>1
        <4>5. \A j \in 1..(Depth - 1) : stack'[j].t # None => PhaseOK(stack[j])'
          BY ONLY <4>1, <4>2, <4>3, <4>4, IInv, IInv', PhasesKept
        <4> QED  BY <2>1, <3>1, <4>5
      <3>2. CASE i = n
        BY <1>1, <3>2 DEF Moves, PhaseOK
      <3> QED  BY <1>4, <3>1, <3>2
    <2>2. ASSUME NEW u \in Txn, state'[u] \in Building
          PROVE  \E i \in 1..n : stack'[i].t = u
      <3>1. CASE u = Top.t
        BY <1>1, <1>2, <3>1
      <3>2. CASE u # Top.t
        <4>1. PICK i \in 1..n : stack[i].t = u
          BY <2>2, <3>2 DEF Moves, PhasesOK
        <4> QED  BY <1>2, <4>1
      <3> QED  BY <3>1, <3>2
    <2>3. \A u \in Txn : ~Live(u)' => ~unloading'[u]
      BY <1>1 DEF Live, PhasesOK, Moves, Final
    <2> QED  BY <1>1, <2>1, <2>2, <2>3 DEF PhasesOK
  <1>10. CurrentOK'
    <2>1. consumer' # None => Live(consumer)'
      <3>1. Top.t # None /\ n \in 1..n
        BY <1>1, TxnAssumption
      <3>2. Home(Top.t) \in Txn /\ Live(Home(Top.t))
        BY <1>1, <3>1, FramesLive DEF Home, Pointer
      <3>3. consumer \in Pointer
        BY DEF IInv, TransactionInv, TransactionTypeOK
      <3> QED  BY <1>1, <3>2, <3>3 DEF Moves, CurrentOK, Live, Final, Pointer
    <2>2. At("inst")' => consumer' = Home(Top.t)'
      BY <1>1, <1>5 DEF Moves, At, Home
    <2>3. Top'.pc \notin UnloadPc \cup {"inst"} => Expected(Top)'
      BY DEF Moves
    <2>4. ASSUME NEW i \in 2..n, stack'[i].pc \in UnloadPc, stack'[i - 1].pc \notin UnloadPc
          PROVE  \/ consumer' = stack'[i].t /\ parent'[stack'[i].t] = None
                 \/ Expected(stack[i - 1])'
      <3>1. i - 1 \in 1..(n - 1) /\ i \in 1..n
        BY <1>1
      <3>2. Same(stack'[i - 1], stack[i - 1])
        BY <1>3, <3>1
      <3>3. CASE i = n
        <4>1. Target(stack[i - 1])' = parent[Top.t]
          <5>1. parent[stack[i].t] = Target(stack[i - 1]) /\ stack[i].t = Top.t
            BY <1>1, <3>1, <3>3 DEF LineageOK
          <5> QED  BY <1>6, <3>1, <5>1
        <4> QED  BY <1>1, <1>5, <2>4, <3>2, <3>3, <4>1 DEF Moves, Same, Expected
      <3>4. CASE i # n
        <4>1. Same(stack'[i], stack[i]) /\ n \in i..n
          BY <1>1, <1>3, <1>4, <3>1, <3>4
        <4>2. Top.pc \in UnloadPc
          BY <1>1, <2>4, <3>1, <4>1 DEF Same, ShapeOK
        <4>3. state' = state /\ consumer' = consumer
          BY <4>2 DEF Moves
        <4>4. \/ consumer = stack[i].t /\ parent[stack[i].t] = None
              \/ Expected(stack[i - 1])
          BY <2>4, <3>2, <4>1 DEF Same, CurrentOK
        <4> QED  BY <1>5, <3>2, <4>1, <4>3, <4>4 DEF Same, Expected, Target, Settled
      <3> QED  BY <3>3, <3>4
    <2> QED  BY <1>1, <2>1, <2>2, <2>3, <2>4 DEF CurrentOK
  <1> QED  BY <1>7, <1>8, <1>9, <1>10

(* What the transactions of the list are. *)
LEMMA ListFacts ==
  ASSUME IInv, ChainOK
  PROVE  /\ transactions \in Seq(Txn) /\ Len(transactions) \in Nat
         /\ DOMAIN transactions = 1..Len(transactions)
         /\ \A u \in Range(transactions) :
              /\ u \in Txn /\ parent[u] = None
              /\ state[u] \in {"kCompleted", "kCommitted", "kRolledBack"}
         /\ GetLastTransaction # None =>
              GetLastTransaction \in Range(transactions) /\ next[GetLastTransaction] = None
  <1>1. transactions \in Seq(Txn)
    BY DEF IInv, TransactionInv, TransactionTypeOK
  <1>2. PICK n \in Nat : n = Len(transactions)
    BY <1>1, LenProperties
  <1>3. DOMAIN transactions = 1..n /\ (transactions # <<>> => n # 0)
    BY <1>1, <1>2, LenProperties, EmptySeq
  <1>4. \A u \in Range(transactions) :
          /\ u \in Txn /\ parent[u] = None
          /\ state[u] \in {"kCompleted", "kCommitted", "kRolledBack"}
    BY <1>1, <1>2, <1>3, ElementOfSeq DEF ChainOK, Range
  <1>5. ASSUME GetLastTransaction # None
        PROVE  GetLastTransaction \in Range(transactions) /\ next[GetLastTransaction] = None
    <2>1. transactions # <<>> /\ GetLastTransaction = transactions[n] /\ n \in 1..n
      BY <1>2, <1>3, <1>5 DEF GetLastTransaction, Last
    <2> QED  BY <1>2, <1>3, <2>1 DEF ChainOK, Range
  <1> QED  BY <1>1, <1>2, <1>3, <1>4, <1>5

LEMMA MoveKeepsFront ==
  ASSUME IInv, IInv', StateInv, Rooted(parent), FrontOK, Moves, UNCHANGED listVars,
         Aside(Top) => Aside(Top)',
         Top.pc \in ParsePc => parent[Top.t] # None
  PROVE  Rooted(parent)' /\ FrontOK'
  <1> DEFINE n == Depth
  <1>1. /\ n \in Nat /\ n > 1 /\ Depth' = n
        /\ Top = stack[n] /\ Top' = stack'[n] /\ Top.t \in Txn
        /\ state'[Top.t] \in Final \cup {"kCompleted"}
    BY MoveFacts
  <1>2. \A i \in 1..n : stack'[i].t = stack[i].t
    BY MoveFacts
  <1>3. \A i \in 1..(n - 1) : Same(stack'[i], stack[i])
    BY MoveFacts
  <1>4. \A i \in 1..n : i = n \/ i \in 1..(n - 1)
    BY <1>1
  <1>5. /\ parent' = parent /\ next' = next /\ transactions' = transactions
        /\ GetLastTransaction' = GetLastTransaction
    BY DEF Moves, listVars, GetLastTransaction
  <1>6. \A i \in 1..n : Aside(stack[i]) => Aside(stack[i])'
    BY <1>1, <1>3, <1>4, <1>5 DEF Aside, Same
  <1>7. ChainOK'
    <2>1. \A u \in Range(transactions) :
            parent'[u] = None /\ state'[u] \in {"kCompleted", "kCommitted", "kRolledBack"}
      BY <1>1, <1>5, ListFacts DEF FrontOK, Moves, Final
    <2> QED  BY <2>1, ChainKept DEF FrontOK
  <1>8. ASSUME NEW i \in 1..n, ~Aside(stack[i])'
        PROVE  /\ next'[RootOf(parent', stack'[i].t)] = None
               /\ parent'[stack'[i].t] = None /\ stack'[i].pc \notin ParsePc =>
                    stack'[i].t = GetLastTransaction'
    <2>1. /\ next[RootOf(parent, stack[i].t)] = None
          /\ parent[stack[i].t] = None /\ stack[i].pc \notin ParsePc =>
               stack[i].t = GetLastTransaction
      BY <1>6, <1>8 DEF FrontOK
    <2>2. parent[stack[i].t] = None /\ stack'[i].pc \notin ParsePc => stack[i].pc \notin ParsePc
      BY <1>1, <1>3, <1>4 DEF Same
    <2> QED  BY <1>2, <1>5, <2>1, <2>2
  <1>9. ASSUME NEW i \in 1..n, NEW j \in 1..n, i < j, ~Aside(stack[i])'
        PROVE  /\ parent'[stack'[j].t] # None
               /\ RootOf(parent', stack'[i].t) = RootOf(parent', stack'[j].t)
    BY <1>2, <1>5, <1>6, <1>9 DEF FrontOK
  <1>10. ASSUME NEW i \in 2..n
         PROVE  \E j \in 1..i : stack'[j].t = RootOf(parent', stack'[i].t)
    <2>1. PICK j \in 1..i : stack[j].t = RootOf(parent, stack[i].t)
      BY DEF FrontOK
    <2>2. i \in 1..n /\ j \in 1..n
      BY <1>1
    <2> QED  BY <1>2, <1>5, <2>1, <2>2
  <1> QED  BY <1>1, <1>5, <1>7, <1>8, <1>9, <1>10 DEF FrontOK

(* A top-level transaction that was ended comes last. *)
LEMMA ChainGrows ==
  ASSUME IInv, ChainOK, NEW t \in Txn, parent[t] = None, t \notin Range(transactions),
         AddTransaction(t), UNCHANGED parent,
         \A u \in Txn : u # t => state'[u] = state[u],
         state'[t] = "kCompleted"
  PROVE  /\ ChainOK' /\ GetLastTransaction' = t
         /\ next'[t] = None
  <1> DEFINE n == Len(transactions)
             s == Append(transactions, t)
  <1>1. /\ transactions \in Seq(Txn) /\ n \in Nat /\ DOMAIN transactions = 1..n
        /\ next \in [Txn -> Pointer]
        /\ \A i \in 1..n : transactions[i] \in Txn /\ transactions[i] \in Range(transactions)
        /\ \A i \in 1..n : transactions[i] # t
    BY ListFacts, ElementOfSeq DEF IInv, TransactionInv, TransactionTypeOK, Range
  <1>2. t # GetLastTransaction
    BY ListFacts, TxnAssumption
  <1>3. /\ transactions' = s
        /\ next' = IF transactions = <<>> THEN next ELSE [next EXCEPT ![transactions[n]] = t]
    BY <1>2 DEF AddTransaction, Last
  <1>4. /\ s \in Seq(Txn) /\ Len(s) = n + 1 /\ s[n + 1] = t
        /\ \A i \in 1..n : s[i] = transactions[i]
        /\ DOMAIN s = 1..(n + 1)
    BY <1>1, AppendProperties
  <1>5. IsInjective(s) /\ Range(s) = Range(transactions) \cup {t}
    BY <1>1, AppendNew DEF ChainOK
  <1>6. transactions = <<>> <=> n = 0
    BY <1>1, EmptySeq
  <1>7. \A u \in Txn : next'[u] = IF n # 0 /\ u = transactions[n] THEN t ELSE next[u]
    BY <1>1, <1>3, <1>6
  <1>8. next[t] = None
    BY DEF ChainOK
  <1>9. next'[t] = None
    <2>1. n # 0 => n \in 1..n
      BY <1>1
    <2> QED  BY <1>1, <1>7, <1>8, <2>1
  <1> HIDE DEF s
  <1>10. ASSUME NEW i \in 1..(n + 1)
         PROVE  /\ next'[s[i]] = IF i < n + 1 THEN s[i + 1] ELSE None
                /\ state'[s[i]] \in {"kCompleted", "kCommitted", "kRolledBack"}
                /\ parent'[s[i]] = None
    <2>1. CASE i = n + 1
      BY <1>1, <1>4, <1>9, <2>1
    <2>2. CASE i # n + 1
      <3>1. i \in 1..n /\ s[i] = transactions[i] /\ transactions[i] \in Txn /\ transactions[i] # t
        BY <1>1, <1>4, <2>2
      <3>2. /\ next[s[i]] = IF i < n THEN transactions[i + 1] ELSE None
            /\ state[s[i]] \in {"kCompleted", "kCommitted", "kRolledBack"}
            /\ parent[s[i]] = None
        BY <1>1, <3>1 DEF ChainOK
      <3>3. CASE i = n
        BY <1>1, <1>4, <1>7, <3>1, <3>2, <3>3
      <3>4. CASE i # n
        <4>1. n \in 1..n /\ i + 1 \in 1..n /\ i < n
          BY <1>1, <3>1, <3>4
        <4>2. IsInjective(transactions)
          BY DEF ChainOK
        <4>3. transactions[i] # transactions[n]
          <5>1. i \in DOMAIN transactions /\ n \in DOMAIN transactions
            BY <1>1, <3>1, <4>1
          <5> HIDE DEF n
          <5> QED  BY <3>4, <4>2, <5>1 DEF IsInjective
        <4> QED  BY <1>1, <1>4, <1>7, <3>1, <3>2, <4>1, <4>3
      <3> QED  BY <3>3, <3>4
    <2> QED  BY <2>1, <2>2
  <1>11. \A u \in Txn \ Range(s) : next'[u] = None
    <2>1. n # 0 => transactions[n] \in Range(s)
      <3>1. n # 0 => n \in 1..n
        BY <1>1
      <3> QED  BY <1>1, <1>5, <3>1
    <2> QED  BY <1>5, <1>7, <2>1 DEF ChainOK
  <1>12. ChainOK'
    BY <1>3, <1>4, <1>5, <1>10, <1>11 DEF ChainOK
  <1>13. GetLastTransaction' = t
    <2>1. s # <<>>
      BY <1>1, <1>4
    <2> QED  BY <1>3, <1>4, <2>1 DEF GetLastTransaction, Last
  <1> QED  BY <1>9, <1>12, <1>13

LEMMA EndKeepsFront ==
  ASSUME IInv, IInv', StateInv, Rooted(parent), FrontOK, Moves,
         Top.pc \in ParsePc, parent[Top.t] = None, AddTransaction(Top.t),
         state'[Top.t] = "kCompleted"
  PROVE  Rooted(parent)' /\ FrontOK'
  <1> DEFINE n == Depth
  <1>1. /\ n \in Nat /\ n > 1 /\ Depth' = n
        /\ Top = stack[n] /\ Top' = stack'[n] /\ Top.t \in Txn
    BY MoveFacts
  <1>2. \A i \in 1..n : stack'[i].t = stack[i].t
    BY MoveFacts
  <1>3. \A i \in 1..(n - 1) : Same(stack'[i], stack[i])
    BY MoveFacts
  <1>4. \A i \in 1..n : i = n \/ i \in 1..(n - 1)
    BY <1>1
  <1>5. parent' = parent
    BY DEF Moves
  <1>6. /\ ChainOK' /\ GetLastTransaction' = Top.t
        /\ next'[Top.t] = None
    <2>1. state[Top.t] = "kCollecting"
      <3>1. n \in 1..n /\ Top.t # None
        BY <1>1, TxnAssumption
      <3>2. PhaseOK(Top)
        BY <1>1, <3>1 DEF StateInv, PhasesOK
      <3> QED  BY <3>2 DEF PhaseOK
    <2>2. Top.t \notin Range(transactions) /\ ChainOK
      BY <2>1, ListFacts DEF FrontOK
    <2> QED  BY <1>1, <1>5, <2>2, ChainGrows DEF Moves
  <1>7. \A i \in 1..(n - 1) : Aside(stack[i])'
    <2> SUFFICES ASSUME NEW i \in 1..(n - 1)  PROVE Aside(stack[i])'
      OBVIOUS
    <2>1. i \in 1..n /\ n \in 1..n /\ i < n
      BY <1>1
    <2>2. Aside(stack[i])
      BY <1>1, <2>1 DEF FrontOK
    <2> QED  BY <1>3, <1>5, <2>2 DEF Aside, Same
  <1>8. RootOf(parent, Top.t) = Top.t
    BY <1>1, RootStep
  <1>9. ASSUME NEW i \in 1..n, ~Aside(stack[i])'
        PROVE  /\ next'[RootOf(parent', stack'[i].t)] = None
               /\ parent'[stack'[i].t] = None /\ stack'[i].pc \notin ParsePc =>
                    stack'[i].t = GetLastTransaction'
    <2>1. i = n
      BY <1>4, <1>7, <1>9
    <2> QED  BY <1>1, <1>2, <1>5, <1>6, <1>8, <2>1
  <1>10. ASSUME NEW i \in 1..n, NEW j \in 1..n, i < j, ~Aside(stack[i])'
         PROVE  /\ parent'[stack'[j].t] # None
                /\ RootOf(parent', stack'[i].t) = RootOf(parent', stack'[j].t)
    <2>1. i \in 1..(n - 1)
      BY <1>1, <1>10
    <2> QED  BY <1>7, <1>10, <2>1
  <1>11. ASSUME NEW i \in 2..n
         PROVE  \E j \in 1..i : stack'[j].t = RootOf(parent', stack'[i].t)
    <2>1. PICK j \in 1..i : stack[j].t = RootOf(parent, stack[i].t)
      BY DEF FrontOK
    <2>2. i \in 1..n /\ j \in 1..n
      BY <1>1
    <2> QED  BY <1>2, <1>5, <2>1, <2>2
  <1> QED  BY <1>1, <1>5, <1>6, <1>9, <1>10, <1>11 DEF FrontOK

(***************************************************************************)
(* The function at the top returns; its transaction t may go to the pool.  *)
(***************************************************************************)

Returns(t) ==
  /\ Depth > 1 /\ t = Top.t
  /\ Len(stack') = Depth - 1 /\ Kept(Depth - 1)
  /\ \A u \in Txn : u # t => /\ state'[u] = state[u] /\ parent'[u] = parent[u]
                             /\ unloading'[u] = unloading[u]
  /\ \/ state'[t] \in Final /\ parent'[t] = parent[t] /\ unloading'[t] = unloading[t]
     \/ /\ state'[t] = "kNumStates" /\ parent'[t] = None /\ ~unloading'[t]
        /\ \A u \in Txn : parent[u] # t
  /\ errorOut' = errorOut
  /\ consumer' # None => Live(consumer)'
  /\ IF stack[Depth - 1].pc \in UnloadPc
     THEN consumer' = consumer /\ consumer # t
     ELSE IF parent[t] = None THEN Settled(consumer)' ELSE consumer' = parent[t]

LEMMA ReturnFacts ==
  ASSUME IInv, IInv', StateInv, NEW t \in Txn, Returns(t)
  PROVE  /\ Depth \in Nat /\ Depth > 1 /\ Depth' = Depth - 1
         /\ Top = stack[Depth] /\ Top' = stack'[Depth - 1]
         /\ \A i \in 1..(Depth - 1) : i \in 1..Depth /\ i # Depth /\ Same(stack'[i], stack[i])
         /\ \A i \in 1..(Depth - 1) : stack[i].t # None =>
              stack[i].t \in Txn /\ stack[i].t # t /\ parent[stack[i].t] # t
         /\ \A i \in 2..(Depth - 1) : stack[i].t \in Txn
  <1> DEFINE n == Depth
  <1>1. n \in Nat /\ n > 1 /\ Top = stack[n]
    BY TopFrame DEF Returns
  <1>2. n' = n - 1
    BY DEF Returns, Depth
  <1>3. WellFormed(stack')
    BY DEF IInv, StackOK
  <1>4. Top' = stack'[n - 1]
    BY <1>1, <1>2, <1>3, DepthFacts DEF Top, Depth
  <1>5. \A i \in 1..(n - 1) : i \in 1..n /\ i # n /\ Same(stack'[i], stack[i])
    BY <1>1 DEF Returns, Kept
  <1>6. \A i \in 1..(n - 1) : stack[i].t # None =>
          stack[i].t \in Txn /\ stack[i].t # t /\ parent[stack[i].t] # t
    BY <1>1, LowerFrames DEF Returns, StateInv
  <1>7. \A i \in 2..(n - 1) : stack[i].t \in Txn
    BY <1>1, TopFrame
  <1> QED  BY <1>1, <1>2, <1>4, <1>5, <1>6, <1>7

LEMMA ReturnKeepsState ==
  ASSUME IInv, IInv', StateInv, NEW t \in Txn, Returns(t)
  PROVE  StateInv'
  <1> USE DEF StateInv
  <1> DEFINE n == Depth
  <1>1. /\ n \in Nat /\ n > 1 /\ Depth' = n - 1
        /\ Top = stack[n] /\ Top' = stack'[n - 1]
    BY ReturnFacts
  <1>2. \A i \in 1..(n - 1) : i \in 1..n /\ i # n /\ Same(stack'[i], stack[i])
    BY ReturnFacts
  <1>3. \A i \in 1..(n - 1) : stack[i].t # None =>
          stack[i].t \in Txn /\ stack[i].t # t /\ parent[stack[i].t] # t
    BY ReturnFacts
  <1>4. \A i \in 2..(n - 1) : stack[i].t \in Txn /\ stack[i].t # None
    BY ReturnFacts, TxnAssumption
  <1>5. \A u \in Txn : u # t => /\ state'[u] = state[u] /\ parent'[u] = parent[u]
                                /\ unloading'[u] = unloading[u]
    BY DEF Returns
  <1>6. \A i \in 1..(n - 1) : stack'[i].t = stack[i].t /\ stack'[i].pc = stack[i].pc
    BY <1>2 DEF Same
  <1>7. ASSUME NEW i \in 1..(n - 1)
        PROVE  Target(stack[i])' = Target(stack[i])
    <2>1. Same(stack'[i], stack[i])
      BY <1>2
    <2>2. CASE stack[i].pc = "callback"
      <3>1. stack[i].t # None
        <4>1. i # 1
          BY <1>1, <2>2, TopFrame DEF BottomPc
        <4> QED  BY <1>1, <1>4, <4>1
      <3> QED  BY <1>3, <1>5, <2>1, <2>2, <3>1 DEF Target, Same
    <2>3. CASE stack[i].pc # "callback"
      BY <2>1, <2>3 DEF Target, Same
    <2> QED  BY <2>2, <2>3
  <1>8. ShapeOK'
    <2> SUFFICES ASSUME NEW i \in 1..(n - 1)
                 PROVE  /\ stack'[i].pc = "bootparse" => i = 2 /\ stack'[1].pc = "boot"
                        /\ stack'[i].pc \notin {"check", "inst", "dtor"}
                        /\ stack'[i].pc \in {"boot", "client"} => stack'[i].t = None
                        /\ stack'[i].t = None => stack'[i].prev = None
                        /\ stack'[i].pc = "revert" => ~errorOut
                        /\ stack'[i].pc \in UnloadPc =>
                             \A j \in i..(n - 1) : stack'[j].pc \in UnloadPc
      BY <1>1 DEF ShapeOK, Returns
    <2>1. i \in 1..n /\ i # n /\ 1 \in 1..(n - 1) /\ i..(n - 1) \subseteq i..n
          /\ i..(n - 1) \subseteq 1..(n - 1)
      BY <1>1, <1>2
    <2>2. stack'[i].prev = stack[i].prev
      BY <1>2 DEF Same
    <2> QED  BY <1>1, <1>6, <2>1, <2>2 DEF ShapeOK
  <1>9. LineageOK'
    <2>1. \A i, j \in 1..(n - 1) : stack'[i].t # None /\ stack'[i].t = stack'[j].t => i = j
      BY <1>2, <1>6 DEF LineageOK
    <2>2. \A i \in 1..(n - 1 - 1) : parent'[stack'[i + 1].t] = Target(stack[i])'
      <3> SUFFICES ASSUME NEW i \in 1..(n - 1 - 1)
                   PROVE  parent'[stack'[i + 1].t] = Target(stack[i])'
        OBVIOUS
      <3>1. i \in 1..(n - 1) /\ i + 1 \in 1..(n - 1) /\ i + 1 \in 2..(n - 1)
        BY <1>1
      <3> QED  BY <1>3, <1>4, <1>5, <1>6, <1>7, <3>1 DEF LineageOK
    <2>3. ASSUME NEW i \in 2..(n - 1), parent'[stack'[i].t] # None
          PROVE  \E j \in 1..(i - 1) : stack'[j].t = parent'[stack'[i].t]
      <3>1. i \in 1..(n - 1) /\ i \in 2..n /\ 1..(i - 1) \subseteq 1..(n - 1)
        BY <1>1
      <3>2. parent'[stack'[i].t] = parent[stack[i].t]
        BY <1>3, <1>4, <1>5, <1>6, <3>1
      <3>3. PICK j \in 1..(i - 1) : stack[j].t = parent[stack[i].t]
        BY <2>3, <3>1, <3>2 DEF LineageOK
      <3> QED  BY <1>6, <3>1, <3>2, <3>3
    <2> QED  BY <1>1, <2>1, <2>2, <2>3 DEF LineageOK
  <1>10. PhasesOK'
    <2>1. Depth - 1 \in 0..Depth /\ Kept(Depth - 1)
      BY <1>1 DEF Returns
    <2>2. \A i \in 1..(Depth - 1) : stack'[i].t # None => PhaseOK(stack[i])'
      BY ONLY <1>3, <1>5, <2>1, PhasesOK, t \in Txn, IInv, IInv', PhasesKept
    <2>3. ASSUME NEW u \in Txn, state'[u] \in Building
          PROVE  \E i \in 1..(n - 1) : stack'[i].t = u
      <3>1. u # t /\ state[u] \in Building
        BY <1>5, <2>3 DEF Returns, Final, Building
      <3>2. PICK i \in 1..n : stack[i].t = u
        BY <3>1 DEF PhasesOK
      <3>3. i \in 1..(n - 1)
        BY <1>1, <3>1, <3>2 DEF Returns
      <3> QED  BY <1>6, <3>2, <3>3
    <2>4. \A u \in Txn : ~Live(u)' => ~unloading'[u]
      BY DEF PhasesOK, Returns, Live, Final
    <2> QED  BY <1>1, <2>2, <2>3, <2>4 DEF PhasesOK
  <1>11. CurrentOK'
    <2>1. n - 1 \in 1..(n - 1) /\ stack[n - 1].pc \notin {"check", "inst", "dtor"}
      BY <1>1, <1>2 DEF ShapeOK
    <2>2. ~At("inst")'
      BY <1>1, <1>6, <2>1 DEF At
    <2>3. Top'.pc \notin UnloadPc \cup {"inst"} => Expected(Top)'
      <3>1. parent[t] = Target(stack[n - 1])
        <4>1. stack[n - 1 + 1].t = t
          BY <1>1 DEF Returns
        <4> QED  BY <2>1, <4>1 DEF LineageOK
      <3>2. Target(Top)' = parent[t]
        BY <1>1, <1>7, <2>1, <3>1 DEF Target
      <3> QED  BY <1>1, <1>6, <2>1, <3>2 DEF Returns, Expected
    <2>4. ASSUME NEW i \in 2..(n - 1), stack'[i].pc \in UnloadPc, stack'[i - 1].pc \notin UnloadPc
          PROVE  \/ consumer' = stack'[i].t /\ parent'[stack'[i].t] = None
                 \/ Expected(stack[i - 1])'
      <3>1. i \in 1..(n - 1) /\ i - 1 \in 1..(n - 1) /\ i \in 2..n /\ n - 1 \in i..n /\ i \in 1..n
        BY <1>1
      <3>2. consumer' = consumer /\ consumer # t
        BY <1>6, <2>4, <3>1 DEF ShapeOK, Returns
      <3>3. \/ consumer = stack[i].t /\ parent[stack[i].t] = None
            \/ Expected(stack[i - 1])
        BY <1>6, <2>4, <3>1 DEF CurrentOK
      <3>4. CASE consumer = stack[i].t /\ parent[stack[i].t] = None
        BY <1>3, <1>4, <1>5, <1>6, <3>1, <3>2, <3>4
      <3>5. CASE Expected(stack[i - 1])
        <4>1. Target(stack[i - 1])' = Target(stack[i - 1])
          BY <1>7, <3>1
        <4>2. consumer \in Pointer
          BY DEF IInv, TransactionInv, TransactionTypeOK
        <4>3. Settled(consumer) => Settled(consumer)'
          BY <1>5, <3>2, <4>2 DEF Settled, Pointer
        <4> QED  BY <3>2, <3>5, <4>1, <4>3 DEF Expected
      <3> QED  BY <3>3, <3>4, <3>5
    <2> QED  BY <1>1, <2>2, <2>3, <2>4 DEF CurrentOK, Returns
  <1> QED  BY <1>8, <1>9, <1>10, <1>11

(* The last transaction leaves the list. *)
LEMMA ChainShrinks ==
  ASSUME IInv, ChainOK, NEW t \in Txn, parent[t] = None, t = GetLastTransaction,
         RemoveTransaction(t),
         \A u \in Txn : u # t => state'[u] = state[u] /\ parent'[u] = parent[u]
  PROVE  ChainOK'
  <1>0. PICK n \in Nat : n = Len(transactions)
    BY ListFacts
  <1> DEFINE s == Front(transactions)
  <1>1. /\ transactions \in Seq(Txn) /\ DOMAIN transactions = 1..n
        /\ next \in [Txn -> Pointer]
        /\ \A i \in 1..n : transactions[i] \in Txn
    BY <1>0, ListFacts, ElementOfSeq DEF IInv, TransactionInv, TransactionTypeOK
  <1>2. transactions # <<>> /\ t = transactions[n]
    BY <1>0, TxnAssumption DEF GetLastTransaction, Last
  <1>3. n >= 1
    BY <1>0, <1>1, <1>2, EmptySeq
  <1>4. /\ s \in Seq(Txn) /\ Len(s) = n - 1 /\ DOMAIN s = 1..(n - 1)
        /\ \A i \in 1..(n - 1) : s[i] = transactions[i]
    <2>1. /\ s \in Seq(Txn) /\ Len(s) = Len(transactions) - 1
          /\ \A i \in 1..(Len(transactions) - 1) : s[i] = transactions[i]
      BY <1>1, <1>2, FrontFacts
    <2> QED  BY <1>0, <2>1, LenProperties
  <1>5. /\ transactions' = s
        /\ next' = IF s = <<>> THEN [next EXCEPT ![t] = None]
                   ELSE [next EXCEPT ![t] = None, ![s[n - 1]] = None]
    BY <1>4 DEF RemoveTransaction, Last
  <1>6. s = <<>> <=> n = 1
    BY <1>1, <1>3, <1>4, EmptySeq
  <1>7. IsInjective(transactions)
    BY DEF ChainOK
  <1>8. \A i, j \in 1..n : transactions[i] = transactions[j] => i = j
    BY <1>1, <1>7 DEF IsInjective
  <1>9. \A i \in 1..(n - 1) : i \in 1..n /\ s[i] \in Txn /\ s[i] # t
    <2>1. n \in 1..n /\ \A i \in 1..(n - 1) : i \in 1..n /\ i # n
      BY <1>1, <1>3
    <2> QED  BY <1>1, <1>2, <1>4, <1>8, <2>1
  <1>10. \A u \in Txn : next'[u] = IF u = t \/ (n # 1 /\ u = s[n - 1]) THEN None ELSE next[u]
    <2>1. CASE n = 1
      BY <1>1, <1>5, <1>6, <2>1
    <2>2. CASE n # 1
      <3>1. n - 1 \in 1..(n - 1)
        BY <1>1, <1>3, <2>2
      <3> HIDE DEF s
      <3> QED  BY <1>1, <1>5, <1>6, <1>9, <2>2, <3>1
    <2> QED  BY <2>1, <2>2
  <1> HIDE DEF s
  <1>11. IsInjective(s)
    <2>1. \A i, j \in 1..(n - 1) : s[i] = s[j] => i = j
      BY <1>4, <1>8, <1>9
    <2> QED  BY <1>4, <2>1 DEF IsInjective
  <1>12. ASSUME NEW i \in 1..(n - 1)
         PROVE  /\ next'[s[i]] = IF i < n - 1 THEN s[i + 1] ELSE None
                /\ state'[s[i]] \in {"kCompleted", "kCommitted", "kRolledBack"}
                /\ parent'[s[i]] = None
    <2>1. i \in 1..n /\ i + 1 \in 1..n /\ i < n /\ s[i] = transactions[i] /\ s[i] \in Txn /\ s[i] # t
      BY <1>1, <1>4, <1>9
    <2>2. /\ next[s[i]] = transactions[i + 1]
          /\ state[s[i]] \in {"kCompleted", "kCommitted", "kRolledBack"}
          /\ parent[s[i]] = None
      BY <1>0, <1>1, <2>1 DEF ChainOK
    <2>3. n - 1 \in 1..(n - 1) /\ n # 1
      BY <1>1
    <2>4. CASE i = n - 1
      BY <1>1, <1>10, <2>1, <2>2, <2>3, <2>4
    <2>5. CASE i # n - 1
      <3>1. i + 1 \in 1..(n - 1) /\ i < n - 1
        BY <1>1, <2>5
      <3>2. s[i] # s[n - 1]
        BY <1>4, <1>8, <1>9, <2>1, <2>3, <2>5
      <3> QED  BY <1>4, <1>10, <2>1, <2>2, <3>1, <3>2
    <2> QED  BY <2>4, <2>5
  <1>13. ASSUME NEW u \in Txn \ Range(s)
         PROVE  next'[u] = None
    <2>1. CASE u \in Range(transactions)
      <3>1. PICK i \in 1..n : u = transactions[i]
        BY <1>1, <2>1 DEF Range
      <3>2. i \notin 1..(n - 1)
        BY <1>4, <3>1 DEF Range
      <3>3. i = n
        BY <1>1, <3>2
      <3> QED  BY <1>2, <1>10, <3>1, <3>3
    <2>2. CASE u \notin Range(transactions)
      BY <1>10, <2>2 DEF ChainOK
    <2> QED  BY <2>1, <2>2
  <1>14. transactions' = s
    BY <1>5
  <1>15. \A i \in DOMAIN s :
           /\ next'[s[i]] = IF i < Len(s) THEN s[i + 1] ELSE None
           /\ state'[s[i]] \in {"kCompleted", "kCommitted", "kRolledBack"}
           /\ parent'[s[i]] = None
    BY <1>4, <1>12
  <1> QED  BY <1>11, <1>13, <1>14, <1>15 DEF ChainOK

LEMMA ReturnKeepsFront ==
  ASSUME IInv, IInv', StateInv, Rooted(parent), FrontOK, NEW t \in Txn, Returns(t),
         \/ UNCHANGED listVars /\ (Top.pc \in ParsePc \/ Live(t)')
         \/ RemoveTransaction(t) /\ Top.pc \in UnloadPc
  PROVE  Rooted(parent)' /\ FrontOK'
  <1> DEFINE n == Depth
             root(u) == RootOf(parent, u)
             root1(u) == RootOf(parent', u)
  <1>1. /\ n \in Nat /\ n > 1 /\ Depth' = n - 1
        /\ Top = stack[n] /\ t = Top.t
    BY ReturnFacts DEF Returns
  <1>2. \A i \in 1..(n - 1) : i \in 1..n /\ i # n /\ Same(stack'[i], stack[i])
    BY ReturnFacts
  <1>3. \A i \in 1..(n - 1) : stack[i].t # None =>
          stack[i].t \in Txn /\ stack[i].t # t /\ parent[stack[i].t] # t
    BY ReturnFacts
  <1>4. \A i \in 2..(n - 1) : stack[i].t \in Txn /\ stack[i].t # None
    BY ReturnFacts, TxnAssumption
  <1>5. \A u \in Txn : u # t => state'[u] = state[u] /\ parent'[u] = parent[u]
    BY DEF Returns
  <1>6. Rooted(parent') /\ \A u \in Txn : u # t => root1(u) = root(u)
    <2>1. parent \in [Txn -> Pointer] /\ parent' \in [Txn -> Pointer]
      BY DEF IInv, TransactionInv, TransactionTypeOK
    <2>2. CASE parent'[t] = parent[t]
      <3>1. parent' = parent
        BY <1>5, <2>1, <2>2
      <3> QED  BY <3>1
    <2>3. CASE parent'[t] # parent[t]
      <3>1. parent'[t] # t /\ \A u \in Txn : parent[u] # t
        BY <2>3, TxnAssumption DEF Returns
      <3>2. \A u \in Txn : u # t => parent'[u] = parent[u]
        BY <1>5
      <3> QED  BY ONLY Rooted(parent), t \in Txn, <2>1, <3>1, <3>2, RootsKept
    <2> QED  BY <2>2, <2>3
  <1>7. \A i \in 1..(n - 1) : stack[i].t # None =>
          /\ root1(stack[i].t) = root(stack[i].t)
          /\ parent'[stack[i].t] = parent[stack[i].t]
    BY <1>3, <1>5, <1>6
  <1>8. \A i \in 1..(n - 1) : stack'[i].t = stack[i].t /\ stack'[i].pc = stack[i].pc
    BY <1>2 DEF Same
  <1>9. \A i \in 1..(n - 1) : Aside(stack[i]) => Aside(stack[i])'
    BY <1>7, <1>8 DEF Aside
  <1>10. n \in 1..n /\ n \in 2..n /\ t # None
    BY <1>1, TxnAssumption
  <1>11. Top.pc \in UnloadPc /\ parent[t] = None => t = GetLastTransaction
    <2>1. Top.pc \in UnloadPc => ~Aside(Top) /\ Top.pc \notin ParsePc
      BY <1>1, <1>10 DEF Aside, UnloadPc, ParsePc
    <2> QED  BY <1>1, <1>10, <2>1 DEF FrontOK
  <1>12. Top.pc \in ParsePc => t \notin Range(transactions)
    <2>1. PhaseOK(Top)
      BY <1>1, <1>10 DEF StateInv, PhasesOK
    <2>2. Top.pc \in ParsePc => state[t] = "kCollecting"
      BY <1>1, <2>1 DEF PhaseOK
    <2> QED  BY <2>2, ListFacts DEF FrontOK
  <1>13. /\ ChainOK'
         /\ \/ transactions' = transactions /\ next' = next
            \/ Top.pc \in UnloadPc /\ parent[t] = None
    <2>1. CASE UNCHANGED listVars
      <3>1. ASSUME NEW u \in Range(transactions)
            PROVE  parent'[u] = None /\ state'[u] \in {"kCompleted", "kCommitted", "kRolledBack"}
        <4>1. u \in Txn /\ parent[u] = None /\ state[u] \in {"kCompleted", "kCommitted", "kRolledBack"}
          BY ListFacts DEF FrontOK
        <4>2. CASE u # t
          BY <1>5, <4>1, <4>2
        <4>3. CASE u = t
          <5>1. \/ Live(t)'
                \/ Top.pc \in UnloadPc /\ RemoveTransaction(t)
            BY <1>12, <4>3
          <5>2. CASE Live(t)'
            BY <4>1, <4>3, <5>2 DEF Live, Returns, Final
          <5>3. CASE Top.pc \in UnloadPc /\ RemoveTransaction(t)
            <6>1. t = GetLastTransaction
              BY <1>11, <4>1, <4>3, <5>3
            <6>2. transactions' = Front(transactions) /\ transactions # <<>>
              BY <4>1, <4>3, <5>3, <6>1, <1>10 DEF RemoveTransaction, GetLastTransaction
            <6>3. transactions \in Seq(Txn) /\ Len(transactions) \in Nat
              BY ListFacts DEF FrontOK
            <6>4. Len(transactions') = Len(transactions) - 1
              BY <6>2, <6>3, FrontFacts
            <6> QED  BY <2>1, <6>3, <6>4 DEF listVars
          <5> QED  BY <5>1, <5>2, <5>3
        <4> QED  BY <4>2, <4>3
      <3>2. ChainOK'
        BY <2>1, <3>1, ChainKept DEF FrontOK
      <3> QED  BY <2>1, <3>2 DEF listVars
    <2>2. CASE RemoveTransaction(t) /\ Top.pc \in UnloadPc
      <3>1. CASE parent[t] = None
        <4>1. ChainOK /\ \A u \in Txn : u # t => state'[u] = state[u] /\ parent'[u] = parent[u]
          BY <1>5 DEF FrontOK
        <4>2. ChainOK'
          BY <1>11, <2>2, <3>1, <4>1, ChainShrinks
        <4> QED  BY <2>2, <3>1, <4>2
      <3>2. CASE parent[t] # None
        <4>1. t \notin Range(transactions) /\ next[t] = None /\ next \in [Txn -> Pointer]
          <5>1. t \notin Range(transactions)
            BY <3>2, ListFacts DEF FrontOK
          <5> QED  BY <5>1 DEF FrontOK, ChainOK, IInv, TransactionInv, TransactionTypeOK
        <4>2. next' = [next EXCEPT ![t] = None] /\ transactions' = transactions
          BY <2>2, <3>2 DEF RemoveTransaction
        <4>3. next' = next
          BY <4>1, <4>2
        <4>4. UNCHANGED listVars
          BY <4>2, <4>3 DEF listVars
        <4>5. \A u \in Range(transactions) :
                parent'[u] = None /\ state'[u] \in {"kCompleted", "kCommitted", "kRolledBack"}
          BY <1>5, <4>1, ListFacts DEF FrontOK
        <4> QED  BY <4>2, <4>3, <4>4, <4>5, ChainKept DEF FrontOK
      <3> QED  BY <3>1, <3>2
    <2> QED  BY <2>1, <2>2
  <1> HIDE DEF root, root1
  <1>14. ASSUME NEW i \in 1..(n - 1), ~Aside(stack[i])'
         PROVE  /\ next'[root1(stack'[i].t)] = None
                /\ parent'[stack'[i].t] = None /\ stack'[i].pc \notin ParsePc =>
                     stack'[i].t = GetLastTransaction'
    <2>1. ~Aside(stack[i]) /\ stack[i].t # None /\ i \in 1..n /\ i < n
      <3>1. ~Aside(stack[i]) /\ i \in 1..n /\ i < n
        BY <1>1, <1>9, <1>14
      <3> QED  BY <3>1 DEF Aside
    <2>2. parent[t] # None
      BY <1>1, <1>10, <2>1 DEF FrontOK
    <2>3. transactions' = transactions /\ next' = next /\ GetLastTransaction' = GetLastTransaction
      BY <1>13, <2>2 DEF GetLastTransaction
    <2>4. /\ next[root(stack[i].t)] = None
          /\ parent[stack[i].t] = None /\ stack[i].pc \notin ParsePc =>
               stack[i].t = GetLastTransaction
      BY <2>1 DEF FrontOK, root
    <2> QED  BY <1>7, <1>8, <2>1, <2>3, <2>4
  <1>15. ASSUME NEW i \in 1..(n - 1), NEW j \in 1..(n - 1), i < j, ~Aside(stack[i])'
         PROVE  parent'[stack'[j].t] # None /\ root1(stack'[i].t) = root1(stack'[j].t)
    <2>1. ~Aside(stack[i]) /\ i \in 1..n /\ j \in 1..n /\ j \in 2..(n - 1)
      BY <1>1, <1>2, <1>9, <1>15
    <2>2. stack[i].t # None /\ stack[j].t # None
      BY <1>4, <2>1 DEF Aside
    <2>3. parent[stack[j].t] # None /\ root(stack[i].t) = root(stack[j].t)
      BY <1>15, <2>1 DEF FrontOK, root
    <2> QED  BY <1>7, <1>8, <2>2, <2>3
  <1>16. ASSUME NEW i \in 2..(n - 1)
         PROVE  \E j \in 1..i : stack'[j].t = root1(stack'[i].t)
    <2>1. i \in 2..n /\ i \in 1..(n - 1) /\ 1..i \subseteq 1..(n - 1)
      BY <1>1
    <2>2. PICK j \in 1..i : stack[j].t = root(stack[i].t)
      BY <2>1 DEF FrontOK, root
    <2> QED  BY <1>4, <1>7, <1>8, <2>1, <2>2
  <1> QED  BY <1>1, <1>6, <1>13, <1>14, <1>15, <1>16 DEF FrontOK, root1

(***************************************************************************)
(* The unload of c is called.                                              *)
(***************************************************************************)

Unloads(c) ==
  /\ Len(stack') = Depth + 1 /\ Kept(Depth)
  /\ Top'.pc = "dtor" /\ Top'.t = c /\ Top'.prev = None
  /\ \A i \in 1..Depth : stack[i].t # c
  /\ state[c] \in Final \cup {"kCompleted"}
  /\ \/ Top.pc = "client" /\ c = GetLastTransaction
     \/ Top.pc = "revert" /\ parent[c] = Top.t
  /\ unloading' = [unloading EXCEPT ![c] = TRUE]
  /\ UNCHANGED <<state, parent, consumer, listVars, errorOut>>

LEMMA UnloadFacts ==
  ASSUME IInv, IInv', StateInv, FrontOK, NEW c \in Txn, Unloads(c)
  PROVE  /\ Depth \in Nat /\ Depth >= 1 /\ Depth' = Depth + 1
         /\ Top = stack[Depth] /\ Top' = stack'[Depth + 1]
         /\ \A i \in 1..Depth : Same(stack'[i], stack[i])
         /\ \A i \in 1..Depth : stack[i].t # None =>
              stack[i].t \in Txn /\ parent[stack[i].t] # c
         /\ parent[c] = Target(Top)
         /\ Top.pc = "client" => Depth = 1 /\ Top.t = None
         /\ Top.pc = "revert" => Depth > 1 /\ Top.t \in Txn
  <1> DEFINE n == Depth
  <1>1. n \in Nat /\ n >= 1 /\ Top = stack[n]
    BY TopFrame
  <1>2. n' = n + 1
    BY DEF Unloads, Depth
  <1>3. WellFormed(stack')
    BY DEF IInv, StackOK
  <1>4. Top' = stack'[n + 1]
    BY <1>1, <1>2, <1>3, DepthFacts DEF Top, Depth
  <1>5. \A i \in 1..n : Same(stack'[i], stack[i])
    BY DEF Unloads, Kept
  <1>6. ASSUME NEW i \in 1..n, stack[i].t # None
        PROVE  stack[i].t \in Txn /\ parent[stack[i].t] # c
    <2>1. stack[i].t \in Txn /\ PhaseOK(stack[i])
      BY <1>6, FramesLive DEF StateInv, PhasesOK
    <2>2. CASE i = 1
      <3>1. stack[i].pc = "booted"
        BY <1>6, <2>2, TopFrame DEF StateInv, ShapeOK, BottomPc
      <3> QED  BY <2>1, <3>1, TxnAssumption DEF PhaseOK
    <2>3. CASE i # 1
      <3>1. i \in 2..n /\ 1..(i - 1) \subseteq 1..n
        BY <1>1, <2>3
      <3>2. parent[stack[i].t] # None => \E j \in 1..(i - 1) : stack[j].t = parent[stack[i].t]
        BY <3>1 DEF StateInv, LineageOK
      <3> QED  BY <2>1, <3>1, <3>2, TxnAssumption DEF Unloads
    <2> QED  BY <2>2, <2>3
  <1>7. Top.pc = "client" => n = 1 /\ Top.t = None
    BY <1>1, TopFrame DEF StateInv, ShapeOK, BottomPc
  <1>8. Top.pc = "revert" => n > 1 /\ Top.t \in Txn
    BY <1>1, TopFrame DEF BottomPc
  <1>9. parent[c] = Target(Top)
    <2>1. CASE Top.pc = "client" /\ c = GetLastTransaction
      BY <2>1, ListFacts, TxnAssumption DEF FrontOK, Target
    <2>2. CASE Top.pc = "revert" /\ parent[c] = Top.t
      BY <2>2 DEF Target
    <2> QED  BY <2>1, <2>2 DEF Unloads
  <1> QED  BY <1>1, <1>2, <1>4, <1>5, <1>6, <1>7, <1>8, <1>9

LEMMA UnloadKeepsState ==
  ASSUME IInv, IInv', StateInv, FrontOK, NEW c \in Txn, Unloads(c)
  PROVE  StateInv'
  <1> USE DEF StateInv
  <1> DEFINE n == Depth
  <1>1. /\ n \in Nat /\ n >= 1 /\ Depth' = n + 1
        /\ Top = stack[n] /\ Top' = stack'[n + 1]
        /\ parent[c] = Target(Top)
    BY UnloadFacts
  <1>2. \A i \in 1..n : Same(stack'[i], stack[i])
    BY UnloadFacts
  <1>3. \A i \in 1..n : stack[i].t # None =>
          stack[i].t \in Txn /\ stack[i].t # c /\ parent[stack[i].t] # c
    BY UnloadFacts DEF Unloads
  <1>4. /\ Top.pc = "client" => n = 1 /\ Top.t = None
        /\ Top.pc = "revert" => n > 1 /\ Top.t \in Txn
        /\ Top.pc \in {"client", "revert"}
    BY UnloadFacts DEF Unloads
  <1>5. \A i \in 1..n : stack'[i].t = stack[i].t /\ stack'[i].pc = stack[i].pc
    BY <1>2 DEF Same
  <1>6. state' = state /\ parent' = parent /\ consumer' = consumer /\ errorOut' = errorOut
    BY DEF Unloads
  <1>7. Top'.pc = "dtor" /\ Top'.t = c /\ Top'.prev = None
    BY DEF Unloads
  <1>8. \A i \in 1..(n + 1) : i \in 1..n \/ i = n + 1
    BY <1>1
  <1>9. ShapeOK'
    <2> SUFFICES ASSUME NEW i \in 1..(n + 1)
                 PROVE  /\ stack'[i].pc = "bootparse" => i = 2 /\ stack'[1].pc = "boot"
                        /\ stack'[i].pc \in {"check", "inst", "dtor"} => i = n + 1
                        /\ stack'[i].pc \in {"boot", "client"} => stack'[i].t = None
                        /\ stack'[i].t = None => stack'[i].prev = None
                        /\ stack'[i].pc = "revert" => ~errorOut
                        /\ stack'[i].pc \in UnloadPc =>
                             \A j \in i..(n + 1) : stack'[j].pc \in UnloadPc
      BY <1>1, <1>6 DEF ShapeOK
    <2>1. CASE i \in 1..n
      <3>1. 1 \in 1..n /\ \A j \in i..(n + 1) : j \in i..n \/ j = n + 1
        BY <1>1, <2>1
      <3>2. i..n \subseteq 1..n
        BY <2>1
      <3>3. stack[i].pc \notin {"check", "inst", "dtor"}
        BY <1>1, <1>4, <2>1 DEF ShapeOK
      <3>4. stack'[i].pc \in UnloadPc => \A j \in i..(n + 1) : stack'[j].pc \in UnloadPc
        BY <1>1, <1>5, <1>7, <2>1, <3>1, <3>2 DEF ShapeOK, UnloadPc
      <3>5. stack'[i].prev = stack[i].prev
        BY <1>2, <2>1 DEF Same
      <3> QED  BY <1>5, <2>1, <3>1, <3>3, <3>4, <3>5 DEF ShapeOK
    <2>2. CASE i = n + 1
      BY <1>1, <1>7, <2>2 DEF UnloadPc
    <2> QED  BY <1>8, <2>1, <2>2
  <1>10. LineageOK'
    <2>1. ASSUME NEW i \in 1..(n + 1), NEW j \in 1..(n + 1),
                 stack'[i].t # None, stack'[i].t = stack'[j].t
          PROVE  i = j
      <3>1. c # None /\ \A k \in 1..n : stack[k].t # c
        BY <1>3, TxnAssumption DEF Unloads
      <3> QED  BY <1>1, <1>5, <1>7, <1>8, <2>1, <3>1 DEF LineageOK
    <2>2. ASSUME NEW i \in 1..n
          PROVE  parent'[stack'[i + 1].t] = Target(stack[i])'
      <3>1. Target(stack[i])' = Target(stack[i])
        BY <1>2, <1>6 DEF Target, Same
      <3>2. CASE i = n
        BY <1>1, <1>6, <1>7, <3>1, <3>2
      <3>3. CASE i # n
        <4>1. i \in 1..(n - 1) /\ i + 1 \in 1..n
          BY <1>1, <3>3
        <4> QED  BY <1>5, <1>6, <3>1, <4>1 DEF LineageOK
      <3> QED  BY <3>2, <3>3
    <2>3. ASSUME NEW i \in 2..(n + 1), parent'[stack'[i].t] # None
          PROVE  \E j \in 1..(i - 1) : stack'[j].t = parent'[stack'[i].t]
      <3>1. CASE i = n + 1
        <4>1. parent'[stack'[i].t] = Top.t /\ n \in 1..(i - 1) /\ n \in 1..n
          BY <1>1, <1>4, <1>6, <1>7, <2>3, <3>1 DEF Target
        <4> QED  BY <1>1, <1>5, <4>1
      <3>2. CASE i # n + 1
        <4>1. i \in 2..n /\ i \in 1..n /\ 1..(i - 1) \subseteq 1..n
          BY <1>1, <3>2
        <4>2. PICK j \in 1..(i - 1) : stack[j].t = parent[stack[i].t]
          BY <1>5, <1>6, <2>3, <4>1 DEF LineageOK
        <4> QED  BY <1>5, <1>6, <4>1, <4>2
      <3> QED  BY <3>1, <3>2
    <2>4. \A i \in 1..(n + 1 - 1) : i \in 1..n
      BY <1>1
    <2> QED  BY <1>1, <2>1, <2>2, <2>3, <2>4 DEF LineageOK
  <1>11. PhasesOK'
    <2>1. Depth \in 0..Depth /\ Kept(Depth)
      BY <1>1 DEF Unloads
    <2>2. \A u \in Txn : u # c => /\ state'[u] = state[u] /\ parent'[u] = parent[u]
                                  /\ unloading'[u] = unloading[u]
      BY <1>6 DEF Unloads
    <2>3. \A i \in 1..Depth : stack'[i].t # None => PhaseOK(stack[i])'
      BY ONLY <1>3, <2>1, <2>2, PhasesOK, c \in Txn, IInv, IInv', PhasesKept
    <2>4. PhaseOK(Top)'
      BY <1>6, <1>7 DEF PhaseOK, Unloads, ParsePc, WorkPc, DonePc, UnloadPc
    <2>5. \A i \in 1..(n + 1) : stack'[i].t # None => PhaseOK(stack[i])'
      BY <1>1, <1>8, <2>3, <2>4 DEF PhaseOK
    <2>6. ASSUME NEW u \in Txn, state'[u] \in Building
          PROVE  \E i \in 1..(n + 1) : stack'[i].t = u
      <3>1. PICK i \in 1..n : stack[i].t = u
        BY <1>6, <2>6 DEF PhasesOK
      <3> QED  BY <1>1, <1>5, <3>1
    <2>7. \A u \in Txn : ~Live(u)' => ~unloading'[u]
      BY <1>6, <2>2 DEF PhasesOK, Unloads, Live, Final
    <2> QED  BY <1>1, <2>5, <2>6, <2>7 DEF PhasesOK
  <1>12. CurrentOK'
    <2>1. Live(consumer)' = Live(consumer)
      BY <1>6 DEF Live
    <2>2. ~At("inst")' /\ Top'.pc \in UnloadPc
      BY <1>7 DEF At, UnloadPc
    <2>3. ASSUME NEW i \in 2..(n + 1), stack'[i].pc \in UnloadPc, stack'[i - 1].pc \notin UnloadPc
          PROVE  \/ consumer' = stack'[i].t /\ parent'[stack'[i].t] = None
                 \/ Expected(stack[i - 1])'
      <3>1. i - 1 \in 1..n
        BY <1>1
      <3>2. Same(stack'[i - 1], stack[i - 1])
        BY <1>2, <3>1
      <3>3. Expected(stack[i - 1])' = Expected(stack[i - 1])
        BY <1>6, <3>2 DEF Expected, Target, Settled, Same
      <3>4. CASE i = n + 1
        BY <1>1, <1>4, <2>3, <3>2, <3>3, <3>4 DEF CurrentOK, Same, UnloadPc
      <3>5. CASE i # n + 1
        <4>1. i \in 2..n /\ i \in 1..n
          BY <1>1, <3>5
        <4> QED  BY <1>5, <1>6, <2>3, <3>1, <3>3, <4>1 DEF CurrentOK
      <3> QED  BY <3>4, <3>5
    <2> QED  BY <1>1, <1>6, <2>1, <2>2, <2>3 DEF CurrentOK
  <1> QED  BY <1>9, <1>10, <1>11, <1>12

LEMMA UnloadKeepsFront ==
  ASSUME IInv, IInv', StateInv, Rooted(parent), FrontOK, NEW c \in Txn, Unloads(c)
  PROVE  Rooted(parent)' /\ FrontOK'
  <1> DEFINE n == Depth
             root(u) == RootOf(parent, u)
  <1>1. /\ n \in Nat /\ n >= 1 /\ Depth' = n + 1
        /\ Top = stack[n] /\ Top' = stack'[n + 1] /\ n \in 1..n
    BY UnloadFacts
  <1>2. \A i \in 1..n : Same(stack'[i], stack[i])
    BY UnloadFacts
  <1>3. /\ Top.pc = "client" => n = 1 /\ Top.t = None
        /\ Top.pc = "revert" => n > 1 /\ Top.t \in Txn
    BY UnloadFacts
  <1>4. \A i \in 1..n : stack'[i].t = stack[i].t /\ stack'[i].pc = stack[i].pc
    BY <1>2 DEF Same
  <1>5. /\ state' = state /\ parent' = parent /\ next' = next /\ transactions' = transactions
        /\ GetLastTransaction' = GetLastTransaction
    BY DEF Unloads, listVars, GetLastTransaction
  <1>6. stack'[n + 1].pc = "dtor" /\ stack'[n + 1].t = c
    BY <1>1 DEF Unloads
  <1>7. \A i \in 1..n : Aside(stack[i]) => Aside(stack[i])'
    BY <1>4, <1>5 DEF Aside
  <1>8. \A i \in 1..(n + 1) : i \in 1..n \/ i = n + 1
    BY <1>1
  <1>9. root(c) = IF parent[c] = None THEN c ELSE root(parent[c])
    BY RootStep
  <1> HIDE DEF root
  <1>10. ChainOK'
    BY <1>5 DEF FrontOK, ChainOK
  <1>11. /\ next[root(c)] = None
         /\ parent[c] = None => c = GetLastTransaction
         /\ \A i \in 1..n : ~Aside(stack[i]) => parent[c] # None /\ root(stack[i].t) = root(c)
         /\ \E j \in 1..(n + 1) : stack'[j].t = root(c)
    <2>1. CASE Top.pc = "client" /\ c = GetLastTransaction
      <3>1. parent[c] = None /\ next[c] = None
        BY <2>1, ListFacts, TxnAssumption DEF FrontOK
      <3>2. \A i \in 1..n : Aside(stack[i])
        BY <1>1, <1>3, <2>1 DEF Aside
      <3>3. n + 1 \in 1..(n + 1)
        BY <1>1
      <3> QED  BY <1>6, <1>9, <2>1, <3>1, <3>2, <3>3
    <2>2. CASE Top.pc = "revert" /\ parent[c] = Top.t
      <3>1. parent[c] # None /\ root(c) = root(Top.t) /\ n \in 2..n
        BY <1>1, <1>3, <1>9, <2>2, TxnAssumption
      <3>2. ~Aside(Top)
        BY <1>3, <2>2, TxnAssumption DEF Aside
      <3>3. next[root(c)] = None
        BY <1>1, <3>1, <3>2 DEF FrontOK, root
      <3>4. \A i \in 1..n : ~Aside(stack[i]) => root(stack[i].t) = root(c)
        <4> SUFFICES ASSUME NEW i \in 1..n, ~Aside(stack[i])
                     PROVE  root(stack[i].t) = root(Top.t)
          BY <3>1
        <4>1. i = n \/ i < n
          BY <1>1
        <4> QED  BY <1>1, <4>1 DEF FrontOK, root
      <3>5. PICK j \in 1..n : stack[j].t = root(Top.t)
        BY <1>1, <3>1 DEF FrontOK, root
      <3>6. j \in 1..(n + 1)
        BY <1>1
      <3> QED  BY <1>4, <3>1, <3>3, <3>4, <3>5, <3>6
    <2> QED  BY <2>1, <2>2 DEF Unloads
  <1>12. ASSUME NEW i \in 1..(n + 1), ~Aside(stack[i])'
         PROVE  /\ next[root(stack'[i].t)] = None
                /\ parent[stack'[i].t] = None /\ stack'[i].pc \notin ParsePc =>
                     stack'[i].t = GetLastTransaction
    BY <1>4, <1>6, <1>7, <1>8, <1>11, <1>12 DEF FrontOK, root
  <1>13. ASSUME NEW i \in 1..(n + 1), NEW j \in 1..(n + 1), i < j, ~Aside(stack[i])'
         PROVE  parent[stack'[j].t] # None /\ root(stack'[i].t) = root(stack'[j].t)
    <2>1. i \in 1..n /\ ~Aside(stack[i])
      BY <1>1, <1>7, <1>13
    <2> QED  BY <1>4, <1>6, <1>8, <1>11, <1>13, <2>1 DEF FrontOK, root
  <1>14. ASSUME NEW i \in 2..(n + 1)
         PROVE  \E j \in 1..i : stack'[j].t = root(stack'[i].t)
    <2>1. CASE i = n + 1
      BY <1>6, <1>11, <2>1
    <2>2. CASE i # n + 1
      <3>1. i \in 2..n /\ i \in 1..n /\ 1..i \subseteq 1..n
        BY <1>1, <2>2
      <3>2. PICK j \in 1..i : stack[j].t = root(stack[i].t)
        BY <3>1 DEF FrontOK, root
      <3> QED  BY <1>4, <3>1, <3>2
    <2> QED  BY <2>1, <2>2
  <1> QED  BY <1>1, <1>5, <1>10, <1>12, <1>13, <1>14 DEF FrontOK, root

(***************************************************************************)
(* The bottom frame is the only one, or calls the only other.              *)
(***************************************************************************)

Boots ==
  /\ \/ Len(stack') = 1 /\ Top'.pc \in {"boot", "booted", "client"}
     \/ Len(stack') = 2 /\ stack'[1].pc = "client" /\ stack'[1].t = None
        /\ stack'[1].prev = None /\ Top'.pc = "check"
  /\ Top'.pc \in {"boot", "client"} => Top'.t = None
  /\ Top'.t = None => Top'.prev = None
  /\ Top'.t # None =>
       /\ PhaseOK(Top)' /\ parent'[Top'.t] = None
       /\ consumer' = Top'.t
       /\ Top'.t = GetLastTransaction' /\ next'[Top'.t] = None
  /\ Top'.t = None => Settled(consumer)'
  /\ consumer' # None => Live(consumer)'
  /\ \A u \in Txn : /\ state'[u] \in Building => u = Top'.t
                    /\ ~Live(u)' => ~unloading'[u]
  /\ ChainOK' /\ Rooted(parent)'

LEMMA BootKeeps ==
  ASSUME IInv', Boots
  PROVE  StateInv' /\ FrontOK'
  <1>1. WellFormed(stack')
    BY DEF IInv, StackOK
  <1>2. Top' = stack'[Depth']
    BY <1>1, DepthFacts DEF Top, Depth
  <1>3. /\ Depth' \in {1, 2}
        /\ Depth' = 2 => stack'[1].pc = "client" /\ stack'[1].t = None /\ Top'.pc = "check"
        /\ Depth' = 1 => Top'.pc \in {"boot", "booted", "client"}
    BY DEF Boots, Depth
  <1>4. Depth' = 2 => stack'[2].t \in Txn
    BY <1>1, <1>3, DepthFacts DEF Depth
  <1>5. \A i \in 1..Depth' : i = 1 \/ i = 2
    BY <1>3
  <1>6. /\ Depth' = 1 => Top' = stack'[1]
        /\ Depth' = 2 => Top' = stack'[2] /\ Top'.t # None
    BY <1>2, <1>4, TxnAssumption
  <1>7. ShapeOK'
    <2> SUFFICES ASSUME NEW i \in 1..Depth'
                 PROVE  /\ stack'[i].pc = "bootparse" => i = 2 /\ stack'[1].pc = "boot"
                        /\ stack'[i].pc \in {"check", "inst", "dtor"} => i = Depth'
                        /\ stack'[i].pc \in {"boot", "client"} => stack'[i].t = None
                        /\ stack'[i].t = None => stack'[i].prev = None
                        /\ stack'[i].pc = "revert" => ~errorOut'
                        /\ stack'[i].pc \in UnloadPc => \A j \in i..Depth' : stack'[j].pc \in UnloadPc
      BY DEF ShapeOK
    <2> QED  BY <1>3, <1>5, <1>6 DEF UnloadPc, Boots
  <1>8. LineageOK'
    <2>1. \A i, j \in 1..Depth' : stack'[i].t # None /\ stack'[i].t = stack'[j].t => i = j
      BY <1>3, <1>5, <1>6
    <2>2. \A i \in 1..(Depth' - 1) : parent'[stack'[i + 1].t] = Target(stack[i])'
      <3> SUFFICES ASSUME NEW i \in 1..(Depth' - 1)
                   PROVE  parent'[stack'[i + 1].t] = Target(stack[i])'
        OBVIOUS
      <3>0. Depth' = 1 \/ Depth' = 2
        BY <1>3
      <3>1. i = 1 /\ i + 1 = 2 /\ Depth' = 2
        <4>1. CASE Depth' = 1
          BY <4>1
        <4>2. CASE Depth' = 2
          BY <4>2
        <4> QED  BY <3>0, <4>1, <4>2
      <3>2. parent'[stack'[i + 1].t] = None
        BY <1>6, <3>1 DEF Boots
      <3>3. Target(stack[i])' = None
        BY <1>3, <3>1 DEF Target
      <3> QED  BY <3>2, <3>3
    <2>3. \A i \in 2..Depth' : parent'[stack'[i].t] = None
      <3> SUFFICES ASSUME NEW i \in 2..Depth'  PROVE parent'[stack'[i].t] = None
        OBVIOUS
      <3>1. i = 2 /\ Depth' = 2
        BY <1>3
      <3> QED  BY <1>6, <3>1 DEF Boots
    <2> QED  BY <2>1, <2>2, <2>3 DEF LineageOK
  <1>9. PhasesOK'
    <2>1. \A i \in 1..Depth' : stack'[i].t # None => PhaseOK(stack[i])'
      BY <1>3, <1>5, <1>6 DEF Boots, PhaseOK
    <2>2. ASSUME NEW u \in Txn, state'[u] \in Building
          PROVE  \E i \in 1..Depth' : stack'[i].t = u
      <3>1. Depth' \in 1..Depth'
        BY <1>3
      <3> QED  BY <1>2, <2>2, <3>1 DEF Boots
    <2> QED  BY <2>1, <2>2 DEF PhasesOK, Boots
  <1>10. CurrentOK'
    <2>1. Top'.pc \notin UnloadPc \cup {"inst"}
      BY <1>3 DEF UnloadPc
    <2>2. Expected(Top)'
      <3>1. CASE Top'.t = None
        <4>1. Target(Top)' = None
          BY <1>3, <1>6, <3>1 DEF Target
        <4> QED  BY <3>1, <4>1 DEF Expected, Boots
      <3>2. CASE Top'.t # None
        <4>1. Target(Top)' = Top'.t
          BY <1>3, <3>2 DEF Target, Boots
        <4> QED  BY <3>2, <4>1 DEF Expected, Boots
      <3> QED  BY <3>1, <3>2
    <2>3. \A i \in 2..Depth' : stack'[i].pc \notin UnloadPc
      <3> SUFFICES ASSUME NEW i \in 2..Depth'  PROVE stack'[i].pc \notin UnloadPc
        OBVIOUS
      <3>1. i = 2 /\ Depth' = 2
        BY <1>3
      <3> QED  BY <1>3, <1>6, <3>1 DEF UnloadPc
    <2> QED  BY <2>1, <2>2, <2>3 DEF CurrentOK, Boots, At
  <1>11. FrontOK'
    <2>1. ASSUME NEW i \in 1..Depth', ~Aside(stack[i])'
          PROVE  i = Depth' /\ stack'[i] = Top' /\ Top'.t # None
      BY <1>2, <1>3, <1>5, <2>1 DEF Aside
    <2>2. Top'.t # None => Top'.t \in Txn /\ RootOf(parent', Top'.t) = Top'.t
      <3>1. Top'.t # None => Top'.t \in Txn
        <4>1. Depth' \in 1..Depth'
          BY <1>3
        <4>2. stack'[Depth'] \in Frame
          BY <1>1, <4>1, DepthFacts DEF Depth
        <4> QED  BY <1>2, <4>2 DEF Frame, Pointer
      <3>2. Rooted(parent') /\ (Top'.t # None => parent'[Top'.t] = None)
        BY DEF Boots
      <3> QED  BY <3>1, <3>2, RootStep
    <2>3. \A i \in 1..Depth' : ~Aside(stack[i])' =>
            /\ next'[RootOf(parent', stack'[i].t)] = None
            /\ parent'[stack'[i].t] = None /\ stack'[i].pc \notin ParsePc =>
                 stack'[i].t = GetLastTransaction'
      BY <2>1, <2>2 DEF Boots
    <2>4. \A i, j \in 1..Depth' : i < j /\ ~Aside(stack[i])' => FALSE
      BY <1>3, <2>1
    <2>5. ASSUME NEW i \in 2..Depth'
          PROVE  \E j \in 1..i : stack'[j].t = RootOf(parent', stack'[i].t)
      <3>1. i = 2 /\ Depth' = 2 /\ i \in 1..i
        BY <1>3
      <3> QED  BY <1>6, <2>2, <3>1
    <2> QED  BY <2>3, <2>4, <2>5 DEF FrontOK, Boots
  <1> QED  BY <1>7, <1>8, <1>9, <1>10, <1>11 DEF StateInv

(***************************************************************************)
(* What the operations are.                                                *)
(***************************************************************************)

CallsInv == StateInv /\ Rooted(parent) /\ FrontOK

(* The function at the top and its transaction. *)
LEMMA TopPhase ==
  ASSUME IInv, StateInv
  PROVE  /\ Top \in Frame /\ Top = stack[Depth] /\ Depth \in Nat /\ Depth >= 1
         /\ Top.t # None => PhaseOK(Top) /\ Top.t \in Txn /\ Live(Top.t)
         /\ Top.t = None => Top.prev = None
         /\ Top.t # None /\ parent[Top.t] # None =>
              parent[Top.t] \in Txn /\ Live(parent[Top.t]) /\ parent[Top.t] # Top.t
         /\ Depth = 1 <=> Top.pc \in BottomPc
         /\ Depth > 1 => /\ Top.t \in Txn /\ Top.t # None
                         /\ stack[Depth - 1].pc \notin {"check", "inst", "dtor"}
                         /\ stack[Depth - 1].pc \in UnloadPc =>
                              Top.pc \in UnloadPc /\ ~errorOut
                         /\ parent[Top.t] = Target(stack[Depth - 1])
  <1> DEFINE n == Depth
  <1>1. /\ n \in Nat /\ n >= 1 /\ Top = stack[n] /\ n \in 1..n /\ Top \in Frame
        /\ n = 1 <=> Top.pc \in BottomPc
        /\ n > 1 => Top.t \in Txn /\ Top.t # None
    BY TopFrame, TxnAssumption
  <1>2. Top.t # None => PhaseOK(Top) /\ Top.t \in Txn /\ Live(Top.t)
    BY <1>1, FramesLive DEF StateInv, PhasesOK
  <1>3. ASSUME Top.t # None, parent[Top.t] # None
        PROVE  parent[Top.t] \in Txn /\ Live(parent[Top.t]) /\ parent[Top.t] # Top.t
    <2>1. parent[Top.t] \in Txn /\ Live(parent[Top.t])
      BY <1>1, <1>3, FramesLive DEF StateInv, Pointer
    <2>2. n \in 2..n
      <3>1. CASE n = 1
        <4>1. Top.pc = "booted"
          BY <1>1, <1>3, <3>1 DEF StateInv, ShapeOK, BottomPc
        <4> QED  BY <1>2, <1>3, <4>1 DEF PhaseOK
      <3> QED  BY <1>1, <3>1
    <2>3. PICK j \in 1..(n - 1) : stack[j].t = parent[Top.t]
      BY <1>1, <1>3, <2>2 DEF StateInv, LineageOK
    <2>4. j \in 1..n /\ j # n
      BY <1>1, <2>2
    <2> QED  BY <1>1, <1>3, <2>1, <2>3, <2>4 DEF StateInv, LineageOK
  <1>4. ASSUME n > 1
        PROVE  /\ stack[n - 1].pc \notin {"check", "inst", "dtor"}
               /\ stack[n - 1].pc \in UnloadPc => Top.pc \in UnloadPc /\ ~errorOut
               /\ parent[Top.t] = Target(stack[n - 1])
    <2>1. n - 1 \in 1..(n - 1) /\ n - 1 \in 1..n /\ n - 1 # n /\ n - 1 + 1 = n /\ n \in (n - 1)..n
      BY <1>1, <1>4
    <2>2. parent[Top.t] = Target(stack[n - 1])
      BY <1>1, <2>1 DEF StateInv, LineageOK
    <2> QED  BY <1>1, <2>1, <2>2 DEF StateInv, ShapeOK, UnloadPc
  <1>5. Top.t = None => Top.prev = None
    BY <1>1 DEF StateInv, ShapeOK
  <1> QED  BY <1>1, <1>2, <1>3, <1>4, <1>5

(* The opened transaction nests where it is expected to. *)
LEMMA BeginNests ==
  ASSUME IInv, NEW f, f \in Frame, f.pc \notin UnloadPc,
         f.pc \in {"boot", "client"} => f.t = None,
         f.t = None => f.pc \in BottomPc,
         f.t # None => PhaseOK(f),
         NEW cur \in Pointer,
         IF Target(f) = None THEN Settled(cur) ELSE cur = Target(f),
         NEW t \in Txn, BeginTransaction(cur, t)
  PROVE  parent' = [parent EXCEPT ![t] = Target(f)]
  <1>1. /\ parent \in [Txn -> Pointer] /\ state \in [Txn -> State]
        /\ ~Live(t)
    BY DEF IInv, TransactionInv, TransactionTypeOK, BeginTransaction
  <1>2. parent[t] = None
    BY <1>1, FreeFacts
  <1>3. CASE Target(f) = None
    <2>1. ~NestsIn(cur)
      BY <1>3 DEF Settled, NestsIn, Final
    <2>2. parent' = parent
      BY <2>1 DEF BeginTransaction, treeVars
    <2> QED  BY <1>1, <1>2, <1>3, <2>2
  <1>4. CASE Target(f) # None
    <2>1. f.t # None /\ f.pc \notin {"boot", "client", "init"}
      BY <1>4 DEF Target, BottomPc
    <2>2. f.pc \in ParsePc \cup WorkPc \cup {"booted", "callback"}
      BY <2>1 DEF Frame, Pc, BottomPc, ParsePc, CommitPc, UnloadPc, WorkPc
    <2>3. state[Target(f)] \in Building
      <3>1. CASE f.pc = "callback"
        BY <1>4, <2>1, <3>1 DEF PhaseOK, Target, UnloadPc
      <3>2. CASE f.pc # "callback"
        BY <2>1, <2>2, <3>2 DEF PhaseOK, Target, Building
      <3> QED  BY <3>1, <3>2
    <2>4. NestsIn(cur)
      BY <1>4, <2>3 DEF NestsIn, Building
    <2> QED  BY <1>4, <2>4 DEF BeginTransaction, AddNestedTransaction
  <1> QED  BY <1>3, <1>4

LEMMA OpenKeeps ==
  ASSUME IInv, IInv', CallsInv, NEW t \in Txn, NEW g, NEW h, Opens(g, h, t)
  PROVE  CallsInv'
  BY OpenKeepsState, OpenKeepsFront DEF CallsInv

(* A function calls one that begins a transaction. *)
LEMMA CallKeeps ==
  ASSUME IInv, IInv', CallsInv, errorOut' = errorOut,
         NEW cur \in Pointer, NEW t \in Txn, BeginTransaction(cur, t),
         NEW g \in Frame, NEW h \in Frame, CallFrom(g, h),
         Top.pc \notin UnloadPc, g.t = Top.t,
         g.pc \notin UnloadPc \cup {"check", "inst"},
         g.pc \in BottomPc => g.pc = Top.pc,
         g.t # None => PhaseOK(g),
         g.t = None => g.prev = None,
         Aside(g) <=> Aside(Top),
         g.pc \in ParsePc \cup {"bootparse"} => g.pc = Top.pc,
         Top.pc \in ParsePc => g.pc \in ParsePc,
         IF Target(g) = None THEN Settled(cur) ELSE cur = Target(g),
         h.pc \in ParsePc, h.t = t, h.prev = None,
         h.pc = "bootparse" => g.pc = "boot"
  PROVE  CallsInv'
  <1>1. StateInv /\ StackOK
    BY DEF CallsInv, IInv
  <1>2. /\ Top = stack[Depth] /\ Depth \in Nat /\ Depth >= 1
        /\ Depth = 1 <=> Top.pc \in BottomPc
        /\ Depth > 1 => Top.t # None
        /\ Top.pc \in {"boot", "client"} => Top.t = None
    <2>1. Depth \in 1..Depth /\ Top = stack[Depth]
      BY <1>1, TopPhase
    <2> QED  BY <1>1, <2>1, TopPhase DEF StateInv, ShapeOK
  <1>3. /\ Len(stack') = Depth + 1 /\ stack'[Depth] = g /\ stack'[Depth + 1] = h
        /\ Kept(Depth - 1)
    <2>1. \A i \in 1..(Depth - 1) : stack'[i] = stack[i]
      BY <1>1, CallFrames
    <2> QED  BY <1>1, <2>1, CallFrames DEF Kept, Same
  <1>4. parent' = [parent EXCEPT ![t] = Target(g)]
    <2>1. /\ g.pc \in {"boot", "client"} => g.t = None
          /\ g.t = None => g.pc \in BottomPc
      <3>1. g.t = None => g.pc \in BottomPc
        <4>1. g.t = None => Depth = 1
          BY <1>2
        <4>2. Depth = 1 => WellFormed(stack')
          BY DEF IInv, StackOK
        <4>3. Depth = 1 => stack'[1] = g
          BY <1>3
        <4> QED  BY <4>1, <4>2, <4>3, DepthFacts
      <3> QED  BY <1>2, <3>1 DEF BottomPc
    <2> QED  BY <2>1, BeginNests
  <1>5. Opens(g, h, t)
    <2>1. UNCHANGED listVars /\ UNCHANGED unloading /\ consumer' = t /\ ~Live(t)
          /\ state' = [state EXCEPT ![t] = "kCollecting"]
      BY DEF BeginTransaction
    <2>2. g.pc \in {"boot", "client"} => g.t = None
      BY <1>2 DEF BottomPc
    <2>3. g.pc = "boot" => Depth = 1
      BY <1>2 DEF BottomPc
    <2> QED  BY <1>3, <1>4, <2>1, <2>2, <2>3 DEF Opens, ParsePc
  <1> QED  BY <1>5, OpenKeeps

(* A call of the embedder, of the constructor, or of user code. *)
LEMMA BeginKeeps ==
  ASSUME Tame, IInv, IInv', CallsInv, errorOut' = errorOut,
         NEW c \in {"compile", "lookup"}, NEW t \in Txn, Begin(c, t)
  PROVE  CallsInv'
  <1> DEFINE g == CallerAfter(Top)
             h == NewFrame(c, t, c = "lookup" /\ diagError)
  <1>1. StateInv
    BY DEF CallsInv
  <1>2. /\ Top \in Frame /\ (Top.t # None => PhaseOK(Top))
        /\ Top.t = None => Top.prev = None
    BY <1>1, TopPhase
  <1>3. /\ c \in Calls(Top.pc) /\ (Top.pc \in BottomPc \/ Top.fuel > 0)
        /\ BeginTransaction(consumer, t) /\ CallFrom(g, h)
    BY DEF Begin, MayCall
  <1>4. g \in Frame /\ Same(g, Top)
    <2>1. CASE Top.pc \in BottomPc
      BY <1>2, <2>1 DEF CallerAfter, Same
    <2>2. CASE Top.pc \notin BottomPc
      <3>1. g = Spend(Top) /\ Spend(Top) \in Frame
        BY <1>2, <1>3, <2>2, SpendType DEF CallerAfter
      <3> QED  BY <1>2, <3>1 DEF Spend, Frame, Same
    <2> QED  BY <2>1, <2>2
  <1>5. h \in Frame /\ h.pc = c /\ h.t = t /\ h.prev = None
    <2>1. c \in Pc /\ t \in Pointer /\ (c = "lookup" /\ diagError) \in BOOLEAN
      BY DEF Pc, ParsePc, Pointer
    <2> QED  BY <2>1, NewFrameType DEF NewFrame
  <1> HIDE DEF g, h
  <1>6. Top.pc \in ParsePc \cup {"booted", "client", "init", "callback"}
    BY <1>2, <1>3 DEF Calls, Tame, Frame, Pc, BottomPc, ParsePc, CommitPc, UnloadPc, UserPc
  <1>7. g.pc = Top.pc /\ g.t = Top.t /\ (g.t = None => g.prev = None)
    BY <1>2, <1>4 DEF Same
  <1>8. Target(g) = Target(Top) /\ (g.t # None => PhaseOK(g)) /\ (Aside(g) <=> Aside(Top))
    BY <1>2, <1>4 DEF Same, Target, PhaseOK, Aside
  <1>9. IF Target(g) = None THEN Settled(consumer) ELSE consumer = Target(g)
    BY <1>1, <1>6, <1>8 DEF StateInv, CurrentOK, Expected, ParsePc, UnloadPc
  <1>10. consumer \in Pointer
    BY DEF IInv, TransactionInv, TransactionTypeOK
  <1>11. Top.pc \notin UnloadPc /\ Top.pc \notin {"check", "inst"}
    BY <1>6 DEF UnloadPc, ParsePc
  <1>12. h.pc \in ParsePc /\ h.pc # "bootparse"
    BY <1>5 DEF ParsePc
  <1> QED  BY <1>3, <1>4, <1>5, <1>7, <1>8, <1>9, <1>10, <1>11, <1>12, CallKeeps DEF ParsePc

(* The constructor begins its transaction. *)
LEMMA BootBeginKeeps ==
  ASSUME IInv, IInv', CallsInv, errorOut' = errorOut, NEW t \in Txn, BootBegin(t)
  PROVE  CallsInv'
  <1> DEFINE h == NewFrame("bootparse", t, FALSE)
  <1>1. StateInv
    BY DEF CallsInv
  <1>2. /\ Top \in Frame /\ (Top.t # None => PhaseOK(Top)) /\ Top = stack[Depth]
        /\ Depth \in 1..Depth /\ (Top.t = None => Top.prev = None)
    BY <1>1, TopPhase
  <1>3. Top.pc = "boot" /\ BeginTransaction(consumer, t) /\ CallFrom(Top, h)
    BY DEF BootBegin, At
  <1>4. h \in Frame /\ h.pc = "bootparse" /\ h.t = t /\ h.prev = None
    <2>1. "bootparse" \in Pc /\ t \in Pointer
      BY DEF Pc, ParsePc, Pointer
    <2> QED  BY <2>1, NewFrameType DEF NewFrame
  <1> HIDE DEF h
  <1>5. Expected(Top)
    BY <1>1, <1>3 DEF StateInv, CurrentOK, UnloadPc
  <1>6. consumer \in Pointer
    BY DEF IInv, TransactionInv, TransactionTypeOK
  <1> QED  BY <1>2, <1>3, <1>4, <1>5, <1>6, CallKeeps DEF Expected, ParsePc, UnloadPc

(* commitTransaction begins a nested one. *)
LEMMA NestKeeps ==
  ASSUME IInv, IInv', CallsInv, errorOut' = errorOut, NEW t \in Txn, Open(t)
  PROVE  CallsInv'
  <1>1. StateInv
    BY DEF CallsInv
  <1>2. Top \in Frame /\ Top.pc \in {"inst", "deser", "weak"}
    BY <1>1, TopPhase DEF Open, OpenInstantiations, OpenDeserialization, OpenTranslation, At
  <1>3. /\ Top.t \in Txn /\ Top.t # None /\ PhaseOK(Top) /\ Top.t \in Pointer
        /\ consumer \in Pointer
    <2>1. Top.pc \notin BottomPc
      BY <1>2 DEF BottomPc
    <2> QED  BY <1>1, <2>1, TopPhase, TopFrame DEF Pointer, IInv, TransactionInv, TransactionTypeOK
  <1>4. "sub" \in Pc /\ t \in Pointer
    BY DEF Pc, ParsePc, Pointer
  <1> DEFINE h == NewFrame("sub", t, FALSE)
             h0 == [NewFrame("sub", t, FALSE) EXCEPT !.fuel = 0]
  <1>5. /\ h \in Frame /\ h.pc = "sub" /\ h.t = t /\ h.prev = None
        /\ h0 \in Frame /\ h0.pc = "sub" /\ h0.t = t /\ h0.prev = None
    BY <1>4, NewFrameType DEF NewFrame
  <1>6. CASE OpenInstantiations(t)
    <2> DEFINE g == [Top EXCEPT !.pc = "deser", !.prev = consumer]
    <2>1. At("inst") /\ BeginTransaction(Top.t, t) /\ CallFrom(g, h)
      BY <1>6 DEF OpenInstantiations
    <2>2. g \in Frame /\ g.pc = "deser" /\ g.t = Top.t /\ g.prev = consumer
      BY <1>2, <1>3 DEF Frame, Pc, CommitPc
    <2> HIDE DEF g, h
    <2>3. PhaseOK(g)
      <3>1. consumer = Home(Top.t)
        BY <1>1, <2>1 DEF StateInv, CurrentOK
      <3> QED  BY <1>3, <2>1, <2>2, <3>1 DEF PhaseOK, At, ParsePc, WorkPc, DonePc, UnloadPc
    <2>4. Target(g) = Top.t /\ ~Aside(g) /\ ~Aside(Top)
      BY <1>2, <1>3, <2>2 DEF Target, Aside
    <2> QED  BY <1>2, <1>3, <1>5, <2>1, <2>2, <2>3, <2>4, CallKeeps DEF ParsePc, UnloadPc, BottomPc
  <1>7. CASE OpenDeserialization(t)
    <2> DEFINE g == [Top EXCEPT !.pc = IF parent[Top.t] = None THEN "weak" ELSE "exec"]
    <2>1. At("deser") /\ BeginTransaction(Top.t, t) /\ CallFrom(g, h0)
      BY <1>7 DEF OpenDeserialization
    <2>2. /\ g \in Frame /\ g.pc = IF parent[Top.t] = None THEN "weak" ELSE "exec"
          /\ g.t = Top.t /\ g.prev = Top.prev
      BY <1>2, <1>3 DEF Frame, Pc, CommitPc
    <2> HIDE DEF g, h0
    <2>3. PhaseOK(g)
      BY <1>3, <2>1, <2>2 DEF PhaseOK, At, ParsePc, WorkPc, DonePc, UnloadPc
    <2>4. Target(g) = Top.t /\ ~Aside(g) /\ ~Aside(Top)
      BY <1>2, <1>3, <2>2 DEF Target, Aside
    <2> QED  BY <1>2, <1>3, <1>5, <2>1, <2>2, <2>3, <2>4, CallKeeps DEF ParsePc, UnloadPc, BottomPc
  <1>8. CASE OpenTranslation(t)
    <2> DEFINE g == [Top EXCEPT !.pc = "exec"]
    <2>1. At("weak") /\ BeginTransaction(consumer, t) /\ CallFrom(g, h)
      BY <1>8 DEF OpenTranslation
    <2>2. g \in Frame /\ g.pc = "exec" /\ g.t = Top.t /\ g.prev = Top.prev
      BY <1>2, <1>3 DEF Frame, Pc, CommitPc
    <2> HIDE DEF g, h
    <2>3. PhaseOK(g)
      BY <1>3, <2>1, <2>2 DEF PhaseOK, At, ParsePc, WorkPc, DonePc, UnloadPc
    <2>4. Target(g) = Top.t /\ Target(Top) = Top.t /\ ~Aside(g) /\ ~Aside(Top)
      BY <1>2, <1>3, <2>1, <2>2 DEF Target, Aside, At
    <2>5. consumer = Top.t
      BY <1>1, <1>3, <2>1, <2>4 DEF StateInv, CurrentOK, Expected, At, UnloadPc
    <2> QED  BY <1>2, <1>3, <1>5, <2>1, <2>2, <2>3, <2>4, <2>5, CallKeeps DEF ParsePc, UnloadPc, BottomPc
  <1> QED  BY <1>6, <1>7, <1>8 DEF Open

(* An event of a parse changes nothing here. *)
LEMMA ParseStays ==
  ASSUME IInv, CallsInv, errorOut' = errorOut, Parse
  PROVE  Stays
  <1>1. StateInv /\ StackOK
    BY DEF CallsInv, IInv
  <1>2. Top \in Frame /\ Top = stack[Depth] /\ Depth \in Nat /\ Depth >= 1
    BY <1>1, TopPhase
  <1>3. Len(stack') = Depth /\ Kept(Depth)
    <2>1. CASE LookupReset
      BY <2>1 DEF LookupReset, Kept, Same, Depth
    <2>2. CASE Top.fuel > 0 /\ Goto(Spend(Top))
      <3>1. Spend(Top) \in Frame /\ Same(Spend(Top), Top)
        <4>1. Spend(Top) \in Frame
          BY <1>2, <2>2, SpendType
        <4> QED  BY <1>2, <4>1 DEF Spend, Frame, Same
      <3>2. /\ Len(stack') = Depth /\ stack'[Depth] = Spend(Top)
            /\ \A i \in 1..(Depth - 1) : stack'[i] = stack[i]
        BY <1>1, <2>2, <3>1, GotoFrames
      <3>3. \A i \in 1..Depth : i = Depth \/ i \in 1..(Depth - 1)
        BY <1>2
      <3>4. \A i \in 1..Depth : Same(stack'[i], stack[i])
        BY <1>2, <3>1, <3>2, <3>3 DEF Same
      <3> QED  BY <3>2, <3>4 DEF Kept
    <2> QED  BY <2>1, <2>2 DEF Parse, AppendDecl, ParseError, TransformerError
  <1>4. UNCHANGED <<state, parent, unloading, consumer, listVars>>
    BY DEF Parse, AppendDecl, ParseError, TransformerError, LookupReset, treeVars, listVars
  <1> QED  BY <1>3, <1>4 DEF Stays

LEMMA ParseKeeps ==
  ASSUME IInv, IInv', CallsInv, errorOut' = errorOut, Parse
  PROVE  CallsInv'
  BY ParseStays, StayKeeps DEF CallsInv

(* The function at the top goes on. *)
LEMMA GotoTop ==
  ASSUME IInv, StateInv, Depth > 1, NEW f \in Frame, Goto(f)
  PROVE  Len(stack') = Depth /\ Kept(Depth - 1) /\ Top' = f
  <1>1. StackOK /\ Depth \in Nat
    BY TopPhase DEF IInv
  <1>2. /\ Len(stack') = Depth /\ stack'[Depth] = f
        /\ \A i \in 1..(Depth - 1) : stack'[i] = stack[i]
    BY <1>1, GotoFrames
  <1> QED  BY <1>1, <1>2 DEF Kept, Same, Top, Last

LEMMA MoveKeeps ==
  ASSUME IInv, IInv', CallsInv, Moves, UNCHANGED listVars,
         Aside(Top) => Aside(Top)', Top.pc \notin ParsePc
  PROVE  CallsInv'
  BY MoveKeepsState, MoveKeepsFront DEF CallsInv

(* commitTransaction looks for errors. *)
LEMMA CheckKeeps ==
  ASSUME IInv, IInv', CallsInv, errorOut' = errorOut, CommitCheck
  PROVE  CallsInv'
  <1>1. StateInv
    BY DEF CallsInv
  <1>2. Top.pc = "check" /\ Top.pc \notin BottomPc /\ Top.pc \notin ParsePc \cup UnloadPc
    BY DEF CommitCheck, At, BottomPc, ParsePc, UnloadPc
  <1>3. /\ Depth > 1 /\ Top \in Frame /\ Top.t \in Txn /\ Top.t # None /\ PhaseOK(Top)
        /\ stack[Depth - 1].pc \notin UnloadPc
        /\ Top.t \in Pointer
        /\ parent[Top.t] # None => parent[Top.t] # Top.t /\ parent[Top.t] \in Txn
    BY <1>1, <1>2, TopPhase DEF Pointer
  <1>4. consumer = Top.t
    BY <1>1, <1>2, <1>3 DEF StateInv, CurrentOK, Expected, Target
  <1>5. consumer' = Home(Top.t)
    BY <1>4 DEF CommitCheck, Home
  <1>6. UNCHANGED <<state, parent, listVars>>
    BY DEF CommitCheck, treeVars
  <1>7. state[Top.t] = "kCompleted" /\ ~unloading[Top.t] /\ Top.prev = None
    BY <1>2, <1>3 DEF PhaseOK, WorkPc
  <1>8. CASE IssuedErrors(Top.t)
    <2> DEFINE f == UnloadFrame(Top.t, FALSE)
    <2>1. unloading' = [unloading EXCEPT ![Top.t] = TRUE] /\ Goto(f)
      BY <1>8 DEF CommitCheck
    <2>2. f \in Frame /\ f.pc = "dtor" /\ f.t = Top.t /\ f.prev = None
      <3>1. "dtor" \in Pc
        BY DEF Pc, UnloadPc
      <3> QED  BY <1>3, <3>1, NewFrameType DEF UnloadFrame, NewFrame
    <2> HIDE DEF f
    <2>3. Len(stack') = Depth /\ Kept(Depth - 1) /\ Top' = f
      BY <1>1, <1>3, <2>1, <2>2, GotoTop
    <2>4. PhaseOK(Top)'
      BY <1>6, <1>7, <2>2, <2>3 DEF PhaseOK, ParsePc, WorkPc, DonePc, UnloadPc
    <2>5. \A u \in Txn : u # Top.t => unloading'[u] = unloading[u]
      BY <2>1 DEF IInv, TransactionInv, TransactionTypeOK
    <2>6. Moves
      BY <1>2, <1>3, <1>5, <1>6, <2>2, <2>3, <2>4, <2>5 DEF Moves, Home, ParsePc, UnloadPc
    <2> QED  BY <1>2, <1>3, <1>6, <2>6, MoveKeeps DEF Aside
  <1>9. CASE ~IssuedErrors(Top.t)
    <2> DEFINE f == [Top EXCEPT !.pc = "inst"]
    <2>1. unloading' = unloading /\ Goto(f)
      BY <1>9 DEF CommitCheck
    <2>2. f \in Frame /\ f.pc = "inst" /\ f.t = Top.t /\ f.prev = None
      BY <1>3, <1>7 DEF Frame, Pc, CommitPc
    <2> HIDE DEF f
    <2>3. Len(stack') = Depth /\ Kept(Depth - 1) /\ Top' = f
      BY <1>1, <1>3, <2>1, <2>2, GotoTop
    <2>4. PhaseOK(Top)'
      BY <1>2, <1>3, <1>6, <1>7, <2>1, <2>2, <2>3 DEF PhaseOK, ParsePc, WorkPc, DonePc, UnloadPc
    <2>5. Moves
      BY <1>2, <1>3, <1>5, <1>6, <2>1, <2>2, <2>3, <2>4 DEF Moves, ParsePc, UnloadPc
    <2> QED  BY <1>2, <1>3, <1>6, <2>5, MoveKeeps DEF Aside
  <1> QED  BY <1>8, <1>9

(* The transaction is marked as committed; it is the one that is current      *)
(* when static initializers run and when the commit is over.                  *)
LEMMA CommittedKeeps ==
  ASSUME IInv, IInv', CallsInv, errorOut' = errorOut, SkipCodeGen \/ Execute \/ InitReturn
  PROVE  CallsInv'
  <1>1. StateInv
    BY DEF CallsInv
  <1>2. /\ Top.pc \in {"deser", "exec", "init"}
        /\ Top.pc \notin BottomPc /\ Top.pc \notin ParsePc \cup UnloadPc
    BY DEF SkipCodeGen, Execute, InitReturn, At, BottomPc, ParsePc, UnloadPc
  <1>3. /\ Depth > 1 /\ Top \in Frame /\ Top.t \in Txn /\ Top.t # None /\ PhaseOK(Top)
        /\ stack[Depth - 1].pc \notin UnloadPc
        /\ Top.t \in Pointer
        /\ parent[Top.t] # None => parent[Top.t] # Top.t /\ parent[Top.t] \in Txn
    BY <1>1, <1>2, TopPhase DEF Pointer
  <1>4. /\ state' = [state EXCEPT ![Top.t] = "kCommitted"]
        /\ UNCHANGED <<parent, listVars>>
    BY DEF SkipCodeGen, Execute, InitReturn, treeVars
  <1>5. /\ state'[Top.t] = "kCommitted"
        /\ \A u \in Txn : u # Top.t => state'[u] = state[u]
    BY <1>3, <1>4 DEF IInv, TransactionInv, TransactionTypeOK
  <1>6. Top.prev = Home(Top.t) /\ ~unloading[Top.t]
    BY <1>2, <1>3 DEF PhaseOK, UnloadPc
  <1>7. parent[Top.t] # None =>
          state'[parent[Top.t]] \in Building /\ ~unloading[parent[Top.t]]
    BY <1>2, <1>3, <1>5 DEF PhaseOK
  <1>8. Top.pc # "init" => consumer = Top.t
    BY <1>1, <1>2, <1>3 DEF StateInv, CurrentOK, Expected, Target
  <1>9. CASE \E prev \in {Top.prev} :
               /\ consumer' = Top.prev /\ UNCHANGED unloading
               /\ Goto([Top EXCEPT !.pc = "callback", !.prev = prev])
    <2> DEFINE f == [Top EXCEPT !.pc = "callback", !.prev = Top.prev]
    <2>1. consumer' = Home(Top.t) /\ unloading' = unloading /\ Goto(f)
      BY <1>6, <1>9
    <2>2. f \in Frame /\ f.pc = "callback" /\ f.t = Top.t /\ f.prev = Home(Top.t)
      BY <1>3, <1>6 DEF Frame, Pc, CommitPc
    <2> HIDE DEF f
    <2>3. Len(stack') = Depth /\ Kept(Depth - 1) /\ Top' = f
      BY <1>1, <1>3, <2>1, <2>2, GotoTop
    <2>4. PhaseOK(Top)'
      BY <1>4, <1>5, <1>6, <1>7, <2>1, <2>2, <2>3 DEF PhaseOK, ParsePc, WorkPc, DonePc, UnloadPc, Home
    <2>5. Expected(Top)'
      BY <1>3, <1>4, <1>5, <2>1, <2>2, <2>3 DEF Expected, Target, Settled, Final, Home
    <2>6. Moves
      BY <1>2, <1>3, <1>4, <1>5, <2>1, <2>2, <2>3, <2>4, <2>5 DEF Moves, ParsePc, UnloadPc
    <2>7. Aside(Top) => Aside(Top)'
      BY <1>2, <1>3, <1>4, <2>2, <2>3 DEF Aside, PhaseOK
    <2> QED  BY <1>2, <1>4, <2>6, <2>7, MoveKeeps
  <1>10. CASE Execute /\ parent[Top.t] = None
    <2>1. Top.pc = "exec" /\ consumer' = Top.t
      BY <1>8, <1>10 DEF Execute, At
    <2>2. CASE Top.flag
      <3> DEFINE f == UnloadFrame(Top.t, TRUE)
      <3>1. unloading' = [unloading EXCEPT ![Top.t] = TRUE] /\ Goto(f)
        BY <1>10, <2>2 DEF Execute
      <3>2. f \in Frame /\ f.pc = "dtor" /\ f.t = Top.t /\ f.prev = None
        <4>1. "dtor" \in Pc
          BY DEF Pc, UnloadPc
        <4> QED  BY <1>3, <4>1, NewFrameType DEF UnloadFrame, NewFrame
      <3> HIDE DEF f
      <3>3. Len(stack') = Depth /\ Kept(Depth - 1) /\ Top' = f
        BY <1>1, <1>3, <3>1, <3>2, GotoTop
      <3>4. PhaseOK(Top)'
        BY <1>5, <3>2, <3>3 DEF PhaseOK, ParsePc, WorkPc, DonePc, UnloadPc, Final
      <3>5. \A u \in Txn : u # Top.t => unloading'[u] = unloading[u]
        BY <3>1 DEF IInv, TransactionInv, TransactionTypeOK
      <3>6. Moves
        BY <1>2, <1>3, <1>4, <1>5, <1>10, <2>1, <3>2, <3>3, <3>4, <3>5
           DEF Moves, Home, ParsePc, UnloadPc
      <3> QED  BY <1>2, <1>3, <1>4, <2>1, <3>6, MoveKeeps DEF Aside
    <2>3. CASE ~Top.flag
      <3> DEFINE f == [Top EXCEPT !.pc = "init"]
      <3>1. unloading' = unloading /\ Goto(f)
        BY <1>10, <2>3 DEF Execute
      <3>2. f \in Frame /\ f.pc = "init" /\ f.t = Top.t /\ f.prev = Home(Top.t)
        BY <1>3, <1>6 DEF Frame, Pc, CommitPc
      <3> HIDE DEF f
      <3>3. Len(stack') = Depth /\ Kept(Depth - 1) /\ Top' = f
        BY <1>1, <1>3, <3>1, <3>2, GotoTop
      <3>4. PhaseOK(Top)'
        BY <1>4, <1>5, <1>6, <1>10, <3>1, <3>2, <3>3
           DEF PhaseOK, ParsePc, WorkPc, DonePc, UnloadPc, Home
      <3>5. Expected(Top)'
        BY <1>4, <1>5, <1>10, <2>1, <3>2, <3>3 DEF Expected, Target, Settled, Final
      <3>6. Moves
        BY <1>2, <1>3, <1>4, <1>5, <1>10, <2>1, <3>1, <3>2, <3>3, <3>4, <3>5
           DEF Moves, Home, ParsePc, UnloadPc
      <3> QED  BY <1>2, <1>3, <1>4, <2>1, <3>6, MoveKeeps DEF Aside
    <2> QED  BY <2>2, <2>3
  <1>11. CASE SkipCodeGen \/ InitReturn
    <2>1. [Top EXCEPT !.pc = "callback"] = [Top EXCEPT !.pc = "callback", !.prev = Top.prev]
      BY <1>3 DEF Frame
    <2> QED  BY <1>9, <1>11, <2>1 DEF SkipCodeGen, InitReturn
  <1>12. CASE Execute /\ parent[Top.t] # None
    BY <1>9, <1>12 DEF Execute
  <1> QED  BY <1>10, <1>11, <1>12

(* A parse: its transaction is current, and can still grow. *)
LEMMA ParseFacts ==
  ASSUME IInv, CallsInv, Top.pc \in ParsePc
  PROVE  /\ Depth > 1 /\ Top.t \in Txn /\ Top.t # None /\ PhaseOK(Top)
         /\ state[Top.t] = "kCollecting" /\ consumer = Top.t
         /\ ~Aside(Top)
         /\ Top.t \notin Range(transactions)
         /\ stack[Depth - 1].pc \notin UnloadPc
         /\ At("bootparse") => Depth = 2 /\ stack[1].pc = "boot" /\ stack[1].t = None
  <1>1. StateInv
    BY DEF CallsInv
  <1>2. Top.pc \notin BottomPc \cup UnloadPc \cup DonePc \cup {"inst", "client"}
    BY DEF ParsePc, BottomPc, UnloadPc, DonePc
  <1>3. /\ Depth > 1 /\ Top.t \in Txn /\ Top.t # None /\ PhaseOK(Top)
        /\ stack[Depth - 1].pc \notin UnloadPc /\ Top = stack[Depth] /\ Depth \in 1..Depth
    BY <1>1, <1>2, TopPhase
  <1>4. state[Top.t] = "kCollecting"
    BY <1>3 DEF PhaseOK
  <1>5. consumer = Top.t
    BY <1>1, <1>2, <1>3 DEF StateInv, CurrentOK, Expected, Target, DonePc
  <1>6. Top.t \notin Range(transactions)
    BY <1>4, ListFacts DEF CallsInv, FrontOK
  <1>7. At("bootparse") => Depth = 2 /\ stack[1].pc = "boot" /\ stack[1].t = None
    <2> SUFFICES ASSUME At("bootparse")
                 PROVE  Depth = 2 /\ stack[1].pc = "boot" /\ stack[1].t = None
      OBVIOUS
    <2>1. Depth = 2 /\ stack[1].pc = "boot"
      BY <1>1, <1>3 DEF StateInv, ShapeOK, At
    <2>2. 1 \in 1..Depth
      BY <2>1
    <2> QED  BY <1>1, <2>1, <2>2 DEF StateInv, ShapeOK
  <1> QED  BY <1>2, <1>3, <1>4, <1>5, <1>6, <1>7 DEF Aside, DonePc

(* The caller learns that the module was dropped: it stays where it is. *)
LEMMA DroppedSame ==
  ASSUME NEW f, f \in Frame
  PROVE  Same(ModuleDropped(f), f)
  BY DEF ModuleDropped, Frame, Same

(* What endTransaction does to the call stack: the function goes on to        *)
(* commitTransaction.                                                        *)
LEMMA EndFullFrames ==
  ASSUME IInv, IInv', CallsInv, EndFull, ~At("bootparse"),
         NEW f \in Frame, f = NewFrame("check", Top.t, FALSE)
  PROVE  Len(stack') = Depth /\ Kept(Depth - 1) /\ Top' = f
  <1>1. StateInv /\ StackOK
    BY DEF CallsInv, IInv
  <1>2. Depth > 1
    BY ParseFacts DEF EndFull
  <1>4. CASE ~At("sub")
    <2>1. Goto(f)
      BY <1>4 DEF EndFull, Goto
    <2> QED  BY <1>1, <1>2, <2>1, GotoTop
  <1>5. CASE At("sub")
    <2>1. stack' = [stack EXCEPT ![Len(stack)] = f, ![Len(stack) - 1] = ModuleDropped(@)]
      BY <1>5 DEF EndFull
    <2>2. PICK k \in Nat : k = Depth
      BY TopFrame
    <2>3. k > 1
      BY <1>2, <2>2
    <2>4. DOMAIN stack = 1..k /\ \A i \in 1..k : stack[i] \in Frame
      BY <1>1, <2>2, TopFrame, LenProperties DEF StackOK, WellFormed, Depth
    <2>5. stack' = [stack EXCEPT ![k] = f, ![k - 1] = ModuleDropped(@)]
      BY <2>1, <2>2 DEF Depth
    <2>6. k \in 1..k /\ k - 1 \in 1..k /\ k - 1 # k
      BY <2>3
    <2>7. /\ DOMAIN stack' = 1..k /\ stack'[k] = f
          /\ stack'[k - 1] = ModuleDropped(stack[k - 1])
          /\ \A i \in 1..k : i # k /\ i # k - 1 => stack'[i] = stack[i]
      BY <2>4, <2>5, <2>6
    <2>8. \A i \in 1..(k - 1) : Same(stack'[i], stack[i])
      <3> SUFFICES ASSUME NEW i \in 1..(k - 1)  PROVE Same(stack'[i], stack[i])
        OBVIOUS
      <3>1. i \in 1..k /\ i # k
        BY <2>3
      <3> QED  BY <2>4, <2>7, <3>1, DroppedSame DEF Same
    <2>9. Len(stack') = k /\ Top' = stack'[k]
      <3>1. WellFormed(stack')
        BY DEF IInv, StackOK
      <3>2. PICK m \in Nat : m = Len(stack')
        BY <3>1, DepthFacts
      <3>3. 1..m = 1..k /\ m >= 1
        BY <2>7, <3>1, <3>2, DepthFacts
      <3>4. m \in 1..k /\ k \in 1..m
        BY <2>3, <3>3
      <3>5. m = k
        BY <3>4
      <3> QED  BY <3>1, <3>2, <3>5, DepthFacts DEF Top
    <2> QED  BY <2>2, <2>7, <2>8, <2>9 DEF Kept
  <1> QED  BY <1>4, <1>5

(* endTransaction of a transaction with contents. *)
LEMMA EndFullKeeps ==
  ASSUME IInv, IInv', CallsInv, errorOut' = errorOut, EndFull
  PROVE  CallsInv'
  <1>0. StateInv /\ StackOK
    BY DEF CallsInv, IInv
  <1>1. Top.pc \in ParsePc /\ EndFullTransaction(Top.t)
    BY DEF EndFull
  <1>2. /\ Depth > 1 /\ Top.t \in Txn /\ Top.t # None /\ PhaseOK(Top)
        /\ state[Top.t] = "kCollecting" /\ consumer = Top.t
        /\ ~Aside(Top)
        /\ Top.t \notin Range(transactions)
        /\ stack[Depth - 1].pc \notin UnloadPc
        /\ At("bootparse") => Depth = 2 /\ stack[1].pc = "boot" /\ stack[1].t = None
    BY <1>1, ParseFacts
  <1>3. /\ state' = [state EXCEPT ![Top.t] = "kCompleted"]
        /\ AddTransaction(Top.t)
        /\ UNCHANGED <<parent, unloading, consumer>>
    BY <1>1 DEF EndFullTransaction, treeVars
  <1>4. /\ state'[Top.t] = "kCompleted"
        /\ \A u \in Txn : u # Top.t => state'[u] = state[u]
    BY <1>2, <1>3 DEF IInv, TransactionInv, TransactionTypeOK
  <1>5. /\ ~unloading[Top.t] /\ Top.t \in Pointer
        /\ parent[Top.t] # None => /\ parent[Top.t] \in Txn /\ parent[Top.t] # Top.t
                                   /\ state'[parent[Top.t]] \in Building
                                   /\ ~unloading[parent[Top.t]]
    <2>1. parent[Top.t] # None => parent[Top.t] \in Txn /\ parent[Top.t] # Top.t
      BY <1>0, <1>2, TopPhase
    <2> QED  BY <1>1, <1>2, <1>4, <2>1 DEF PhaseOK, ParsePc, UnloadPc, Pointer
  <1>6. CASE ~At("bootparse")
    <2> DEFINE f == NewFrame("check", Top.t, FALSE)
    <2>1. f \in Frame /\ f.pc = "check" /\ f.t = Top.t /\ f.prev = None
      <3>1. "check" \in Pc
        BY DEF Pc, CommitPc
      <3> QED  BY <1>5, <3>1, NewFrameType DEF NewFrame
    <2>2. Len(stack') = Depth /\ Kept(Depth - 1) /\ Top' = f
      BY <1>6, <2>1, EndFullFrames
    <2> HIDE DEF f
    <2>3. PhaseOK(Top)'
      BY <1>3, <1>4, <1>5, <2>1, <2>2 DEF PhaseOK, ParsePc, WorkPc, DonePc, UnloadPc
    <2>4. Expected(Top)'
      BY <1>2, <1>3, <2>1, <2>2 DEF Expected, Target
    <2>5. Moves
      BY <1>1, <1>2, <1>3, <1>4, <2>1, <2>2, <2>3, <2>4 DEF Moves, ParsePc, UnloadPc
    <2>6. StateInv'
      BY <1>0, <2>5, MoveKeepsState
    <2>7. CASE parent[Top.t] = None
      BY <1>0, <1>1, <1>3, <1>4, <2>5, <2>6, <2>7, EndKeepsFront DEF CallsInv
    <2>8. CASE parent[Top.t] # None
      <3>1. UNCHANGED listVars
        BY <1>3, <2>8 DEF AddTransaction
      <3> QED  BY <1>0, <1>2, <2>5, <2>6, <2>8, <3>1, MoveKeepsFront DEF CallsInv
    <2> QED  BY <2>7, <2>8
  <1>7. CASE At("bootparse")
    <2> DEFINE f == [NewFrame("booted", Top.t, FALSE) EXCEPT !.fuel = 0]
    <2>1. f \in Frame /\ f.pc = "booted" /\ f.t = Top.t /\ f.prev = None
      <3>1. "booted" \in Pc
        BY DEF Pc, BottomPc
      <3> QED  BY <1>5, <3>1, NewFrameType DEF NewFrame
    <2>2. stack' = <<f>>
      BY <1>7 DEF EndFull
    <2> HIDE DEF f
    <2>3. Len(stack') = 1 /\ Top' = f
      BY <2>2 DEF Top, Last
    <2>4. parent[Top.t] = None
      BY <1>2, <1>7 DEF PhaseOK, At
    <2>5. PhaseOK(Top)'
      BY <1>3, <1>4, <1>5, <2>1, <2>3, <2>4 DEF PhaseOK, ParsePc, WorkPc, DonePc, UnloadPc
    <2>6. ChainOK' /\ GetLastTransaction' = Top.t /\ next'[Top.t] = None
      BY <1>2, <1>3, <1>4, <2>4, ChainGrows DEF CallsInv, FrontOK
    <2>7. ASSUME NEW u \in Txn
          PROVE  /\ state'[u] \in Building => u = Top.t
                 /\ ~Live(u)' => ~unloading'[u]
      <3>1. state'[u] \in Building => u = Top.t
        <4> SUFFICES ASSUME state'[u] \in Building, u # Top.t  PROVE FALSE
          OBVIOUS
        <4>1. PICK i \in 1..Depth : stack[i].t = u
          BY <1>0, <1>4 DEF StateInv, PhasesOK
        <4>2. Top = stack[2] /\ (i = 1 \/ i = 2)
          BY <1>0, <1>2, <1>7, TopPhase
        <4> QED  BY <1>2, <1>7, <4>1, <4>2, TxnAssumption
      <3>2. ~Live(u)' => ~unloading'[u]
        BY <1>0, <1>3, <1>4 DEF StateInv, PhasesOK, Live
      <3> QED  BY <3>1, <3>2
    <2>8. Boots
      BY <1>2, <1>3, <1>4, <2>1, <2>3, <2>4, <2>5, <2>6, <2>7 DEF Boots, CallsInv, Live
    <2> QED  BY <2>8, BootKeeps DEF CallsInv, Boots
  <1> QED  BY <1>6, <1>7

(* An exit of the function at the top. *)
LEMMA PopKeepsFrames ==
  ASSUME IInv, IInv', NEW k \in Nat, k = Depth, k > 1, Pop
  PROVE  Len(stack') = k - 1 /\ Kept(k - 1)
  <1>1. StackOK
    BY DEF IInv
  <1>2. Len(stack') = Depth - 1 /\ \A i \in 1..(Depth - 1) : stack'[i] = stack[i]
    BY <1>1, PopFrames DEF Pop
  <1> QED  BY <1>2 DEF Kept, Same

(* ... or it returns. *)
LEMMA EndEmptyFrames ==
  ASSUME IInv, IInv', CallsInv, EndEmpty, ~At("bootparse"), NEW k \in Nat, k = Depth, k > 1
  PROVE  Len(stack') = k - 1 /\ Kept(k - 1)
  <1>1. StackOK
    BY DEF IInv
  <1>2. k = Depth /\ k > 1
    OBVIOUS
  <1>3. CASE ~At("sub")
    <2>1. Pop
      BY <1>3 DEF EndEmpty, Pop
    <2> QED  BY <1>2, <2>1, PopKeepsFrames
  <1>4. CASE At("sub")
    <2> DEFINE s == Front(stack)
    <2>1. Len(s) = k - 1 /\ \A i \in 1..(k - 1) : s[i] = stack[i]
      BY <1>1, <1>2, PopFrames
    <2>2. s \in Seq(Frame)
      <3>1. stack \in Seq(Frame) /\ stack # <<>>
        BY <1>1 DEF StackOK, WellFormed
      <3> QED  BY ONLY <3>1, FrontFacts
    <2>3. stack' = [s EXCEPT ![k - 1] = ModuleDropped(@)]
      BY <1>2, <1>4 DEF EndEmpty, Depth
    <2>4. DOMAIN s = 1..(k - 1)
      BY <2>1, <2>2, LenProperties
    <2> HIDE DEF s
    <2>5. /\ DOMAIN stack' = 1..(k - 1)
          /\ \A i \in 1..(k - 1) : stack'[i] = IF i = k - 1 THEN ModuleDropped(stack[i])
                                               ELSE stack[i]
      BY <2>1, <2>3, <2>4
    <2>6. \A i \in 1..(k - 1) : Same(stack'[i], stack[i])
      <3> SUFFICES ASSUME NEW i \in 1..(k - 1)  PROVE Same(stack'[i], stack[i])
        OBVIOUS
      <3>1. stack[i] \in Frame
        <4>1. i \in 1..Depth
          BY <1>2
        <4> QED  BY <4>1, TopFrame
      <3> QED  BY <2>5, <3>1, DroppedSame DEF Same
    <2>7. Len(stack') = k - 1
      <3>1. WellFormed(stack')
        BY DEF IInv, StackOK
      <3>2. PICK m \in Nat : m = Len(stack')
        BY <3>1, DepthFacts
      <3>3. 1..m = 1..(k - 1) /\ m >= 1
        BY <2>5, <3>1, <3>2, DepthFacts
      <3>4. m \in 1..(k - 1) /\ k - 1 \in 1..m
        BY <1>2, <3>3
      <3>5. m = k - 1
        BY <3>4
      <3> QED  BY <3>2, <3>5
    <2> QED  BY <2>6, <2>7 DEF Kept
  <1> QED  BY <1>3, <1>4

(* A transaction goes back to the pool. *)
LEMMA ReleaseFacts ==
  ASSUME IInv, NEW t \in Txn, nested[t] = <<>>, ReleaseTransaction(t)
  PROVE  /\ state'[t] = "kNumStates" /\ parent'[t] = None /\ unloading'[t] = FALSE
         /\ parent' \in [Txn -> Pointer]
         /\ \A u \in Txn : parent[u] # t
         /\ \A u \in Txn : u # t => /\ state'[u] = state[u] /\ parent'[u] = parent[u]
                                    /\ unloading'[u] = unloading[u]
  <1>1. \A u \in Txn : parent[u] # t
    <2>1. t # None /\ Range(nested[t]) = {}
      BY TxnAssumption DEF Range
    <2> QED  BY <2>1 DEF IInv, TransactionInv, TreeOK, NestingOK
  <1> QED  BY <1>1 DEF ReleaseTransaction, IInv, TransactionInv, TransactionTypeOK, Pointer

(* endTransaction of a transaction without contents. *)
LEMMA EndEmptyKeeps ==
  ASSUME IInv, IInv', CallsInv, errorOut' = errorOut, EndEmpty
  PROVE  CallsInv'
  <1>0. StateInv /\ StackOK /\ Rooted(parent) /\ FrontOK
    BY DEF CallsInv, IInv
  <1>1. Top.pc \in ParsePc /\ EndEmptyTransaction(Top.t)
    BY DEF EndEmpty
  <1>2. /\ Depth > 1 /\ Top.t \in Txn /\ Top.t # None /\ PhaseOK(Top)
        /\ state[Top.t] = "kCollecting" /\ consumer = Top.t
        /\ ~Aside(Top)
        /\ Top.t \notin Range(transactions)
        /\ stack[Depth - 1].pc \notin UnloadPc
        /\ At("bootparse") => Depth = 2 /\ stack[1].pc = "boot" /\ stack[1].t = None
    BY <1>1, ParseFacts
  <1>3. /\ consumer' = parent[Top.t] /\ UNCHANGED listVars
        /\ nested[Top.t] = <<>> /\ ReleaseTransaction(Top.t)
    BY <1>1 DEF EndEmptyTransaction, IsEmpty
  <1>4. /\ state'[Top.t] = "kNumStates" /\ parent'[Top.t] = None /\ unloading'[Top.t] = FALSE
        /\ parent' \in [Txn -> Pointer]
        /\ \A u \in Txn : parent[u] # Top.t
        /\ \A u \in Txn : u # Top.t => /\ state'[u] = state[u] /\ parent'[u] = parent[u]
                                       /\ unloading'[u] = unloading[u]
    BY <1>2, <1>3, ReleaseFacts
  <1>5. parent[Top.t] # None =>
          /\ parent[Top.t] \in Txn /\ parent[Top.t] # Top.t /\ Live(parent[Top.t])
    BY <1>0, <1>2, TopPhase
  <1>6. PICK k \in Nat : k = Depth /\ k > 1
    BY <1>2, TopFrame
  <1>7. CASE ~At("bootparse")
    <2>1. Len(stack') = k - 1 /\ Kept(k - 1)
      BY <1>6, <1>7, EndEmptyFrames
    <2>2. consumer' # None => Live(consumer)'
      BY <1>3, <1>4, <1>5 DEF Live
    <2>3. Returns(Top.t)
      BY <1>2, <1>3, <1>4, <1>6, <2>1, <2>2 DEF Returns, Settled
    <2>4. StateInv'
      BY <1>0, <1>2, <2>3, ReturnKeepsState
    <2>5. Rooted(parent)' /\ FrontOK'
      BY <1>0, <1>1, <1>2, <1>3, <2>3, ReturnKeepsFront
    <2> QED  BY <2>4, <2>5 DEF CallsInv
  <1>8. CASE At("bootparse")
    <2> DEFINE f == [NewFrame("booted", None, ParseFailed(Top.t)) EXCEPT !.fuel = 0]
    <2>1. f.pc = "booted" /\ f.t = None /\ f.prev = None
      BY DEF NewFrame
    <2>2. stack' = <<f>>
      BY <1>8 DEF EndEmpty
    <2> HIDE DEF f
    <2>3. Len(stack') = 1 /\ Top' = f
      BY <2>2 DEF Top, Last
    <2>4. parent[Top.t] = None
      BY <1>2, <1>8 DEF PhaseOK, At
    <2>5. Rooted(parent)'
      BY <1>0, <1>2, <1>4, TxnAssumption, RootsKept
    <2>6. ChainOK'
      <3> SUFFICES ASSUME NEW u \in Range(transactions)
                   PROVE  parent'[u] = None
                          /\ state'[u] \in {"kCompleted", "kCommitted", "kRolledBack"}
        BY <1>0, <1>3, ChainKept DEF FrontOK
      <3> QED  BY <1>0, <1>2, <1>4, ListFacts DEF FrontOK
    <2>7. ASSUME NEW u \in Txn
          PROVE  /\ state'[u] \notin Building
                 /\ ~Live(u)' => ~unloading'[u]
      <3>1. state'[u] \notin Building
        <4> SUFFICES ASSUME state'[u] \in Building  PROVE FALSE
          OBVIOUS
        <4>1. u # Top.t
          BY <1>4 DEF Building
        <4>2. PICK i \in 1..Depth : stack[i].t = u
          BY <1>0, <1>4, <4>1 DEF StateInv, PhasesOK
        <4>3. Top = stack[2] /\ (i = 1 \/ i = 2)
          BY <1>0, <1>2, <1>8, TopPhase
        <4> QED  BY <1>2, <1>8, <4>1, <4>2, <4>3, TxnAssumption
      <3>2. ~Live(u)' => ~unloading'[u]
        <4>1. CASE u = Top.t
          BY <1>4, <4>1
        <4>2. CASE u # Top.t
          BY <1>0, <1>4, <4>2 DEF StateInv, PhasesOK, Live
        <4> QED  BY <4>1, <4>2
      <3> QED  BY <3>1, <3>2
    <2>8. Boots
      BY <1>3, <2>1, <2>3, <2>4, <2>5, <2>6, <2>7 DEF Boots, Settled
    <2> QED  BY <2>5, <2>8, BootKeeps DEF CallsInv
  <1> QED  BY <1>7, <1>8

(* commitTransaction returns, or is left by an exception. *)
LEMMA DoneKeeps ==
  ASSUME IInv, IInv', CallsInv, errorOut' = errorOut, InitThrow \/ CommitReturn
  PROVE  CallsInv'
  <1>0. StateInv /\ StackOK /\ Rooted(parent) /\ FrontOK
    BY DEF CallsInv, IInv
  <1>1. /\ Top.pc \in DonePc /\ Top.pc \notin BottomPc \cup UnloadPc \cup ParsePc
        /\ Top.pc # "inst"
    BY DEF InitThrow, CommitReturn, At, DonePc, BottomPc, UnloadPc, ParsePc
  <1>2. /\ Depth > 1 /\ Top.t \in Txn /\ PhaseOK(Top) /\ Live(Top.t)
        /\ stack[Depth - 1].pc \notin UnloadPc
        /\ parent[Top.t] # None => parent[Top.t] \in Txn /\ Live(parent[Top.t])
    BY <1>0, <1>1, TopPhase
  <1>3. state[Top.t] = "kCommitted" /\ Top.prev = Home(Top.t)
    BY <1>1, <1>2 DEF PhaseOK, DonePc
  <1>4. UNCHANGED <<state, parent, unloading, listVars>> /\ Pop
    BY DEF InitThrow, CommitReturn, treeVars
  <1>5. PICK k \in Nat : k = Depth /\ k > 1
    BY <1>2, TopFrame
  <1>6. Len(stack') = k - 1 /\ Kept(k - 1)
    BY <1>4, <1>5, PopKeepsFrames
  <1>7. /\ consumer' # None => Live(consumer)'
        /\ IF parent[Top.t] = None THEN Settled(consumer)' ELSE consumer' = parent[Top.t]
    <2>1. CASE InitThrow
      <3>1. parent[Top.t] = None
        BY <1>2, <2>1 DEF PhaseOK, InitThrow, At
      <3>2. Settled(consumer) /\ (consumer # None => Live(consumer))
        BY <1>0, <1>1, <1>2, <2>1 DEF StateInv, CurrentOK, Expected, Target, InitThrow, At
      <3>3. consumer' = consumer
        BY <2>1 DEF InitThrow
      <3> QED  BY <1>4, <3>1, <3>2, <3>3 DEF Settled, Live
    <2>2. CASE CommitReturn
      <3>1. consumer' = Home(Top.t)
        BY <1>3, <2>2 DEF CommitReturn
      <3> QED  BY <1>2, <1>3, <1>4, <3>1 DEF Home, Settled, Live, Final
    <2> QED  BY <2>1, <2>2
  <1>8. PICK t \in Txn : t = Top.t
    BY <1>2
  <1>9. Returns(t)
    BY <1>2, <1>3, <1>4, <1>5, <1>6, <1>7, <1>8 DEF Returns, Final
  <1>10. Live(t)'
    BY <1>2, <1>4, <1>8 DEF Live
  <1>11. StateInv'
    BY <1>0, <1>9, ReturnKeepsState
  <1>12. Rooted(parent)' /\ FrontOK'
    BY <1>0, <1>4, <1>9, <1>10, ReturnKeepsFront
  <1> QED  BY <1>11, <1>12 DEF CallsInv

(* The function that a call of unload leaves or goes on with finds the        *)
(* current transaction where it has to be.                                   *)
LEMMA UnloadCurrent ==
  ASSUME IInv, CallsInv, NEW t \in Txn, t = Top.t, Top.pc \in UnloadPc
  PROVE  /\ Depth > 1 /\ PhaseOK(Top) /\ Live(t)
         /\ parent[t] # None => parent[t] \in Txn /\ Live(parent[t]) /\ parent[t] # t
         /\ consumer # None => Live(consumer) /\ consumer \in Txn
         /\ IF stack[Depth - 1].pc \in UnloadPc
            THEN consumer # t /\ ~errorOut
            ELSE \/ consumer = t /\ parent[t] = None
                 \/ IF parent[t] = None THEN Settled(consumer) ELSE consumer = parent[t]
  <1>1. StateInv /\ ShapeOK /\ LineageOK /\ PhasesOK
    BY DEF CallsInv, StateInv
  <1>2. /\ Depth \in Nat /\ Depth > 1 /\ Top = stack[Depth] /\ PhaseOK(Top) /\ Live(t)
        /\ parent[t] # None => parent[t] \in Txn /\ Live(parent[t]) /\ parent[t] # t
        /\ stack[Depth - 1].pc # "dtor"
        /\ stack[Depth - 1].pc \in UnloadPc => ~errorOut
        /\ parent[t] = Target(stack[Depth - 1])
    <2>1. Top.pc \notin BottomPc
      BY DEF UnloadPc, BottomPc
    <2> QED  BY <1>1, <2>1, TopPhase
  <1>3. consumer # None => Live(consumer) /\ consumer \in Txn
    BY <1>1 DEF StateInv, CurrentOK, IInv, TransactionInv, TransactionTypeOK, Pointer
  <1>4. CASE stack[Depth - 1].pc \notin UnloadPc
    <2>1. Depth \in 2..Depth
      BY <1>2
    <2>2. \/ consumer = t /\ parent[t] = None
          \/ Expected(stack[Depth - 1])
      BY <1>1, <1>2, <1>4, <2>1 DEF StateInv, CurrentOK
    <2> QED  BY <1>2, <1>3, <1>4, <2>2 DEF Expected
  <1>5. CASE stack[Depth - 1].pc \in UnloadPc
    <2> PICK k \in Nat : k = Depth
      BY <1>2
    <2> DEFINE S == {i \in 1..k : stack[i].pc \in UnloadPc}
    <2>1. S \subseteq Nat /\ k - 1 \in S
      BY <1>2, <1>5
    <2>2. PICK i \in S : \A j \in S : ~ (<<j, i>> \in OpToRel(<, Nat))
      BY <2>1, NatLessThanWellFounded, WFMin
    <2>3. i \in 1..k /\ stack[i].pc \in UnloadPc
      OBVIOUS
    <2>4. stack[1].pc \notin UnloadPc
      BY TopFrame DEF UnloadPc, BottomPc
    <2>5. i \in 2..k
      BY <2>3, <2>4
    <2>6. i - 1 \in Nat /\ i \in Nat /\ i - 1 < i /\ i - 1 \in 1..k /\ i - 1 \in 1..(k - 1)
      BY <2>5
    <2>7. stack[i - 1].pc \notin UnloadPc
      <3>1. <<i - 1, i>> \in OpToRel(<, Nat)
        BY <2>6 DEF OpToRel
      <3> QED  BY <2>2, <2>6, <3>1
    <2>8. i \in 1..(k - 1)
      <3>1. i # k
        BY <1>5, <2>7
      <3> QED  BY <2>5, <3>1
    <2>9. \/ consumer = stack[i].t /\ parent[stack[i].t] = None
          \/ Expected(stack[i - 1])
      BY <1>1, <2>3, <2>5, <2>7 DEF StateInv, CurrentOK
    <2>10. \A j \in 1..(k - 1) : /\ stack[j].t # t
                                 /\ stack[j].t # None => stack[j].t \in Txn /\ parent[stack[j].t] # t
      BY <1>1, <1>2, LowerFrames
    <2>11. parent[t] # None
      <3>1. stack[k - 1].t \in Txn /\ stack[k - 1].pc = "revert"
        <4>1. k - 1 \in 2..k
          <5>1. k - 1 # 1 /\ k > 1
            BY <1>2, <1>5, <2>4
          <5> QED  BY <5>1
        <4> QED  BY <1>2, <1>5, <4>1, TopFrame DEF UnloadPc
      <3> QED  BY <1>2, <3>1, TxnAssumption DEF Target
    <2>12. consumer # t
      <3>1. CASE consumer = stack[i].t
        BY <2>8, <2>10, <3>1
      <3>2. CASE Expected(stack[i - 1])
        <4>1. CASE Target(stack[i - 1]) = None
          BY <2>11, <3>2, <4>1, TxnAssumption DEF Expected, Settled
        <4>2. CASE Target(stack[i - 1]) # None
          <5>1. consumer = Target(stack[i - 1])
            BY <3>2, <4>2 DEF Expected
          <5>2. stack[i - 1].t # t /\ (stack[i - 1].t # None => parent[stack[i - 1].t] # t)
            BY <2>6, <2>10
          <5>3. stack[i - 1].pc = "callback" => stack[i - 1].t # None
            <6>1. stack[i - 1].pc = "callback" => i - 1 # 1
              BY TopFrame DEF BottomPc
            <6>2. i - 1 # 1 => i - 1 \in 2..k
              BY <2>6
            <6> QED  BY <1>2, <6>1, <6>2, TopFrame, TxnAssumption
          <5> QED  BY <4>2, <5>1, <5>2, <5>3 DEF Target
        <4> QED  BY <4>1, <4>2
      <3> QED  BY <2>9, <3>1, <3>2
    <2> QED  BY <1>2, <1>3, <1>5, <2>12
  <1> QED  BY <1>4, <1>5

(* Callbacks and destructors are done. *)
LEMMA DtorKeeps ==
  ASSUME IInv, IInv', CallsInv, errorOut' = errorOut, DtorReturn
  PROVE  CallsInv'
  <1>0. StateInv /\ StackOK /\ Rooted(parent) /\ FrontOK
    BY DEF CallsInv, IInv
  <1>1. /\ Top.pc = "dtor" /\ Top.pc \in UnloadPc
        /\ Top.pc \notin BottomPc \cup ParsePc
    BY DEF DtorReturn, At, UnloadPc, BottomPc, ParsePc
  <1>2. PICK t \in Txn : t = Top.t
    BY <1>0, <1>1, TopPhase
  <1>3. /\ Depth > 1 /\ PhaseOK(Top) /\ Live(t)
        /\ parent[t] # None => parent[t] \in Txn /\ Live(parent[t]) /\ parent[t] # t
        /\ consumer # None => Live(consumer) /\ consumer \in Txn
        /\ IF stack[Depth - 1].pc \in UnloadPc
           THEN consumer # t /\ ~errorOut
           ELSE \/ consumer = t /\ parent[t] = None
                \/ IF parent[t] = None THEN Settled(consumer) ELSE consumer = parent[t]
    BY <1>1, <1>2, UnloadCurrent
  <1>4. UNCHANGED <<parent, unloading, consumer, listVars>>
    BY DEF DtorReturn, treeVars
  <1>5. PICK k \in Nat : k = Depth /\ k > 1
    BY <1>3, TopFrame
  <1>6. CASE errorOut
    <2>1. state' = [state EXCEPT ![t] = "kRolledBack"] /\ Pop
      BY <1>2, <1>6 DEF DtorReturn
    <2>2. state'[t] = "kRolledBack" /\ \A u \in Txn : u # t => state'[u] = state[u]
      BY <2>1 DEF IInv, TransactionInv, TransactionTypeOK
    <2>3. Len(stack') = k - 1 /\ Kept(k - 1)
      BY <1>5, <2>1, PopKeepsFrames
    <2>4. consumer' # None => Live(consumer)'
      BY <1>3, <1>4, <2>2 DEF Live
    <2>5. /\ stack[Depth - 1].pc \notin UnloadPc
          /\ IF parent[t] = None THEN Settled(consumer)' ELSE consumer' = parent[t]
      BY <1>3, <1>4, <1>6, <2>2 DEF Settled, Final
    <2>6. Returns(t)
      BY <1>2, <1>3, <1>4, <1>5, <2>2, <2>3, <2>4, <2>5 DEF Returns, Final
    <2>7. Live(t)'
      BY <2>2 DEF Live
    <2>8. StateInv'
      BY <1>0, <2>6, ReturnKeepsState
    <2>9. Rooted(parent)' /\ FrontOK'
      BY <1>0, <1>4, <2>6, <2>7, ReturnKeepsFront
    <2> QED  BY <2>8, <2>9 DEF CallsInv
  <1>7. CASE ~errorOut
    <2> DEFINE f == [Top EXCEPT !.pc = "revert"]
    <2>1. state' = state /\ Goto(f)
      BY <1>7 DEF DtorReturn
    <2>2. f \in Frame /\ f.pc = "revert" /\ f.t = Top.t /\ f.prev = Top.prev
      <3>1. Top \in Frame
        BY <1>0, TopPhase
      <3> QED  BY <3>1 DEF Frame, Pc, UnloadPc
    <2> HIDE DEF f
    <2>3. Len(stack') = Depth /\ Kept(Depth - 1) /\ Top' = f
      BY <1>0, <1>3, <2>1, <2>2, GotoTop
    <2>4. PhaseOK(Top)'
      BY <1>1, <1>3, <1>4, <2>1, <2>2, <2>3 DEF PhaseOK, ParsePc, WorkPc, DonePc, UnloadPc
    <2>5. \A u \in Txn : u # Top.t => state'[u] = state[u] /\ unloading'[u] = unloading[u]
      BY <1>4, <2>1
    <2>6. stack[Depth - 1].pc \notin UnloadPc =>
            IF parent[t] = None THEN consumer' = t \/ Settled(consumer)'
            ELSE consumer' = parent[t]
      BY <1>3, <1>4, <2>1 DEF Settled
    <2>7. Moves
      BY <1>1, <1>2, <1>3, <1>4, <1>7, <2>1, <2>2, <2>3, <2>4, <2>5, <2>6
         DEF Moves, ParsePc, UnloadPc
    <2> QED  BY <1>1, <1>2, <1>4, <2>7, TxnAssumption, MoveKeeps DEF Aside
  <1> QED  BY <1>6, <1>7

(* The rest of RevertTransaction. *)
LEMMA RevertKeeps ==
  ASSUME IInv, IInv', CallsInv, errorOut' = errorOut, RevertReturn
  PROVE  CallsInv'
  <1>0. StateInv /\ StackOK /\ Rooted(parent) /\ FrontOK
    BY DEF CallsInv, IInv
  <1>1. Top.pc \in UnloadPc /\ Top.pc \notin BottomPc \cup ParsePc
    BY DEF RevertReturn, At, UnloadPc, BottomPc, ParsePc
  <1>2. PICK t \in Txn : t = Top.t
    BY <1>0, <1>1, TopPhase
  <1>3. /\ Depth > 1 /\ Live(t)
        /\ parent[t] # None => parent[t] \in Txn /\ Live(parent[t]) /\ parent[t] # t
        /\ consumer # None => Live(consumer) /\ consumer \in Txn
        /\ IF stack[Depth - 1].pc \in UnloadPc
           THEN consumer # t /\ ~errorOut
           ELSE \/ consumer = t /\ parent[t] = None
                \/ IF parent[t] = None THEN Settled(consumer) ELSE consumer = parent[t]
    BY <1>1, <1>2, UnloadCurrent
  <1>4. /\ consumer' = IF consumer = t THEN parent[t] ELSE consumer
        /\ RemoveTransaction(t) /\ ReleaseTransaction(t) /\ nested[t] = <<>> /\ Pop
    BY <1>2 DEF RevertReturn, DeregisterTransaction
  <1>5. /\ state'[t] = "kNumStates" /\ parent'[t] = None /\ unloading'[t] = FALSE
        /\ \A u \in Txn : parent[u] # t
        /\ \A u \in Txn : u # t => /\ state'[u] = state[u] /\ parent'[u] = parent[u]
                                   /\ unloading'[u] = unloading[u]
    BY <1>4, ReleaseFacts
  <1>6. PICK k \in Nat : k = Depth /\ k > 1
    BY <1>3, TopFrame
  <1>7. Len(stack') = k - 1 /\ Kept(k - 1)
    BY <1>4, <1>6, PopKeepsFrames
  <1>8. consumer' # None => Live(consumer)'
    BY <1>3, <1>4, <1>5 DEF Live
  <1>9. IF stack[Depth - 1].pc \in UnloadPc
        THEN consumer' = consumer /\ consumer # t
        ELSE IF parent[t] = None THEN Settled(consumer)' ELSE consumer' = parent[t]
    <2>1. CASE stack[Depth - 1].pc \in UnloadPc
      BY <1>3, <1>4, <2>1
    <2>2. CASE stack[Depth - 1].pc \notin UnloadPc /\ parent[t] = None
      BY <1>3, <1>4, <1>5, <2>2 DEF Settled
    <2>3. CASE stack[Depth - 1].pc \notin UnloadPc /\ parent[t] # None
      BY <1>3, <1>4, <2>3
    <2> QED  BY <2>1, <2>2, <2>3
  <1>10. Returns(t)
    BY <1>2, <1>3, <1>5, <1>6, <1>7, <1>8, <1>9 DEF Returns
  <1>11. StateInv'
    BY <1>0, <1>10, ReturnKeepsState
  <1>12. Rooted(parent)' /\ FrontOK'
    BY <1>0, <1>1, <1>4, <1>10, ReturnKeepsFront
  <1> QED  BY <1>11, <1>12 DEF CallsInv

(* unloadDeclarations meets a marker. *)
LEMMA NestedKeeps ==
  ASSUME IInv, IInv', CallsInv, errorOut' = errorOut, RevertNested
  PROVE  CallsInv'
  <1>0. /\ StateInv /\ StackOK /\ Rooted(parent) /\ FrontOK
        /\ ShapeOK /\ LineageOK /\ PhasesOK
    BY DEF CallsInv, StateInv, IInv
  <1>1. Top.pc = "revert" /\ Top.pc \notin BottomPc
    BY DEF RevertNested, At, BottomPc
  <1>2. /\ Depth \in Nat /\ Depth > 1 /\ Top = stack[Depth] /\ Top.t \in Txn
        /\ parent[Top.t] # Top.t
    BY <1>0, <1>1, TopPhase, TxnAssumption
  <1>3. PICK c \in Txn : c = Last(nested[Top.t]) /\ c \in Range(nested[Top.t])
    <2>1. nested[Top.t] \in Seq(Txn) /\ nested[Top.t] # <<>>
      BY <1>2 DEF RevertNested, IInv, TransactionInv, TransactionTypeOK
    <2> DEFINE q == nested[Top.t]
    <2>2. PICK n \in Nat : n = Len(q)
      BY <2>1, LenProperties
    <2>3. n # 0 /\ DOMAIN q = 1..n
      BY <2>1, <2>2, EmptySeq, LenProperties
    <2>4. Last(q) = q[n] /\ n \in DOMAIN q
      BY <2>2, <2>3 DEF Last
    <2>5. Last(q) \in Range(q)
      BY <2>4 DEF Range
    <2>6. Last(q) \in Txn
      BY <2>1, FrontFacts
    <2> QED  BY <2>5, <2>6
  <1>4. parent[c] = Top.t /\ Live(c)
    <2>1. parent[c] = Top.t
      BY <1>2, <1>3 DEF IInv, TransactionInv, TreeOK, NestingOK
    <2> QED  BY <1>2, <2>1, TxnAssumption DEF IInv, TransactionInv, TreeOK, NestingOK
  <1>5. \A i \in 1..Depth : stack[i].t # c
    <2> SUFFICES ASSUME NEW i \in 1..Depth, stack[i].t = c  PROVE FALSE
      OBVIOUS
    <2>1. CASE i = Depth
      BY <1>2, <1>4, <2>1
    <2>2. CASE i # Depth
      <3>1. i \in 1..(Depth - 1)
        BY <1>2, <2>2
      <3> QED  BY <1>0, <1>2, <1>4, <3>1, LowerFrames, TxnAssumption
    <2> QED  BY <2>1, <2>2
  <1>6. state[c] \in Final \cup {"kCompleted"}
    <2>1. state[c] \notin Building
      BY <1>0, <1>5 DEF PhasesOK
    <2>2. state[c] \in State
      BY DEF IInv, TransactionInv, TransactionTypeOK
    <2> QED  BY <1>4, <2>1, <2>2 DEF State, Building, Final, Live
  <1> DEFINE f == UnloadFrame(c, FALSE)
  <1>7. f \in Frame /\ f.pc = "dtor" /\ f.t = c /\ f.prev = None
    <2>1. "dtor" \in Pc /\ c \in Pointer
      BY DEF Pc, UnloadPc, Pointer
    <2> QED  BY <2>1, NewFrameType DEF UnloadFrame, NewFrame
  <1>8. Push(f) /\ unloading' = [unloading EXCEPT ![c] = TRUE]
    BY <1>3 DEF RevertNested
  <1> HIDE DEF f
  <1>9. Len(stack') = Depth + 1 /\ Kept(Depth) /\ Top' = f
    <2>1. /\ Len(stack') = Depth + 1 /\ stack'[Depth + 1] = f
          /\ \A i \in 1..Depth : stack'[i] = stack[i]
      BY <1>0, <1>7, <1>8, PushFrames
    <2> QED  BY <2>1 DEF Kept, Same, Top, Last
  <1>10. Unloads(c)
    BY <1>1, <1>4, <1>5, <1>6, <1>7, <1>8, <1>9 DEF Unloads, RevertNested, treeVars
  <1> QED  BY <1>0, <1>10, UnloadKeepsState, UnloadKeepsFront DEF CallsInv

(* The client, and nobody else, unloads the last transaction. *)
LEMMA UnloadKeeps ==
  ASSUME Tame, IInv, IInv', CallsInv, errorOut' = errorOut, UnloadLast
  PROVE  CallsInv'
  <1>0. StateInv /\ StackOK /\ Rooted(parent) /\ FrontOK /\ ShapeOK /\ ChainOK
    BY DEF CallsInv, StateInv, IInv, FrontOK
  <1>1. At("client")
    BY DEF UnloadLast, MayCall, Calls, Tame, At, UserPc
  <1>2. /\ Depth = 1 /\ Top = stack[1] /\ Top \in Frame /\ Top.t = None
        /\ CallerAfter(Top) = Top
    <2>1. Top.pc \in BottomPc
      BY <1>1 DEF At, BottomPc
    <2>2. Depth = 1 /\ Top = stack[1] /\ Top \in Frame
      BY <1>0, <2>1, TopPhase
    <2>3. 1 \in 1..Depth
      BY <2>2
    <2> QED  BY <1>0, <1>1, <2>1, <2>2, <2>3 DEF ShapeOK, At, CallerAfter
  <1>3. UNCHANGED <<state, parent, consumer, listVars>>
    BY DEF UnloadLast, treeVars
  <1>4. CASE GetLastTransaction = GetFirstTransaction
    <2>1. Goto(Top) /\ UNCHANGED unloading
      BY <1>2, <1>4 DEF UnloadLast
    <2>2. Len(stack') = Depth /\ stack'[Depth] = Top
      BY <1>0, <1>2, <2>1, GotoFrames
    <2>3. Kept(Depth)
      BY <1>2, <2>2 DEF Kept, Same
    <2>4. Stays
      BY <1>3, <2>1, <2>2, <2>3 DEF Stays
    <2> QED  BY <1>0, <2>4, StayKeeps DEF CallsInv
  <1>5. CASE GetLastTransaction # GetFirstTransaction
    <2>1. GetLastTransaction # None
      <3>1. transactions # <<>>
        BY <1>5 DEF GetLastTransaction, GetFirstTransaction
      <3>2. transactions \in Seq(Txn)
        BY DEF IInv, TransactionInv, TransactionTypeOK
      <3>3. Last(transactions) \in Txn
        BY ONLY <3>1, <3>2, FrontFacts
      <3> QED  BY <3>1, <3>3, TxnAssumption DEF GetLastTransaction
    <2>2. PICK c \in Txn : c = GetLastTransaction
      BY <1>0, <2>1, ListFacts
    <2>3. state[c] \in Final \cup {"kCompleted"}
      BY <1>0, <2>1, <2>2, ListFacts DEF Final
    <2> DEFINE f == UnloadFrame(c, FALSE)
    <2>4. f \in Frame /\ f.pc = "dtor" /\ f.t = c /\ f.prev = None
      <3>1. "dtor" \in Pc /\ c \in Pointer
        BY DEF Pc, UnloadPc, Pointer
      <3> QED  BY <3>1, NewFrameType DEF UnloadFrame, NewFrame
    <2>5. CallFrom(Top, f) /\ unloading' = [unloading EXCEPT ![c] = TRUE]
      BY <1>2, <1>5, <2>2 DEF UnloadLast
    <2> HIDE DEF f
    <2>6. Len(stack') = 2 /\ Kept(Depth) /\ Top' = f
      <3>1. Len(stack') = Depth + 1 /\ stack'[Depth] = Top /\ stack'[Depth + 1] = f
        BY <1>0, <1>2, <2>4, <2>5, CallFrames
      <3> QED  BY <1>2, <3>1 DEF Kept, Same, Top, Last
    <2>7. \A i \in 1..Depth : stack[i].t # c
      BY <1>2, TxnAssumption
    <2>8. Len(stack') = Depth + 1
      BY <1>2, <2>6
    <2>9. Unloads(c)
      BY <1>1, <1>3, <2>2, <2>3, <2>4, <2>5, <2>6, <2>7, <2>8 DEF Unloads, At
    <2> QED  BY <1>0, <2>9, UnloadKeepsState, UnloadKeepsFront DEF CallsInv
  <1> QED  BY <1>4, <1>5

(* The constructor is done but for its transaction. *)
LEMMA BootCommitKeeps ==
  ASSUME IInv, IInv', CallsInv, errorOut' = errorOut, BootCommit
  PROVE  CallsInv'
  <1>0. StateInv /\ Rooted(parent) /\ FrontOK
    BY DEF CallsInv
  <1>1. Top.pc = "booted" /\ Top.pc \in BottomPc /\ Top.pc \notin UnloadPc
    BY DEF BootCommit, At, BottomPc, UnloadPc
  <1>2. /\ Depth = 1 /\ Top = stack[1]
        /\ Top.t # None => PhaseOK(Top) /\ Top.t \in Txn
    BY <1>0, <1>1, TopPhase
  <1>3. /\ UNCHANGED <<state, parent, consumer, unloading, listVars>>
        /\ ChainOK' /\ Rooted(parent)' /\ GetLastTransaction' = GetLastTransaction
    BY <1>0 DEF BootCommit, treeVars, listVars, FrontOK, ChainOK, GetLastTransaction
  <1>4. Expected(Top) /\ (consumer # None => Live(consumer))
    BY <1>0, <1>1 DEF StateInv, CurrentOK
  <1>5. \A u \in Txn : /\ state'[u] \in Building => u = Top.t
                       /\ ~Live(u)' => ~unloading'[u]
    <2> SUFFICES ASSUME NEW u \in Txn
                 PROVE  /\ state[u] \in Building => u = Top.t
                        /\ ~Live(u) => ~unloading[u]
      BY <1>3 DEF Live
    <2>1. state[u] \in Building => \E i \in 1..Depth : stack[i].t = u
      BY <1>0 DEF StateInv, PhasesOK
    <2>2. \A i \in 1..Depth : i = 1
      BY <1>2
    <2> QED  BY <1>0, <1>2, <2>1, <2>2 DEF StateInv, PhasesOK
  <1>6. CASE Top.t = None
    <2> DEFINE f == NewFrame("client", None, FALSE)
    <2>1. f.pc = "client" /\ f.t = None /\ f.prev = None
      BY DEF NewFrame
    <2>2. stack' = <<f>>
      BY <1>6 DEF BootCommit
    <2> HIDE DEF f
    <2>3. Len(stack') = 1 /\ Top' = f
      BY <2>2 DEF Top, Last
    <2>4. Settled(consumer)'
      BY <1>1, <1>3, <1>4, <1>6 DEF Expected, Target, Settled
    <2>5. consumer' # None => Live(consumer)'
      BY <1>3, <1>4 DEF Live
    <2>6. Boots
      BY <1>3, <1>5, <1>6, <2>1, <2>3, <2>4, <2>5 DEF Boots
    <2> QED  BY <1>3, <2>6, BootKeeps DEF CallsInv
  <1>7. CASE Top.t # None
    <2> DEFINE f == NewFrame("client", None, FALSE)
               g == NewFrame("check", Top.t, FALSE)
    <2>1. f.pc = "client" /\ f.t = None /\ f.prev = None /\ g.pc = "check" /\ g.t = Top.t /\ g.prev = None
      BY DEF NewFrame
    <2>2. stack' = <<f, g>>
      BY <1>7 DEF BootCommit
    <2> HIDE DEF f, g
    <2>3. Len(stack') = 2 /\ Top' = g /\ stack'[1] = f
      BY <2>2 DEF Top, Last
    <2>4. state[Top.t] = "kCompleted" /\ parent[Top.t] = None /\ ~unloading[Top.t]
      BY <1>1, <1>2, <1>7 DEF PhaseOK
    <2>5. PhaseOK(Top)'
      BY <1>3, <2>1, <2>3, <2>4 DEF PhaseOK, ParsePc, WorkPc, DonePc, UnloadPc
    <2>6. consumer' = Top'.t /\ Live(consumer)'
      BY <1>1, <1>3, <1>4, <1>7, <2>1, <2>3, <2>4 DEF Expected, Target, Live
    <2>7. Top.t = GetLastTransaction /\ next[Top.t] = None
      <3>1. 1 \in 1..Depth /\ ~Aside(Top) /\ Top.pc \notin ParsePc
        BY <1>1, <1>2, <1>7 DEF Aside, ParsePc
      <3>2. Top.t = GetLastTransaction
        BY <1>0, <1>2, <2>4, <3>1 DEF FrontOK
      <3> QED  BY <1>0, <1>7, <3>2, ListFacts DEF FrontOK
    <2>8. Boots
      BY <1>3, <1>5, <1>7, <2>1, <2>3, <2>4, <2>5, <2>6, <2>7 DEF Boots, listVars
    <2> QED  BY <1>3, <2>8, BootKeeps DEF CallsInv
  <1> QED  BY <1>6, <1>7

(* A fresh interpreter. *)
LEMMA InitCalls == Init => CallsInv
  <1> SUFFICES ASSUME Init  PROVE CallsInv
    OBVIOUS
  <1> DEFINE f == NewFrame("boot", None, FALSE)
  <1>1. f.pc = "boot" /\ f.t = None /\ f.prev = None
    BY DEF NewFrame
  <1>2. stack = <<f>>
    BY DEF Init
  <1> HIDE DEF f
  <1>3. Len(stack) = 1 /\ Depth = 1 /\ stack[1] = f /\ Top = f
    BY <1>2 DEF Top, Last, Depth
  <1>4. \A i \in 1..Depth : i = 1
    BY <1>3
  <1>5. /\ consumer = None /\ transactions = <<>>
        /\ \A u \in Txn : /\ state[u] = "kNumStates" /\ parent[u] = None
                          /\ unloading[u] = FALSE /\ next[u] = None
    BY DEF Init, TransactionInit
  <1>6. ShapeOK
    BY <1>1, <1>3, <1>4 DEF ShapeOK, UnloadPc
  <1>7. LineageOK
    <2>1. 2..Depth = {} /\ 1..(Depth - 1) = {}
      BY <1>3
    <2> QED  BY <1>4, <2>1 DEF LineageOK
  <1>8. PhasesOK
    BY <1>1, <1>3, <1>4, <1>5 DEF PhasesOK, Building
  <1>9. CurrentOK
    <2>1. 2..Depth = {}
      BY <1>3
    <2> QED  BY <1>1, <1>3, <1>5, <2>1 DEF CurrentOK, At, Expected, Target, Settled
  <1>10. Rooted(parent)
    BY RootsInit DEF Init, TransactionInit
  <1>11. ChainOK
    <2>1. DOMAIN <<>> = {}
      OBVIOUS
    <2> QED  BY <1>5, <2>1 DEF ChainOK, IsInjective
  <1>12. FrontOK
    <2>1. 2..Depth = {} /\ \A i \in 1..Depth : Aside(stack[i])
      BY <1>1, <1>3, <1>4 DEF Aside
    <2> QED  BY <1>11, <2>1 DEF FrontOK
  <1> QED  BY <1>6, <1>7, <1>8, <1>9, <1>10, <1>12 DEF CallsInv, StateInv

(* Every step keeps the invariant. *)
LEMMA NextCalls ==
  ASSUME Tame, IInv, IInv', CallsInv, [Next]_vars
  PROVE  CallsInv'
  <1>1. CASE UNCHANGED vars
    <2>1. Stays
      BY <1>1 DEF Stays, vars, Kept, Same, Depth, listVars
    <2> QED  BY <2>1, StayKeeps DEF CallsInv
  <1>2. CASE Next
    <2>1. errorOut' = errorOut
      BY <1>2 DEF Next, Run, Choose
    <2>2. CASE Run
      <3>1. CASE Return
        BY <2>1, <3>1, DoneKeeps, DtorKeeps, RevertKeeps DEF Return
      <3>2. CASE Finish
        BY <2>1, <3>2, EndEmptyKeeps, EndFullKeeps, BootCommitKeeps, CheckKeeps,
           CommittedKeeps, NestedKeeps DEF Finish
      <3>3. CASE \E n \in Txn : Open(n) \/ BootBegin(n)
        BY <2>1, <3>3, NestKeeps, BootBeginKeeps
      <3> QED  BY <2>2, <3>1, <3>2, <3>3 DEF Run
    <2>3. CASE Choose
      <3>1. CASE Parse
        BY <2>1, <3>1, ParseKeeps
      <3>2. CASE InitThrow
        BY <2>1, <3>2, DoneKeeps
      <3>3. CASE UnloadLast
        BY <2>1, <3>3, UnloadKeeps
      <3>4. CASE \E c \in {"compile", "lookup"}, t \in Txn : Begin(c, t)
        BY <2>1, <3>4, BeginKeeps
      <3> QED  BY <2>3, <3>1, <3>2, <3>3, <3>4 DEF Choose
    <2> QED  BY <1>2, <2>2, <2>3 DEF Next
  <1> QED  BY <1>1, <1>2

-----------------------------------------------------------------------------
(***************************************************************************)
(* Transactions open and close like brackets, and fail as a whole:         *)
(* DequeOK, ScopesOK and RollbackOK, for the user code that CallsInv       *)
(* assumes, Tame.                                                          *)
(***************************************************************************)

(***************************************************************************)
(* The part of the inductive invariant that is about errors.               *)
(***************************************************************************)

(* A nested transaction that was tagged as rolled back has left an error.    *)
TaggedOK ==
  /\ \A n \in Txn : parent[n] # None /\ state[n] = "kRolledBack" => IssuedErrors(n)
  /\ \A i \in 1..Depth :
       stack[i].pc \in UnloadPc /\ parent[stack[i].t] # None /\ errorOut => IssuedErrors(stack[i].t)

(* The engine remembers an error of a parse below r that is not over, and no *)
(* lookup will make it forget.                                               *)
Reported(r) ==
  /\ diagError
  /\ \E k \in 2..Depth :
       /\ stack[k].pc \in {"bootparse", "compile"} /\ RootOf(parent, stack[k].t) = r
       /\ \A j \in k..Depth : stack[j].pc = "lookup" => stack[j].flag

(* Before commitTransaction has looked at the errors, or after it has acted  *)
(* upon them.                                                                *)
OpenPc == ParsePc \cup {"booted"}
EarlyPc == OpenPc \cup {"check"} \cup UnloadPc

(* The commit of r will find the error, or has found it.                     *)
Doomed(r) ==
  /\ parent[r] = None /\ state[r] # "kCommitted"
  /\ \/ state[r] = "kRolledBack"
     \/ \E i \in 1..Depth :
          /\ stack[i].t = r /\ stack[i].pc \in EarlyPc
          /\ diags[r] = "kErrors" \/ (stack[i].pc \in OpenPc /\ Reported(r))

ErrorsOK == \A r \in erred : Doomed(r)

ErrorsInv == TaggedOK /\ ErrorsOK

(* All of it. *)
ScopesInv == CallsInv /\ ErrorsInv /\ ResultIsSettled

(* The error is one below the function at the top. *)
LEMMA ReportedRoot ==
  ASSUME IInv, CallsInv, NEW r, Reported(r)
  PROVE  Depth > 1 /\ diagError /\ RootOf(parent, Top.t) = r
  <1>1. Depth \in Nat /\ Top = stack[Depth]
    BY TopFrame
  <1>2. PICK k \in 2..Depth : /\ stack[k].pc \in {"bootparse", "compile"}
                              /\ RootOf(parent, stack[k].t) = r
    BY DEF Reported
  <1>3. Depth > 1 /\ k \in 1..Depth /\ Depth \in 1..Depth /\ (k = Depth \/ k < Depth)
    BY <1>1, <1>2
  <1>4. ~Aside(stack[k])
    <2>1. stack[k].t \in Txn
      BY <1>2, TopFrame
    <2> QED  BY <1>2, <2>1, TxnAssumption DEF Aside
  <1>5. RootOf(parent, stack[Depth].t) = r
    BY <1>2, <1>3, <1>4 DEF CallsInv, FrontOK
  <1> QED  BY <1>1, <1>3, <1>5 DEF Reported

(* The m outermost functions are where they were, and the error was not one  *)
(* of the others'.                                                           *)
LEMMA ReportedKept ==
  ASSUME IInv, NEW r, Reported(r), diagError',
         NEW m \in Nat, m <= Depth, m <= Depth', Depth' \in Nat, Kept(m),
         \A k \in 2..m : RootOf(parent', stack[k].t) = RootOf(parent, stack[k].t),
         \A k \in (m + 1)..Depth : stack[k].pc \notin {"bootparse", "compile"},
         \A j \in (m + 1)..Depth' : stack'[j].pc = "lookup" => stack'[j].flag
  PROVE  Reported(r)'
  <1>1. Depth \in Nat
    BY TopFrame
  <1>2. PICK k \in 2..Depth : /\ stack[k].pc \in {"bootparse", "compile"}
                              /\ RootOf(parent, stack[k].t) = r
                              /\ \A j \in k..Depth : stack[j].pc = "lookup" => stack[j].flag
    BY DEF Reported
  <1>3. k \in 2..m /\ k \in 2..Depth' /\ k \in 1..m
    <2>1. k \notin (m + 1)..Depth
      BY <1>2
    <2> QED  BY <1>1, <2>1
  <1>4. Same(stack'[k], stack[k])
    BY <1>3 DEF Kept
  <1>5. stack'[k].pc \in {"bootparse", "compile"} /\ RootOf(parent', stack'[k].t) = r
    BY <1>2, <1>3, <1>4 DEF Same
  <1>6. ASSUME NEW j \in k..Depth', stack'[j].pc = "lookup"
        PROVE  stack'[j].flag
    <2>1. CASE j <= m
      <3>1. j \in k..Depth /\ j \in 1..m
        BY <1>1, <1>3, <2>1
      <3>2. Same(stack'[j], stack[j])
        BY <3>1 DEF Kept
      <3> QED  BY <1>2, <1>6, <3>1, <3>2 DEF Same
    <2>2. CASE ~(j <= m)
      <3>1. j \in (m + 1)..Depth'
        BY <2>2
      <3> QED  BY <1>6, <3>1
    <2> QED  BY <2>1, <2>2
  <1> QED  BY <1>3, <1>5, <1>6 DEF Reported

(* The same of a transaction with an error. *)
LEMMA DoomedKept ==
  ASSUME IInv, NEW r, Doomed(r), parent'[r] = None, state'[r] # "kCommitted",
         state[r] = "kRolledBack" => state'[r] = "kRolledBack",
         diags[r] = "kErrors" => diags'[r] = "kErrors",
         Reported(r) => Reported(r)' \/ diags'[r] = "kErrors",
         NEW m \in Nat, m <= Depth, m <= Depth', Depth' \in Nat, Kept(m),
         \A i \in (m + 1)..Depth : stack[i].t = r /\ stack[i].pc \in EarlyPc =>
           \/ state'[r] = "kRolledBack"
           \/ i <= Depth' /\ stack'[i].t = r /\ stack'[i].pc \in EarlyPc /\ diags'[r] = "kErrors"
           \/ i <= Depth' /\ stack'[i].t = r /\ stack'[i].pc \in OpenPc
  PROVE  Doomed(r)'
  <1>1. Depth \in Nat
    BY TopFrame
  <1>2. state'[r] # "kCommitted"
    OBVIOUS
  <1>3. CASE state'[r] = "kRolledBack"
    BY <1>3 DEF Doomed
  <1>4. CASE state'[r] # "kRolledBack"
    <2>1. PICK i \in 1..Depth :
            /\ stack[i].t = r /\ stack[i].pc \in EarlyPc
            /\ diags[r] = "kErrors" \/ (stack[i].pc \in OpenPc /\ Reported(r))
      BY <1>4 DEF Doomed
    <2>2. diags'[r] = "kErrors" \/ (stack[i].pc \in OpenPc /\ Reported(r)')
      BY <2>1
    <2>3. CASE i <= m
      <3>1. i \in 1..m /\ i \in 1..Depth'
        BY <2>3
      <3>2. Same(stack'[i], stack[i])
        BY <3>1 DEF Kept
      <3> QED  BY <1>2, <2>1, <2>2, <3>1, <3>2 DEF Doomed, Same
    <2>4. CASE ~(i <= m)
      <3>1. i \in (m + 1)..Depth
        BY <1>1, <2>4
      <3>2. /\ i <= Depth' /\ stack'[i].t = r
            /\ \/ stack'[i].pc \in EarlyPc /\ diags'[r] = "kErrors"
               \/ stack'[i].pc \in OpenPc
        BY <1>4, <2>1, <3>1
      <3>3. i \in 1..Depth'
        BY <3>2
      <3> QED  BY <1>2, <2>2, <3>2, <3>3 DEF Doomed, EarlyPc
    <2> QED  BY <2>3, <2>4
  <1> QED  BY <1>3, <1>4

(* The same of what was tagged: only x changes. *)
LEMMA TaggedKept ==
  ASSUME IInv, IInv', CallsInv, TaggedOK, errorOut' = errorOut, NEW x \in Pointer,
         NEW m \in Nat, m <= Depth, m <= Depth', Depth' \in Nat, Kept(m),
         \A i \in 1..m : stack[i].t # None => stack[i].t # x,
         \A u \in Txn : u # x =>
           /\ state'[u] = state[u] /\ parent'[u] = parent[u]
           /\ diags[RootOf(parent, u)] = "kErrors" => diags'[RootOf(parent', u)] = "kErrors",
         x # None /\ parent'[x] # None /\ state'[x] = "kRolledBack" =>
           diags'[RootOf(parent', x)] = "kErrors",
         \A i \in (m + 1)..Depth' :
           stack'[i].pc \in UnloadPc /\ parent'[stack'[i].t] # None /\ errorOut =>
             diags'[RootOf(parent', stack'[i].t)] = "kErrors"
  PROVE  TaggedOK'
  <1>1. Depth \in Nat
    BY TopFrame
  <1>2. \A u : IssuedErrors(u) <=> diags[RootOf(parent, u)] = "kErrors"
    BY TopmostIsRootOf DEF IssuedErrors
  <1>3. \A u : IssuedErrors(u)' <=> diags'[RootOf(parent', u)] = "kErrors"
    <2>1. \A u : Topmost(u)' = RootOf(parent', u)
      BY DEF Topmost, RootOf, IsRootMap
    <2> QED  BY <2>1 DEF IssuedErrors
  <1>4. ASSUME NEW u \in Txn, parent'[u] # None, state'[u] = "kRolledBack"
        PROVE  IssuedErrors(u)'
    <2>1. CASE u = x
      BY <1>3, <1>4, <2>1, TxnAssumption
    <2>2. CASE u # x
      BY <1>2, <1>3, <1>4, <2>2 DEF TaggedOK
    <2> QED  BY <2>1, <2>2
  <1>5. ASSUME NEW i \in 1..Depth', stack'[i].pc \in UnloadPc, parent'[stack'[i].t] # None, errorOut'
        PROVE  IssuedErrors(stack[i].t)'
    <2>1. CASE i <= m
      <3>1. i \in 1..m /\ i \in 1..Depth
        BY <1>1, <2>1
      <3>2. Same(stack'[i], stack[i])
        BY <3>1 DEF Kept
      <3>3. stack[i].t \in Txn /\ stack[i].t # None
        <4>1. i # 1
          BY <1>5, <3>2, TopFrame DEF Same, UnloadPc, BottomPc
        <4>2. i \in 2..Depth
          BY <3>1, <4>1
        <4> QED  BY <4>2, TopFrame, TxnAssumption
      <3>4. stack[i].t # x
        BY <3>1, <3>3
      <3>5. IssuedErrors(stack[i].t)
        BY <1>5, <3>1, <3>2, <3>3, <3>4 DEF TaggedOK, Same
      <3> QED  BY <1>2, <1>3, <3>2, <3>3, <3>4, <3>5 DEF Same
    <2>2. CASE ~(i <= m)
      <3>1. i \in (m + 1)..Depth'
        BY <2>2
      <3> QED  BY <1>3, <1>5, <3>1
    <2> QED  BY <2>1, <2>2
  <1> QED  BY <1>4, <1>5 DEF TaggedOK

(***************************************************************************)
(* Steps that report no error and forget none.                             *)
(***************************************************************************)

(* Only x changes, and no function but the m outermost is at an early place. *)
LEMMA QuietKeeps ==
  ASSUME IInv, IInv', CallsInv, ErrorsInv, UNCHANGED <<diags, diagError, erred, errorOut>>,
         NEW x \in Pointer, x \notin erred, x # None => state'[x] # "kRolledBack",
         NEW m \in Nat, m <= Depth, m <= Depth', Depth' \in Nat, Kept(m),
         \A i \in 1..m : stack[i].t # None => stack[i].t # x,
         \A u \in Txn : u # x =>
           /\ state'[u] = state[u] /\ parent'[u] = parent[u]
           /\ RootOf(parent', u) = RootOf(parent, u),
         \A k \in (m + 1)..Depth : stack[k].pc \in EarlyPc =>
           /\ stack[k].pc \in UnloadPc
           /\ k <= Depth' /\ stack'[k].pc \in UnloadPc /\ stack'[k].t = stack[k].t,
         \A j \in (m + 1)..Depth' :
           /\ stack'[j].pc = "lookup" /\ diagError => stack'[j].flag
           /\ stack'[j].pc \in UnloadPc => ~errorOut \/ parent'[stack'[j].t] = None
  PROVE  ErrorsInv'
  <1>1. diags' = diags /\ diagError' = diagError /\ erred' = erred /\ errorOut' = errorOut
    OBVIOUS
  <1>2. TaggedOK'
    <2>1. \A u \in Txn : u # x =>
           /\ state'[u] = state[u] /\ parent'[u] = parent[u]
           /\ diags[RootOf(parent, u)] = "kErrors" => diags'[RootOf(parent', u)] = "kErrors"
      BY <1>1
    <2>2. \A i \in (m + 1)..Depth' :
           stack'[i].pc \in UnloadPc /\ parent'[stack'[i].t] # None /\ errorOut =>
             diags'[RootOf(parent', stack'[i].t)] = "kErrors"
      OBVIOUS
    <2> QED  BY <1>1, <2>1, <2>2, TaggedKept DEF ErrorsInv
  <1>3. ASSUME NEW r \in erred'
        PROVE  Doomed(r)'
    <2>1. r \in Txn /\ r # x /\ Doomed(r)
      BY <1>1 DEF ErrorsInv, ErrorsOK, IInv, RestOK
    <2>2. parent'[r] = None /\ state'[r] = state[r] /\ state'[r] # "kCommitted"
      BY <2>1 DEF Doomed
    <2>3. Reported(r) => Reported(r)'
      <3> SUFFICES ASSUME Reported(r)  PROVE Reported(r)'
        OBVIOUS
      <3>1. diagError /\ diagError'
        BY <1>1 DEF Reported
      <3>2. \A k \in 2..m : RootOf(parent', stack[k].t) = RootOf(parent, stack[k].t)
        <4> SUFFICES ASSUME NEW k \in 2..m
                     PROVE  RootOf(parent', stack[k].t) = RootOf(parent, stack[k].t)
          OBVIOUS
        <4>1. k \in 1..m /\ k \in 2..Depth
          BY TopFrame
        <4> QED  BY <4>1, TopFrame, TxnAssumption
      <3>3. \A k \in (m + 1)..Depth : stack[k].pc \notin {"bootparse", "compile"}
        BY DEF EarlyPc, OpenPc, ParsePc, UnloadPc
      <3>4. \A j \in (m + 1)..Depth' : stack'[j].pc = "lookup" => stack'[j].flag
        BY <3>1
      <3> QED  BY <3>1, <3>2, <3>3, <3>4, ReportedKept
    <2>4. \A i \in (m + 1)..Depth : stack[i].t = r /\ stack[i].pc \in EarlyPc =>
            \/ state'[r] = "kRolledBack"
            \/ i <= Depth' /\ stack'[i].t = r /\ stack'[i].pc \in EarlyPc /\ diags'[r] = "kErrors"
            \/ i <= Depth' /\ stack'[i].t = r /\ stack'[i].pc \in OpenPc
      <3> SUFFICES ASSUME NEW i \in (m + 1)..Depth, stack[i].t = r, stack[i].pc \in EarlyPc,
                          state[r] # "kRolledBack"
                   PROVE  /\ i <= Depth' /\ stack'[i].t = r /\ stack'[i].pc \in EarlyPc
                          /\ diags'[r] = "kErrors"
        BY <2>2
      <3>1. i \in 1..Depth /\ r # None
        BY <2>1, TopFrame, TxnAssumption
      <3>2. PICK j \in 1..Depth :
              /\ stack[j].t = r /\ stack[j].pc \in EarlyPc
              /\ diags[r] = "kErrors" \/ (stack[j].pc \in OpenPc /\ Reported(r))
        BY <2>1 DEF Doomed
      <3>3. i = j
        BY <3>1, <3>2 DEF CallsInv, StateInv, LineageOK
      <3>4. stack[j].pc \notin OpenPc
        BY <3>3 DEF OpenPc, ParsePc, UnloadPc
      <3> QED  BY <1>1, <3>2, <3>3, <3>4 DEF EarlyPc
    <2>5. diags[r] = "kErrors" => diags'[r] = "kErrors"
      BY <1>1
    <2> QED  BY <2>1, <2>2, <2>3, <2>4, <2>5, DoomedKept
  <1> QED  BY <1>2, <1>3 DEF ErrorsInv, ErrorsOK

(* No error is known of a transaction before it is opened. *)
LEMMA FreshClean ==
  ASSUME IInv, CallsInv, ErrorsInv, NEW t \in Txn, ~Live(t)
  PROVE  t \notin erred /\ \A i \in 1..Depth : stack[i].t # t
  <1>1. \A i \in 1..Depth : stack[i].t # t
    BY FramesLive, TxnAssumption DEF CallsInv, StateInv
  <1>2. t \notin erred
    BY <1>1 DEF ErrorsInv, ErrorsOK, Doomed, Live
  <1> QED  BY <1>1, <1>2

(* The others keep their roots when a transaction is opened. *)
LEMMA BeginRoots ==
  ASSUME IInv, CallsInv, NEW cur \in Pointer, NEW t \in Txn, BeginTransaction(cur, t)
  PROVE  /\ ~Live(t) /\ state'[t] = "kCollecting"
         /\ \A u \in Txn : u # t => /\ state'[u] = state[u] /\ parent'[u] = parent[u]
                                    /\ RootOf(parent', u) = RootOf(parent, u)
  <1>1. /\ ~Live(t) /\ state' = [state EXCEPT ![t] = "kCollecting"]
        /\ state \in [Txn -> State] /\ parent \in [Txn -> Pointer] /\ Rooted(parent)
    BY DEF BeginTransaction, CallsInv, IInv, TransactionInv, TransactionTypeOK
  <1>2. parent[t] = None /\ \A u \in Txn : parent[u] # t
    BY <1>1, FreeFacts
  <1>3. PICK p \in Pointer : p # t /\ parent' = [parent EXCEPT ![t] = p]
    <2>1. CASE NestsIn(cur)
      <3>1. cur # t
        BY <1>1, <2>1 DEF NestsIn, Live
      <3> QED  BY <2>1, <3>1 DEF BeginTransaction, AddNestedTransaction
    <2>2. CASE ~NestsIn(cur)
      <3>1. parent' = [parent EXCEPT ![t] = None]
        BY <1>1, <1>2, <2>2 DEF BeginTransaction, treeVars
      <3> QED  BY <3>1, TxnAssumption DEF Pointer
    <2> QED  BY <2>1, <2>2
  <1>4. /\ parent' \in [Txn -> Pointer] /\ parent'[t] # t
        /\ \A u \in Txn : u # t => parent'[u] = parent[u]
    BY <1>1, <1>3
  <1>5. \A u \in Txn : u # t => RootOf(parent', u) = RootOf(parent, u)
    BY <1>1, <1>2, <1>4, RootsKept
  <1> QED  BY <1>1, <1>4, <1>5

(* A caller that is where it was. *)
LEMMA CallerSame ==
  ASSUME IInv, Top.pc \in BottomPc \/ Top.fuel > 0
  PROVE  CallerAfter(Top) \in Frame /\ Same(CallerAfter(Top), Top)
  <1>1. Top \in Frame
    <2>1. Depth \in 1..Depth
      BY TopFrame
    <2> QED  BY <2>1, TopFrame
  <1>2. CASE Top.pc \in BottomPc
    BY <1>1, <1>2 DEF CallerAfter, Same
  <1>3. CASE Top.pc \notin BottomPc
    <2>1. CallerAfter(Top) = Spend(Top) /\ Spend(Top) \in Frame
      BY <1>1, <1>3, SpendType DEF CallerAfter
    <2> QED  BY <1>1, <2>1 DEF Spend, Frame, Same
  <1> QED  BY <1>2, <1>3

(* The frames after a call. *)
LEMMA CallKept ==
  ASSUME IInv, NEW g \in Frame, NEW h \in Frame, CallFrom(g, h)
  PROVE  /\ Depth \in Nat /\ Depth >= 1 /\ Depth' = Depth + 1 /\ Depth' \in Nat
         /\ stack'[Depth] = g /\ stack'[Depth + 1] = h /\ Kept(Depth - 1)
         /\ Same(g, Top) => Kept(Depth)
         /\ \A j \in (Depth + 1)..Depth' : j = Depth + 1
         /\ \A j \in Depth..Depth' : j = Depth \/ j = Depth + 1
  <1>1. StackOK
    BY DEF IInv
  <1>2. /\ Len(stack') = Depth + 1 /\ stack'[Depth] = g /\ stack'[Depth + 1] = h
        /\ \A i \in 1..(Depth - 1) : stack'[i] = stack[i]
    BY <1>1, CallFrames
  <1>3. Depth \in Nat /\ Depth >= 1 /\ Top = stack[Depth]
    BY TopFrame
  <1>4. Depth' = Depth + 1
    BY <1>2 DEF Depth
  <1>5. Kept(Depth - 1)
    BY <1>2 DEF Kept, Same
  <1>6. ASSUME Same(g, Top)  PROVE Kept(Depth)
    <2> SUFFICES ASSUME NEW i \in 1..Depth  PROVE Same(stack'[i], stack[i])
      BY DEF Kept
    <2>1. i = Depth \/ i \in 1..(Depth - 1)
      BY <1>3
    <2> QED  BY <1>2, <1>3, <1>6, <2>1 DEF Same
  <1> QED  BY <1>2, <1>3, <1>4, <1>5, <1>6

(* A parse is begun. *)
LEMMA BeginErrors ==
  ASSUME IInv, IInv', CallsInv, ErrorsInv, errorOut' = errorOut,
         NEW c \in {"compile", "lookup"}, NEW t \in Txn, Begin(c, t)
  PROVE  ErrorsInv'
  <1> DEFINE g == CallerAfter(Top)
             h == NewFrame(c, t, c = "lookup" /\ diagError)
  <1>1. /\ Top.pc \in BottomPc \/ Top.fuel > 0
        /\ BeginTransaction(consumer, t) /\ CallFrom(g, h)
        /\ UNCHANGED <<diags, diagError, erred>>
    BY DEF Begin, MayCall, diagVars
  <1>2. g \in Frame /\ Same(g, Top)
    BY <1>1, CallerSame
  <1>3. h \in Frame /\ h.pc = c /\ (c = "lookup" /\ diagError => h.flag)
    <2>1. c \in Pc /\ t \in Pointer /\ (c = "lookup" /\ diagError) \in BOOLEAN
      BY DEF Pc, ParsePc, Pointer
    <2> QED  BY <2>1, NewFrameType DEF NewFrame
  <1> HIDE DEF g, h
  <1>4. /\ Depth \in Nat /\ Depth' = Depth + 1 /\ Depth' \in Nat
        /\ stack'[Depth + 1] = h /\ Kept(Depth) /\ \A j \in (Depth + 1)..Depth' : j = Depth + 1
    BY <1>1, <1>2, <1>3, CallKept
  <1>5. consumer \in Pointer /\ t \in Pointer /\ t # None
    BY TxnAssumption DEF IInv, TransactionInv, TransactionTypeOK, Pointer
  <1>6. /\ ~Live(t) /\ state'[t] # "kRolledBack"
        /\ \A u \in Txn : u # t => /\ state'[u] = state[u] /\ parent'[u] = parent[u]
                                   /\ RootOf(parent', u) = RootOf(parent, u)
    BY <1>1, <1>5, BeginRoots
  <1>7. t \notin erred /\ \A i \in 1..Depth : stack[i].t # t
    BY <1>6, FreshClean
  <1>8. \A k \in (Depth + 1)..Depth : FALSE
    BY <1>4
  <1>9. \A j \in (Depth + 1)..Depth' :
          /\ stack'[j].pc = "lookup" /\ diagError => stack'[j].flag
          /\ stack'[j].pc \notin UnloadPc
    BY <1>3, <1>4 DEF UnloadPc
  <1>10. Depth <= Depth /\ Depth <= Depth'
    BY <1>4
  <1> QED  BY <1>1, <1>4, <1>5, <1>6, <1>7, <1>8, <1>9, <1>10, QuietKeeps

LEMMA BootBeginErrors ==
  ASSUME IInv, IInv', CallsInv, ErrorsInv, errorOut' = errorOut, NEW t \in Txn, BootBegin(t)
  PROVE  ErrorsInv'
  <1> DEFINE h == NewFrame("bootparse", t, FALSE)
  <1>1. /\ Top.pc \in BottomPc
        /\ BeginTransaction(consumer, t) /\ CallFrom(Top, h)
        /\ UNCHANGED <<diags, diagError, erred>>
    BY DEF BootBegin, diagVars, At, BottomPc
  <1>2. Top \in Frame /\ Same(Top, Top)
    BY <1>1, CallerSame DEF CallerAfter
  <1>3. h \in Frame /\ h.pc = "bootparse"
    <2>1. "bootparse" \in Pc /\ t \in Pointer
      BY DEF Pc, ParsePc, Pointer
    <2> QED  BY <2>1, NewFrameType DEF NewFrame
  <1> HIDE DEF h
  <1>4. /\ Depth \in Nat /\ Depth' = Depth + 1 /\ Depth' \in Nat
        /\ stack'[Depth + 1] = h /\ Kept(Depth) /\ \A j \in (Depth + 1)..Depth' : j = Depth + 1
    BY <1>1, <1>2, <1>3, CallKept
  <1>5. consumer \in Pointer /\ t \in Pointer /\ t # None
    BY TxnAssumption DEF IInv, TransactionInv, TransactionTypeOK, Pointer
  <1>6. /\ ~Live(t) /\ state'[t] # "kRolledBack"
        /\ \A u \in Txn : u # t => /\ state'[u] = state[u] /\ parent'[u] = parent[u]
                                   /\ RootOf(parent', u) = RootOf(parent, u)
    BY <1>1, <1>5, BeginRoots
  <1>7. t \notin erred /\ \A i \in 1..Depth : stack[i].t # t
    BY <1>6, FreshClean
  <1>8. \A k \in (Depth + 1)..Depth : FALSE
    BY <1>4
  <1>9. \A j \in (Depth + 1)..Depth' :
          /\ stack'[j].pc = "lookup" /\ diagError => stack'[j].flag
          /\ stack'[j].pc \notin UnloadPc
    BY <1>3, <1>4 DEF UnloadPc
  <1>10. Depth <= Depth /\ Depth <= Depth'
    BY <1>4
  <1> QED  BY <1>1, <1>4, <1>5, <1>6, <1>7, <1>8, <1>9, <1>10, QuietKeeps

(* commitTransaction begins a nested one. *)
LEMMA NestErrors ==
  ASSUME IInv, IInv', CallsInv, ErrorsInv, errorOut' = errorOut, NEW t \in Txn, Open(t)
  PROVE  ErrorsInv'
  <1>1. /\ UNCHANGED <<diags, diagError, erred>>
        /\ Top.pc \in {"inst", "deser", "weak"}
    BY DEF Open, OpenInstantiations, OpenDeserialization, OpenTranslation, diagVars, At
  <1>2. Top \in Frame /\ Top.t \in Txn /\ Top.t \in Pointer /\ consumer \in Pointer
        /\ t \in Pointer /\ t # None
    <2>1. Top.pc \notin BottomPc
      BY <1>1 DEF BottomPc
    <2> QED  BY <2>1, TopPhase, TopFrame, TxnAssumption
             DEF CallsInv, Pointer, IInv, TransactionInv, TransactionTypeOK
  <1>3. PICK g \in Frame, h \in Frame, cur \in Pointer :
          /\ BeginTransaction(cur, t) /\ CallFrom(g, h)
          /\ g.pc \in {"deser", "weak", "exec"} /\ h.pc = "sub"
    <2> DEFINE h == NewFrame("sub", t, FALSE)
               h0 == [NewFrame("sub", t, FALSE) EXCEPT !.fuel = 0]
    <2>1. "sub" \in Pc
      BY DEF Pc, ParsePc
    <2>2. h \in Frame /\ h.pc = "sub" /\ h0 \in Frame /\ h0.pc = "sub"
      BY <1>2, <2>1, NewFrameType DEF NewFrame
    <2>3. CASE OpenInstantiations(t)
      <3> DEFINE g == [Top EXCEPT !.pc = "deser", !.prev = consumer]
      <3>1. BeginTransaction(Top.t, t) /\ CallFrom(g, h)
        BY <2>3 DEF OpenInstantiations
      <3>2. g \in Frame /\ g.pc = "deser"
        BY <1>2 DEF Frame, Pc, CommitPc
      <3> HIDE DEF g, h
      <3> QED  BY <1>2, <2>2, <3>1, <3>2
    <2>4. CASE OpenDeserialization(t)
      <3> DEFINE g == [Top EXCEPT !.pc = IF parent[Top.t] = None THEN "weak" ELSE "exec"]
      <3>1. BeginTransaction(Top.t, t) /\ CallFrom(g, h0)
        BY <2>4 DEF OpenDeserialization
      <3>2. g \in Frame /\ g.pc \in {"weak", "exec"}
        BY <1>2 DEF Frame, Pc, CommitPc
      <3> HIDE DEF g, h0
      <3> QED  BY <1>2, <2>2, <3>1, <3>2
    <2>5. CASE OpenTranslation(t)
      <3> DEFINE g == [Top EXCEPT !.pc = "exec"]
      <3>1. BeginTransaction(consumer, t) /\ CallFrom(g, h)
        BY <2>5 DEF OpenTranslation
      <3>2. g \in Frame /\ g.pc = "exec"
        BY <1>2 DEF Frame, Pc, CommitPc
      <3> HIDE DEF g, h
      <3> QED  BY <1>2, <2>2, <3>1, <3>2
    <2> QED  BY <2>3, <2>4, <2>5 DEF Open
  <1>4. PICK m \in Nat : m + 1 = Depth /\ m = Depth - 1
    <2>1. Depth \in Nat /\ Depth >= 1
      BY TopFrame
    <2> QED  BY <2>1
  <1>5. /\ Depth' = m + 2 /\ Depth' \in Nat /\ Kept(m)
        /\ \A j \in (m + 1)..Depth' : stack'[j] \in {g, h}
    BY <1>3, <1>4, CallKept
  <1>6. /\ ~Live(t) /\ state'[t] # "kRolledBack"
        /\ \A u \in Txn : u # t => /\ state'[u] = state[u] /\ parent'[u] = parent[u]
                                   /\ RootOf(parent', u) = RootOf(parent, u)
    BY <1>2, <1>3, BeginRoots
  <1>7. t \notin erred /\ \A i \in 1..m : stack[i].t # t
    BY <1>4, <1>6, FreshClean
  <1>8. \A k \in (m + 1)..Depth : stack[k].pc \notin EarlyPc
    <2>1. \A k \in (m + 1)..Depth : k = Depth
      BY <1>4
    <2>2. Top = stack[Depth]
      BY TopFrame
    <2> QED  BY <1>1, <2>1, <2>2 DEF EarlyPc, OpenPc, ParsePc, UnloadPc
  <1>9. \A j \in (m + 1)..Depth' :
          /\ stack'[j].pc = "lookup" /\ diagError => stack'[j].flag
          /\ stack'[j].pc \notin UnloadPc
    BY <1>3, <1>5 DEF UnloadPc
  <1>10. m <= Depth /\ m <= Depth'
    BY <1>4, <1>5
  <1> QED  BY <1>1, <1>2, <1>5, <1>6, <1>7, <1>8, <1>9, <1>10, QuietKeeps

(* The function at the top goes on, past the place where errors matter, or   *)
(* returns from there; nothing changes but that its transaction may be       *)
(* committed.                                                                *)
LEMMA GoneKeeps ==
  ASSUME IInv, IInv', CallsInv, ErrorsInv, UNCHANGED <<diags, diagError, erred, errorOut, parent>>,
         NEW k \in Nat, k = Depth, k > 1,
         Depth' \in {k - 1, k}, Kept(k - 1), Top.pc \notin EarlyPc,
         \A u \in Txn : u # Top.t => state'[u] = state[u],
         state'[Top.t] # "kRolledBack",
         (Depth' = k /\ stack'[k].pc \in UnloadPc) => parent'[stack'[k].t] = None,
         Depth' = k => stack'[k].pc # "lookup"
  PROVE  ErrorsInv'
  <1>1. Top = stack[k] /\ Top.t \in Txn
    BY TopFrame
  <1>2. Top.t # None /\ Top.t \in Pointer
    BY <1>1, TxnAssumption DEF Pointer
  <1>3. \A i \in 1..k : stack[i].t = Top.t => i = k
    BY <1>1, <1>2 DEF CallsInv, StateInv, LineageOK
  <1>4. PICK m \in Nat : m = k - 1 /\ m + 1 = k /\ m <= Depth /\ m <= Depth' /\ Depth' \in Nat
    OBVIOUS
  <1>5. \A i \in 1..m : stack[i].t # Top.t
    BY <1>3, <1>4
  <1>6. Top.t \notin erred \/ state[Top.t] = "kRolledBack"
    BY <1>1, <1>3 DEF ErrorsInv, ErrorsOK, Doomed
  <1>7. Top.t \notin erred
    <2>1. Top.pc \in {"inst", "deser", "weak", "exec"} \cup DonePc
      <3>1. Top \in Frame /\ Top.pc \notin BottomPc
        BY <1>1, TopFrame
      <3> QED  BY <3>1 DEF Frame, Pc, EarlyPc, OpenPc, ParsePc, BottomPc, CommitPc, UnloadPc, DonePc
    <2>2. PhaseOK(Top)
      BY <1>2, TopPhase DEF CallsInv
    <2>3. state[Top.t] # "kRolledBack"
      BY <2>1, <2>2 DEF PhaseOK, WorkPc
    <2> QED  BY <1>6, <2>3
  <1>8. \A j \in (m + 1)..Depth : j = k /\ stack[j].pc \notin EarlyPc
    BY <1>1, <1>4
  <1>9. \A j \in (m + 1)..Depth' :
          /\ stack'[j].pc = "lookup" /\ diagError => stack'[j].flag
          /\ stack'[j].pc \in UnloadPc => ~errorOut \/ parent'[stack'[j].t] = None
    <2> SUFFICES ASSUME NEW j \in (m + 1)..Depth'
                 PROVE  /\ stack'[j].pc = "lookup" /\ diagError => stack'[j].flag
                        /\ stack'[j].pc \in UnloadPc => ~errorOut \/ parent'[stack'[j].t] = None
      OBVIOUS
    <2>1. j = k /\ Depth' = k
      BY <1>4
    <2> QED  BY <2>1
  <1>10. \A u \in Txn : u # Top.t => /\ state'[u] = state[u] /\ parent'[u] = parent[u]
                                     /\ RootOf(parent', u) = RootOf(parent, u)
    OBVIOUS
  <1>11. Kept(m)
    BY <1>4
  <1>12. UNCHANGED <<diags, diagError, erred, errorOut>>
    OBVIOUS
  <1> QED  BY <1>2, <1>4, <1>5, <1>7, <1>8, <1>9, <1>10, <1>11, <1>12, QuietKeeps

(* Nothing happens, or a decl is collected. *)
LEMMA StayErrors ==
  ASSUME IInv, IInv', CallsInv, ErrorsInv, UNCHANGED <<diags, diagError, erred>>, Stays
  PROVE  ErrorsInv'
  <1>1. Depth \in Nat /\ Depth' = Depth /\ Kept(Depth) /\ Depth <= Depth /\ Depth <= Depth'
    BY TopFrame DEF Stays, Depth
  <1>2. state' = state /\ parent' = parent /\ errorOut' = errorOut
    BY DEF Stays
  <1>3. None \in Pointer /\ None \notin erred
    BY TxnAssumption DEF Pointer, IInv, RestOK
  <1>4. \A k \in (Depth + 1)..Depth : FALSE
    BY <1>1
  <1>5. \A k \in (Depth + 1)..Depth' : FALSE
    BY <1>1
  <1> QED  BY <1>1, <1>2, <1>3, <1>4, <1>5, QuietKeeps

LEMMA AppendErrors ==
  ASSUME IInv, IInv', CallsInv, ErrorsInv, errorOut' = errorOut, AppendDecl
  PROVE  ErrorsInv'
  <1>1. Parse /\ UNCHANGED <<diags, diagError, erred>>
    BY DEF Parse, AppendDecl
  <1>2. Stays
    BY <1>1, ParseStays
  <1> QED  BY <1>1, <1>2, StayErrors

(* The frame after a step of the function at the top. *)
LEMMA GotoKept ==
  ASSUME IInv, CallsInv, NEW k \in Nat, k = Depth, k > 1, NEW f \in Frame, Goto(f)
  PROVE  Depth' = k /\ Kept(k - 1) /\ stack'[k] = f
  <1>1. StackOK /\ StateInv
    BY DEF IInv, CallsInv
  <1>2. Len(stack') = Depth /\ stack'[Depth] = f
    BY <1>1, GotoFrames
  <1>3. Kept(Depth - 1)
    BY <1>1, GotoTop
  <1> QED  BY <1>2, <1>3 DEF Depth

(* The commit goes on past its look at the errors. *)
LEMMA CommittedErrors ==
  ASSUME IInv, IInv', CallsInv, ErrorsInv, errorOut' = errorOut,
         SkipCodeGen \/ Execute \/ InitReturn
  PROVE  ErrorsInv'
  <1>1. /\ Top.pc \in {"deser", "exec", "init"} /\ Top.pc \notin EarlyPc /\ Top.pc \notin BottomPc
        /\ UNCHANGED <<diags, diagError, erred, errorOut, parent>>
        /\ state' = [state EXCEPT ![Top.t] = "kCommitted"]
    BY DEF SkipCodeGen, Execute, InitReturn, At, diagVars, treeVars, EarlyPc, OpenPc, ParsePc,
           UnloadPc, BottomPc
  <1>2. PICK k \in Nat : k = Depth /\ k > 1
    BY <1>1, TopFrame
  <1>3. Top \in Frame /\ Top.t \in Txn /\ Top.t \in Pointer
    BY <1>2, TopPhase DEF CallsInv, Pointer
  <1>4. /\ state'[Top.t] = "kCommitted"
        /\ \A u \in Txn : u # Top.t => state'[u] = state[u]
    BY <1>1, <1>3 DEF IInv, TransactionInv, TransactionTypeOK
  <1>5. PICK f \in Frame : /\ Goto(f) /\ f.pc \notin {"lookup"}
                           /\ f.pc \in UnloadPc => parent[f.t] = None
    <2>1. CASE Execute /\ parent[Top.t] = None /\ Top.flag
      <3> DEFINE f == UnloadFrame(Top.t, TRUE)
      <3>1. f \in Frame /\ f.pc = "dtor" /\ f.t = Top.t
        <4>1. "dtor" \in Pc
          BY DEF Pc, UnloadPc
        <4> QED  BY <1>3, <4>1, NewFrameType DEF UnloadFrame, NewFrame
      <3>2. Goto(f)
        BY <2>1 DEF Execute
      <3> HIDE DEF f
      <3> QED  BY <2>1, <3>1, <3>2
    <2>2. CASE Execute /\ parent[Top.t] = None /\ ~Top.flag
      <3> DEFINE f == [Top EXCEPT !.pc = "init"]
      <3>1. f \in Frame /\ f.pc = "init" /\ f.pc \notin UnloadPc
        BY <1>3 DEF Frame, Pc, CommitPc, UnloadPc
      <3>2. Goto(f)
        BY <2>2 DEF Execute
      <3> HIDE DEF f
      <3> QED  BY <3>1, <3>2
    <2>3. CASE Execute /\ parent[Top.t] # None
      <3> DEFINE f == [Top EXCEPT !.pc = "callback", !.prev = Top.prev]
      <3>1. f \in Frame /\ f.pc = "callback" /\ f.pc \notin UnloadPc
        BY <1>3 DEF Frame, Pc, CommitPc, UnloadPc
      <3>2. Goto(f)
        BY <2>3 DEF Execute
      <3> HIDE DEF f
      <3> QED  BY <3>1, <3>2
    <2>4. CASE SkipCodeGen \/ InitReturn
      <3> DEFINE f == [Top EXCEPT !.pc = "callback"]
      <3>1. f \in Frame /\ f.pc = "callback" /\ f.pc \notin UnloadPc
        BY <1>3 DEF Frame, Pc, CommitPc, UnloadPc
      <3>2. Goto(f)
        BY <2>4 DEF SkipCodeGen, InitReturn
      <3> HIDE DEF f
      <3> QED  BY <3>1, <3>2
    <2> QED  BY <2>1, <2>2, <2>3, <2>4
  <1>6. Depth' = k /\ Kept(k - 1) /\ stack'[k] = f
    BY <1>2, <1>5, GotoKept
  <1> QED  BY <1>1, <1>2, <1>4, <1>5, <1>6, GoneKeeps

(* It returns. *)
LEMMA DoneErrors ==
  ASSUME IInv, IInv', CallsInv, ErrorsInv, errorOut' = errorOut, InitThrow \/ CommitReturn
  PROVE  ErrorsInv'
  <1>1. /\ Top.pc \in DonePc /\ Top.pc \notin EarlyPc /\ Top.pc \notin BottomPc
        /\ UNCHANGED <<diags, diagError, erred, errorOut, parent, state>> /\ Pop
    BY DEF InitThrow, CommitReturn, At, diagVars, treeVars, EarlyPc, OpenPc, ParsePc,
           UnloadPc, BottomPc, DonePc
  <1>2. PICK k \in Nat : k = Depth /\ k > 1
    BY <1>1, TopFrame
  <1>3. Depth' = k - 1 /\ Kept(k - 1)
    BY <1>1, <1>2, PopKeepsFrames DEF Depth
  <1>4. state'[Top.t] # "kRolledBack"
    <2>1. PhaseOK(Top)
      BY <1>2, TopPhase DEF CallsInv
    <2> QED  BY <1>1, <2>1 DEF PhaseOK
  <1>5. Depth' # k
    BY <1>2, <1>3
  <1> QED  BY <1>1, <1>2, <1>3, <1>4, <1>5, GoneKeeps

(* An unload is called. *)
LEMMA UnloadsKeep ==
  ASSUME IInv, IInv', CallsInv, ErrorsInv, UNCHANGED <<diags, diagError, erred, errorOut>>,
         UNCHANGED <<state, parent>>,
         Depth' = Depth + 1, Kept(Depth), NEW f, stack'[Depth + 1] = f,
         f.pc = "dtor", ~errorOut \/ parent'[f.t] = None
  PROVE  ErrorsInv'
  <1>1. Depth \in Nat /\ Depth' \in Nat /\ Depth <= Depth /\ Depth <= Depth'
    BY TopFrame
  <1>2. None \in Pointer /\ None \notin erred
    BY TxnAssumption DEF Pointer, IInv, RestOK
  <1>3. \A k \in (Depth + 1)..Depth : FALSE
    BY <1>1
  <1>4. \A j \in (Depth + 1)..Depth' :
          /\ stack'[j].pc = "lookup" /\ diagError => stack'[j].flag
          /\ stack'[j].pc \in UnloadPc => ~errorOut \/ parent'[stack'[j].t] = None
    <2>1. \A j \in (Depth + 1)..Depth' : j = Depth + 1
      BY <1>1
    <2> QED  BY <2>1
  <1> QED  BY <1>1, <1>2, <1>3, <1>4, QuietKeeps

LEMMA NestedErrors ==
  ASSUME IInv, IInv', CallsInv, ErrorsInv, errorOut' = errorOut, RevertNested
  PROVE  ErrorsInv'
  <1> DEFINE f == UnloadFrame(Last(nested[Top.t]), FALSE)
  <1>1. /\ Top.pc = "revert" /\ Push(f)
        /\ UNCHANGED <<diags, diagError, erred, errorOut, state, parent>>
    BY DEF RevertNested, At, diagVars, treeVars
  <1>2. ~errorOut
    <2>1. Depth \in 1..Depth /\ Top = stack[Depth]
      BY TopFrame
    <2> QED  BY <1>1, <2>1 DEF CallsInv, StateInv, ShapeOK
  <1>3. f.pc = "dtor"
    BY DEF UnloadFrame, NewFrame
  <1>4. WellFormed(stack')
    BY DEF IInv, StackOK
  <1>5. stack' = Append(stack, f)
    BY <1>1 DEF Push
  <1> HIDE DEF f
  <1>6. Depth' = Depth + 1 /\ stack'[Depth + 1] = f /\ Kept(Depth)
    <2>1. stack \in Seq(Frame)
      BY DEF IInv, StackOK, WellFormed
    <2>2. Len(stack') = Len(stack) + 1 /\ stack'[Len(stack) + 1] = f
          /\ \A i \in 1..Len(stack) : stack'[i] = stack[i]
      BY ONLY <1>5, <2>1, AppendProperties
    <2> QED  BY <2>2 DEF Depth, Kept, Same
  <1> QED  BY <1>1, <1>2, <1>3, <1>6, UnloadsKeep

LEMMA UnloadErrors ==
  ASSUME Tame, IInv, IInv', CallsInv, ErrorsInv, errorOut' = errorOut, UnloadLast
  PROVE  ErrorsInv'
  <1>1. /\ MayCall("unload")
        /\ UNCHANGED <<diags, diagError, erred, errorOut, state, parent>>
        /\ UNCHANGED <<consumer, listVars>>
    BY DEF UnloadLast, diagVars, treeVars
  <1>2. CallerAfter(Top) \in Frame /\ Same(CallerAfter(Top), Top)
    BY <1>1, CallerSame DEF MayCall
  <1>3. CASE GetLastTransaction = GetFirstTransaction
    <2>1. Goto(CallerAfter(Top)) /\ UNCHANGED unloading
      BY <1>3 DEF UnloadLast
    <2>2. StackOK /\ Depth \in Nat /\ Depth >= 1 /\ Top = stack[Depth]
      BY TopFrame DEF IInv
    <2>3. /\ Len(stack') = Depth /\ stack'[Depth] = CallerAfter(Top)
          /\ \A i \in 1..(Depth - 1) : stack'[i] = stack[i]
      BY <1>2, <2>1, <2>2, GotoFrames
    <2>4. Kept(Depth)
      <3> SUFFICES ASSUME NEW i \in 1..Depth  PROVE Same(stack'[i], stack[i])
        BY DEF Kept
      <3>1. i = Depth \/ i \in 1..(Depth - 1)
        BY <2>2
      <3> QED  BY <1>2, <2>2, <2>3, <3>1 DEF Same
    <2>5. Stays
      BY <1>1, <2>1, <2>3, <2>4 DEF Stays
    <2> QED  BY <1>1, <2>5, StayErrors
  <1>4. CASE GetLastTransaction # GetFirstTransaction
    <2>1. PICK c \in Txn : c = GetLastTransaction /\ parent[c] = None
      <3>1. transactions # <<>>
        BY <1>4 DEF GetLastTransaction, GetFirstTransaction
      <3>2. transactions \in Seq(Txn)
        BY DEF IInv, TransactionInv, TransactionTypeOK
      <3>3. Last(transactions) \in Txn
        BY ONLY <3>1, <3>2, FrontFacts
      <3>4. GetLastTransaction # None
        BY <3>1, <3>3, TxnAssumption DEF GetLastTransaction
      <3> QED  BY <3>4, ListFacts DEF CallsInv, FrontOK
    <2> DEFINE f == UnloadFrame(c, FALSE)
    <2>2. f \in Frame /\ f.pc = "dtor" /\ f.t = c
      <3>1. "dtor" \in Pc /\ c \in Pointer
        BY DEF Pc, UnloadPc, Pointer
      <3> QED  BY <3>1, NewFrameType DEF UnloadFrame, NewFrame
    <2>3. CallFrom(CallerAfter(Top), f)
      BY <1>4, <2>1 DEF UnloadLast
    <2> HIDE DEF f
    <2>4. Depth' = Depth + 1 /\ Kept(Depth) /\ stack'[Depth + 1] = f
      BY <1>2, <2>2, <2>3, CallKept
    <2> QED  BY <1>1, <2>1, <2>2, <2>4, UnloadsKeep
  <1> QED  BY <1>3, <1>4

(***************************************************************************)
(* Steps that report an error or forget one.                               *)
(***************************************************************************)

(* The topmost transaction of a parse, before its commit, belongs to a        *)
(* function that has not looked at the errors yet.                            *)
LEMMA RootOpen ==
  ASSUME IInv, CallsInv, Top.pc \in ParsePc, NEW r, r = RootOf(parent, Top.t), ~Committing(r)
  PROVE  /\ r \in Txn /\ parent[r] = None /\ state[r] # "kCommitted"
         /\ \E i \in 1..Depth : stack[i].t = r /\ stack[i].pc \in OpenPc
  <1>1. Depth > 1 /\ Depth \in 2..Depth /\ Top = stack[Depth] /\ Top.t \in Txn /\ Depth \in Nat
    BY TopFrame, ParseFacts
  <1>2. r \in Txn /\ parent[r] = None
    BY <1>1, RootIsRoot DEF CallsInv
  <1>3. PICK i \in 1..Depth : stack[i].t = r
    BY <1>1 DEF CallsInv, FrontOK
  <1>4. stack[i].pc \in OpenPc
    <2>1. stack[i].pc \notin CommitPc
      <3>1. DOMAIN stack = 1..Depth
        BY DepthFacts DEF IInv, StackOK, Depth
      <3> QED  BY <1>3, <3>1 DEF Committing
    <2>2. stack[i].pc \notin UnloadPc
      <3>1. Depth \in i..Depth
        BY <1>1
      <3>2. Top.pc \notin UnloadPc
        BY DEF ParsePc, UnloadPc
      <3> QED  BY <1>1, <3>1, <3>2 DEF CallsInv, StateInv, ShapeOK
    <2>3. stack[i].pc \notin {"boot", "client"}
      BY <1>2, <1>3, TxnAssumption DEF CallsInv, StateInv, ShapeOK
    <2>4. stack[i].pc \in Pc
      BY TopFrame DEF Frame
    <2> QED  BY <2>1, <2>2, <2>3, <2>4 DEF Pc, BottomPc, OpenPc
  <1>5. state[r] # "kCommitted"
    <2>1. PhaseOK(stack[i])
      BY <1>2, <1>3, TxnAssumption DEF CallsInv, StateInv, PhasesOK
    <2> QED  BY <1>3, <1>4, <2>1 DEF PhaseOK, OpenPc
  <1> QED  BY <1>2, <1>3, <1>4, <1>5

(* An event of a parse. *)
LEMMA StayDoomed ==
  ASSUME IInv, Stays, NEW r, Doomed(r),
         diags[r] = "kErrors" => diags'[r] = "kErrors",
         Reported(r) => diagError'
  PROVE  Doomed(r)'
  <1>1. Depth \in Nat /\ Depth' = Depth /\ Kept(Depth) /\ Depth <= Depth /\ Depth <= Depth'
    BY TopFrame DEF Stays, Depth
  <1>2. parent' = parent /\ state' = state
    BY DEF Stays
  <1>3. \A i \in (Depth + 1)..Depth : FALSE
    BY <1>1
  <1>4. \A i \in (Depth + 1)..Depth' : FALSE
    BY <1>1
  <1>5. Reported(r) => Reported(r)'
    BY <1>1, <1>2, <1>3, <1>4, ReportedKept
  <1>6. parent'[r] = None /\ state'[r] = state[r] /\ state'[r] # "kCommitted"
    BY <1>2 DEF Doomed
  <1> QED  BY <1>1, <1>3, <1>5, <1>6, DoomedKept

LEMMA StayTagged ==
  ASSUME IInv, IInv', CallsInv, TaggedOK, Stays,
         \A u \in Txn : diags[u] = "kErrors" => diags'[u] = "kErrors"
  PROVE  TaggedOK'
  <1>1. Depth \in Nat /\ Depth' = Depth /\ Kept(Depth) /\ Depth <= Depth /\ Depth <= Depth'
    BY TopFrame DEF Stays, Depth
  <1>2. parent' = parent /\ state' = state /\ errorOut' = errorOut
    BY DEF Stays
  <1>3. None \in Pointer
    BY DEF Pointer
  <1>4. \A i \in (Depth + 1)..Depth' : FALSE
    BY <1>1
  <1>5. \A u \in Txn : diags[RootOf(parent, u)] = "kErrors" => diags'[RootOf(parent', u)] = "kErrors"
    BY <1>2, RootIsRoot DEF CallsInv
  <1> QED  BY <1>1, <1>2, <1>3, <1>4, <1>5, TaggedKept

(* What is reported now, and where. *)
LEMMA ErrorKnown ==
  ASSUME IInv, CallsInv, Stays, NEW r \in Erring(Top.t), Top.pc \in ParsePc,
         diagError' \/ diags'[r] = "kErrors"
  PROVE  Doomed(r)'
  <1>1. r = RootOf(parent, Top.t) /\ Top.pc \in {"bootparse", "compile"} /\ ~Committing(r)
    BY TopmostIsRootOf DEF Erring
  <1>2. /\ r \in Txn /\ parent[r] = None /\ state[r] # "kCommitted"
        /\ \E i \in 1..Depth : stack[i].t = r /\ stack[i].pc \in OpenPc
    BY <1>1, RootOpen
  <1>3. /\ Depth \in Nat /\ Depth > 1 /\ Top = stack[Depth]
        /\ Depth \in 2..Depth /\ Depth \in 1..Depth /\ Depth..Depth = {Depth}
    BY TopFrame, ParseFacts
  <1>4. Depth' = Depth /\ (\A i \in 1..Depth : Same(stack'[i], stack[i]))
        /\ parent' = parent /\ state' = state
    BY DEF Stays, Depth, Kept
  <1>5. PICK i \in 1..Depth : stack[i].t = r /\ stack[i].pc \in OpenPc
    BY <1>2
  <1>6. stack'[i].t = r /\ stack'[i].pc \in OpenPc /\ stack'[i].pc \in EarlyPc /\ i \in 1..Depth'
    BY <1>4, <1>5 DEF Same, EarlyPc
  <1>7. diagError' => Reported(r)'
    <2>1. /\ Depth \in 2..Depth' /\ stack'[Depth].pc \in {"bootparse", "compile"}
          /\ RootOf(parent', stack'[Depth].t) = r
          /\ \A j \in Depth..Depth' : stack'[j].pc # "lookup"
      BY <1>1, <1>3, <1>4 DEF Same
    <2> QED  BY <2>1 DEF Reported
  <1> QED  BY <1>2, <1>4, <1>6, <1>7 DEF Doomed

LEMMA ParseErrorErrors ==
  ASSUME IInv, IInv', CallsInv, ErrorsInv, errorOut' = errorOut, ParseError \/ TransformerError
  PROVE  ErrorsInv'
  <1>1. Stays
    BY ParseStays DEF Parse
  <1>2. Top.pc \in ParsePc /\ erred' = erred \cup Erring(Top.t)
    BY DEF ParseError, TransformerError
  <1>3. PICK root \in Txn : /\ root = RootOf(parent, Top.t)
                            /\ (diags' = diags /\ diagError') \/ diags' = [diags EXCEPT ![root] = "kErrors"]
                            /\ diagError => diagError'
    <2>1. Top.t \in Txn /\ consumer = Top.t
      BY <1>2, ParseFacts
    <2>2. RootOf(parent, Top.t) \in Txn
      BY <2>1, RootIsRoot DEF CallsInv
    <2> QED  BY <2>1, <2>2, TopmostIsRootOf DEF ParseError, TransformerError, SetErrors
  <1>4. diags \in [Txn -> Diags]
    BY DEF IInv, TransactionInv, TransactionTypeOK
  <1>5. \A u \in Txn : diags[u] = "kErrors" => diags'[u] = "kErrors"
    BY <1>3, <1>4
  <1>6. diagError' \/ diags'[root] = "kErrors"
    BY <1>3, <1>4
  <1>7. TaggedOK'
    BY <1>1, <1>5, StayTagged DEF ErrorsInv
  <1>8. ASSUME NEW r \in erred'  PROVE Doomed(r)'
    <2>1. CASE r \in erred
      <3>1. r \in Txn /\ Doomed(r)
        BY <2>1 DEF ErrorsInv, ErrorsOK, IInv, RestOK
      <3> QED  BY <1>1, <1>3, <1>5, <3>1, StayDoomed DEF Reported
    <2>2. CASE r \in Erring(Top.t)
      <3>1. r = root
        BY <1>3, <2>2, TopmostIsRootOf DEF Erring
      <3> QED  BY <1>1, <1>2, <1>6, <2>2, <3>1, ErrorKnown
    <2> QED  BY <1>2, <2>1, <2>2
  <1> QED  BY <1>7, <1>8 DEF ErrorsInv, ErrorsOK

(* A lookup forgets its own errors only. *)
LEMMA ResetErrors ==
  ASSUME IInv, IInv', CallsInv, ErrorsInv, errorOut' = errorOut, LookupReset
  PROVE  ErrorsInv'
  <1>1. Stays
    BY ParseStays DEF Parse
  <1>2. Top.pc = "lookup" /\ ~Top.flag /\ diags' = diags /\ erred' = erred
    BY DEF LookupReset, At
  <1>3. TaggedOK'
    BY <1>1, <1>2, StayTagged DEF ErrorsInv
  <1>4. ASSUME NEW r \in erred'  PROVE Doomed(r)'
    <2>1. Doomed(r)
      BY <1>2 DEF ErrorsInv, ErrorsOK
    <2>2. ~Reported(r)
      <3> SUFFICES ASSUME Reported(r)  PROVE FALSE
        OBVIOUS
      <3>1. PICK k \in 2..Depth : \A j \in k..Depth : stack[j].pc = "lookup" => stack[j].flag
        BY DEF Reported
      <3>2. Depth \in k..Depth /\ Top = stack[Depth]
        BY TopFrame
      <3> QED  BY <1>2, <3>1, <3>2
    <2> QED  BY <1>1, <1>2, <2>1, <2>2, StayDoomed
  <1> QED  BY <1>3, <1>4 DEF ErrorsInv, ErrorsOK

(* What endTransaction tells the topmost transaction. *)
LEMMA EndDiags ==
  ASSUME IInv, CallsInv, NEW t \in Txn, t = Top.t, NEW d,
         d = IF ParseFailed(t) THEN SetErrors(t) ELSE diags
  PROVE  /\ d \in [Txn -> Diags]
         /\ \A u \in Txn : diags[u] = "kErrors" => d[u] = "kErrors"
         /\ \A r \in Txn : Reported(r) => r = RootOf(parent, t) /\ d[r] = "kErrors"
  <1>1. diags \in [Txn -> Diags] /\ RootOf(parent, t) \in Txn
    BY RootIsRoot DEF IInv, TransactionInv, TransactionTypeOK, CallsInv
  <1>2. SetErrors(t) = [diags EXCEPT ![RootOf(parent, t)] = "kErrors"]
    BY TopmostIsRootOf DEF SetErrors
  <1>3. d \in [Txn -> Diags] /\ \A u \in Txn : diags[u] = "kErrors" => d[u] = "kErrors"
    BY <1>1, <1>2 DEF Diags
  <1>4. ASSUME NEW r \in Txn, Reported(r)  PROVE r = RootOf(parent, t) /\ d[r] = "kErrors"
    <2>1. r = RootOf(parent, t) /\ diagError
      BY <1>4, ReportedRoot
    <2>2. d = SetErrors(t)
      BY <2>1 DEF ParseFailed
    <2> QED  BY <1>1, <1>2, <2>1, <2>2
  <1> QED  BY <1>3, <1>4

(* A transaction without relatives below it leaves the tree: the others have  *)
(* the roots they had, and it is none of these.                               *)
LEMMA ReleaseRoots ==
  ASSUME IInv, IInv', CallsInv, NEW t \in Txn, nested[t] = <<>>, ReleaseTransaction(t),
         \A u \in Txn : u # t /\ diags[u] = "kErrors" => diags'[u] = "kErrors"
  PROVE  /\ parent'[t] = None
         /\ \A u \in Txn : u # t =>
              /\ state'[u] = state[u] /\ parent'[u] = parent[u]
              /\ RootOf(parent', u) = RootOf(parent, u)
              /\ diags[RootOf(parent, u)] = "kErrors" => diags'[RootOf(parent', u)] = "kErrors"
  <1>1. /\ parent'[t] = None /\ parent' \in [Txn -> Pointer]
        /\ \A u \in Txn : parent[u] # t
        /\ \A u \in Txn : u # t => state'[u] = state[u] /\ parent'[u] = parent[u]
    BY ReleaseFacts
  <1>2. Rooted(parent) /\ parent'[t] # t
    BY <1>1, TxnAssumption DEF CallsInv
  <1>3. \A u \in Txn : u # t => RootOf(parent', u) = RootOf(parent, u)
    BY <1>1, <1>2, RootsKept
  <1>4. \A u \in Txn : u # t => RootOf(parent, u) \in Txn /\ RootOf(parent, u) # t
    BY <1>1, <1>2, RootIsRoot, RootOfOthers
  <1> QED  BY <1>1, <1>3, <1>4

(* An empty transaction goes; its errors stay with the topmost one. *)
LEMMA EndEmptyErrors ==
  ASSUME IInv, IInv', CallsInv, ErrorsInv, errorOut' = errorOut, EndEmpty
  PROVE  ErrorsInv'
  <1>1. Top.pc \in ParsePc /\ EndEmptyTransaction(Top.t) /\ erred' = erred \ {Top.t}
    BY DEF EndEmpty
  <1>2. /\ Depth > 1 /\ Top.t \in Txn /\ Top.t # None /\ consumer = Top.t
        /\ At("bootparse") => Depth = 2 /\ stack[1].pc = "boot" /\ stack[1].t = None
    BY <1>1, ParseFacts
  <1>3. PICK t \in Txn : t = Top.t /\ t # None /\ t \in Pointer
    BY <1>2 DEF Pointer
  <1>4. PICK k \in Nat : k = Depth /\ k > 1 /\ Top = stack[k]
    BY <1>2, TopFrame
  <1>5. nested[t] = <<>> /\ ReleaseTransaction(t)
    BY <1>1, <1>3 DEF EndEmptyTransaction, IsEmpty
  <1> DEFINE d == IF ParseFailed(t) THEN SetErrors(t) ELSE diags
  <1>6. diags' = [d EXCEPT ![t] = "kNone"]
    BY <1>1, <1>3 DEF EndEmptyTransaction
  <1>7. /\ d \in [Txn -> Diags]
        /\ \A u \in Txn : diags[u] = "kErrors" => d[u] = "kErrors"
        /\ \A r \in Txn : Reported(r) => d[r] = "kErrors"
    BY <1>3, EndDiags
  <1> HIDE DEF d
  <1>8. /\ \A u \in Txn : u # t /\ diags[u] = "kErrors" => diags'[u] = "kErrors"
        /\ \A r \in Txn : r # t /\ Reported(r) => diags'[r] = "kErrors"
    BY <1>6, <1>7
  <1>9. /\ parent'[t] = None
        /\ \A u \in Txn : u # t =>
             /\ state'[u] = state[u] /\ parent'[u] = parent[u]
             /\ diags[RootOf(parent, u)] = "kErrors" => diags'[RootOf(parent', u)] = "kErrors"
    BY <1>3, <1>5, <1>8, ReleaseRoots
  <1>10. PICK m \in Nat : /\ m <= Depth /\ m <= Depth' /\ Depth' \in Nat /\ Kept(m)
                          /\ \A i \in 1..m : stack[i].t # t
                          /\ \A i \in (m + 1)..Depth : stack[i].t = t \/ stack[i].t = None
                          /\ \A i \in (m + 1)..Depth' : stack'[i].pc \notin UnloadPc
    <2>1. CASE ~At("bootparse")
      <3>1. Len(stack') = k - 1 /\ Kept(k - 1)
        BY <1>4, <2>1, EndEmptyFrames
      <3>2. PICK m \in Nat : /\ m = k - 1 /\ m <= Depth /\ m = Depth' /\ m <= Depth' /\ Kept(m)
                             /\ \A i \in (m + 1)..Depth : i = k
                             /\ \A i \in (m + 1)..Depth' : FALSE
        BY <1>4, <3>1 DEF Depth
      <3>3. \A i \in 1..m : stack[i].t # t
        BY <1>3, <1>4, <3>2, LowerFrames DEF CallsInv, StateInv
      <3>4. \A i \in (m + 1)..Depth : stack[i].t = t
        BY <1>3, <1>4, <3>2
      <3> QED  BY <3>2, <3>3, <3>4
    <2>2. CASE At("bootparse")
      <3> DEFINE f == [NewFrame("booted", None, ParseFailed(Top.t)) EXCEPT !.fuel = 0]
      <3>1. f.pc = "booted" /\ f.pc \notin UnloadPc
        BY DEF NewFrame, UnloadPc
      <3>2. stack' = <<f>>
        BY <2>2 DEF EndEmpty
      <3> HIDE DEF f
      <3>3. Depth' = 1 /\ stack'[1] = f
        BY <3>2 DEF Depth
      <3>4. \A i \in (0 + 1)..Depth : i = 1 \/ i = 2
        BY <1>2, <2>2
      <3>5. \A i \in (0 + 1)..Depth : stack[i].t = t \/ stack[i].t = None
        BY <1>2, <1>3, <1>4, <2>2, <3>4
      <3>6. \A i \in (0 + 1)..Depth' : i = 1
        BY <3>3
      <3>7. Kept(0) /\ \A i \in 1..0 : FALSE
        BY DEF Kept
      <3>8. 0 \in Nat /\ 0 <= Depth /\ 0 <= Depth' /\ Depth' \in Nat
        BY <1>4, <3>3
      <3> QED  BY <3>1, <3>3, <3>5, <3>6, <3>7, <3>8
    <2> QED  BY <2>1, <2>2
  <1>11. TaggedOK'
    BY <1>3, <1>9, <1>10, TaggedKept DEF ErrorsInv
  <1>12. ASSUME NEW r \in erred'  PROVE Doomed(r)'
    <2>1. r \in Txn /\ r # t /\ r # None /\ Doomed(r)
      BY <1>1, <1>3, TxnAssumption DEF ErrorsInv, ErrorsOK, IInv, RestOK
    <2>2. parent'[r] = None /\ state'[r] = state[r] /\ state'[r] # "kCommitted"
      BY <1>9, <2>1 DEF Doomed
    <2>3. \A i \in (m + 1)..Depth : stack[i].t # r
      BY <1>10, <2>1
    <2>4. /\ diags[r] = "kErrors" => diags'[r] = "kErrors"
          /\ Reported(r) => diags'[r] = "kErrors"
      BY <1>8, <2>1
    <2> QED  BY <1>10, <2>1, <2>2, <2>3, <2>4, DoomedKept
  <1> QED  BY <1>11, <1>12 DEF ErrorsInv, ErrorsOK

(* A transaction with contents is told of its errors before it is committed. *)
LEMMA EndFullErrors ==
  ASSUME IInv, IInv', CallsInv, ErrorsInv, errorOut' = errorOut, EndFull
  PROVE  ErrorsInv'
  <1>1. Top.pc \in ParsePc /\ EndFullTransaction(Top.t) /\ erred' = erred
    BY DEF EndFull
  <1>2. /\ Depth > 1 /\ Top.t \in Txn /\ Top.t # None /\ consumer = Top.t
        /\ state[Top.t] = "kCollecting"
        /\ At("bootparse") => Depth = 2 /\ stack[1].pc = "boot" /\ stack[1].t = None
    BY <1>1, ParseFacts
  <1>3. PICK t \in Txn : t = Top.t /\ t # None /\ t \in Pointer /\ state[t] = "kCollecting"
    BY <1>2 DEF Pointer
  <1>4. PICK k \in Nat : k = Depth /\ k > 1 /\ Top = stack[k]
    BY <1>2, TopFrame
  <1>5. /\ parent' = parent /\ diags' = IF ParseFailed(t) THEN SetErrors(t) ELSE diags
        /\ state'[t] = "kCompleted"
        /\ \A u \in Txn : u # t => state'[u] = state[u]
    BY <1>1, <1>3 DEF EndFullTransaction, treeVars, IInv, TransactionInv, TransactionTypeOK
  <1>6. /\ \A u \in Txn : diags[u] = "kErrors" => diags'[u] = "kErrors"
        /\ \A r \in Txn : Reported(r) => diags'[r] = "kErrors"
    BY <1>3, <1>5, EndDiags
  <1>7. \A u \in Txn : diags[RootOf(parent, u)] = "kErrors" => diags'[RootOf(parent', u)] = "kErrors"
    BY <1>5, <1>6, RootIsRoot DEF CallsInv
  <1>8. PICK m \in Nat, j \in Nat :
          /\ m <= Depth /\ m <= Depth' /\ Depth' \in Nat /\ Kept(m)
          /\ \A i \in 1..m : stack[i].t # t
          /\ \A i \in (m + 1)..Depth : stack[i].t = t \/ stack[i].t = None
          /\ \A i \in (m + 1)..Depth' : i = j
          /\ j \in 1..Depth' /\ stack'[j].t = t /\ stack'[j].pc \in {"check", "booted"}
    <2>1. CASE ~At("bootparse")
      <3> DEFINE f == NewFrame("check", Top.t, FALSE)
      <3>1. f \in Frame /\ f.pc = "check" /\ f.t = t
        <4>1. "check" \in Pc
          BY DEF Pc, CommitPc
        <4> QED  BY <1>3, <4>1, NewFrameType DEF NewFrame
      <3> HIDE DEF f
      <3>2. Len(stack') = Depth /\ Kept(Depth - 1) /\ Top' = f
        BY <2>1, <3>1, EndFullFrames DEF f
      <3>3. PICK m \in Nat : /\ m = k - 1 /\ m <= Depth /\ Depth' = k /\ m <= Depth' /\ Kept(m)
                             /\ \A i \in (m + 1)..Depth : i = k
                             /\ \A i \in (m + 1)..Depth' : i = k
                             /\ k \in 1..Depth' /\ Depth' \in Nat
        BY <1>4, <3>2 DEF Depth
      <3>4. \A i \in 1..m : stack[i].t # t
        BY <1>3, <1>4, <3>3, LowerFrames DEF CallsInv, StateInv
      <3>5. stack'[k] = f
        BY <3>2, <3>3 DEF Top, Last, Depth
      <3>6. \A i \in (m + 1)..Depth : stack[i].t = t
        BY <1>3, <1>4, <3>3
      <3> QED  BY <3>1, <3>3, <3>4, <3>5, <3>6
    <2>2. CASE At("bootparse")
      <3> DEFINE f == [NewFrame("booted", Top.t, FALSE) EXCEPT !.fuel = 0]
      <3>1. f.pc = "booted" /\ f.t = t
        BY <1>3 DEF NewFrame
      <3>2. stack' = <<f>>
        BY <2>2 DEF EndFull
      <3> HIDE DEF f
      <3>3. Depth' = 1 /\ stack'[1] = f
        BY <3>2 DEF Depth
      <3>4. \A i \in (0 + 1)..Depth : i = 1 \/ i = 2
        BY <1>2, <2>2
      <3>5. \A i \in (0 + 1)..Depth : stack[i].t = t \/ stack[i].t = None
        BY <1>2, <1>3, <1>4, <2>2, <3>4
      <3>6. (\A i \in (0 + 1)..Depth' : i = 1) /\ 1 \in 1..Depth' /\ 1 \in Nat
        BY <3>3
      <3>7. Kept(0) /\ \A i \in 1..0 : FALSE
        BY DEF Kept
      <3>8. 0 \in Nat /\ 0 <= Depth /\ 0 <= Depth' /\ Depth' \in Nat
        BY <1>4, <3>3
      <3> QED  BY <3>1, <3>3, <3>5, <3>6, <3>7, <3>8
    <2> QED  BY <2>1, <2>2
  <1>9. TaggedOK'
    <2>1. \A i \in (m + 1)..Depth' : stack'[i].pc \notin UnloadPc
      BY <1>8 DEF UnloadPc
    <2> QED  BY <1>3, <1>5, <1>7, <1>8, <2>1, TaggedKept DEF ErrorsInv
  <1>10. ASSUME NEW r \in erred'  PROVE Doomed(r)'
    <2>1. r \in Txn /\ r # None /\ Doomed(r) /\ parent'[r] = None
      BY <1>1, <1>5, TxnAssumption DEF ErrorsInv, ErrorsOK, IInv, RestOK, Doomed
    <2>2. CASE r = t
      <3>1. PICK i \in 1..Depth :
              diags[r] = "kErrors" \/ (stack[i].pc \in OpenPc /\ Reported(r))
        BY <1>3, <2>1, <2>2 DEF Doomed
      <3>2. diags'[r] = "kErrors"
        BY <1>6, <2>1, <3>1
      <3>3. j \in 1..Depth' /\ stack'[j].t = r /\ stack'[j].pc \in EarlyPc
        BY <1>8, <2>2 DEF EarlyPc, OpenPc
      <3>4. state'[r] # "kCommitted"
        BY <1>5, <2>2
      <3> QED  BY <2>1, <3>2, <3>3, <3>4 DEF Doomed
    <2>3. CASE r # t
      <3>1. state'[r] = state[r] /\ state'[r] # "kCommitted"
        BY <1>5, <2>1, <2>3 DEF Doomed
      <3>2. \A i \in (m + 1)..Depth : stack[i].t # r
        BY <1>8, <2>1, <2>3
      <3>3. /\ diags[r] = "kErrors" => diags'[r] = "kErrors"
            /\ Reported(r) => diags'[r] = "kErrors"
        BY <1>6, <2>1
      <3> QED  BY <1>8, <2>1, <3>1, <3>2, <3>3, DoomedKept
    <2> QED  BY <2>2, <2>3
  <1> QED  BY <1>9, <1>10 DEF ErrorsInv, ErrorsOK

(* The constructor commits what it parsed. *)
LEMMA BootCommitErrors ==
  ASSUME IInv, IInv', CallsInv, ErrorsInv, errorOut' = errorOut, BootCommit
  PROVE  ErrorsInv'
  <1>1. /\ Top.pc = "booted" /\ Top.pc \in BottomPc
        /\ UNCHANGED <<state, parent, diags, erred>>
    BY DEF BootCommit, At, BottomPc, treeVars
  <1>2. Depth = 1 /\ Top = stack[1] /\ \A i \in 1..Depth : i = 1
    BY <1>1, TopPhase DEF CallsInv
  <1>3. /\ Depth' \in Nat /\ 0 <= Depth' /\ \A i \in 1..Depth' : stack'[i].pc \in {"client", "check"}
        /\ Top.t # None => 2 \in 1..Depth' /\ stack'[2].t = Top.t /\ stack'[2].pc = "check"
    <2> DEFINE f == NewFrame("client", None, FALSE)
               g == NewFrame("check", Top.t, FALSE)
    <2>1. f.pc = "client" /\ g.pc = "check" /\ g.t = Top.t
      BY DEF NewFrame
    <2>2. stack' = IF Top.t = None THEN <<f>> ELSE <<f, g>>
      BY DEF BootCommit
    <2> HIDE DEF f, g
    <2>3. CASE Top.t = None
      <3>1. Depth' = 1 /\ stack'[1] = f /\ \A i \in 1..Depth' : i = 1
        BY <2>2, <2>3 DEF Depth
      <3> QED  BY <2>1, <2>3, <3>1
    <2>4. CASE Top.t # None
      <3>1. /\ Depth' = 2 /\ stack'[1] = f /\ stack'[2] = g
            /\ \A i \in 1..Depth' : i = 1 \/ i = 2
        BY <2>2, <2>4 DEF Depth
      <3> QED  BY <2>1, <2>4, <3>1
    <2> QED  BY <2>3, <2>4
  <1>4. TaggedOK'
    <2>1. \A i \in (0 + 1)..Depth' : stack'[i].pc \notin UnloadPc
      BY <1>3 DEF UnloadPc
    <2>2. 0 \in Nat /\ 0 <= Depth /\ Kept(0) /\ (\A i \in 1..0 : FALSE) /\ None \in Pointer
      BY <1>2 DEF Kept, Pointer
    <2> QED  BY <1>1, <1>3, <2>1, <2>2, TaggedKept DEF ErrorsInv
  <1>5. ASSUME NEW r \in erred'  PROVE Doomed(r)'
    <2>1. r \in Txn /\ r # None /\ Doomed(r)
      BY <1>1, TxnAssumption DEF ErrorsInv, ErrorsOK, IInv, RestOK
    <2>2. parent'[r] = None /\ state'[r] = state[r] /\ state'[r] # "kCommitted"
      BY <1>1, <2>1 DEF Doomed
    <2>3. CASE state[r] = "kRolledBack"
      BY <2>2, <2>3 DEF Doomed
    <2>4. CASE state[r] # "kRolledBack"
      <3>1. ~Reported(r)
        <4>1. 2..Depth = {}
          BY <1>2
        <4> QED  BY <4>1 DEF Reported
      <3>2. Top.t = r /\ diags'[r] = "kErrors"
        BY <1>1, <1>2, <2>1, <2>4, <3>1 DEF Doomed
      <3>3. 2 \in 1..Depth' /\ stack'[2].t = r /\ stack'[2].pc \in EarlyPc
        BY <1>3, <2>1, <3>2 DEF EarlyPc
      <3> QED  BY <2>2, <3>2, <3>3 DEF Doomed
    <2> QED  BY <2>3, <2>4
  <1> QED  BY <1>4, <1>5 DEF ErrorsInv, ErrorsOK

(* commitTransaction looks for errors, and resets the engine. *)
LEMMA CheckErrors ==
  ASSUME IInv, IInv', CallsInv, ErrorsInv, errorOut' = errorOut, CommitCheck
  PROVE  ErrorsInv'
  <1>1. /\ Top.pc = "check" /\ Top.pc \notin BottomPc
        /\ UNCHANGED <<state, parent, diags, erred>>
    BY DEF CommitCheck, At, BottomPc, treeVars
  <1>2. PICK k \in Nat : k = Depth /\ k > 1 /\ Top = stack[k] /\ k \in 1..Depth
    BY <1>1, TopFrame
  <1>3. PICK t \in Txn : t = Top.t /\ t # None /\ t \in Pointer /\ PhaseOK(Top) /\ Top \in Frame
    BY <1>2, TopPhase DEF CallsInv, Pointer
  <1>4. IssuedErrors(t) <=> diags[RootOf(parent, t)] = "kErrors"
    BY TopmostIsRootOf DEF IssuedErrors
  <1>5. PICK f \in Frame : /\ Goto(f) /\ f.t = t
                           /\ IF IssuedErrors(t) THEN f.pc = "dtor" ELSE f.pc = "inst"
    <2>1. CASE IssuedErrors(t)
      <3> DEFINE f == UnloadFrame(t, FALSE)
      <3>1. f \in Frame /\ f.pc = "dtor" /\ f.t = t
        <4>1. "dtor" \in Pc
          BY DEF Pc, UnloadPc
        <4> QED  BY <1>3, <4>1, NewFrameType DEF UnloadFrame, NewFrame
      <3>2. Goto(f)
        BY <1>3, <2>1 DEF CommitCheck
      <3> HIDE DEF f
      <3> QED  BY <2>1, <3>1, <3>2
    <2>2. CASE ~IssuedErrors(t)
      <3> DEFINE f == [Top EXCEPT !.pc = "inst"]
      <3>1. f \in Frame /\ f.pc = "inst" /\ f.t = t
        BY <1>3 DEF Frame, Pc, CommitPc
      <3>2. Goto(f)
        BY <1>3, <2>2 DEF CommitCheck
      <3> HIDE DEF f
      <3> QED  BY <2>2, <3>1, <3>2
    <2> QED  BY <2>1, <2>2
  <1>6. Depth' = k /\ Kept(k - 1) /\ stack'[k] = f
    BY <1>2, <1>5, GotoKept
  <1>7. PICK m \in Nat : /\ m = k - 1 /\ m <= Depth /\ m <= Depth' /\ Depth' \in Nat /\ Kept(m)
                         /\ \A i \in (m + 1)..Depth : i = k
                         /\ \A i \in (m + 1)..Depth' : i = k
    BY <1>2, <1>6
  <1>8. TaggedOK'
    <2>1. \A i \in (m + 1)..Depth' :
            stack'[i].pc \in UnloadPc /\ parent'[stack'[i].t] # None /\ errorOut =>
              diags'[RootOf(parent', stack'[i].t)] = "kErrors"
      BY <1>1, <1>4, <1>5, <1>6, <1>7 DEF UnloadPc
    <2>2. None \in Pointer
      BY DEF Pointer
    <2> QED  BY <1>1, <1>7, <2>1, <2>2, TaggedKept DEF ErrorsInv
  <1>9. ASSUME NEW r \in erred'  PROVE Doomed(r)'
    <2>1. r \in Txn /\ r # None /\ Doomed(r)
      BY <1>1, TxnAssumption DEF ErrorsInv, ErrorsOK, IInv, RestOK
    <2>2. parent[r] = None /\ parent'[r] = None /\ state'[r] = state[r] /\ state'[r] # "kCommitted"
      BY <1>1, <2>1 DEF Doomed
    <2>3. Reported(r) => Reported(r)' \/ diags'[r] = "kErrors"
      <3> SUFFICES ASSUME Reported(r)  PROVE Reported(r)' \/ diags'[r] = "kErrors"
        OBVIOUS
      <3>1. diagError /\ RootOf(parent, t) = r
        BY <1>3, ReportedRoot
      <3>2. CASE IssuedErrors(t)
        BY <1>1, <1>4, <3>1, <3>2
      <3>3. CASE ~IssuedErrors(t)
        <4>1. diagError'
          BY <1>3, <3>1, <3>3 DEF CommitCheck
        <4>2. /\ \A i \in (m + 1)..Depth : stack[i].pc \notin {"bootparse", "compile"}
              /\ \A i \in (m + 1)..Depth' : stack'[i].pc = "lookup" => stack'[i].flag
          BY <1>1, <1>2, <1>5, <1>6, <1>7
        <4> QED  BY <1>1, <1>7, <4>1, <4>2, ReportedKept
      <3> QED  BY <3>2, <3>3
    <2>4. \A i \in (m + 1)..Depth : stack[i].t = r /\ stack[i].pc \in EarlyPc =>
            i <= Depth' /\ stack'[i].t = r /\ stack'[i].pc \in EarlyPc /\ diags'[r] = "kErrors"
      <3> SUFFICES ASSUME NEW i \in (m + 1)..Depth, stack[i].t = r
                   PROVE  /\ i <= Depth' /\ stack'[i].t = r /\ stack'[i].pc \in EarlyPc
                          /\ diags'[r] = "kErrors"
        OBVIOUS
      <3>1. i = k /\ r = t /\ i <= Depth'
        BY <1>2, <1>3, <1>6, <1>7
      <3>2. RootOf(parent, t) = t
        BY <2>2, <3>1, RootStep DEF CallsInv
      <3>3. diags[t] = "kErrors"
        <4>1. state[t] = "kCompleted"
          BY <1>1, <1>3 DEF PhaseOK, WorkPc
        <4>2. PICK j \in 1..Depth :
                /\ stack[j].t = t
                /\ diags[t] = "kErrors" \/ (stack[j].pc \in OpenPc /\ Reported(t))
          BY <2>1, <3>1, <4>1 DEF Doomed
        <4>3. j = k
          BY <1>2, <1>3, <4>2 DEF CallsInv, StateInv, LineageOK
        <4>4. Top.pc \notin OpenPc
          BY <1>1 DEF OpenPc, ParsePc
        <4> QED  BY <1>2, <4>2, <4>3, <4>4
      <3>4. f.pc \in EarlyPc
        BY <1>4, <1>5, <3>2, <3>3 DEF EarlyPc, UnloadPc
      <3> QED  BY <1>1, <1>5, <1>6, <3>1, <3>3, <3>4
    <2>5. diags[r] = "kErrors" => diags'[r] = "kErrors"
      BY <1>1
    <2> QED  BY <1>7, <2>1, <2>2, <2>3, <2>4, <2>5, DoomedKept
  <1> QED  BY <1>8, <1>9 DEF ErrorsInv, ErrorsOK

(* The destructors are done. *)
LEMMA DtorErrors ==
  ASSUME IInv, IInv', CallsInv, ErrorsInv, errorOut' = errorOut, DtorReturn
  PROVE  ErrorsInv'
  <1>1. /\ Top.pc = "dtor" /\ Top.pc \in UnloadPc /\ Top.pc \notin BottomPc
        /\ UNCHANGED <<parent, diags, diagError, erred, errorOut>>
    BY DEF DtorReturn, At, BottomPc, UnloadPc, treeVars, diagVars
  <1>2. PICK k \in Nat : k = Depth /\ k > 1 /\ Top = stack[k] /\ k \in 1..Depth
    BY <1>1, TopFrame
  <1>3. PICK t \in Txn : t = Top.t /\ t # None /\ t \in Pointer /\ Top \in Frame
    BY <1>2, TopPhase DEF CallsInv, Pointer
  <1>4. \A i \in 1..(k - 1) : stack[i].t # t
    BY <1>2, <1>3, LowerFrames DEF CallsInv, StateInv
  <1>5. CASE ~errorOut
    <2> DEFINE f == [Top EXCEPT !.pc = "revert"]
    <2>1. state' = state /\ Goto(f)
      BY <1>5 DEF DtorReturn
    <2>2. f \in Frame /\ f.pc \in UnloadPc /\ f.pc # "lookup" /\ f.t = t
      BY <1>3 DEF Frame, Pc, UnloadPc
    <2> HIDE DEF f
    <2>3. Depth' = k /\ Kept(k - 1) /\ stack'[k] = f
      BY <1>2, <2>1, <2>2, GotoKept
    <2>4. PICK m \in Nat : /\ m = k - 1 /\ m <= Depth /\ m <= Depth' /\ Depth' \in Nat /\ Kept(m)
                           /\ \A i \in (m + 1)..Depth : i = k /\ i <= Depth'
                           /\ \A i \in (m + 1)..Depth' : i = k
      BY <1>2, <2>3
    <2>5. None \in Pointer /\ None \notin erred
      BY TxnAssumption DEF Pointer, IInv, RestOK
    <2>6. \A i \in (m + 1)..Depth : stack[i].pc \in EarlyPc =>
            /\ stack[i].pc \in UnloadPc
            /\ i <= Depth' /\ stack'[i].pc \in UnloadPc /\ stack'[i].t = stack[i].t
      BY <1>1, <1>2, <1>3, <2>2, <2>3, <2>4
    <2>7. \A j \in (m + 1)..Depth' :
            /\ stack'[j].pc = "lookup" /\ diagError => stack'[j].flag
            /\ stack'[j].pc \in UnloadPc => ~errorOut \/ parent'[stack'[j].t] = None
      BY <1>5, <2>2, <2>3, <2>4
    <2> QED  BY <1>1, <2>1, <2>4, <2>5, <2>6, <2>7, QuietKeeps
  <1>6. CASE errorOut
    <2>1. /\ Pop /\ state'[t] = "kRolledBack"
          /\ \A u \in Txn : u # t => state'[u] = state[u]
      BY <1>3, <1>6 DEF DtorReturn, IInv, TransactionInv, TransactionTypeOK
    <2>2. Depth' = k - 1 /\ Kept(k - 1)
      BY <1>2, <2>1, PopKeepsFrames DEF Depth
    <2>3. PICK m \in Nat : /\ m = k - 1 /\ m <= Depth /\ m <= Depth' /\ Depth' \in Nat /\ Kept(m)
                           /\ \A i \in (m + 1)..Depth : i = k
                           /\ \A i \in (m + 1)..Depth' : FALSE
      BY <1>2, <2>2
    <2>4. TaggedOK'
      <3>1. parent[t] # None => diags[RootOf(parent, t)] = "kErrors"
        BY <1>1, <1>2, <1>3, <1>6, TopmostIsRootOf DEF ErrorsInv, TaggedOK, IssuedErrors
      <3> QED  BY <1>1, <1>3, <1>4, <2>1, <2>3, <3>1, TaggedKept DEF ErrorsInv
    <2>5. ASSUME NEW r \in erred'  PROVE Doomed(r)'
      <3>1. r \in Txn /\ Doomed(r)
        BY <1>1 DEF ErrorsInv, ErrorsOK, IInv, RestOK
      <3>2. /\ parent'[r] = None /\ state'[r] # "kCommitted"
            /\ state[r] = "kRolledBack" => state'[r] = "kRolledBack"
        BY <1>1, <2>1, <3>1 DEF Doomed
      <3>3. Reported(r) => Reported(r)'
        <4>1. /\ \A i \in (m + 1)..Depth : stack[i].pc \notin {"bootparse", "compile"}
              /\ \A i \in (m + 1)..Depth' : stack'[i].pc = "lookup" => stack'[i].flag
          BY <1>1, <1>2, <2>3
        <4>2. Reported(r) => diagError'
          BY <1>1 DEF Reported
        <4> QED  BY <1>1, <2>3, <4>1, <4>2, ReportedKept
      <3>4. \A i \in (m + 1)..Depth : stack[i].t = r => state'[r] = "kRolledBack"
        BY <1>2, <1>3, <2>1, <2>3
      <3> QED  BY <1>1, <2>3, <3>1, <3>2, <3>3, <3>4, DoomedKept
    <2> QED  BY <2>4, <2>5 DEF ErrorsInv, ErrorsOK
  <1> QED  BY <1>5, <1>6

(* A transaction is gone, and its errors with it. *)
LEMMA RevertErrors ==
  ASSUME IInv, IInv', CallsInv, ErrorsInv, errorOut' = errorOut, RevertReturn
  PROVE  ErrorsInv'
  <1>1. /\ Top.pc = "revert" /\ Top.pc \notin BottomPc
        /\ erred' = erred \ {Top.t} /\ diagError' = diagError /\ Pop
    BY DEF RevertReturn, At, BottomPc
  <1>2. PICK k \in Nat : k = Depth /\ k > 1 /\ Top = stack[k] /\ k \in 1..Depth
    BY <1>1, TopFrame
  <1>3. PICK t \in Txn : t = Top.t /\ t # None /\ t \in Pointer
    BY <1>2, TopPhase DEF CallsInv, Pointer
  <1>4. /\ nested[t] = <<>> /\ ReleaseTransaction(t)
        /\ \A u \in Txn : u # t => diags'[u] = diags[u]
    BY <1>3 DEF RevertReturn, DeregisterTransaction, IInv, TransactionInv, TransactionTypeOK
  <1>5. /\ parent'[t] = None
        /\ \A u \in Txn : u # t =>
             /\ state'[u] = state[u] /\ parent'[u] = parent[u]
             /\ RootOf(parent', u) = RootOf(parent, u)
             /\ diags[RootOf(parent, u)] = "kErrors" => diags'[RootOf(parent', u)] = "kErrors"
    BY <1>4, ReleaseRoots
  <1>6. Depth' = k - 1 /\ Kept(k - 1)
    BY <1>1, <1>2, PopKeepsFrames DEF Depth
  <1>7. PICK m \in Nat : /\ m = k - 1 /\ m <= Depth /\ m <= Depth' /\ Depth' \in Nat /\ Kept(m)
                         /\ \A i \in (m + 1)..Depth : i = k
                         /\ \A i \in (m + 1)..Depth' : FALSE
                         /\ \A i \in 2..m : i \in 1..m /\ i \in 2..Depth
    BY <1>2, <1>6
  <1>8. \A i \in 1..m : stack[i].t # t
    BY <1>2, <1>3, <1>7, LowerFrames DEF CallsInv, StateInv
  <1>9. TaggedOK'
    BY <1>3, <1>5, <1>7, <1>8, TaggedKept DEF ErrorsInv
  <1>10. ASSUME NEW r \in erred'  PROVE Doomed(r)'
    <2>1. r \in Txn /\ r # t /\ Doomed(r)
      BY <1>1, <1>3 DEF ErrorsInv, ErrorsOK, IInv, RestOK
    <2>2. /\ parent'[r] = None /\ state'[r] = state[r] /\ state'[r] # "kCommitted"
          /\ diags'[r] = diags[r]
      BY <1>4, <1>5, <2>1 DEF Doomed
    <2>3. Reported(r) => Reported(r)'
      <3>1. /\ \A i \in (m + 1)..Depth : stack[i].pc \notin {"bootparse", "compile"}
            /\ \A i \in (m + 1)..Depth' : stack'[i].pc = "lookup" => stack'[i].flag
        BY <1>1, <1>2, <1>7
      <3>2. \A i \in 2..m : RootOf(parent', stack[i].t) = RootOf(parent, stack[i].t)
        BY <1>5, <1>7, <1>8, TopFrame
      <3>3. Reported(r) => diagError'
        BY <1>1 DEF Reported
      <3> QED  BY <1>7, <3>1, <3>2, <3>3, ReportedKept
    <2>4. \A i \in (m + 1)..Depth : stack[i].t # r
      BY <1>2, <1>3, <1>7, <2>1
    <2> QED  BY <1>7, <2>1, <2>2, <2>3, <2>4, DoomedKept
  <1> QED  BY <1>9, <1>10 DEF ErrorsInv, ErrorsOK

(* The caller of commitTransaction finds its transaction settled. *)
LEMMA SettledKept ==
  ASSUME IInv, CallsInv, ResultIsSettled, [Next]_vars
  PROVE  ResultIsSettled'
  <1>1. CASE UNCHANGED vars
    BY <1>1 DEF vars, ResultIsSettled, Live
  <1>2. CASE prt' = None
    BY <1>2 DEF ResultIsSettled
  <1>3. CASE CommitReturn /\ prt' = Top.t
    <2>1. Top.pc \in DonePc /\ Top.pc \notin BottomPc /\ state' = state
      BY <1>3 DEF CommitReturn, At, DonePc, BottomPc
    <2>2. Depth > 1
      BY <2>1, TopFrame
    <2>3. state[Top.t] = "kCommitted"
      BY <2>1, <2>2, TopPhase DEF CallsInv, PhaseOK
    <2> QED  BY <1>3, <2>1, <2>3 DEF ResultIsSettled
  <1>4. CASE DtorReturn /\ prt' = IF errorOut /\ Top.flag THEN Top.t ELSE None
    <2>1. Top.t \in Txn
      <3>1. Top.pc \notin BottomPc
        BY <1>4 DEF DtorReturn, At, BottomPc
      <3> QED  BY <3>1, TopFrame
    <2>2. errorOut => state'[Top.t] = "kRolledBack"
      BY <1>4, <2>1 DEF DtorReturn, IInv, TransactionInv, TransactionTypeOK
    <2> QED  BY <1>4, <2>2 DEF ResultIsSettled
  <1>5. CASE RevertReturn /\ prt' = IF Top.flag THEN Top.t ELSE None
    <2>1. PICK t \in Txn : t = Top.t
      <3>1. Top.pc \notin BottomPc
        BY <1>5 DEF RevertReturn, At, BottomPc
      <3> QED  BY <3>1, TopFrame
    <2>2. state'[t] = "kNumStates"
      BY <1>5, <2>1, ReleaseFacts DEF RevertReturn, DeregisterTransaction
    <2> QED  BY <1>5, <2>1, <2>2 DEF ResultIsSettled, Live
  <1> QED  BY <1>1, <1>2, <1>3, <1>4, <1>5 DEF Next, Run, Choose, Return

(***************************************************************************)
(* The invariant.                                                          *)
(***************************************************************************)

(* A fresh interpreter has reported no errors. *)
LEMMA InitScopes == Init => ScopesInv
  <1> SUFFICES ASSUME Init  PROVE ScopesInv
    OBVIOUS
  <1>1. CallsInv /\ IInv
    BY InitCalls, InitIInv
  <1>2. erred = {} /\ prt = None /\ \A u \in Txn : parent[u] = None
    BY DEF Init, TransactionInit
  <1>3. \A i \in 1..Depth : stack[i].pc \notin UnloadPc
    <2> DEFINE f == NewFrame("boot", None, FALSE)
    <2>1. f.pc = "boot"
      BY DEF NewFrame
    <2>2. stack = <<f>>
      BY DEF Init
    <2> HIDE DEF f
    <2>3. stack[1] = f /\ \A i \in 1..Depth : i = 1
      BY <2>2 DEF Depth
    <2> QED  BY <2>1, <2>3 DEF UnloadPc
  <1>4. ErrorsInv
    BY <1>2, <1>3 DEF ErrorsInv, TaggedOK, ErrorsOK
  <1>5. ResultIsSettled
    BY <1>2 DEF ResultIsSettled
  <1> QED  BY <1>1, <1>4, <1>5 DEF ScopesInv

LEMMA NextErrors ==
  ASSUME Tame, IInv, IInv', CallsInv, ErrorsInv, [Next]_vars
  PROVE  ErrorsInv'
  <1>1. CASE UNCHANGED vars
    <2>1. Stays /\ UNCHANGED <<diags, diagError, erred>>
      BY <1>1 DEF Stays, vars, Kept, Same, Depth, listVars
    <2> QED  BY <2>1, StayErrors
  <1>2. CASE Next
    <2>1. errorOut' = errorOut
      BY <1>2 DEF Next, Run, Choose
    <2>2. CASE Run
      <3>1. CASE Return
        BY <2>1, <3>1, DoneErrors, DtorErrors, RevertErrors DEF Return
      <3>2. CASE Finish
        BY <2>1, <3>2, EndEmptyErrors, EndFullErrors, BootCommitErrors, CheckErrors,
           CommittedErrors, NestedErrors DEF Finish
      <3>3. CASE \E n \in Txn : Open(n) \/ BootBegin(n)
        BY <2>1, <3>3, NestErrors, BootBeginErrors
      <3> QED  BY <2>2, <3>1, <3>2, <3>3 DEF Run
    <2>3. CASE Choose
      <3>1. CASE Parse
        BY <2>1, <3>1, AppendErrors, ParseErrorErrors, ResetErrors DEF Parse
      <3>2. CASE InitThrow
        BY <2>1, <3>2, DoneErrors
      <3>3. CASE UnloadLast
        BY <2>1, <3>3, UnloadErrors
      <3>4. CASE \E c \in {"compile", "lookup"}, t \in Txn : Begin(c, t)
        BY <2>1, <3>4, BeginErrors
      <3> QED  BY <2>3, <3>1, <3>2, <3>3, <3>4 DEF Choose
    <2> QED  BY <1>2, <2>2, <2>3 DEF Next
  <1> QED  BY <1>1, <1>2

LEMMA NextScopes ==
  ASSUME Tame, IInv, IInv', ScopesInv, [Next]_vars
  PROVE  ScopesInv'
  BY NextCalls, NextErrors, SettledKept DEF ScopesInv

(* The call stack, the nesting tree, the deque of transactions and the        *)
(* current transaction of the DeclCollector describe one another, and errors  *)
(* are where the commits will look for them.                                  *)
THEOREM ScopesInvariance ==
  ASSUME Tame
  PROVE  Spec => []ScopesInv
  <1>1. Init => ScopesInv
    BY InitScopes
  <1>2. IInv /\ IInv' /\ ScopesInv /\ [Next]_vars => ScopesInv'
    BY NextScopes
  <1>3. Spec => []IInv
    BY Invariance
  <1> QED  BY <1>1, <1>2, <1>3, PTL DEF Spec

(***************************************************************************)
(* What the invariant says.                                                *)
(***************************************************************************)

LEMMA ScopesGiveDeque ==
  ASSUME IInv, ScopesInv
  PROVE  DequeOK
  <1>1. ChainOK
    BY DEF ScopesInv, CallsInv, FrontOK
  <1>2. consumer # None => Live(consumer)
    BY DEF ScopesInv, CallsInv, StateInv, CurrentOK
  <1>3. ASSUME NEW i \in DOMAIN stack
        PROVE  /\ stack[i].t # None => Live(stack[i].t)
               /\ stack[i].prev # None => Live(stack[i].prev)
    <2>1. i \in 1..Depth
      BY DepthFacts DEF IInv, StackOK, Depth
    <2>2. stack[i].t # None =>
            /\ Live(stack[i].t)
            /\ parent[stack[i].t] # None => Live(parent[stack[i].t])
      BY <2>1, FramesLive DEF ScopesInv, CallsInv, StateInv
    <2>3. stack[i].prev # None => stack[i].t # None /\ stack[i].prev = Home(stack[i].t)
      BY <2>1 DEF ScopesInv, CallsInv, StateInv, ShapeOK, PhasesOK, PhaseOK
    <2> QED  BY <2>2, <2>3 DEF Home
  <1> QED  BY <1>1, <1>2, <1>3 DEF DequeOK, NoDangling

LEMMA ScopesGiveNesting ==
  ASSUME IInv, ScopesInv
  PROVE  ScopesOK
  <1>1. InnermostCollects
    BY ParseFacts DEF InnermostCollects, ScopesInv
  <1>2. ScopesNest
    BY DEF ScopesNest, ScopesInv, CallsInv, StateInv, LineageOK, Target, Depth
  <1>3. NestedSettled
    <2> SUFFICES ASSUME At("check"), ~IssuedErrors(Top.t), NEW n \in Range(nested[Top.t])
                 PROVE  state[n] = "kCommitted"
      BY DEF NestedSettled
    <2>1. CallsInv /\ StateInv /\ Rooted(parent) /\ TaggedOK
      BY DEF ScopesInv, CallsInv, ErrorsInv
    <2>2. Top.pc \notin BottomPc
      BY DEF At, BottomPc
    <2>3. PICK t \in Txn : /\ t = Top.t /\ t # None /\ Depth > 1 /\ Top = stack[Depth]
                           /\ Depth \in Nat
      BY <2>1, <2>2, TopFrame, TxnAssumption
    <2>4. n \in Txn /\ parent[n] = t /\ Live(n)
      <3>1. parent[n] = t
        BY <2>3 DEF IInv, TransactionInv, TreeOK, NestingOK
      <3>2. n \in Txn
        BY <2>3 DEF IInv, TransactionInv, TransactionTypeOK, Range
      <3>3. Live(n)
        BY <2>3, <3>1, <3>2 DEF IInv, TransactionInv, TreeOK, NestingOK
      <3> QED  BY <3>1, <3>2, <3>3
    <2>5. state[n] \notin Building
      <3> SUFFICES ASSUME state[n] \in Building  PROVE FALSE
        OBVIOUS
      <3>1. PICK i \in 1..Depth : stack[i].t = n
        BY <2>1, <2>4 DEF StateInv, PhasesOK
      <3>2. CASE i = Depth
        <4>1. parent[t] # t
          BY <2>1, <2>3, TopPhase
        <4> QED  BY <2>3, <2>4, <3>1, <3>2, <4>1
      <3>3. CASE i # Depth
        <4>1. i \in 1..(Depth - 1)
          BY <2>3, <3>3
        <4> QED  BY <2>1, <2>3, <2>4, <3>1, <4>1, TxnAssumption, LowerFrames DEF StateInv
      <3> QED  BY <3>2, <3>3
    <2>6. state[n] # "kRolledBack"
      <3> SUFFICES ASSUME state[n] = "kRolledBack"  PROVE FALSE
        OBVIOUS
      <3>1. IssuedErrors(n)
        BY <2>1, <2>3, <2>4 DEF TaggedOK
      <3>2. RootOf(parent, n) = RootOf(parent, t)
        BY <2>1, <2>3, <2>4, RootStep
      <3> QED  BY <2>3, <3>1, <3>2, TopmostIsRootOf DEF IssuedErrors
    <2> QED  BY <2>4, <2>5, <2>6 DEF IInv, TransactionInv, TransactionTypeOK, State, Live, Building
  <1> QED  BY <1>1, <1>2, <1>3 DEF ScopesOK

LEMMA ScopesGiveRollback ==
  ASSUME IInv, ScopesInv
  PROVE  RollbackOK
  <1>1. ParseErrorsRollBack
    BY DEF ParseErrorsRollBack, ScopesInv, ErrorsInv, ErrorsOK, Doomed
  <1>2. RevertsOnlyTheLast
    <2> SUFFICES ASSUME Top.pc = "revert"
                 PROVE  /\ next[Topmost(Top.t)] = None
                        /\ parent[Top.t] = None => Top.t = GetLastTransaction
      BY DEF RevertsOnlyTheLast
    <2>1. Top.pc \notin BottomPc \cup ParsePc /\ Top.pc # "init" /\ Top.pc # "callback"
      BY DEF BottomPc, ParsePc
    <2>2. Top = stack[Depth] /\ Depth \in 1..Depth /\ Top.t # None
      BY <2>1, TopFrame, TxnAssumption
    <2>3. ~Aside(Top)
      BY <2>1, <2>2 DEF Aside
    <2> QED  BY <2>1, <2>2, <2>3, TopmostIsRootOf DEF ScopesInv, CallsInv, FrontOK
  <1>3. NoNestingInUnloading
    <2> SUFFICES ASSUME NEW n \in Txn, parent[n] # None, state[n] = "kCollecting"
                 PROVE  ~unloading[parent[n]]
      BY DEF NoNestingInUnloading
    <2>1. PICK i \in 1..Depth : stack[i].t = n
      BY DEF ScopesInv, CallsInv, StateInv, PhasesOK, Building
    <2>2. PhaseOK(stack[i])
      BY <2>1, TxnAssumption DEF ScopesInv, CallsInv, StateInv, PhasesOK
    <2> QED  BY <2>1, <2>2 DEF PhaseOK, Final
  <1> QED  BY <1>1, <1>2, <1>3 DEF RollbackOK, ScopesInv

(* The deque m_Transactions is the list threaded through m_Next, and neither  *)
(* the DeclCollector nor any function on the call stack holds a pointer to a  *)
(* transaction that releaseTransaction gave back to the pool.                 *)
THEOREM DequeCorrect ==
  ASSUME Tame
  PROVE  Spec => []DequeOK
  <1>1. IInv /\ ScopesInv => DequeOK
    BY ScopesGiveDeque
  <1>2. Spec => []IInv /\ []ScopesInv
    BY Invariance, ScopesInvariance
  <1> QED  BY <1>1, <1>2, PTL

(* Decls land in the innermost transaction, transactions nest as the calls    *)
(* of beginTransaction do, and commitTransaction finds its nested             *)
(* transactions settled, whatever commits, lookups and reverts are under way. *)
THEOREM ScopesCorrect ==
  ASSUME Tame
  PROVE  Spec => []ScopesOK
  <1>1. IInv /\ ScopesInv => ScopesOK
    BY ScopesGiveNesting
  <1>2. Spec => []IInv /\ []ScopesInv
    BY Invariance, ScopesInvariance
  <1> QED  BY <1>1, <1>2, PTL

(* A top-level transaction in whose parse an error was reported is never      *)
(* committed, unload reverts the last transaction only, and the caller of     *)
(* commitTransaction finds the one it gets back committed or rolled back.     *)
THEOREM RollbackCorrect ==
  ASSUME Tame
  PROVE  Spec => []RollbackOK
  <1>1. IInv /\ ScopesInv => RollbackOK
    BY ScopesGiveRollback
  <1>2. Spec => []IInv /\ []ScopesInv
    BY Invariance, ScopesInvariance
  <1> QED  BY <1>1, <1>2, PTL

(***************************************************************************)
(* The history: an induction by hand, on the least counterexample.         *)
(***************************************************************************)

(* f is the table of the function, up to n.                                   *)
IsSelection(s, S, n, f) ==
  f = [k \in 0..n |-> IF k = 0 THEN <<>>
                      ELSE IF s[k] \in S THEN Append(f[k - 1], s[k]) ELSE f[k - 1]]

LEMMA SelectionExists ==
  ASSUME NEW s, NEW S, NEW n \in Nat
  PROVE  \E f : IsSelection(s, S, n, f)
  <1> DEFINE Bad == {k \in Nat : ~\E f : IsSelection(s, S, k, f)}
  <1> SUFFICES ASSUME Bad # {}  PROVE FALSE
    OBVIOUS
  <1>1. PICK m \in Bad : \A k \in Bad : m <= k
    <2> HIDE DEF Bad
    <2>1. Bad \in SUBSET Nat
      BY DEF Bad
    <2> QED  BY <2>1, LeastNatural
  <1>2. m # 0
    <2>1. IsSelection(s, S, 0, [k \in 0..0 |-> <<>>])
      BY DEF IsSelection
    <2> QED  BY <2>1
  <1>3. PICK f : IsSelection(s, S, m - 1, f)
    BY <1>1, <1>2
  <1> DEFINE g == [k \in 0..m |-> IF k < m THEN f[k]
                                  ELSE IF s[m] \in S THEN Append(f[m - 1], s[m]) ELSE f[m - 1]]
  <1>4. \A k \in 0..(m - 1) : f[k] = IF k = 0 THEN <<>>
                      ELSE IF s[k] \in S THEN Append(f[k - 1], s[k]) ELSE f[k - 1]
    BY <1>3 DEF IsSelection
  <1>5. \A k \in 0..m : g[k] = IF k = 0 THEN <<>>
                      ELSE IF s[k] \in S THEN Append(g[k - 1], s[k]) ELSE g[k - 1]
    <2> TAKE k \in 0..m
    <2>1. k # 0 => k - 1 \in 0..(m-1) /\ g[k - 1] = f[k - 1]
      OBVIOUS
    <2> QED BY <1>2, <1>4, <2>1
  <1>6. IsSelection(s, S, m, g)
    <2> HIDE DEF g
    <2>1. g = [k \in 0..m |-> g[k]]
      BY DEF g
    <2> QED BY <1>5, <2>1 DEF IsSelection
  <1> QED  BY <1>6

LEMMA SelectionIs ==
  ASSUME NEW s, NEW S, Len(s) \in Nat
  PROVE  \E f : IsSelection(s, S, Len(s), f) /\ Selected(s, S) = f[Len(s)]
  <1> DEFINE f == CHOOSE f : IsSelection(s, S, Len(s), f)
  <1>1. IsSelection(s, S, Len(s), f)
    BY SelectionExists
  <1>2. Selected(s, S) = f[Len(s)]
    BY DEF Selected, IsSelection
  <1> QED BY <1>1, <1>2

(* Up to n, the two sequences have the same elements, and the sets too.        *)
SameUpTo(n, s, S, t, T) == \A k \in 1..n : s[k] = t[k] /\ (s[k] \in S <=> s[k] \in T)

(* The tables of two sequences agree as far as the sequences do. *)
LEMMA SelectionsAgree ==
  ASSUME NEW n \in Nat, NEW m \in Nat, n <= m,
         NEW s, NEW S, NEW f, IsSelection(s, S, n, f),
         NEW t, NEW T, NEW g, IsSelection(t, T, m, g),
         SameUpTo(n, s, S, t, T)
  PROVE  f[n] = g[n]
  <1> DEFINE Bad == {k \in Nat : k <= n /\ f[k] # g[k]}
  <1> SUFFICES ASSUME Bad # {}  PROVE FALSE
    OBVIOUS
  <1>1. PICK k \in Bad : \A j \in Bad : k <= j
    <2> HIDE DEF Bad
    <2>1. Bad \in SUBSET Nat
      BY DEF Bad
    <2> QED  BY <2>1, LeastNatural
  <1>2. f[0] = <<>> /\ g[0] = <<>>
    BY DEF IsSelection
  <1>3. k \in 1..n /\ k \in 0..n /\ k \in 0..m /\ k # 0
    BY <1>1, <1>2
  <1>4. f[k - 1] = g[k - 1]
    BY <1>1, <1>3
  <1>5. /\ f[k] = IF s[k] \in S THEN Append(f[k - 1], s[k]) ELSE f[k - 1]
        /\ g[k] = IF t[k] \in T THEN Append(g[k - 1], t[k]) ELSE g[k - 1]
    BY <1>3 DEF IsSelection
  <1> QED  BY <1>1, <1>3, <1>4, <1>5 DEF SameUpTo

(* Nothing is selected from the empty sequence. *)
LEMMA SelectedEmpty == \A S : Selected(<<>>, S) = <<>>
  BY SelectionIs DEF IsSelection

(* What is selected depends on the elements of the sequence only. *)
LEMMA SelectedSame ==
  ASSUME NEW s, Len(s) \in Nat, NEW S, NEW T, \A k \in 1..Len(s) : s[k] \in S <=> s[k] \in T
  PROVE  Selected(s, S) = Selected(s, T)
  <1>1. PICK n \in Nat : n = Len(s)
    OBVIOUS
  <1>2. PICK f : IsSelection(s, S, n, f) /\ Selected(s, S) = f[n]
    BY <1>1, SelectionIs
  <1>3. PICK g : IsSelection(s, T, n, g) /\ Selected(s, T) = g[n]
    BY <1>1, SelectionIs
  <1>4. f[n] = g[n]
    <2>1. SameUpTo(n, s, S, s, T)
      BY <1>1 DEF SameUpTo
    <2> QED  BY <1>2, <1>3, <2>1, SelectionsAgree
  <1> QED  BY <1>2, <1>3, <1>4

(* An element at the end is selected last. *)
LEMMA SelectedAppend ==
  ASSUME NEW U, NEW s \in Seq(U), NEW x \in U, NEW S
  PROVE  Selected(Append(s, x), S) =
           IF x \in S THEN Append(Selected(s, S), x) ELSE Selected(s, S)
  <1>1. PICK n \in Nat : n = Len(s)
    OBVIOUS
  <1>2. PICK t : t = Append(s, x)
    OBVIOUS
  <1>3. Len(t) = n + 1 /\ t[n + 1] = x /\ \A k \in 1..n : t[k] = s[k]
    BY <1>1, <1>2
  <1>4. PICK f : IsSelection(s, S, n, f) /\ Selected(s, S) = f[n]
    BY <1>1, SelectionIs
  <1>5. PICK g : IsSelection(t, S, n + 1, g) /\ Selected(t, S) = g[n + 1]
    <2>1. Len(t) \in Nat
      BY <1>3
    <2>2. PICK g : IsSelection(t, S, Len(t), g) /\ Selected(t, S) = g[Len(t)]
      BY <2>1, SelectionIs
    <2> QED  BY <1>3, <2>2
  <1>6. f[n] = g[n]
    <2>1. n + 1 \in Nat /\ n <= n + 1
      OBVIOUS
    <2>2. SameUpTo(n, s, S, t, S)
      BY <1>3 DEF SameUpTo
    <2> QED  BY <1>4, <1>5, <2>1, <2>2, SelectionsAgree
  <1>7. g[n + 1] = IF x \in S THEN Append(g[n], x) ELSE g[n]
    <2>1. n + 1 \in 0..(n + 1) /\ n + 1 # 0 /\ (n + 1) - 1 = n
      OBVIOUS
    <2> QED  BY <1>3, <1>5, <2>1 DEF IsSelection
  <1> QED  BY <1>2, <1>4, <1>5, <1>6, <1>7

(* What is selected is a sequence over the set. *)
LEMMA SelectedType ==
  ASSUME NEW s, Len(s) \in Nat, NEW S
  PROVE  Selected(s, S) \in Seq(S)
  <1>1. PICK n \in Nat : n = Len(s)
    OBVIOUS
  <1>2. PICK f : IsSelection(s, S, n, f) /\ Selected(s, S) = f[n]
    BY <1>1, SelectionIs
  <1> DEFINE Bad == {k \in Nat : k <= n /\ f[k] \notin Seq(S)}
  <1> SUFFICES ASSUME Bad # {}  PROVE FALSE
    BY <1>2
  <1>3. PICK k \in Bad : \A j \in Bad : k <= j
    <2> HIDE DEF Bad
    <2>1. Bad \in SUBSET Nat
      BY DEF Bad
    <2> QED  BY <2>1, LeastNatural
  <1>4. f[0] \in Seq(S)
    BY <1>2 DEF IsSelection
  <1>5. k \in 0..n /\ k # 0 /\ k - 1 \in Nat /\ k - 1 <= n /\ ~(k <= k - 1)
    BY <1>3, <1>4
  <1>6. f[k - 1] \in Seq(S)
    BY <1>3, <1>5
  <1>7. f[k] = IF s[k] \in S THEN Append(f[k - 1], s[k]) ELSE f[k - 1]
    BY <1>2, <1>5 DEF IsSelection
  <1>8. s[k] \in S => Append(f[k - 1], s[k]) \in Seq(S)
    BY <1>6
  <1> QED  BY <1>3, <1>6, <1>7, <1>8

(***************************************************************************)
(* The transactions implement TransactionLog.                              *)
(***************************************************************************)

Done == Selected(transactions, Committed)

(* What the history does not see.                                            *)
LEMMA DoneSame ==
  ASSUME IInv, CallsInv,
         \A u \in Range(transactions) : state[u] = "kCommitted" <=> state'[u] = "kCommitted"
  PROVE  Selected(transactions, Committed') = Done
  <1>1. /\ Len(transactions) \in Nat /\ DOMAIN transactions = 1..Len(transactions)
        /\ \A u \in Range(transactions) : u \in Txn
    BY ListFacts DEF CallsInv, FrontOK
  <1>2. \A k \in 1..Len(transactions) :
          transactions[k] \in Committed <=> transactions[k] \in Committed'
    BY <1>1 DEF Committed, Range
  <1> QED  BY <1>1, <1>2, SelectedSame DEF Done

(* At most one top-level transaction is in the making.                       *)
LEMMA OneInTheMaking ==
  ASSUME CallsInv, NEW u \in InTheMaking, NEW v \in InTheMaking
  PROVE  u = v
  <1> SUFFICES ASSUME u # v  PROVE FALSE
    OBVIOUS
  <1>1. u \in Txn /\ v \in Txn /\ u # None /\ v # None
    BY TxnAssumption DEF InTheMaking
  <1>2. PICK i \in 1..Depth : stack[i].t = u
    BY <1>1 DEF InTheMaking, CallsInv, StateInv, PhasesOK, Building
  <1>3. PICK j \in 1..Depth : stack[j].t = v
    BY <1>1 DEF InTheMaking, CallsInv, StateInv, PhasesOK, Building
  <1>4. \A k \in 1..Depth : stack[k].t \in InTheMaking => ~Aside(stack[k])
    <2> SUFFICES ASSUME NEW k \in 1..Depth, stack[k].t \in InTheMaking
                 PROVE  ~Aside(stack[k])
      OBVIOUS
    <2>1. stack[k].t # None /\ state[stack[k].t] # "kCommitted"
      BY TxnAssumption DEF InTheMaking
    <2>2. PhaseOK(stack[k])
      BY <2>1 DEF CallsInv, StateInv, PhasesOK
    <2> QED  BY <2>1, <2>2 DEF PhaseOK, Aside, DonePc
  <1>5. i # j
    BY <1>2, <1>3
  <1>6. i < j \/ j < i
    BY <1>5
  <1> QED  BY <1>2, <1>3, <1>4, <1>6 DEF CallsInv, FrontOK, InTheMaking

OnlyOneInTheMaking == \A u, v \in InTheMaking : u = v

LEMMA OneInTheMakingNow == CallsInv => OnlyOneInTheMaking
  BY OneInTheMaking DEF OnlyOneInTheMaking

LEMMA OneInTheMakingNext == CallsInv' => OnlyOneInTheMaking'
  BY OneInTheMakingNow, PTL

(* A top-level transaction at work is the one.                               *)
LEMMA InTheMakingIsTop ==
  ASSUME IInv, CallsInv, parent[Top.t] = None, Top.t # None, NEW u \in InTheMaking
  PROVE  u = Top.t
  <1>1. u \in Txn /\ u # None
    BY TxnAssumption DEF InTheMaking
  <1>2. PICK i \in 1..Depth : stack[i].t = u
    BY <1>1 DEF InTheMaking, CallsInv, StateInv, PhasesOK, Building
  <1>3. Top = stack[Depth] /\ Depth \in Nat /\ Depth \in 1..Depth
    BY TopPhase DEF CallsInv
  <1>4. ~Aside(stack[i])
    <2>1. PhaseOK(stack[i])
      BY <1>1, <1>2 DEF CallsInv, StateInv, PhasesOK
    <2> QED  BY <1>1, <1>2, <2>1 DEF PhaseOK, Aside, DonePc, InTheMaking
  <1>5. ~(i < Depth)
    BY <1>3, <1>4 DEF CallsInv, FrontOK
  <1> QED  BY <1>2, <1>3, <1>5

(* Nothing that TransactionLog describes changes.                            *)
LEMMA QuietStep ==
  ASSUME IInv, CallsInv, UNCHANGED <<state, parent, transactions>>
  PROVE  UNCHANGED Log!vars
  <1>1. Done' = Done
    BY DoneSame DEF Done
  <1>2. InTheMaking' = InTheMaking
    BY DEF InTheMaking
  <1> QED  BY <1>1, <1>2 DEF Log!vars, Done

(* Only the state of t changes, or what it is nested in.                     *)
OnlyOf(t) == \A u \in Txn : u # t => state'[u] = state[u] /\ parent'[u] = parent[u]

(* A nested transaction, or one rolled back, is no concern of the history.   *)
LEMMA OtherStep ==
  ASSUME Done' = Done, NEW t, OnlyOf(t), t \in InTheMaking <=> t \in InTheMaking'
  PROVE  UNCHANGED Log!vars
  <1>1. InTheMaking' = InTheMaking
    BY DEF InTheMaking, OnlyOf
  <1> QED  BY <1>1 DEF Log!vars, Done

(* A top-level transaction is begun. *)
LEMMA BeginStep ==
  ASSUME IInv, CallsInv', Done' = Done, NEW t \in Txn, OnlyOf(t),
         t \in InTheMaking', t \notin InTheMaking, state[t] # "kCommitted"
  PROVE  Log!Next
  <1>1. InTheMaking = {} /\ InTheMaking' = {t}
    <2>1. \A u \in InTheMaking' : u = t
      BY OneInTheMakingNext DEF OnlyOneInTheMaking
    <2>2. \A u \in InTheMaking : u \in InTheMaking'
      BY DEF InTheMaking, OnlyOf
    <2> QED  BY <2>1, <2>2
  <1>2. \A i \in DOMAIN Done : Done[i] # t
    <2>1. Len(transactions) \in Nat
      BY LenProperties DEF IInv, TransactionInv, TransactionTypeOK
    <2>2. Done \in Seq(Committed)
      BY <2>1, SelectedType DEF Done
    <2>3. \A i \in DOMAIN Done : Done[i] \in Committed
      BY <2>2, ElementOfSeq, LenProperties
    <2> QED  BY <2>3 DEF Committed
  <1>3. Log!Open(t)
    BY <1>1, <1>2 DEF Log!Open, Log!Range, Done
  <1> QED  BY <1>3 DEF Log!Next

(* The one in the making goes without having been committed. *)
LEMMA AbortStep ==
  ASSUME CallsInv, Done' = Done, NEW t, OnlyOf(t), t \in InTheMaking, t \notin InTheMaking'
  PROVE  Log!Next
  <1>1. InTheMaking' = {}
    <2> SUFFICES ASSUME NEW u \in InTheMaking'  PROVE FALSE
      OBVIOUS
    <2>1. u # t
      OBVIOUS
    <2>2. u \in InTheMaking
      BY <2>1 DEF InTheMaking, OnlyOf
    <2> QED  BY <2>1, <2>2, OneInTheMaking
  <1>2. Log!Abort
    BY <1>1 DEF Log!Abort, Done
  <1> QED  BY <1>2 DEF Log!Next

(* The last of the list, as the history sees it. *)
LEMMA LastSplit ==
  ASSUME IInv, CallsInv, NEW t \in Txn, t = GetLastTransaction
  PROVE  /\ transactions # <<>> /\ Front(transactions) \in Seq(Txn)
         /\ transactions = Append(Front(transactions), t)
         /\ t \notin Range(Front(transactions))
         /\ Range(Front(transactions)) \subseteq Range(transactions)
  <1>1. transactions \in Seq(Txn) /\ transactions # <<>> /\ t = Last(transactions)
    BY ListFacts, TxnAssumption DEF GetLastTransaction, CallsInv, FrontOK
  <1>2. PICK n \in Nat : n = Len(transactions)
    BY <1>1, LenProperties
  <1>3. n >= 1 /\ t = transactions[n] /\ \A i \in 1..n : transactions[i] \in Txn
    BY <1>1, <1>2, EmptySeq, ElementOfSeq DEF Last
  <1> DEFINE s == Front(transactions)
  <1>4. /\ s \in Seq(Txn) /\ Len(s) = n - 1
        /\ \A i \in 1..(n - 1) : s[i] = transactions[i]
    BY <1>1, <1>2, FrontFacts
  <1> HIDE DEF s
  <1>5. DOMAIN s = 1..(n - 1)
    BY <1>4, LenProperties
  <1>6. /\ Append(s, t) \in Seq(Txn) /\ Len(Append(s, t)) = n
        /\ \A i \in 1..(n - 1) : Append(s, t)[i] = s[i]
        /\ Append(s, t)[n] = t
    BY <1>3, <1>4, AppendProperties
  <1>7. transactions = Append(s, t)
    <2>1. \A i \in 1..n : Append(s, t)[i] = transactions[i]
      <3> TAKE i \in 1..n
      <3>1. i = n \/ i \in 1..(n - 1)
        BY <1>2
      <3> QED  BY <1>3, <1>4, <1>6, <3>1
    <2> QED  BY <1>1, <1>2, <1>6, <2>1, SeqEqual
  <1>8. \A i \in 1..(n - 1) : transactions[i] # t
    <2>1. IsInjective(transactions) /\ DOMAIN transactions = 1..n
      BY <1>2, ListFacts DEF CallsInv, FrontOK, ChainOK
    <2>2. \A i \in 1..(n - 1) : i \in 1..n /\ n \in 1..n /\ i # n
      BY <1>3
    <2> QED  BY <1>3, <2>1, <2>2 DEF IsInjective
  <1>9. DOMAIN transactions = 1..n /\ \A i \in 1..(n - 1) : i \in 1..n
    BY <1>1, <1>2, LenProperties
  <1> QED  BY <1>1, <1>4, <1>5, <1>7, <1>8, <1>9 DEF Range, s

(* What was committed before the last of the list. *)
Earlier == Selected(Front(transactions), Committed)

LEMMA DoneSplit ==
  ASSUME IInv, CallsInv, NEW t \in Txn, t = GetLastTransaction, OnlyOf(t)
  PROVE  /\ Earlier \in Seq(Txn)
         /\ Done = IF state[t] = "kCommitted" THEN Append(Earlier, t) ELSE Earlier
         /\ Selected(transactions, Committed') =
              IF state'[t] = "kCommitted" THEN Append(Earlier, t) ELSE Earlier
         /\ Selected(Front(transactions), Committed') = Earlier
  <1> DEFINE s == Front(transactions)
  <1>1. s \in Seq(Txn) /\ transactions = Append(s, t) /\ t \notin Range(s)
    BY LastSplit
  <1>2. Len(s) \in Nat /\ DOMAIN s = 1..Len(s) /\ \A k \in 1..Len(s) : s[k] \in Txn /\ s[k] # t
    <2>1. Len(s) \in Nat /\ DOMAIN s = 1..Len(s) /\ \A k \in 1..Len(s) : s[k] \in Txn
      BY <1>1, LenProperties, ElementOfSeq
    <2> QED  BY <1>1, <2>1 DEF Range
  <1> HIDE DEF s
  <1>3. \A k \in 1..Len(s) : s[k] \in Committed <=> s[k] \in Committed'
    BY <1>2 DEF Committed, OnlyOf
  <1>4. Selected(s, Committed') = Selected(s, Committed)
    BY <1>2, <1>3, SelectedSame
  <1>5. Selected(s, Committed) \in Seq(Txn)
    <2>1. Selected(s, Committed) \in Seq(Committed)
      BY <1>2, SelectedType
    <2> QED  BY <2>1 DEF Committed
  <1>6. /\ Selected(Append(s, t), Committed) =
             IF t \in Committed THEN Append(Selected(s, Committed), t) ELSE Selected(s, Committed)
        /\ Selected(Append(s, t), Committed') =
             IF t \in Committed' THEN Append(Selected(s, Committed'), t) ELSE Selected(s, Committed')
    BY <1>1, SelectedAppend
  <1>7. (t \in Committed <=> state[t] = "kCommitted") /\ (t \in Committed' <=> state'[t] = "kCommitted")
    BY DEF Committed
  <1>8. Earlier = Selected(s, Committed)
    BY DEF Earlier, s
  <1>9. Selected(Front(transactions), Committed') = Selected(s, Committed')
    BY DEF s
  <1> QED  BY <1>1, <1>4, <1>5, <1>6, <1>7, <1>8, <1>9 DEF Done

(* The one in the making becomes the last of the history. *)
LEMMA GrowStep ==
  ASSUME IInv, CallsInv, NEW t, t = GetLastTransaction, t \in InTheMaking, OnlyOf(t),
         state'[t] = "kCommitted", UNCHANGED transactions
  PROVE  Log!Next
  <1>1. t \in Txn /\ state[t] # "kCommitted"
    BY DEF InTheMaking
  <1>2. Done' = Append(Done, t)
    BY <1>1, DoneSplit DEF Done
  <1>3. InTheMaking' = {}
    <2> SUFFICES ASSUME NEW u \in InTheMaking'  PROVE FALSE
      OBVIOUS
    <2>1. u # t
      BY DEF InTheMaking
    <2>2. u \in InTheMaking
      BY <2>1 DEF InTheMaking, OnlyOf
    <2> QED  BY <2>1, <2>2, OneInTheMaking
  <1>4. Log!Commit
    BY <1>2, <1>3 DEF Log!Commit, Done
  <1> QED  BY <1>4 DEF Log!Next

(* The last of the history is taken back. *)
LEMMA ShrinkStep ==
  ASSUME IInv, CallsInv, NEW t \in Txn, t = Top.t, t = GetLastTransaction, OnlyOf(t),
         state[t] = "kCommitted", t \notin InTheMaking', Done' = Earlier
  PROVE  Log!Next
  <1>1. parent[t] = None /\ t # None
    BY ListFacts, TxnAssumption DEF CallsInv, FrontOK
  <1>2. InTheMaking = {}
    <2> SUFFICES ASSUME NEW u \in InTheMaking  PROVE FALSE
      OBVIOUS
    <2>1. u = t
      BY <1>1, InTheMakingIsTop
    <2> QED  BY <2>1 DEF InTheMaking
  <1>3. InTheMaking' = {}
    BY <1>2 DEF InTheMaking, OnlyOf
  <1>4. Earlier \in Seq(Txn) /\ Done = Append(Earlier, t)
    BY DoneSplit
  <1>5. Done # <<>> /\ Front(Done) = Earlier
    BY <1>4, FrontOfAppend
  <1>6. Log!Revert
    BY <1>2, <1>3, <1>5 DEF Log!Revert, Log!Front, Front, Done
  <1> QED  BY <1>6 DEF Log!Next

(* Steps of the parser that change neither what is committed nor what is in  *)
(* the making.                                                               *)
LEMMA QuietLogs ==
  ASSUME IInv, CallsInv,
         \/ UNCHANGED vars \/ Parse \/ BootCommit \/ CommitCheck
         \/ RevertNested \/ InitThrow \/ UnloadLast \/ CommitReturn
  PROVE  UNCHANGED Log!vars
  <1>1. UNCHANGED <<state, parent, transactions>>
    BY DEF vars, Parse, AppendDecl, ParseError, TransformerError, LookupReset, BootCommit,
           CommitCheck, RevertNested, InitThrow, UnloadLast, CommitReturn, treeVars, listVars
  <1> QED  BY <1>1, QuietStep

(* A transaction is marked committed: the top-level one that was in the      *)
(* making, a nested one, or one that was marked before its initializers ran. *)
LEMMA CommittedLogs ==
  ASSUME IInv, CallsInv, SkipCodeGen \/ Execute \/ InitReturn
  PROVE  Log!Next \/ UNCHANGED Log!vars
  <1>1. /\ Top.pc \in {"deser", "exec", "init"}
        /\ Top.pc \notin BottomPc /\ Top.pc \notin ParsePc /\ Top.pc # "callback"
    BY DEF SkipCodeGen, Execute, InitReturn, At, BottomPc, ParsePc
  <1>2. PICK t \in Txn : t = Top.t /\ t # None /\ PhaseOK(Top)
    BY <1>1, TopPhase DEF CallsInv
  <1>3. state' = [state EXCEPT ![t] = "kCommitted"] /\ UNCHANGED <<parent, transactions>>
    BY <1>2 DEF SkipCodeGen, Execute, InitReturn, treeVars, listVars
  <1>4. state'[t] = "kCommitted" /\ OnlyOf(t)
    BY <1>3 DEF OnlyOf, IInv, TransactionInv, TransactionTypeOK
  <1>5. CASE parent[t] # None
    <2>1. \A u \in Range(transactions) : u \in Txn /\ u # t
      BY <1>5, ListFacts DEF CallsInv, FrontOK
    <2>2. Selected(transactions, Committed') = Done
      BY <1>4, <2>1, DoneSame DEF OnlyOf
    <2>3. Done' = Done
      BY <1>3, <2>2 DEF Done
    <2> QED  BY <1>3, <1>4, <1>5, <2>3, OtherStep DEF InTheMaking
  <1>6. CASE parent[t] = None /\ Top.pc = "init"
    <2>1. state' = state
      BY <1>2, <1>3, <1>6 DEF PhaseOK, DonePc, IInv, TransactionInv, TransactionTypeOK
    <2> QED  BY <1>3, <2>1, QuietStep
  <1>7. CASE parent[t] = None /\ Top.pc # "init"
    <2>1. t \in InTheMaking
      BY <1>1, <1>2, <1>7 DEF PhaseOK, WorkPc, InTheMaking
    <2>2. Depth \in 1..Depth /\ Top = stack[Depth] /\ ~Aside(Top)
      BY <1>1, <1>2, <1>7, TopPhase DEF CallsInv, Aside
    <2>3. t = GetLastTransaction
      BY <1>1, <1>2, <1>7, <2>2 DEF CallsInv, FrontOK
    <2> QED  BY <1>3, <1>4, <2>1, <2>3, GrowStep
  <1> QED  BY <1>5, <1>6, <1>7

(* A transaction is begun, at the top level or nested. *)
LEMMA BeginLogs ==
  ASSUME IInv, CallsInv, CallsInv', NEW cur \in Pointer, NEW t \in Txn, BeginTransaction(cur, t)
  PROVE  Log!Next \/ UNCHANGED Log!vars
  <1>1. ~Live(t) /\ state'[t] = "kCollecting" /\ OnlyOf(t)
    BY BeginRoots DEF OnlyOf
  <1>2. t \notin Range(transactions) /\ \A u \in Range(transactions) : u \in Txn
    BY <1>1, FreeFacts, ListFacts DEF CallsInv, FrontOK
  <1>3. Done' = Done
    <2>1. Selected(transactions, Committed') = Done
      BY <1>1, <1>2, DoneSame DEF OnlyOf
    <2>2. transactions' = transactions
      BY DEF BeginTransaction, listVars
    <2> QED  BY <2>1, <2>2 DEF Done
  <1>4. t \notin InTheMaking /\ state[t] # "kCommitted"
    BY <1>1 DEF Live, InTheMaking
  <1>5. CASE parent'[t] # None
    BY <1>1, <1>3, <1>4, <1>5, OtherStep DEF InTheMaking
  <1>6. CASE parent'[t] = None
    BY <1>1, <1>3, <1>4, <1>6, BeginStep DEF InTheMaking
  <1> QED  BY <1>5, <1>6

(* The end of a transaction: an empty one disappears, ... *)
LEMMA EndEmptyLogs ==
  ASSUME IInv, CallsInv, EndEmpty
  PROVE  Log!Next \/ UNCHANGED Log!vars
  <1>1. Top.pc \in ParsePc /\ EndEmptyTransaction(Top.t)
    BY DEF EndEmpty
  <1>2. PICK t \in Txn : /\ t = Top.t /\ state[t] = "kCollecting"
                         /\ t \notin Range(transactions)
    BY <1>1, ParseFacts
  <1>3. nested[t] = <<>> /\ ReleaseTransaction(t) /\ transactions' = transactions
    BY <1>1, <1>2 DEF EndEmptyTransaction, IsEmpty, listVars
  <1>4. state'[t] = "kNumStates" /\ OnlyOf(t)
    BY <1>3, ReleaseFacts DEF OnlyOf
  <1>5. Done' = Done
    <2>1. \A u \in Range(transactions) : u \in Txn /\ u # t
      BY <1>2, ListFacts DEF CallsInv, FrontOK
    <2>2. Selected(transactions, Committed') = Done
      BY <1>4, <2>1, DoneSame DEF OnlyOf
    <2> QED  BY <1>3, <2>2 DEF Done
  <1>6. t \notin InTheMaking'
    BY <1>4 DEF InTheMaking
  <1>7. CASE parent[t] # None
    BY <1>4, <1>5, <1>6, <1>7, OtherStep DEF InTheMaking
  <1>8. CASE parent[t] = None
    BY <1>2, <1>4, <1>5, <1>6, <1>8, AbortStep DEF InTheMaking
  <1> QED  BY <1>7, <1>8

(* ... one with contents enters the list, where the history does not see it  *)
(* before it is committed.                                                   *)
LEMMA EndFullLogs ==
  ASSUME IInv, CallsInv, EndFull
  PROVE  UNCHANGED Log!vars
  <1>1. Top.pc \in ParsePc /\ EndFullTransaction(Top.t)
    BY DEF EndFull
  <1>2. PICK t \in Txn : /\ t = Top.t /\ state[t] = "kCollecting"
                         /\ t \notin Range(transactions)
    BY <1>1, ParseFacts
  <1>3. /\ state' = [state EXCEPT ![t] = "kCompleted"] /\ parent' = parent
        /\ transactions' = transactions \/ transactions' = Append(transactions, t)
    BY <1>1, <1>2 DEF EndFullTransaction, AddTransaction, treeVars, listVars
  <1>4. state'[t] = "kCompleted" /\ OnlyOf(t)
    BY <1>3 DEF OnlyOf, IInv, TransactionInv, TransactionTypeOK
  <1>5. Done' = Done
    <2>1. transactions \in Seq(Txn) /\ \A u \in Range(transactions) : u \in Txn /\ u # t
      BY <1>2, ListFacts DEF CallsInv, FrontOK
    <2>2. Selected(transactions, Committed') = Done
      BY <1>4, <2>1, DoneSame DEF OnlyOf
    <2>3. t \notin Committed'
      BY <1>4 DEF Committed
    <2>4. Selected(Append(transactions, t), Committed') = Selected(transactions, Committed')
      BY <2>1, <2>3, SelectedAppend
    <2> QED  BY <1>3, <2>2, <2>4 DEF Done
  <1> QED  BY <1>2, <1>3, <1>4, <1>5, OtherStep DEF InTheMaking

(* A transaction is unloaded: it was committed, in the making, nested, or    *)
(* had been rolled back before.                                              *)
LEMMA GoneLogs ==
  ASSUME IInv, CallsInv, Top.pc \in UnloadPc, NEW t \in Txn, t = Top.t, OnlyOf(t),
         state'[t] \in {"kRolledBack", "kNumStates"},
         \/ transactions' = transactions
         \/ parent[t] = None /\ transactions' = Front(transactions)
  PROVE  Log!Next \/ UNCHANGED Log!vars
  <1>1. t # None /\ state[t] \in {"kCommitted", "kRolledBack", "kCompleted"}
    BY TopPhase, TxnAssumption DEF CallsInv, PhaseOK, Final
  <1>2. t \notin InTheMaking' /\ state'[t] # "kCommitted"
    BY DEF InTheMaking
  <1>3. CASE parent[t] # None
    <2>1. \A u \in Range(transactions) : u \in Txn /\ u # t
      BY <1>3, ListFacts DEF CallsInv, FrontOK
    <2>2. Selected(transactions, Committed') = Done
      BY <2>1, DoneSame DEF OnlyOf
    <2>3. Done' = Done
      BY <1>3, <2>2 DEF Done
    <2> QED  BY <1>2, <1>3, <2>3, OtherStep DEF InTheMaking
  <1>4. CASE parent[t] = None
    <2>1. Depth \in 1..Depth /\ Top = stack[Depth] /\ ~Aside(Top) /\ Top.pc \notin ParsePc
      BY <1>1, TopPhase DEF CallsInv, Aside, UnloadPc, ParsePc
    <2>2. t = GetLastTransaction
      BY <1>4, <2>1 DEF CallsInv, FrontOK
    <2>3. Done' = Earlier
      BY <1>2, <2>2, DoneSplit DEF Done
    <2>4. state[t] # "kCommitted" => Done = Earlier
      BY <2>2, DoneSplit
    <2>5. CASE state[t] = "kCommitted"
      BY <1>2, <2>2, <2>3, <2>5, ShrinkStep
    <2>6. CASE state[t] = "kCompleted"
      BY <1>2, <1>4, <2>3, <2>4, <2>6, AbortStep DEF InTheMaking
    <2>7. CASE state[t] = "kRolledBack"
      BY <1>2, <2>3, <2>4, <2>7, OtherStep DEF InTheMaking
    <2> QED  BY <1>1, <2>5, <2>6, <2>7
  <1> QED  BY <1>3, <1>4

LEMMA DtorLogs ==
  ASSUME IInv, CallsInv, DtorReturn
  PROVE  Log!Next \/ UNCHANGED Log!vars
  <1>1. Top.pc \in UnloadPc /\ Top.pc \notin BottomPc /\ UNCHANGED <<parent, transactions>>
    BY DEF DtorReturn, At, UnloadPc, BottomPc, treeVars, listVars
  <1>2. PICK t \in Txn : t = Top.t
    BY <1>1, TopPhase DEF CallsInv
  <1>3. CASE errorOut
    <2>1. state'[t] = "kRolledBack" /\ OnlyOf(t)
      BY <1>1, <1>2, <1>3 DEF DtorReturn, OnlyOf, IInv, TransactionInv, TransactionTypeOK
    <2> QED  BY <1>1, <1>2, <2>1, GoneLogs
  <1>4. CASE ~errorOut
    BY <1>1, <1>4, QuietStep DEF DtorReturn
  <1> QED  BY <1>3, <1>4

LEMMA RevertLogs ==
  ASSUME IInv, CallsInv, RevertReturn
  PROVE  Log!Next \/ UNCHANGED Log!vars
  <1>1. Top.pc \in UnloadPc /\ Top.pc \notin BottomPc
    BY DEF RevertReturn, At, UnloadPc, BottomPc
  <1>2. PICK t \in Txn : t = Top.t
    BY <1>1, TopPhase DEF CallsInv
  <1>3. RemoveTransaction(t) /\ ReleaseTransaction(t) /\ nested[t] = <<>>
    BY <1>2 DEF RevertReturn, DeregisterTransaction
  <1>4. state'[t] = "kNumStates" /\ OnlyOf(t)
    BY <1>3, ReleaseFacts DEF OnlyOf
  <1>5. \/ transactions' = transactions
        \/ parent[t] = None /\ transactions' = Front(transactions)
    BY <1>3 DEF RemoveTransaction
  <1> QED  BY <1>1, <1>2, <1>4, <1>5, GoneLogs

(* Every step of the parser is a step of the history, or none of its business. *)
LEMMA NextLog ==
  ASSUME IInv, CallsInv, CallsInv', [Next]_vars
  PROVE  Log!Next \/ UNCHANGED Log!vars
  <1>1. consumer \in Pointer /\ (Top.pc \in {"inst", "deser"} => Top.t \in Pointer)
    BY TopPhase DEF CallsInv, IInv, TransactionInv, TransactionTypeOK, Frame
  <1>2. CASE UNCHANGED vars
    BY <1>2, QuietLogs
  <1>3. CASE Return
    BY <1>3, QuietLogs, DtorLogs, RevertLogs DEF Return
  <1>4. CASE Finish
    BY <1>4, QuietLogs, EndEmptyLogs, EndFullLogs, CommittedLogs DEF Finish
  <1>5. CASE \E n \in Txn : Open(n) \/ BootBegin(n)
    <2>1. PICK n \in Txn : BeginTransaction(consumer, n)
                           \/ (BeginTransaction(Top.t, n) /\ Top.pc \in {"inst", "deser"})
      BY <1>5 DEF Open, OpenInstantiations, OpenDeserialization, OpenTranslation, BootBegin, At
    <2> QED  BY <1>1, <2>1, BeginLogs
  <1>6. CASE Parse \/ InitThrow \/ UnloadLast
    BY <1>6, QuietLogs
  <1>7. CASE \E c \in {"compile", "lookup"}, t \in Txn : Begin(c, t)
    BY <1>1, <1>7, BeginLogs DEF Begin
  <1>8. Next => \/ Return \/ Finish \/ (\E n \in Txn : Open(n) \/ BootBegin(n))
                \/ (Parse \/ InitThrow \/ UnloadLast)
                \/ \E c \in {"compile", "lookup"}, t \in Txn : Begin(c, t)
    BY DEF Next, Run, Choose
  <1> QED  BY <1>2, <1>3, <1>4, <1>5, <1>6, <1>7, <1>8

LEMMA InitLog == Init => Log!Init
  <1> SUFFICES ASSUME Init  PROVE Log!Init
    OBVIOUS
  <1>1. Selected(transactions, Committed) = <<>>
    BY SelectedEmpty DEF Init, TransactionInit
  <1>2. InTheMaking = {}
    BY DEF Init, TransactionInit, InTheMaking
  <1> QED  BY <1>1, <1>2 DEF Log!Init

(* The transactions of the parser, however parses, commits, errors, reverts   *)
(* and user code follow one another, form the history that TransactionLog     *)
(* describes.                                                                 *)
THEOREM LogImplemented ==
  ASSUME Tame
  PROVE  Spec => LogRefined
  <1>1. Init => Log!Init
    BY InitLog
  <1>2. IInv /\ ScopesInv /\ ScopesInv' /\ [Next]_vars => [Log!Next]_(Log!vars)
    BY NextLog DEF ScopesInv
  <1>3. (Spec => []IInv) /\ (Spec => []ScopesInv)
    BY Invariance, ScopesInvariance
  <1>4. LogRefined <=> (Log!Init /\ [][Log!Next]_(Log!vars))
    BY DEF LogRefined, Log!Spec
  <1> QED  BY <1>1, <1>2, <1>3, <1>4, PTL DEF Spec

=============================================================================
