---------------------------- MODULE AtExitProofs ----------------------------
(***************************************************************************)
(* Invariants of AtExit, proved for any set of transactions and handlers.  *)
(***************************************************************************)
EXTENDS AtExit, SequenceLemmas

(* A group is empty only while its last handler runs. *)
FrameShape(f) ==
  /\ f \in Frame
  /\ f.running => f.local # <<>>
  /\ \A j \in DOMAIN f.local : f.local[j] = <<>> => j = Len(f.local) /\ f.running

WellFormed(s) == s \in Seq(Frame) /\ \A i \in DOMAIN s : FrameShape(s[i])

MapOK ==
  /\ map \in [Txn -> Seq(Handler)]
  /\ order \in Seq(Txn)
  /\ OrderSync

(* unload() works on the last transaction until it has gone. *)
TaskOK ==
  /\ log \in Seq(Txn) /\ task \in Task /\ threads \in BOOLEAN
  /\ task.call = "unload" => log # <<>>

HistoryOK ==
  /\ born \in Seq(Handler) /\ ran \in Seq(Handler)
  /\ owner \in [Handler -> Txn \cup {None}]

IInv == MapOK /\ WellFormed(stack) /\ TaskOK /\ HistoryOK

(* The invariant implies the two properties that are proved from it. *)
LEMMA IInvImplies == IInv => TypeOK /\ OrderSync
  BY DEF IInv, MapOK, WellFormed, FrameShape, TaskOK, HistoryOK, TypeOK

(***************************************************************************)
(* OrderedMap.                                                             *)
(***************************************************************************)

(* operator[] adds a key to both halves of the map or to none. *)
LEMMA MapAddOK ==
  ASSUME MapOK, NEW t \in Txn, NEW h \in Handler, MapAdd(t, h)
  PROVE  MapOK'
  <1>1. /\ map' = [map EXCEPT ![t] = Append(map[t], h)]
        /\ map \in [Txn -> Seq(Handler)] /\ map[t] \in Seq(Handler)
    BY DEF MapAdd, MapOK
  <1>2. Append(map[t], h) \in Seq(Handler) /\ Append(map[t], h) # <<>>
    BY <1>1
  <1>3. map' \in [Txn -> Seq(Handler)]
    BY <1>1, <1>2
  <1>4. {u \in Txn : map'[u] # <<>>} = {u \in Txn : map[u] # <<>>} \cup {t}
    BY <1>1, <1>2
  <1>5. CASE map[t] = <<>>
    <2>1. order' = Append(order, t) /\ t \notin Range(order)
      BY <1>5 DEF MapAdd, MapOK, OrderSync
    <2>2. /\ IsInjective(Append(order, t))
          /\ Range(Append(order, t)) = Range(order) \cup {t}
      BY <2>1, AppendNew DEF MapOK, OrderSync
    <2>3. Append(order, t) \in Seq(Txn)
      BY DEF MapOK
    <2> QED  BY <1>3, <1>4, <2>1, <2>2, <2>3 DEF MapOK, OrderSync
  <1>6. CASE map[t] # <<>>
    <2>1. order' = order
      BY <1>6 DEF MapAdd
    <2> QED  BY <1>3, <1>4, <1>6, <2>1 DEF MapOK, OrderSync
  <1> QED  BY <1>5, <1>6

(* erase() of a key that is there takes it out of both halves. *)
LEMMA MapEraseOK ==
  ASSUME MapOK, NEW t \in Txn, map[t] # <<>>, MapErase(t)
  PROVE  MapOK'
  <1> DEFINE k == CHOOSE i \in DOMAIN order : order[i] = t
  <1>1. t \in Range(order)
    BY DEF MapOK, OrderSync
  <1>2. k \in DOMAIN order /\ order[k] = t
    BY <1>1 DEF Range
  <1>3. order' = RemoveAt(order, k) /\ map' = [map EXCEPT ![t] = <<>>]
    BY DEF MapErase
  <1> HIDE DEF k
  <1>4. /\ RemoveAt(order, k) \in Seq(Txn)
        /\ IsInjective(RemoveAt(order, k))
        /\ Range(RemoveAt(order, k)) = Range(order) \ {t}
    BY <1>2, RemoveOnly DEF MapOK, OrderSync
  <1>5. map' \in [Txn -> Seq(Handler)]
    BY <1>3 DEF MapOK
  <1>6. {u \in Txn : map'[u] # <<>>} = {u \in Txn : map[u] # <<>>} \ {t}
    BY <1>3 DEF MapOK
  <1> QED  BY <1>3, <1>4, <1>5, <1>6 DEF MapOK, OrderSync

(* swap() leaves an empty map. *)
LEMMA MapSwapOK == MapSwap => MapOK'
  <1> SUFFICES ASSUME MapSwap PROVE MapOK'
    OBVIOUS
  <1>1. map' = [t \in Txn |-> <<>>] /\ order' = <<>>
    BY DEF MapSwap
  <1>2. IsInjective(<<>>) /\ Range(<<>>) = {}
    BY DEF IsInjective, Range
  <1> QED  BY <1>1, <1>2 DEF MapOK, OrderSync

(***************************************************************************)
(* The frames.                                                             *)
(***************************************************************************)

(* A call. *)
LEMMA AppendOK ==
  ASSUME NEW s, WellFormed(s), NEW f, FrameShape(f)
  PROVE  WellFormed(Append(s, f))
  <1>1. PICK n \in Nat : n = Len(s)
    BY LenProperties DEF WellFormed
  <1>2. /\ DOMAIN s = 1..n /\ DOMAIN Append(s, f) = 1..(n + 1)
        /\ Append(s, f) \in Seq(Frame)
        /\ Append(s, f)[n + 1] = f /\ \A i \in 1..n : Append(s, f)[i] = s[i]
    BY <1>1 DEF WellFormed, FrameShape
  <1>3. \A i \in 1..(n + 1) : i = n + 1 \/ i \in 1..n
    OBVIOUS
  <1> QED  BY <1>2, <1>3 DEF WellFormed

(* A return. *)
LEMMA FrontOK ==
  ASSUME NEW s, WellFormed(s), s # <<>>
  PROVE  WellFormed(Front(s))
  <1>1. PICK n \in Nat : n = Len(s)
    BY LenProperties DEF WellFormed
  <1>2. /\ Front(s) \in Seq(Frame) /\ Len(Front(s)) = n - 1
        /\ \A i \in 1..(n - 1) : Front(s)[i] = s[i]
    BY <1>1, FrontFacts DEF WellFormed
  <1>3. DOMAIN s = 1..n /\ DOMAIN Front(s) = 1..(n - 1)
    BY <1>1, <1>2, LenProperties DEF WellFormed
  <1>4. \A i \in 1..(n - 1) : i \in 1..n
    OBVIOUS
  <1> QED  BY <1>2, <1>3, <1>4 DEF WellFormed

(* The frame at the top, and the same function a step further. *)
LEMMA TopOK ==
  ASSUME WellFormed(stack), Working
  PROVE  /\ FrameShape(Top)
         /\ \A f : FrameShape(f) => WellFormed(Goto(f))
  <1>1. PICK n \in Nat : n = Len(stack)
    BY LenProperties DEF WellFormed
  <1>2. n # 0 /\ DOMAIN stack = 1..n
    BY <1>1, EmptySeq, LenProperties DEF WellFormed, Working
  <1>3. n \in 1..n /\ Top = stack[n]
    BY <1>1, <1>2 DEF Top, Last
  <1>4. ASSUME NEW f, FrameShape(f)  PROVE WellFormed(Goto(f))
    <2>1. Goto(f) = [stack EXCEPT ![n] = f]
      BY <1>1 DEF Goto
    <2>2. Goto(f) \in Seq(Frame)
      BY <1>1, <1>2, <1>3, <1>4, <2>1, ExceptSeq DEF WellFormed, FrameShape
    <2>3. DOMAIN Goto(f) = 1..n /\ \A i \in 1..n : Goto(f)[i] = IF i = n THEN f ELSE stack[i]
      BY <1>2, <2>1
    <2> QED  BY <1>2, <1>4, <2>2, <2>3 DEF WellFormed
  <1> QED  BY <1>2, <1>3, <1>4 DEF WellFormed

(* A function takes handlers out of the map. *)
LEMMA NewFrameOK ==
  ASSUME NEW t \in Txn \cup {None}, NEW groups \in Seq(Seq(Handler)),
         \A j \in DOMAIN groups : groups[j] # <<>>
  PROVE  FrameShape(NewFrame(t, groups))
  BY DEF FrameShape, NewFrame, Frame

(* runAndRemoveStaticDestructors: one handler at a time. *)
LEMMA EnterDtorsOK ==
  ASSUME MapOK, NEW s, WellFormed(s), NEW t \in Txn, EnterDtors(s, t)
  PROVE  MapOK' /\ WellFormed(stack')
  <1>1. CASE map[t] = <<>>
    <2>1. stack' = s /\ UNCHANGED mapVars
      BY <1>1 DEF EnterDtors
    <2> QED  BY <2>1 DEF MapOK, OrderSync, mapVars
  <1>2. CASE map[t] # <<>>
    <2> DEFINE handlers == map[t]
    <2>1. handlers \in Seq(Handler)
      BY DEF MapOK
    <2>2. PICK n \in Nat : n = Len(handlers)
      BY <2>1, LenProperties
    <2>3. DOMAIN handlers = 1..n /\ \A i \in 1..n : handlers[i] \in Handler
      BY <2>1, <2>2, LenProperties
    <2> HIDE DEF handlers
    <2>4. OneByOne(handlers) = [i \in 1..n |-> <<handlers[i]>>]
      BY <2>3 DEF OneByOne
    <2>5. OneByOne(handlers) \in Seq(Seq(Handler))
      BY <2>3, <2>4, IsASeq
    <2>6. \A j \in DOMAIN OneByOne(handlers) : OneByOne(handlers)[j] # <<>>
      BY <2>4
    <2>7. FrameShape(NewFrame(t, OneByOne(handlers)))
      BY <2>5, <2>6, NewFrameOK
    <2>8. stack' = Append(s, NewFrame(t, OneByOne(handlers))) /\ MapErase(t)
      BY <1>2 DEF EnterDtors, handlers
    <2> QED  BY <1>2, <2>7, <2>8, AppendOK, MapEraseOK
  <1> QED  BY <1>1, <1>2

(* runAtExitFuncs: one transaction at a time. *)
LEMMA EnterExitsOK ==
  ASSUME MapOK, NEW s, WellFormed(s), EnterExits(s)
  PROVE  MapOK' /\ WellFormed(stack')
  <1>1. CASE order = <<>>
    <2>1. stack' = s /\ UNCHANGED mapVars
      BY <1>1 DEF EnterExits
    <2> QED  BY <2>1 DEF MapOK, OrderSync, mapVars
  <1>2. CASE order # <<>>
    <2> DEFINE groups == [i \in DOMAIN order |-> map[order[i]]]
    <2>1. PICK n \in Nat : n = Len(order)
      BY LenProperties DEF MapOK
    <2>2. DOMAIN order = 1..n /\ \A i \in 1..n : order[i] \in Txn
      BY <2>1, LenProperties DEF MapOK
    <2>3. \A i \in 1..n : map[order[i]] \in Seq(Handler) /\ map[order[i]] # <<>>
      BY <2>2 DEF MapOK, OrderSync, Range
    <2>4. groups = [i \in 1..n |-> map[order[i]]]
      BY <2>2
    <2> HIDE DEF groups
    <2>5. groups \in Seq(Seq(Handler))
      BY <2>3, <2>4, IsASeq
    <2>6. \A j \in DOMAIN groups : groups[j] # <<>>
      BY <2>3, <2>4
    <2>7. FrameShape(NewFrame(None, groups))
      BY <2>5, <2>6, NewFrameOK
    <2>8. stack' = Append(s, NewFrame(None, groups)) /\ MapSwap
      BY <1>2 DEF EnterExits, groups
    <2> QED  BY <2>7, <2>8, AppendOK, MapSwapOK
  <1> QED  BY <1>1, <1>2

(***************************************************************************)
(* The loops.                                                              *)
(***************************************************************************)

(* The groups of a frame that has some. *)
LEMMA GroupsOK ==
  ASSUME NEW f, FrameShape(f), f.local # <<>>
  PROVE  /\ f.owner \in Txn \cup {None} /\ f.local \in Seq(Seq(Handler))
         /\ Len(f.local) \in 1..Len(f.local) /\ Last(f.local) = f.local[Len(f.local)]
         /\ Last(f.local) \in Seq(Handler)
         /\ ~f.running => Last(f.local) # <<>>
  <1>1. f.local \in Seq(Seq(Handler)) /\ f.owner \in Txn \cup {None}
    BY DEF FrameShape, Frame
  <1>2. PICK n \in Nat : n = Len(f.local)
    BY <1>1, LenProperties
  <1>3. n # 0 /\ DOMAIN f.local = 1..n
    BY <1>1, <1>2, EmptySeq, LenProperties
  <1>4. n \in 1..n /\ f.local[n] \in Seq(Handler) /\ Last(f.local) = f.local[n]
    BY <1>1, <1>2, <1>3, ElementOfSeq DEF Last
  <1> QED  BY <1>1, <1>2, <1>3, <1>4 DEF FrameShape

(* A handler is called: its group gets shorter. *)
LEMMA CallOK ==
  ASSUME WellFormed(stack), Call
  PROVE  WellFormed(stack') /\ \E h \in Handler : ran' = Append(ran, h)
  <1>1. Working /\ ~Top.running /\ Top.local # <<>> /\ FrameShape(Top)
    BY TopOK DEF Call
  <1> DEFINE n == Len(Top.local)
             g == Last(Top.local)
             f == [Top EXCEPT !.running = TRUE, !.local[n] = Front(g)]
  <1>2. /\ Top.local \in Seq(Seq(Handler)) /\ n \in 1..n /\ g = Top.local[n]
        /\ g \in Seq(Handler) /\ g # <<>>
    BY <1>1, GroupsOK
  <1>3. Front(g) \in Seq(Handler) /\ Last(g) \in Handler
    BY <1>2, FrontFacts
  <1>4. stack' = Goto(f) /\ ran' = Append(ran, Last(g))
    BY DEF Call
  <1>5. f = [Top EXCEPT !.running = TRUE, !.local = [Top.local EXCEPT ![n] = Front(g)]]
    BY <1>1 DEF FrameShape, Frame
  <1> HIDE DEF n, g
  <1> DEFINE rest == [Top.local EXCEPT ![n] = Front(g)]
  <1>6. /\ rest \in Seq(Seq(Handler)) /\ Len(rest) = n
        /\ \A j \in 1..n : rest[j] = IF j = n THEN Front(g) ELSE Top.local[j]
    BY <1>2, <1>3, ExceptSeq DEF n
  <1>7. DOMAIN rest = 1..n /\ DOMAIN Top.local = 1..n
    BY <1>2, <1>6, LenProperties DEF n
  <1>8. rest # <<>> /\ \A j \in 1..n : rest[j] = <<>> => j = n
    <2>1. n \in 1..n /\ n \in DOMAIN rest
      BY <1>2, <1>7
    <2>2. rest # <<>>
      BY <2>1
    <2> QED  BY <1>1, <1>6, <1>7, <2>2 DEF FrameShape
  <1> HIDE DEF rest
  <1>9. f.running = TRUE /\ f.local = rest /\ f \in Frame
    BY <1>1, <1>5, <1>6 DEF FrameShape, Frame, rest
  <1> HIDE DEF f
  <1>10. FrameShape(f)
    BY <1>6, <1>7, <1>8, <1>9 DEF FrameShape
  <1> QED  BY <1>1, <1>3, <1>4, <1>10, TopOK

(* It returns and its group is not empty. *)
LEMMA ReturnOK ==
  ASSUME WellFormed(stack), Return
  PROVE  WellFormed(stack')
  <1>1. Working /\ Top.running /\ Last(Top.local) # <<>> /\ FrameShape(Top)
    BY TopOK DEF Return, InHandler
  <1> DEFINE f == [Top EXCEPT !.running = FALSE]
  <1>2. f \in Frame /\ f.local = Top.local
    BY <1>1 DEF FrameShape, Frame
  <1>3. \A j \in DOMAIN f.local : f.local[j] # <<>>
    BY <1>1, <1>2 DEF FrameShape, Last
  <1>4. FrameShape(f)
    BY <1>2, <1>3 DEF FrameShape
  <1>5. stack' = Goto(f)
    BY DEF Return
  <1> QED  BY <1>1, <1>4, <1>5, TopOK

(* The function goes on without the group that is done. *)
LEMMA AfterGroupOK ==
  ASSUME WellFormed(stack), InHandler, Last(Top.local) = <<>>
  PROVE  WellFormed(AfterGroup) /\ Top.owner \in Txn \cup {None}
  <1>1. Working /\ Top.running /\ FrameShape(Top)
    BY TopOK DEF InHandler
  <1>2. Top.local \in Seq(Seq(Handler)) /\ Top.owner \in Txn \cup {None}
    BY <1>1 DEF FrameShape, Frame
  <1> DEFINE f == [Top EXCEPT !.running = FALSE, !.local = Front(Top.local)]
  <1>3. CASE Top.local = <<>>
    <2>1. Front(Top.local) = <<>> /\ Front(Top.local) \in Seq(Seq(Handler))
      BY <1>2, <1>3, EmptySeq DEF Front
    <2>2. f \in Frame /\ f.local = <<>>
      BY <1>1, <2>1 DEF FrameShape, Frame
    <2>3. FrameShape(f)
      BY <2>2 DEF FrameShape
    <2> QED  BY <1>1, <1>2, <2>3, TopOK DEF AfterGroup
  <1>4. CASE Top.local # <<>>
    <2>1. PICK n \in Nat : n = Len(Top.local)
      BY <1>2, LenProperties
    <2>2. /\ Front(Top.local) \in Seq(Seq(Handler)) /\ Len(Front(Top.local)) = n - 1
          /\ \A j \in 1..(n - 1) : Front(Top.local)[j] = Top.local[j]
      BY <1>2, <1>4, <2>1, FrontFacts
    <2>3. DOMAIN Top.local = 1..n /\ DOMAIN Front(Top.local) = 1..(n - 1)
      BY <1>2, <2>1, <2>2, LenProperties
    <2>4. \A j \in 1..(n - 1) : j \in 1..n /\ j # n
      OBVIOUS
    <2>5. \A j \in 1..(n - 1) : Front(Top.local)[j] # <<>>
      BY <1>1, <2>1, <2>2, <2>3, <2>4 DEF FrameShape
    <2>6. f \in Frame /\ f.local = Front(Top.local)
      BY <1>1, <2>2 DEF FrameShape, Frame
    <2>7. FrameShape(f)
      BY <2>3, <2>5, <2>6 DEF FrameShape
    <2> QED  BY <1>1, <1>2, <2>7, TopOK DEF AfterGroup
  <1> QED  BY <1>3, <1>4

(***************************************************************************)
(* Where handlers are.                                                     *)
(***************************************************************************)

(* h is the k-th handler of the j-th group of a frame, or lies there in the  *)
(* i-th frame of a stack; it is the k-th that waits in the map for t.        *)
InFrame(f, j, k, h) == j \in DOMAIN f.local /\ k \in DOMAIN f.local[j] /\ f.local[j][k] = h
At(s, i, j, k, h) == i \in DOMAIN s /\ InFrame(s[i], j, k, h)
Waits(m, t, k, h) == t \in Txn /\ k \in DOMAIN m[t] /\ m[t][k] = h

(* Handlers run from the last position to the first. *)
Earlier(i, j, k, a, b, c) == i < a \/ (i = a /\ (j < b \/ (j = b /\ k < c)))

(* The numbers of frames, groups and handlers. *)
LEMMA FrameNumbers ==
  ASSUME NEW f, FrameShape(f), NEW j, NEW k, NEW h, InFrame(f, j, k, h)
  PROVE  j \in Nat /\ k \in Nat /\ j >= 1 /\ k >= 1 /\ h \in Handler
  <1>1. f.local \in Seq(Seq(Handler))
    BY DEF FrameShape, Frame
  <1>2. j \in 1..Len(f.local) /\ Len(f.local) \in Nat /\ f.local[j] \in Seq(Handler)
    BY <1>1, LenProperties, ElementOfSeq DEF InFrame
  <1>3. k \in 1..Len(f.local[j]) /\ Len(f.local[j]) \in Nat /\ f.local[j][k] \in Handler
    BY <1>2, LenProperties, ElementOfSeq DEF InFrame
  <1> QED  BY <1>2, <1>3 DEF InFrame

LEMMA Numbers ==
  ASSUME NEW s, WellFormed(s), NEW i, NEW j, NEW k, NEW h, At(s, i, j, k, h)
  PROVE  i \in Nat /\ i <= Len(s) /\ Len(s) \in Nat /\ j \in Nat /\ k \in Nat /\ h \in Handler
  <1>1. i \in 1..Len(s) /\ Len(s) \in Nat /\ FrameShape(s[i])
    BY LenProperties DEF WellFormed, At
  <1> QED  BY <1>1, FrameNumbers DEF At

LEMMA MapNumbers ==
  ASSUME MapOK, NEW t, NEW k, NEW h, Waits(map, t, k, h)
  PROVE  k \in 1..Len(map[t]) /\ Len(map[t]) \in Nat /\ h \in Handler /\ map[t] # <<>>
  <1>1. map[t] \in Seq(Handler)
    BY DEF MapOK, Waits
  <1> QED  BY <1>1, LenProperties, ElementOfSeq DEF Waits

(* Two positions of a stack are the same, or one is earlier. *)
LEMMA InOrder ==
  ASSUME NEW i \in Nat, NEW j \in Nat, NEW k \in Nat, NEW a \in Nat, NEW b \in Nat, NEW c \in Nat
  PROVE  (i = a /\ j = b /\ k = c) \/ Earlier(i, j, k, a, b, c) \/ Earlier(a, b, c, i, j, k)
  BY DEF Earlier

(* A new frame adds its handlers. *)
LEMMA AtAppend ==
  ASSUME NEW s, WellFormed(s), NEW f, FrameShape(f), NEW i, NEW j, NEW k, NEW h
  PROVE  At(Append(s, f), i, j, k, h) <=>
           At(s, i, j, k, h) \/ (i = Len(s) + 1 /\ InFrame(f, j, k, h))
  <1>1. PICK n \in Nat : n = Len(s)
    BY LenProperties DEF WellFormed
  <1>2. /\ DOMAIN s = 1..n /\ DOMAIN Append(s, f) = 1..(n + 1)
        /\ Append(s, f)[n + 1] = f /\ \A x \in 1..n : Append(s, f)[x] = s[x]
    BY <1>1 DEF WellFormed, FrameShape
  <1>3. i \in 1..(n + 1) <=> i \in 1..n \/ i = n + 1
    OBVIOUS
  <1>4. ~(n + 1 \in 1..n)
    OBVIOUS
  <1> QED  BY <1>1, <1>2, <1>3, <1>4 DEF At

(* A frame that has done its work has none. *)
LEMMA AtFront ==
  ASSUME NEW s, WellFormed(s), s # <<>>, Last(s).local = <<>>, NEW i, NEW j, NEW k, NEW h
  PROVE  At(Front(s), i, j, k, h) <=> At(s, i, j, k, h)
  <1>1. PICK n \in Nat : n = Len(s)
    BY LenProperties DEF WellFormed
  <1>2. /\ Front(s) \in Seq(Frame) /\ Len(Front(s)) = n - 1
        /\ \A x \in 1..(n - 1) : Front(s)[x] = s[x]
    BY <1>1, FrontFacts DEF WellFormed
  <1>3. DOMAIN s = 1..n /\ DOMAIN Front(s) = 1..(n - 1) /\ Last(s) = s[n] /\ n # 0
    BY <1>1, <1>2, LenProperties, EmptySeq DEF WellFormed, Last
  <1>4. ~InFrame(s[n], j, k, h)
    BY <1>3 DEF InFrame
  <1>5. i \in 1..n <=> i \in 1..(n - 1) \/ i = n
    BY <1>3
  <1>6. ~(n \in 1..(n - 1))
    OBVIOUS
  <1> QED  BY <1>2, <1>3, <1>4, <1>5, <1>6 DEF At

(* What changes is in the frame at the top. *)
LEMMA AtGoto ==
  ASSUME WellFormed(stack), Working, NEW f, FrameShape(f), NEW i, NEW j, NEW k, NEW h
  PROVE  /\ At(Goto(f), i, j, k, h) <=>
              IF i = Len(stack) THEN InFrame(f, j, k, h) ELSE At(stack, i, j, k, h)
         /\ i = Len(stack) => (At(stack, i, j, k, h) <=> InFrame(Top, j, k, h))
         /\ Top = stack[Len(stack)] /\ Len(stack) \in DOMAIN stack /\ Len(stack) \in Nat
         /\ DOMAIN stack = 1..Len(stack) /\ DOMAIN Goto(f) = DOMAIN stack
         /\ Goto(f)[Len(stack)] = f
         /\ \A x \in DOMAIN stack : x # Len(stack) => Goto(f)[x] = stack[x]
         /\ Len(Goto(f)) = Len(stack)
  <1>1. PICK n \in Nat : n = Len(stack)
    BY LenProperties DEF WellFormed
  <1>2. DOMAIN stack = 1..n /\ Top = stack[n] /\ n \in 1..n
    BY <1>1, LenProperties, EmptySeq DEF WellFormed, Working, Top, Last
  <1>3. /\ DOMAIN Goto(f) = 1..n /\ Goto(f)[n] = f
        /\ \A x \in 1..n : x # n => Goto(f)[x] = stack[x]
    BY <1>1, <1>2 DEF Goto
  <1>4. Len(Goto(f)) = n
    <2>1. Goto(f) \in Seq(Frame)
      BY TopOK DEF WellFormed
    <2>2. Len(Goto(f)) \in Nat /\ DOMAIN Goto(f) = 1..Len(Goto(f))
      BY <2>1, LenProperties
    <2> QED  BY <1>3, <2>2
  <1> QED  BY <1>1, <1>2, <1>3, <1>4 DEF At

(* erase() and swap() hand over all that waits for a transaction. *)
LEMMA InDtorsFrame ==
  ASSUME MapOK, NEW t \in Txn, NEW j, NEW k, NEW h
  PROVE  LET f == NewFrame(t, OneByOne(map[t]))
         IN  /\ FrameShape(f) /\ f.owner = t /\ ~f.running
             /\ InFrame(f, j, k, h) <=> k = 1 /\ Waits(map, t, j, h)
             /\ \A x \in DOMAIN f.local : Len(f.local[x]) <= 1
  <1> DEFINE hs == map[t]
             f == NewFrame(t, OneByOne(hs))
  <1>1. hs \in Seq(Handler)
    BY DEF MapOK
  <1>2. PICK n \in Nat : n = Len(hs) /\ DOMAIN hs = 1..n /\ \A x \in 1..n : hs[x] \in Handler
    BY <1>1, LenProperties
  <1> HIDE DEF hs
  <1>3. f.local = [x \in 1..n |-> <<hs[x]>>] /\ f.owner = t /\ ~f.running
    BY <1>2 DEF NewFrame, OneByOne
  <1>4. OneByOne(hs) \in Seq(Seq(Handler)) /\ \A x \in DOMAIN OneByOne(hs) : OneByOne(hs)[x] # <<>>
    BY <1>2, IsASeq DEF OneByOne
  <1>5. FrameShape(f)
    BY <1>4, NewFrameOK
  <1> HIDE DEF f
  <1>6. DOMAIN f.local = 1..n /\ \A x \in 1..n : f.local[x] = <<hs[x]>>
    BY <1>3
  <1>7. \A x \in 1..n : Len(f.local[x]) = 1 /\ DOMAIN f.local[x] = {1} /\ f.local[x][1] = hs[x]
    <2>1. \A y : Len(<<y>>) = 1 /\ <<y>>[1] = y
      OBVIOUS
    <2>2. \A y : DOMAIN <<y>> = {1}
      OBVIOUS
    <2> TAKE x \in 1..n
    <2>3. f.local[x] = <<hs[x]>>
      BY <1>6
    <2>4. Len(<<hs[x]>>) = 1 /\ <<hs[x]>>[1] = hs[x] /\ DOMAIN <<hs[x]>> = {1}
      BY <2>1, <2>2
    <2> QED  BY <2>3, <2>4
  <1>8. InFrame(f, j, k, h) <=> k = 1 /\ Waits(map, t, j, h)
    BY <1>2, <1>6, <1>7 DEF InFrame, Waits, hs
  <1> QED  BY <1>3, <1>5, <1>6, <1>7, <1>8 DEF f, hs

LEMMA InExitsFrame ==
  ASSUME MapOK, NEW j, NEW k, NEW h
  PROVE  LET f == NewFrame(None, [i \in DOMAIN order |-> map[order[i]]])
         IN  /\ FrameShape(f) /\ f.owner = None /\ ~f.running
             /\ InFrame(f, j, k, h) <=> j \in DOMAIN order /\ Waits(map, order[j], k, h)
  <1> DEFINE g == [i \in DOMAIN order |-> map[order[i]]]
             f == NewFrame(None, g)
  <1>1. PICK n \in Nat : n = Len(order) /\ DOMAIN order = 1..n /\ \A i \in 1..n : order[i] \in Txn
    BY LenProperties DEF MapOK
  <1>2. \A i \in 1..n : map[order[i]] \in Seq(Handler) /\ map[order[i]] # <<>>
    BY <1>1 DEF MapOK, OrderSync, Range
  <1>3. g = [i \in 1..n |-> map[order[i]]]
    BY <1>1
  <1> HIDE DEF g
  <1>4. g \in Seq(Seq(Handler))
    BY <1>2, <1>3, IsASeq
  <1>5. \A i \in DOMAIN g : g[i] # <<>>
    BY <1>2, <1>3
  <1>6. FrameShape(f) /\ f.owner = None /\ ~f.running /\ f.local = g
    BY <1>4, <1>5, NewFrameOK DEF NewFrame
  <1> HIDE DEF f
  <1>7. InFrame(f, j, k, h) <=> j \in DOMAIN order /\ Waits(map, order[j], k, h)
    BY <1>1, <1>3, <1>6 DEF InFrame, Waits
  <1> QED  BY <1>6, <1>7 DEF f, g

(***************************************************************************)
(* What is known of each handler.                                          *)
(***************************************************************************)

(* b: the registrations, o: the owners, rn: the calls, s and m: stack and map.*)

(* Older registrations come first in b. *)
Older(b, g, h) == \E x, y \in DOMAIN b : x < y /\ b[x] = g /\ b[y] = h

Registered(b, o) ==
  /\ b \in Seq(Handler) /\ IsInjective(b)
  /\ Range(b) = {h \in Handler : o[h] # None}

MapOwned(m, o) == \A t, k, h : Waits(m, t, k, h) => o[h] = t

(* Of the handlers with one owner, older ones lie below younger ones, and    *)
(* those on the stack are older than those in the map.                       *)
StackSorted(s, b, o) ==
  \A i, j, k, g, a, c, d, h :
    At(s, i, j, k, g) /\ At(s, a, c, d, h) /\ Earlier(i, j, k, a, c, d) /\ o[g] = o[h] => Older(b, g, h)
MapSorted(m, b) == \A t, k, g, l, h : Waits(m, t, k, g) /\ Waits(m, t, l, h) /\ k < l => Older(b, g, h)
StackFirst(s, m, b, o) ==
  \A i, j, k, g, l, h : At(s, i, j, k, g) => o[g] # None /\ (Waits(m, o[g], l, h) => Older(b, g, h))

StackHas(s, h) == \E i, j, k : At(s, i, j, k, h)
MapHas(m, h) == \E t, k : Waits(m, t, k, h)
Held(s, m, h) == StackHas(s, h) \/ MapHas(m, h)

(* A handler is held until it is called, and only until then. *)
CalledOnce(s, m, o, rn) ==
  IsInjective(rn) /\ \A h \in Range(rn) : h \in Handler /\ o[h] # None /\ ~Held(s, m, h)
NoneLost(s, m, o, rn) ==
  \A h \in Handler : o[h] # None /\ h \notin Range(rn) => Held(s, m, h)

KeptOK(s, m, b, o, rn) ==
  /\ Registered(b, o) /\ MapOwned(m, o)
  /\ StackSorted(s, b, o) /\ MapSorted(m, b) /\ StackFirst(s, m, b, o)
  /\ CalledOnce(s, m, o, rn) /\ NoneLost(s, m, o, rn)

(* Nothing is older than itself. *)
LEMMA OlderStrict ==
  ASSUME NEW b, IsInjective(b), b \in Seq(Handler), NEW h
  PROVE  ~Older(b, h, h)
  <1>1. DOMAIN b = 1..Len(b)
    BY LenProperties
  <1> QED  BY <1>1 DEF Older, IsInjective

(* So a handler is held in one place. *)
LEMMA OnePlace ==
  ASSUME NEW s, NEW m, NEW b, NEW o, NEW rn, KeptOK(s, m, b, o, rn), WellFormed(s),
         NEW i, NEW j, NEW k, NEW h, At(s, i, j, k, h)
  PROVE  /\ ~MapHas(m, h)
         /\ \A a, c, d : At(s, a, c, d, h) => i = a /\ j = c /\ k = d
  <1>1. ~Older(b, h, h)
    BY OlderStrict DEF KeptOK, Registered
  <1>2. ~MapHas(m, h)
    <2> SUFFICES ASSUME NEW t, NEW l, Waits(m, t, l, h)  PROVE FALSE
      BY DEF MapHas
    <2>1. o[h] = t
      BY DEF KeptOK, MapOwned
    <2> QED  BY <1>1, <2>1 DEF KeptOK, StackFirst
  <1>3. ASSUME NEW a, NEW c, NEW d, At(s, a, c, d, h)
        PROVE  i = a /\ j = c /\ k = d
    <2>1. i \in Nat /\ j \in Nat /\ k \in Nat /\ a \in Nat /\ c \in Nat /\ d \in Nat
      BY <1>3, Numbers
    <2>2. ~Earlier(i, j, k, a, c, d) /\ ~Earlier(a, c, d, i, j, k)
      BY <1>1, <1>3 DEF KeptOK, StackSorted
    <2> QED  BY <2>1, <2>2, InOrder
  <1> QED  BY <1>2, <1>3

(* Nothing changes when handlers stay where they are. *)
LEMMA SamePlaces ==
  ASSUME NEW s, NEW m, NEW b, NEW o, NEW rn, KeptOK(s, m, b, o, rn),
         NEW q, \A i, j, k, h : At(q, i, j, k, h) <=> At(s, i, j, k, h)
  PROVE  KeptOK(q, m, b, o, rn)
  <1>1. \A h : StackHas(q, h) <=> StackHas(s, h)
    BY DEF StackHas
  <1>2. \A h : Held(q, m, h) <=> Held(s, m, h)
    BY <1>1 DEF Held
  <1>3. CalledOnce(q, m, o, rn) /\ NoneLost(q, m, o, rn)
    BY <1>2 DEF KeptOK, CalledOnce, NoneLost
  <1>4. StackSorted(q, b, o) /\ StackFirst(q, m, b, o)
    BY DEF KeptOK, StackSorted, StackFirst
  <1> QED  BY <1>3, <1>4 DEF KeptOK

(* A frame takes all that waits for some transactions. *)
Takes(f, m, n, o) ==
  /\ \A t \in Txn : n[t] = <<>> \/ n[t] = m[t]
  /\ \A t, l, h : Waits(m, t, l, h) /\ n[t] # m[t] => \E j, k : InFrame(f, j, k, h)
  /\ \A j, k, h : InFrame(f, j, k, h) => \E t, l : Waits(m, t, l, h) /\ n[t] = <<>>
  /\ \A j, k, g, c, d, h :
       InFrame(f, j, k, g) /\ InFrame(f, c, d, h) /\ (j < c \/ (j = c /\ k < d)) /\ o[g] = o[h] =>
         \E t, l, x : Waits(m, t, l, g) /\ Waits(m, t, x, h) /\ l < x

LEMMA TakesKeeps ==
  ASSUME NEW s, NEW m, NEW b, NEW o, NEW rn, KeptOK(s, m, b, o, rn), WellFormed(s),
         NEW f, FrameShape(f), NEW n, Takes(f, m, n, o)
  PROVE  KeptOK(Append(s, f), n, b, o, rn)
  <1> DEFINE q == Append(s, f)
             z == Len(s)
  <1>1. \A i, j, k, h : At(q, i, j, k, h) <=> At(s, i, j, k, h) \/ (i = z + 1 /\ InFrame(f, j, k, h))
    BY AtAppend
  <1>2. \A i, j, k, h : At(s, i, j, k, h) => i \in Nat /\ i <= z /\ z \in Nat
    BY Numbers
  <1> HIDE DEF q, z
  <1>3. \A t, l, h : Waits(n, t, l, h) => Waits(m, t, l, h) /\ n[t] # <<>>
    BY DEF Takes, Waits
  <1>4. StackSorted(q, b, o)
    <2> SUFFICES ASSUME NEW i, NEW j, NEW k, NEW g, NEW a, NEW c, NEW d, NEW h,
                        At(q, i, j, k, g), At(q, a, c, d, h), Earlier(i, j, k, a, c, d), o[g] = o[h]
                 PROVE  Older(b, g, h)
      BY DEF StackSorted
    <2>1. CASE At(s, i, j, k, g) /\ At(s, a, c, d, h)
      BY <2>1 DEF KeptOK, StackSorted
    <2>2. CASE At(s, i, j, k, g) /\ InFrame(f, c, d, h)
      <3>1. PICK t, l : Waits(m, t, l, h)
        BY <2>2 DEF Takes
      <3>2. o[g] = t
        BY <3>1 DEF KeptOK, MapOwned
      <3> QED  BY <2>2, <3>1, <3>2 DEF KeptOK, StackFirst
    <2>3. CASE i = z + 1 /\ At(s, a, c, d, h)
      BY <1>2, <2>3 DEF Earlier
    <2>4. CASE i = z + 1 /\ InFrame(f, j, k, g) /\ a = z + 1 /\ InFrame(f, c, d, h)
      <3>1. j < c \/ (j = c /\ k < d)
        <4>1. z \in Nat
          BY LenProperties DEF z, WellFormed
        <4> QED  BY <2>4, <4>1 DEF Earlier
      <3>2. PICK t, l, x : Waits(m, t, l, g) /\ Waits(m, t, x, h) /\ l < x
        BY <2>4, <3>1 DEF Takes
      <3> QED  BY <3>2 DEF KeptOK, MapSorted
    <2> QED  BY <1>1, <2>1, <2>2, <2>3, <2>4
  <1>5. MapSorted(n, b) /\ MapOwned(n, o)
    BY <1>3 DEF KeptOK, MapSorted, MapOwned
  <1>6. StackFirst(q, n, b, o)
    <2> SUFFICES ASSUME NEW i, NEW j, NEW k, NEW g, NEW l, NEW h, At(q, i, j, k, g)
                 PROVE  o[g] # None /\ (Waits(n, o[g], l, h) => Older(b, g, h))
      BY DEF StackFirst
    <2>1. CASE At(s, i, j, k, g)
      BY <1>3, <2>1 DEF KeptOK, StackFirst
    <2>2. CASE InFrame(f, j, k, g)
      <3>1. PICK t, x : Waits(m, t, x, g) /\ n[t] = <<>>
        BY <2>2 DEF Takes
      <3>2. o[g] = t /\ t \in Txn
        BY <3>1 DEF KeptOK, MapOwned, Waits
      <3>3. ~Waits(n, t, l, h)
        BY <1>3, <3>1
      <3> QED  BY <3>2, <3>3, AtExitAssumption
    <2> QED  BY <1>1, <2>1, <2>2
  <1>7. \A h : Held(q, n, h) <=> Held(s, m, h)
    <2>1. ASSUME NEW h, StackHas(s, h)  PROVE StackHas(q, h)
      BY <1>1, <2>1 DEF StackHas
    <2>2. ASSUME NEW h, MapHas(m, h)  PROVE Held(q, n, h)
      <3>1. PICK t, l : Waits(m, t, l, h)
        BY <2>2 DEF MapHas
      <3>2. CASE n[t] = m[t]
        BY <3>1, <3>2 DEF Waits, MapHas, Held
      <3>3. CASE n[t] # m[t]
        <4>1. PICK j, k : InFrame(f, j, k, h)
          BY <3>1, <3>3 DEF Takes
        <4>2. At(q, z + 1, j, k, h)
          BY <1>1, <4>1
        <4> QED  BY <4>2 DEF StackHas, Held
      <3> QED  BY <3>2, <3>3
    <2>3. ASSUME NEW h, StackHas(q, h)  PROVE Held(s, m, h)
      <3>1. PICK i, j, k : At(q, i, j, k, h)
        BY <2>3 DEF StackHas
      <3>2. CASE At(s, i, j, k, h)
        BY <3>2 DEF StackHas, Held
      <3>3. CASE InFrame(f, j, k, h)
        BY <3>3 DEF Takes, MapHas, Held
      <3> QED  BY <1>1, <3>1, <3>2, <3>3
    <2>4. ASSUME NEW h, MapHas(n, h)  PROVE MapHas(m, h)
      BY <1>3, <2>4 DEF MapHas
    <2> QED  BY <2>1, <2>2, <2>3, <2>4 DEF Held
  <1>8. CalledOnce(q, n, o, rn) /\ NoneLost(q, n, o, rn)
    BY <1>7 DEF KeptOK, CalledOnce, NoneLost
  <1> QED  BY <1>4, <1>5, <1>6, <1>8 DEF KeptOK, q

(* A frame of runAndRemoveStaticDestructors has handlers of one transaction,  *)
(* and calls itself after each.                                              *)
FrameOwned(f, o) ==
  f.owner # None =>
    /\ f.running => Last(f.local) = <<>>
    /\ \A j \in DOMAIN f.local : Len(f.local[j]) <= 1 /\ \A k, h : InFrame(f, j, k, h) => o[h] = f.owner
FramesOwned(s, o) == \A i \in DOMAIN s : FrameOwned(s[i], o)

(* A frame that waits for another one has called a handler or itself. *)
Joined(s) ==
  \A i \in DOMAIN s : i + 1 \in DOMAIN s /\ ~s[i].running => s[i + 1].owner = s[i].owner

Owners(s, O) == \A i \in DOMAIN s : s[i].owner \in O

(* The functions are entered with the transaction t, above the frames s. *)
Entered(s, t, q) ==
  q = s \/ \E f : FrameShape(f) /\ f.owner = t /\ ~f.running /\ q = Append(s, f)

LEMMA AppendFacts ==
  ASSUME NEW s, WellFormed(s), NEW f, FrameShape(f)
  PROVE  /\ Len(s) \in Nat /\ DOMAIN s = 1..Len(s) /\ DOMAIN Append(s, f) = 1..(Len(s) + 1)
         /\ Append(s, f)[Len(s) + 1] = f /\ \A x \in DOMAIN s : Append(s, f)[x] = s[x]
         /\ Append(s, f) # <<>> /\ Last(Append(s, f)) = f
         /\ \A x \in DOMAIN Append(s, f) : x = Len(s) + 1 \/ x \in DOMAIN s
  <1>1. PICK n \in Nat : n = Len(s)
    BY LenProperties DEF WellFormed
  <1>2. /\ DOMAIN s = 1..n /\ DOMAIN Append(s, f) = 1..(n + 1) /\ Len(Append(s, f)) = n + 1
        /\ Append(s, f)[n + 1] = f /\ \A x \in 1..n : Append(s, f)[x] = s[x]
    BY <1>1 DEF WellFormed, FrameShape
  <1>3. Append(s, f) # <<>>
    BY <1>2
  <1>4. \A x \in 1..(n + 1) : x = n + 1 \/ x \in 1..n
    OBVIOUS
  <1> QED  BY <1>1, <1>2, <1>3, <1>4 DEF Last

LEMMA EnteredKeeps ==
  ASSUME NEW s, WellFormed(s), Joined(s), NEW t, NEW q, Entered(s, t, q),
         s # <<>> => Last(s).running \/ Last(s).owner = t
  PROVE  /\ Joined(q)
         /\ \A O : Owners(s, O) /\ t \in O => Owners(q, O)
         /\ q # <<>> => (q = s \/ (~Last(q).running /\ Last(q).owner = t))
  <1>1. CASE q = s
    BY <1>1
  <1>2. CASE q # s
    <2>1. PICK f : FrameShape(f) /\ f.owner = t /\ ~f.running /\ q = Append(s, f)
      BY <1>2 DEF Entered
    <2>2. PICK n \in Nat : n = Len(s)
      BY AppendFacts, <2>1
    <2>3. /\ DOMAIN s = 1..n /\ DOMAIN q = 1..(n + 1) /\ q[n + 1] = f
          /\ \A x \in DOMAIN s : q[x] = s[x]
          /\ Last(q) = f
          /\ \A x \in DOMAIN q : x = n + 1 \/ x \in DOMAIN s
      BY <2>1, <2>2, AppendFacts
    <2>4. n # 0 => s # <<>> /\ Last(s) = s[n]
      BY <2>2 DEF Last
    <2>5. ASSUME NEW i \in DOMAIN q, i + 1 \in DOMAIN q, ~q[i].running
          PROVE  q[i + 1].owner = q[i].owner
      <3>1. CASE i = n
        <4>1. n # 0 /\ q[i] = s[n]
          BY <2>3, <3>1
        <4> QED  BY <2>1, <2>3, <2>4, <2>5, <3>1, <4>1
      <3>2. CASE i # n
        <4>1. i \in DOMAIN s /\ i + 1 \in DOMAIN s
          BY <2>3, <2>5, <3>2
        <4> QED  BY <2>3, <2>5, <4>1 DEF Joined
      <3> QED  BY <3>1, <3>2
    <2>6. Joined(q)
      BY <2>5 DEF Joined
    <2>7. \A O : Owners(s, O) /\ t \in O => Owners(q, O)
      BY <2>1, <2>3 DEF Owners
    <2> QED  BY <2>1, <2>3, <2>6, <2>7
  <1> QED  BY <1>1, <1>2

LEMMA EnterDtorsKeeps ==
  ASSUME MapOK, NEW s, WellFormed(s), NEW t \in Txn, EnterDtors(s, t),
         KeptOK(s, map, born, owner, ran), FramesOwned(s, owner)
  PROVE  /\ KeptOK(stack', map', born, owner, ran) /\ FramesOwned(stack', owner)
         /\ map'[t] = <<>> /\ Entered(s, t, stack')
  <1>1. CASE map[t] = <<>>
    <2>1. stack' = s /\ map' = map
      BY <1>1 DEF EnterDtors, mapVars
    <2> QED  BY <1>1, <2>1 DEF Entered
  <1>2. CASE map[t] # <<>>
    <2> DEFINE f == NewFrame(t, OneByOne(map[t]))
    <2>1. FrameShape(f) /\ f.owner = t /\ ~f.running /\ \A x \in DOMAIN f.local : Len(f.local[x]) <= 1
      BY InDtorsFrame
    <2>2. \A j, k, h : InFrame(f, j, k, h) <=> k = 1 /\ Waits(map, t, j, h)
      BY InDtorsFrame
    <2>3. stack' = Append(s, f) /\ map' = [map EXCEPT ![t] = <<>>]
      BY <1>2 DEF EnterDtors, MapErase
    <2> HIDE DEF f
    <2>4. map'[t] = <<>> /\ \A u \in Txn : u # t => map'[u] = map[u]
      BY <2>3 DEF MapOK
    <2>5. Takes(f, map, map', owner)
      <3>1. \A u \in Txn : map'[u] = <<>> \/ map'[u] = map[u]
        BY <2>4
      <3>2. ASSUME NEW u, NEW l, NEW h, Waits(map, u, l, h), map'[u] # map[u]
            PROVE  \E j, k : InFrame(f, j, k, h)
        <4>1. u = t
          BY <2>4, <3>2 DEF Waits
        <4> QED  BY <2>2, <3>2, <4>1
      <3>3. \A j, k, h : InFrame(f, j, k, h) => \E u, l : Waits(map, u, l, h) /\ map'[u] = <<>>
        BY <2>2, <2>4
      <3>4. ASSUME NEW j, NEW k, NEW g, NEW c, NEW d, NEW h,
                   InFrame(f, j, k, g), InFrame(f, c, d, h), j < c \/ (j = c /\ k < d)
            PROVE  \E u, l, x : Waits(map, u, l, g) /\ Waits(map, u, x, h) /\ l < x
        <4>1. k = 1 /\ d = 1 /\ Waits(map, t, j, g) /\ Waits(map, t, c, h)
          BY <2>2, <3>4
        <4>2. j < c
          BY <3>4, <4>1
        <4> QED  BY <4>1, <4>2
      <3> QED  BY <3>1, <3>2, <3>3, <3>4 DEF Takes
    <2>6. KeptOK(stack', map', born, owner, ran)
      BY <2>1, <2>3, <2>5, TakesKeeps
    <2>7. FrameOwned(f, owner)
      BY <2>1, <2>2 DEF FrameOwned, KeptOK, MapOwned
    <2>8. FramesOwned(stack', owner)
      BY <2>1, <2>3, <2>7, AppendFacts DEF FramesOwned
    <2> QED  BY <2>1, <2>3, <2>4, <2>6, <2>8 DEF Entered
  <1> QED  BY <1>1, <1>2

LEMMA EnterExitsKeeps ==
  ASSUME MapOK, NEW s, WellFormed(s), EnterExits(s),
         KeptOK(s, map, born, owner, ran), FramesOwned(s, owner)
  PROVE  /\ KeptOK(stack', map', born, owner, ran) /\ FramesOwned(stack', owner)
         /\ (\A t \in Txn : map'[t] = <<>>) /\ Entered(s, None, stack')
  <1>1. CASE order = <<>>
    <2>1. stack' = s /\ map' = map
      BY <1>1 DEF EnterExits, mapVars
    <2>2. \A t \in Txn : map[t] = <<>>
      <3>1. Range(order) = {}
        BY <1>1 DEF Range
      <3> QED  BY <3>1 DEF MapOK, OrderSync
    <2> QED  BY <2>1, <2>2 DEF Entered
  <1>2. CASE order # <<>>
    <2> DEFINE f == NewFrame(None, [i \in DOMAIN order |-> map[order[i]]])
    <2>1. FrameShape(f) /\ f.owner = None /\ ~f.running
      BY InExitsFrame
    <2>2. \A j, k, h : InFrame(f, j, k, h) <=> j \in DOMAIN order /\ Waits(map, order[j], k, h)
      BY InExitsFrame
    <2>3. stack' = Append(s, f) /\ map' = [t \in Txn |-> <<>>]
      BY <1>2 DEF EnterExits, MapSwap
    <2> HIDE DEF f
    <2>4. \A t \in Txn : map'[t] = <<>>
      BY <2>3
    <2>5. Takes(f, map, map', owner)
      <3>1. ASSUME NEW t, NEW l, NEW h, Waits(map, t, l, h)
            PROVE  \E j, k : InFrame(f, j, k, h)
        <4>1. t \in Range(order)
          BY <3>1, MapNumbers DEF MapOK, OrderSync, Waits
        <4>2. PICK j \in DOMAIN order : order[j] = t
          BY <4>1 DEF Range
        <4> QED  BY <2>2, <3>1, <4>2
      <3>2. \A j, k, h : InFrame(f, j, k, h) => \E t, l : Waits(map, t, l, h) /\ map'[t] = <<>>
        BY <2>2, <2>4 DEF Waits
      <3>3. ASSUME NEW j, NEW k, NEW g, NEW c, NEW d, NEW h,
                   InFrame(f, j, k, g), InFrame(f, c, d, h), j < c \/ (j = c /\ k < d),
                   owner[g] = owner[h]
            PROVE  \E t, l, x : Waits(map, t, l, g) /\ Waits(map, t, x, h) /\ l < x
        <4>1. /\ j \in DOMAIN order /\ Waits(map, order[j], k, g)
              /\ c \in DOMAIN order /\ Waits(map, order[c], d, h)
          BY <2>2, <3>3
        <4>2. order[j] = order[c]
          BY <3>3, <4>1 DEF KeptOK, MapOwned
        <4>3. j = c
          BY <4>1, <4>2 DEF MapOK, OrderSync, IsInjective
        <4>4. j \in Nat
          BY <4>1, LenProperties DEF MapOK
        <4>5. k < d
          BY <3>3, <4>3, <4>4
        <4> QED  BY <4>1, <4>2, <4>5
      <3> QED  BY <2>4, <3>1, <3>2, <3>3 DEF Takes
    <2>6. KeptOK(stack', map', born, owner, ran)
      BY <2>1, <2>3, <2>5, TakesKeeps
    <2>7. FramesOwned(stack', owner)
      BY <2>1, <2>3, AppendFacts DEF FramesOwned, FrameOwned
    <2> QED  BY <2>1, <2>3, <2>4, <2>6, <2>7 DEF Entered
  <1> QED  BY <1>1, <1>2

(* The frame at the top goes on. *)
LEMMA GotoKeeps ==
  ASSUME WellFormed(stack), Working, NEW f, FrameShape(f), f.owner = Top.owner,
         NEW o, FramesOwned(stack, o), FrameOwned(f, o), Joined(stack)
  PROVE  /\ FramesOwned(Goto(f), o) /\ Joined(Goto(f))
         /\ \A O : Owners(stack, O) => Owners(Goto(f), O)
         /\ Goto(f) # <<>> /\ Last(Goto(f)) = f
  <1>1. PICK n \in Nat : n = Len(stack)
    BY LenProperties DEF WellFormed
  <1>2. /\ Top = stack[n] /\ n \in DOMAIN stack /\ DOMAIN stack = 1..n /\ DOMAIN Goto(f) = 1..n
        /\ Goto(f)[n] = f /\ (\A x \in 1..n : x # n => Goto(f)[x] = stack[x]) /\ Len(Goto(f)) = n
    BY <1>1, AtGoto
  <1>3. Goto(f) # <<>> /\ Last(Goto(f)) = f
    BY <1>2 DEF Last
  <1>4. FramesOwned(Goto(f), o)
    BY <1>2 DEF FramesOwned
  <1>5. \A x \in 1..n : Goto(f)[x].owner = stack[x].owner
    BY <1>2
  <1>6. Joined(Goto(f))
    <2>1. \A i \in 1..n : i + 1 \in 1..n => i # n
      OBVIOUS
    <2> QED  BY <1>2, <1>5, <2>1 DEF Joined
  <1>7. \A O : Owners(stack, O) => Owners(Goto(f), O)
    BY <1>2, <1>5 DEF Owners
  <1> QED  BY <1>3, <1>4, <1>6, <1>7

(* The same handlers. *)
LEMMA GotoSame ==
  ASSUME WellFormed(stack), Working, NEW f, FrameShape(f), f.owner = Top.owner, ~f.running,
         \A j, k, h : InFrame(f, j, k, h) <=> InFrame(Top, j, k, h),
         \A j \in DOMAIN f.local : j \in DOMAIN Top.local /\ f.local[j] = Top.local[j],
         NEW m, NEW b, NEW o, NEW rn, KeptOK(stack, m, b, o, rn), FramesOwned(stack, o)
  PROVE  KeptOK(Goto(f), m, b, o, rn) /\ FrameOwned(f, o)
  <1>1. \A i, j, k, h : At(Goto(f), i, j, k, h) <=> At(stack, i, j, k, h)
    BY AtGoto
  <1>2. KeptOK(Goto(f), m, b, o, rn)
    BY <1>1, SamePlaces
  <1>3. FrameOwned(Top, o)
    BY AtGoto DEF FramesOwned
  <1>4. FrameOwned(f, o)
    BY <1>3 DEF FrameOwned
  <1> QED  BY <1>2, <1>4

(* Return. *)
LEMMA ReturnKeeps ==
  ASSUME WellFormed(stack), Return, KeptOK(stack, map, born, owner, ran),
         FramesOwned(stack, owner), Joined(stack)
  PROVE  /\ KeptOK(stack', map, born, owner, ran) /\ FramesOwned(stack', owner) /\ Joined(stack')
         /\ \A O : Owners(stack, O) => Owners(stack', O)
         /\ stack' # <<>> /\ Last(stack').owner = Top.owner /\ Last(stack').local # <<>>
         /\ Last(Top.local) # <<>> /\ Top.local # <<>>
  <1>1. Working /\ Top.running /\ Last(Top.local) # <<>> /\ FrameShape(Top)
    BY TopOK DEF Return, InHandler
  <1> DEFINE f == [Top EXCEPT !.running = FALSE]
  <1>2. f \in Frame /\ f.local = Top.local /\ f.owner = Top.owner /\ ~f.running
    BY <1>1 DEF FrameShape, Frame
  <1>3. \A j \in DOMAIN f.local : f.local[j] # <<>>
    BY <1>1, <1>2 DEF FrameShape, Last
  <1>4. FrameShape(f) /\ Top.local # <<>>
    BY <1>1, <1>2, <1>3 DEF FrameShape
  <1>5. stack' = Goto(f)
    BY DEF Return
  <1> HIDE DEF f
  <1>6. KeptOK(Goto(f), map, born, owner, ran) /\ FrameOwned(f, owner)
    BY <1>1, <1>2, <1>4, GotoSame DEF InFrame
  <1> QED  BY <1>1, <1>2, <1>4, <1>5, <1>6, GotoKeeps

(* The end of a group. *)
LEMMA AfterGroupKeeps ==
  ASSUME WellFormed(stack), InHandler, Last(Top.local) = <<>>,
         KeptOK(stack, map, born, owner, ran), FramesOwned(stack, owner), Joined(stack)
  PROVE  /\ KeptOK(AfterGroup, map, born, owner, ran) /\ FramesOwned(AfterGroup, owner)
         /\ Joined(AfterGroup) /\ \A O : Owners(stack, O) => Owners(AfterGroup, O)
         /\ AfterGroup # <<>> /\ Last(AfterGroup).owner = Top.owner
         /\ ~Last(AfterGroup).running
  <1>1. Working /\ Top.running /\ FrameShape(Top) /\ Top.local # <<>>
    BY TopOK DEF InHandler, FrameShape
  <1>2. Top.local \in Seq(Seq(Handler)) /\ Top.owner \in Txn \cup {None}
    BY <1>1 DEF FrameShape, Frame
  <1> DEFINE f == [Top EXCEPT !.running = FALSE, !.local = Front(Top.local)]
  <1>3. PICK n \in Nat : n = Len(Top.local)
    BY <1>2, LenProperties
  <1>4. /\ Front(Top.local) \in Seq(Seq(Handler)) /\ Len(Front(Top.local)) = n - 1
        /\ \A j \in 1..(n - 1) : Front(Top.local)[j] = Top.local[j]
    BY <1>1, <1>2, <1>3, FrontFacts
  <1>5. DOMAIN Top.local = 1..n /\ DOMAIN Front(Top.local) = 1..(n - 1) /\ n # 0
    BY <1>1, <1>2, <1>3, <1>4, LenProperties, EmptySeq
  <1>6. \A j \in 1..(n - 1) : j \in 1..n /\ j # n
    OBVIOUS
  <1>7. \A j \in 1..(n - 1) : Front(Top.local)[j] # <<>>
    BY <1>1, <1>3, <1>4, <1>5, <1>6 DEF FrameShape
  <1>8. f \in Frame /\ f.local = Front(Top.local) /\ f.owner = Top.owner /\ ~f.running
    BY <1>1, <1>4 DEF FrameShape, Frame
  <1>9. FrameShape(f)
    BY <1>5, <1>7, <1>8 DEF FrameShape
  <1>10. AfterGroup = Goto(f)
    BY DEF AfterGroup
  <1> HIDE DEF f
  <1>11. \A j \in DOMAIN f.local : j \in DOMAIN Top.local /\ f.local[j] = Top.local[j]
    BY <1>4, <1>5, <1>6, <1>8
  <1>12. \A j, k, h : InFrame(f, j, k, h) <=> InFrame(Top, j, k, h)
    <2>1. Top.local[n] = <<>>
      BY <1>3 DEF Last
    <2>2. \A k, h : ~InFrame(Top, n, k, h)
      BY <2>1 DEF InFrame
    <2>3. \A j \in 1..n : j = n \/ j \in 1..(n - 1)
      OBVIOUS
    <2>4. ASSUME NEW j, NEW k, NEW h, InFrame(Top, j, k, h)
          PROVE  InFrame(f, j, k, h)
      <3>1. j \in 1..(n - 1)
        BY <1>5, <2>2, <2>3, <2>4 DEF InFrame
      <3> QED  BY <1>4, <1>5, <1>8, <2>4, <3>1 DEF InFrame
    <2>5. \A j, k, h : InFrame(f, j, k, h) => InFrame(Top, j, k, h)
      BY <1>11 DEF InFrame
    <2> QED  BY <2>4, <2>5
  <1>13. KeptOK(Goto(f), map, born, owner, ran) /\ FrameOwned(f, owner)
    BY <1>1, <1>8, <1>9, <1>11, <1>12, GotoSame
  <1> QED  BY <1>1, <1>8, <1>9, <1>10, <1>13, GotoKeeps

(* The end of a loop. *)
LEMMA DoneKeeps ==
  ASSUME WellFormed(stack), Done, KeptOK(stack, map, born, owner, ran),
         FramesOwned(stack, owner), Joined(stack)
  PROVE  /\ KeptOK(stack', map, born, owner, ran) /\ FramesOwned(stack', owner) /\ Joined(stack')
         /\ \A O : Owners(stack, O) => Owners(stack', O)
         /\ stack' # <<>> /\ ~Last(stack').running => Last(stack').owner = Top.owner
  <1>1. Working /\ ~Top.running /\ Top.local = <<>> /\ stack' = Front(stack)
    BY DEF Done
  <1>2. PICK n \in Nat : n = Len(stack)
    BY LenProperties DEF WellFormed
  <1>3. /\ Front(stack) \in Seq(Frame) /\ Len(Front(stack)) = n - 1
        /\ \A x \in 1..(n - 1) : Front(stack)[x] = stack[x]
    BY <1>1, <1>2, FrontFacts DEF WellFormed, Working
  <1>4. DOMAIN stack = 1..n /\ DOMAIN Front(stack) = 1..(n - 1) /\ Top = stack[n] /\ n # 0
    BY <1>1, <1>2, <1>3, LenProperties, EmptySeq DEF WellFormed, Top, Last, Working
  <1>5. \A i, j, k, h : At(Front(stack), i, j, k, h) <=> At(stack, i, j, k, h)
    BY <1>1, AtFront DEF Working, Top
  <1>6. KeptOK(stack', map, born, owner, ran)
    BY <1>1, <1>5, SamePlaces
  <1>7. \A i \in 1..(n - 1) : i \in 1..n
    OBVIOUS
  <1>8. FramesOwned(stack', owner) /\ \A O : Owners(stack, O) => Owners(stack', O)
    BY <1>1, <1>3, <1>4, <1>7 DEF FramesOwned, Owners
  <1>9. Joined(stack')
    BY <1>1, <1>3, <1>4, <1>7 DEF Joined
  <1>10. ASSUME Front(stack) # <<>>, ~Last(Front(stack)).running
         PROVE  Last(Front(stack)).owner = Top.owner
    <2>1. n - 1 # 0
      BY <1>2, <1>3, <1>10, EmptySeq
    <2>2. n - 1 \in 1..n /\ n - 1 \in 1..(n - 1) /\ n - 1 + 1 = n
      BY <1>4, <2>1
    <2>3. Last(Front(stack)) = stack[n - 1]
      BY <1>3, <2>2 DEF Last
    <2> QED  BY <1>4, <1>10, <2>2, <2>3 DEF Joined
  <1> QED  BY <1>1, <1>6, <1>8, <1>9, <1>10

(* A call takes the last handler of the frame at the top. *)
LastIn(f, m, l, h) ==
  /\ InFrame(f, m, l, h)
  /\ \A j, k, g : InFrame(f, j, k, g) => j < m \/ (j = m /\ k <= l)

LEMMA CallFrame ==
  ASSUME WellFormed(stack), Call
  PROVE  \E f, m, l, h :
           /\ Working /\ ~Top.running /\ FrameShape(f) /\ f.running /\ f.owner = Top.owner
           /\ stack' = Goto(f) /\ h \in Handler /\ ran' = Append(ran, h) /\ LastIn(Top, m, l, h)
           /\ \A j, k, g : InFrame(f, j, k, g) <=> InFrame(Top, j, k, g) /\ ~(j = m /\ k = l)
           /\ \A j \in DOMAIN f.local : j \in DOMAIN Top.local /\ Len(f.local[j]) <= Len(Top.local[j])
           /\ Last(f.local) = Front(Last(Top.local)) /\ Last(Top.local) = Top.local[m]
           /\ Len(Last(Top.local)) = l /\ m \in DOMAIN Top.local
  <1>1. Working /\ ~Top.running /\ Top.local # <<>> /\ FrameShape(Top)
    BY TopOK DEF Call
  <1>2. PICK n : n = Len(Top.local)
    OBVIOUS
  <1> DEFINE g == Last(Top.local)
             f == [Top EXCEPT !.running = TRUE, !.local[n] = Front(g)]
             rest == [Top.local EXCEPT ![n] = Front(g)]
  <1>3. /\ Top.local \in Seq(Seq(Handler)) /\ n \in 1..n /\ g = Top.local[n]
        /\ g \in Seq(Handler) /\ g # <<>>
    BY <1>1, <1>2, GroupsOK
  <1>4. PICK l \in Nat : l = Len(g)
    BY <1>3, LenProperties
  <1>5. /\ Front(g) \in Seq(Handler) /\ Last(g) \in Handler /\ Len(Front(g)) = l - 1
        /\ \A k \in 1..(l - 1) : Front(g)[k] = g[k]
    BY <1>3, <1>4, FrontFacts
  <1>6. DOMAIN g = 1..l /\ DOMAIN Front(g) = 1..(l - 1) /\ l # 0 /\ Last(g) = g[l]
    BY <1>3, <1>4, <1>5, LenProperties, EmptySeq DEF Last
  <1>7. stack' = Goto(f) /\ ran' = Append(ran, Last(g))
    BY <1>2 DEF Call
  <1> HIDE DEF g
  <1>8. f = [Top EXCEPT !.running = TRUE, !.local = rest]
    BY <1>1 DEF FrameShape, Frame
  <1>9. /\ rest \in Seq(Seq(Handler)) /\ DOMAIN rest = 1..n /\ DOMAIN Top.local = 1..n /\ Len(rest) = n
        /\ \A j \in 1..n : rest[j] = IF j = n THEN Front(g) ELSE Top.local[j]
    BY <1>2, <1>3, <1>5, ExceptSeq, LenProperties
  <1> HIDE DEF rest
  <1>10. rest # <<>> /\ \A j \in 1..n : rest[j] = <<>> => j = n
    <2>1. n \in DOMAIN rest
      BY <1>3, <1>9
    <2>2. rest # <<>>
      BY <2>1
    <2> QED  BY <1>1, <1>9, <2>2 DEF FrameShape
  <1>11. f.running = TRUE /\ f.local = rest /\ f \in Frame /\ f.owner = Top.owner
    BY <1>1, <1>8, <1>9 DEF FrameShape, Frame
  <1> HIDE DEF f
  <1>12. FrameShape(f)
    BY <1>9, <1>10, <1>11 DEF FrameShape
  <1>13. LastIn(Top, n, l, Last(g))
    <2>1. InFrame(Top, n, l, Last(g))
      BY <1>3, <1>6, <1>9 DEF InFrame
    <2>2. ASSUME NEW j, NEW k, NEW x, InFrame(Top, j, k, x)
          PROVE  j < n \/ (j = n /\ k <= l)
      <3>1. j \in 1..n
        BY <1>9, <2>2 DEF InFrame
      <3>2. j = n => k \in 1..l
        BY <1>3, <1>6, <2>2 DEF InFrame
      <3> QED  BY <1>3, <3>1, <3>2
    <2> QED  BY <2>1, <2>2 DEF LastIn
  <1>14. ASSUME NEW j, NEW k, NEW x
         PROVE  InFrame(f, j, k, x) <=> InFrame(Top, j, k, x) /\ ~(j = n /\ k = l)
    <2>1. CASE j = n
      <3>1. InFrame(f, j, k, x) <=> k \in 1..(l - 1) /\ Front(g)[k] = x
        BY <1>3, <1>6, <1>9, <1>11, <2>1 DEF InFrame
      <3>2. InFrame(Top, j, k, x) <=> k \in 1..l /\ g[k] = x
        BY <1>3, <1>6, <1>9, <2>1 DEF InFrame
      <3>3. k \in 1..(l - 1) <=> k \in 1..l /\ k # l
        OBVIOUS
      <3> QED  BY <1>5, <2>1, <3>1, <3>2, <3>3
    <2>2. CASE j # n
      BY <1>9, <1>11, <2>2 DEF InFrame
    <2> QED  BY <2>1, <2>2
  <1>15. \A j \in DOMAIN f.local : j \in DOMAIN Top.local /\ Len(f.local[j]) <= Len(Top.local[j])
    <2>1. \A j \in 1..n : Len(Top.local[j]) \in Nat
      BY <1>3, <1>9, LenProperties, ElementOfSeq
    <2> QED  BY <1>3, <1>4, <1>5, <1>9, <1>11, <2>1
  <1>16. Last(f.local) = Front(g)
    BY <1>3, <1>9, <1>11 DEF Last
  <1> QED  BY <1>1, <1>3, <1>4, <1>5, <1>7, <1>9, <1>11, <1>12, <1>13, <1>14, <1>15, <1>16 DEF g

(* A handler is called: it is held no more. *)
LEMMA CallKeeps ==
  ASSUME WellFormed(stack), Call, ran \in Seq(Handler), KeptOK(stack, map, born, owner, ran),
         FramesOwned(stack, owner), Joined(stack)
  PROVE  /\ KeptOK(stack', map, born, owner, ran') /\ FramesOwned(stack', owner) /\ Joined(stack')
         /\ \A O : Owners(stack, O) => Owners(stack', O)
         /\ stack' # <<>> /\ Last(stack').running /\ Last(stack').local # <<>>
  <1>1. PICK f, m, l, h :
           /\ Working /\ ~Top.running /\ FrameShape(f) /\ f.running /\ f.owner = Top.owner
           /\ stack' = Goto(f) /\ h \in Handler /\ ran' = Append(ran, h) /\ LastIn(Top, m, l, h)
           /\ \A j, k, g : InFrame(f, j, k, g) <=> InFrame(Top, j, k, g) /\ ~(j = m /\ k = l)
           /\ \A j \in DOMAIN f.local : j \in DOMAIN Top.local /\ Len(f.local[j]) <= Len(Top.local[j])
           /\ Last(f.local) = Front(Last(Top.local)) /\ Last(Top.local) = Top.local[m]
           /\ Len(Last(Top.local)) = l /\ m \in DOMAIN Top.local
    BY CallFrame
  <1> DEFINE n == Len(stack)
  <1>2. \A i, j, k, g : /\ At(stack', i, j, k, g) <=>
                             At(stack, i, j, k, g) /\ ~(i = n /\ j = m /\ k = l)
                        /\ i = n => (At(stack, i, j, k, g) <=> InFrame(Top, j, k, g))
    BY <1>1, AtGoto
  <1> HIDE DEF n
  <1>3. At(stack, n, m, l, h)
    BY <1>1, <1>2 DEF LastIn
  <1>4. ~MapHas(map, h) /\ \A a, c, d : At(stack, a, c, d, h) => n = a /\ m = c /\ l = d
    BY <1>3, OnePlace
  <1>5. \A a, c, d, g : At(stack, a, c, d, g) /\ a = n /\ c = m /\ d = l => g = h
    BY <1>3 DEF At, InFrame
  <1>6. \A g : StackHas(stack', g) <=> StackHas(stack, g) /\ g # h
    <2>1. \A g : StackHas(stack', g) => StackHas(stack, g) /\ g # h
      BY <1>2, <1>4 DEF StackHas
    <2>2. ASSUME NEW g, StackHas(stack, g), g # h  PROVE StackHas(stack', g)
      <3>1. PICK a, c, d : At(stack, a, c, d, g)
        BY <2>2 DEF StackHas
      <3>2. At(stack', a, c, d, g)
        BY <1>2, <1>5, <2>2, <3>1
      <3> QED  BY <3>2 DEF StackHas
    <2> QED  BY <2>1, <2>2
  <1>7. \A g : Held(stack', map, g) <=> Held(stack, map, g) /\ g # h
    BY <1>4, <1>6 DEF Held
  <1>8. Held(stack, map, h) /\ h \notin Range(ran)
    BY <1>3 DEF Held, StackHas, KeptOK, CalledOnce
  <1>9. IsInjective(Append(ran, h)) /\ Range(Append(ran, h)) = Range(ran) \cup {h}
    BY <1>1, <1>8, AppendNew DEF KeptOK, CalledOnce
  <1>10. owner[h] # None
    BY <1>3 DEF KeptOK, StackFirst
  <1>11. CalledOnce(stack', map, owner, ran') /\ NoneLost(stack', map, owner, ran')
    BY <1>1, <1>7, <1>9, <1>10 DEF KeptOK, CalledOnce, NoneLost
  <1>12. StackSorted(stack', born, owner) /\ StackFirst(stack', map, born, owner)
    <2>1. \A i, j, k, g : At(stack', i, j, k, g) => At(stack, i, j, k, g)
      BY <1>2
    <2>2. StackSorted(stack', born, owner)
      BY <2>1 DEF KeptOK, StackSorted
    <2>3. StackFirst(stack', map, born, owner)
      BY <2>1 DEF KeptOK, StackFirst
    <2> QED  BY <2>2, <2>3
  <1>13. KeptOK(stack', map, born, owner, ran')
    BY <1>11, <1>12 DEF KeptOK
  <1>14. FrameOwned(f, owner)
    <2>1. FrameOwned(Top, owner)
      BY <1>1, AtGoto DEF FramesOwned
    <2>2. \A j \in DOMAIN f.local : Len(f.local[j]) \in Int /\ Len(Top.local[j]) \in Int
      <3>1. f.local \in Seq(Seq(Handler)) /\ Top.local \in Seq(Seq(Handler))
        BY <1>1, TopOK DEF FrameShape, Frame
      <3> QED  BY <1>1, <3>1, LenProperties, ElementOfSeq
    <2>3. Top.owner # None => \A j \in DOMAIN f.local : Len(f.local[j]) <= 1
      BY <1>1, <2>1, <2>2 DEF FrameOwned
    <2>4. Top.owner # None => Last(f.local) = <<>>
      <3> DEFINE g == Last(Top.local)
      <3> SUFFICES ASSUME Top.owner # None  PROVE Last(f.local) = <<>>
        OBVIOUS
      <3>1. g \in Seq(Handler) /\ g # <<>>
        BY <1>1, TopOK, GroupsOK, EmptySeq DEF LastIn, InFrame
      <3>2. Len(g) <= 1
        BY <1>1, <2>1 DEF FrameOwned
      <3>3. PICK z \in Nat : z = Len(g) /\ Front(g) \in Seq(Handler) /\ Len(Front(g)) = z - 1
        BY <3>1, FrontFacts, LenProperties
      <3>4. z <= 1 /\ z # 0
        BY <3>1, <3>2, <3>3, EmptySeq
      <3> HIDE DEF g
      <3>5. z = 1 /\ Len(Front(g)) = 0
        BY <3>3, <3>4
      <3>6. Front(g) = <<>>
        BY <3>3, <3>5, EmptySeq
      <3> QED  BY <1>1, <3>6 DEF g
    <2> QED  BY <1>1, <2>1, <2>3, <2>4 DEF FrameOwned
  <1>15. f.local # <<>>
    BY <1>1 DEF FrameShape
  <1> QED  BY <1>1, <1>13, <1>14, <1>15, GotoKeeps

(* A registration is the youngest, and waits behind the others. *)
LEMMA RegisterKeeps ==
  ASSUME MapOK, WellFormed(stack), HistoryOK, KeptOK(stack, map, born, owner, ran),
         FramesOwned(stack, owner), NEW h \in Handler, owner[h] = None, NEW t \in Txn,
         map' = [map EXCEPT ![t] = Append(map[t], h)],
         born' = Append(born, h), owner' = [owner EXCEPT ![h] = t]
  PROVE  KeptOK(stack, map', born', owner', ran) /\ FramesOwned(stack, owner')
  <1> DEFINE b == Append(born, h)
             o == [owner EXCEPT ![h] = t]
             q == [map EXCEPT ![t] = Append(map[t], h)]
  <1>1. t # None /\ o[h] = t /\ \A g \in Handler : g # h => o[g] = owner[g]
    BY AtExitAssumption DEF HistoryOK
  <1>2. PICK z \in Nat : z = Len(born)
    BY LenProperties DEF HistoryOK
  <1>3. /\ DOMAIN born = 1..z /\ DOMAIN b = 1..(z + 1) /\ b[z + 1] = h /\ b \in Seq(Handler)
        /\ \A x \in 1..z : b[x] = born[x]
    BY <1>2, LenProperties, AppendProperties DEF HistoryOK
  <1>4. h \notin Range(born)
    BY DEF KeptOK, Registered
  <1>5. IsInjective(b) /\ Range(b) = Range(born) \cup {h}
    BY <1>4, AppendNew DEF KeptOK, Registered
  <1> HIDE DEF b, o
  <1>6. Registered(b, o)
    BY <1>1, <1>3, <1>5 DEF KeptOK, Registered
  <1>7. \A g, x : Older(born, g, x) => Older(b, g, x)
    <2>1. \A x \in 1..z : x \in 1..(z + 1)
      OBVIOUS
    <2> QED  BY <1>3, <2>1 DEF Older
  <1>8. \A g \in Range(born) : Older(b, g, h)
    <2> TAKE g \in Range(born)
    <2>1. PICK x \in 1..z : born[x] = g
      BY <1>3 DEF Range
    <2>2. x \in 1..(z + 1) /\ z + 1 \in 1..(z + 1) /\ x < z + 1
      OBVIOUS
    <2> QED  BY <1>3, <2>1, <2>2 DEF Older
  <1>9. PICK y \in Nat : y = Len(map[t]) /\ map[t] \in Seq(Handler) /\ DOMAIN map[t] = 1..y
    BY LenProperties DEF MapOK
  <1>10. /\ q[t] = Append(map[t], h) /\ \A u \in Txn : u # t => q[u] = map[u]
    BY DEF MapOK
  <1> HIDE DEF q
  <1>11. ASSUME NEW u, NEW k, NEW g
         PROVE  Waits(q, u, k, g) <=> Waits(map, u, k, g) \/ (u = t /\ k = y + 1 /\ g = h)
    <2>1. CASE u = t
      <3>1. /\ DOMAIN q[t] = 1..(y + 1) /\ q[t][y + 1] = h
            /\ \A x \in 1..y : q[t][x] = map[t][x]
        BY <1>9, <1>10, AppendProperties
      <3>2. k \in 1..(y + 1) <=> k \in 1..y \/ k = y + 1
        OBVIOUS
      <3>3. ~(y + 1 \in 1..y)
        OBVIOUS
      <3> QED  BY <1>9, <2>1, <3>1, <3>2, <3>3 DEF Waits
    <2>2. CASE u # t
      BY <1>10, <2>2 DEF Waits
    <2> QED  BY <2>1, <2>2
  <1>12. \A i, j, k, g : At(stack, i, j, k, g) => g \in Handler /\ g # h /\ o[g] = owner[g] /\ g \in Range(born)
    BY <1>1, Numbers DEF KeptOK, StackFirst, Registered
  <1>13. \A u, k, g : Waits(map, u, k, g) =>
           /\ g \in Handler /\ g # h /\ o[g] = owner[g] /\ g \in Range(born) /\ o[g] = u
           /\ k \in Nat /\ (u = t => k <= y)
    <2> SUFFICES ASSUME NEW u, NEW k, NEW g, Waits(map, u, k, g)
                 PROVE  /\ g \in Handler /\ g # h /\ o[g] = owner[g] /\ g \in Range(born) /\ o[g] = u
                        /\ k \in Nat /\ (u = t => k <= y)
      OBVIOUS
    <2>1. g \in Handler /\ k \in 1..Len(map[u]) /\ Len(map[u]) \in Nat /\ u \in Txn
      BY MapNumbers DEF Waits
    <2>2. owner[g] = u /\ u # None
      BY <2>1, AtExitAssumption DEF KeptOK, MapOwned
    <2>3. g # h /\ o[g] = owner[g]
      BY <1>1, <2>1, <2>2
    <2>4. g \in Range(born)
      BY <2>1, <2>2 DEF KeptOK, Registered
    <2> QED  BY <1>9, <2>1, <2>2, <2>3, <2>4
  <1>14. MapOwned(q, o)
    BY <1>1, <1>11, <1>13 DEF MapOwned
  <1>15. MapSorted(q, b)
    <2> SUFFICES ASSUME NEW u, NEW k, NEW g, NEW l, NEW x, Waits(q, u, k, g), Waits(q, u, l, x), k < l
                 PROVE  Older(b, g, x)
      BY DEF MapSorted
    <2>1. CASE Waits(map, u, k, g) /\ Waits(map, u, l, x)
      BY <1>7, <2>1 DEF KeptOK, MapSorted
    <2>2. CASE Waits(map, u, k, g) /\ x = h
      BY <1>8, <1>13, <2>2
    <2>3. CASE u = t /\ k = y + 1 /\ g = h
      <3>1. Waits(map, u, l, x) => l <= y /\ l \in Nat
        BY <1>13, <2>3
      <3>2. Waits(map, u, l, x) \/ l = y + 1
        BY <1>11
      <3> QED  BY <2>3, <3>1, <3>2
    <2> QED  BY <1>11, <2>1, <2>2, <2>3
  <1>16. StackSorted(stack, b, o)
    BY <1>7, <1>12 DEF KeptOK, StackSorted
  <1>17. StackFirst(stack, q, b, o)
    <2> SUFFICES ASSUME NEW i, NEW j, NEW k, NEW g, NEW l, NEW x, At(stack, i, j, k, g)
                 PROVE  o[g] # None /\ (Waits(q, o[g], l, x) => Older(b, g, x))
      BY DEF StackFirst
    <2>1. o[g] = owner[g] /\ owner[g] # None /\ g \in Range(born)
      BY <1>12 DEF KeptOK, StackFirst
    <2>2. Waits(map, o[g], l, x) => Older(b, g, x)
      BY <1>7, <2>1 DEF KeptOK, StackFirst
    <2> QED  BY <1>8, <1>11, <2>1, <2>2
  <1>18. \A g : Held(stack, q, g) <=> Held(stack, map, g) \/ g = h
    <2>1. \A g : MapHas(q, g) <=> MapHas(map, g) \/ g = h
      <3>1. \A g : MapHas(q, g) => MapHas(map, g) \/ g = h
        BY <1>11 DEF MapHas
      <3>2. \A g : MapHas(map, g) => MapHas(q, g)
        BY <1>11 DEF MapHas
      <3>3. Waits(q, t, y + 1, h)
        BY <1>11
      <3>4. MapHas(q, h)
        BY <3>3 DEF MapHas
      <3> QED  BY <3>1, <3>2, <3>4
    <2> QED  BY <2>1 DEF Held
  <1>19. CalledOnce(stack, q, o, ran)
    <2>1. ASSUME NEW g \in Range(ran)  PROVE g \in Handler /\ g # h /\ o[g] # None /\ ~Held(stack, q, g)
      <3>1. g \in Handler /\ owner[g] # None /\ ~Held(stack, map, g)
        BY DEF KeptOK, CalledOnce
      <3> QED  BY <1>1, <1>18, <3>1
    <2> QED  BY <2>1 DEF KeptOK, CalledOnce
  <1>20. NoneLost(stack, q, o, ran)
    BY <1>1, <1>18 DEF KeptOK, NoneLost
  <1>21. FramesOwned(stack, o)
    <2>1. ASSUME NEW i \in DOMAIN stack, NEW j, NEW k, NEW g, InFrame(stack[i], j, k, g)
          PROVE  o[g] = owner[g]
      BY <1>12, <2>1 DEF At
    <2> QED  BY <2>1 DEF FramesOwned, FrameOwned
  <1>22. KeptOK(stack, q, b, o, ran)
    BY <1>6, <1>14, <1>15, <1>16, <1>17, <1>19, <1>20 DEF KeptOK
  <1> QED  BY <1>21, <1>22 DEF b, o, q

(***************************************************************************)
(* What is known of the call, and of the handlers it leaves.               *)
(***************************************************************************)

FramesKept ==
  KeptOK(stack, map, born, owner, ran) /\ FramesOwned(stack, owner) /\ Joined(stack)

(* Functions run only for a call, and for its transactions. *)
TaskKept ==
  /\ task.call \in {"none", "down"} => stack = <<>> /\ task.todo = <<>>
  /\ task.call = "unload" =>
       \/ task.todo = <<Last(log)>> /\ stack = <<>>
       \/ task.todo = <<>> /\ Owners(stack, {None, Last(log)})
  /\ task.call = "shutdown" => task.todo = <<>> /\ Owners(stack, {None})

(* Between two handlers of a transaction none waits for it in the map: the   *)
(* function calls itself first.                                              *)
Settled == ~threads /\ Working /\ ~Top.running /\ Top.owner # None => map[Top.owner] = <<>>

(* What a handler registers is in the map only until the function that       *)
(* called it goes on.                                                        *)
Busy == Working /\ Top.local # <<>>
Drained ==
  /\ ~threads /\ task.call = "unload" /\ task.todo = <<>> /\ map[Last(log)] # <<>> => Busy
  /\ ~threads /\ task.call = "shutdown" /\ (\E t \in Txn : map[t] # <<>>) => Busy

KeepInv == FramesKept /\ TaskKept /\ Settled /\ Drained /\ Owned /\ ShutdownRunsAll

(* A function is entered. *)
LEMMA EnterKeeps ==
  ASSUME MapOK, NEW s, WellFormed(s), KeptOK(s, map, born, owner, ran), FramesOwned(s, owner),
         Joined(s), NEW t \in Txn \cup {None}, UNCHANGED <<history, ran>>,
         IF t = None THEN EnterExits(s) ELSE EnterDtors(s, t),
         s # <<>> => Last(s).running \/ Last(s).owner = t
  PROVE  /\ FramesKept' /\ Settled'
         /\ t # None => map'[t] = <<>>
         /\ t = None => \A u \in Txn : map'[u] = <<>>
         /\ \A O : Owners(s, O) /\ t \in O => Owners(stack', O)
  <1>1. born' = born /\ owner' = owner /\ ran' = ran
    BY DEF history
  <1>2. /\ KeptOK(stack', map', born, owner, ran) /\ FramesOwned(stack', owner)
        /\ Entered(s, t, stack')
        /\ t # None => map'[t] = <<>>
        /\ t = None => \A u \in Txn : map'[u] = <<>>
    BY EnterExitsKeeps, EnterDtorsKeeps
  <1>3. /\ Joined(stack')
        /\ \A O : Owners(s, O) /\ t \in O => Owners(stack', O)
        /\ stack' # <<>> => (stack' = s \/ (~Last(stack').running /\ Last(stack').owner = t))
    BY <1>2, EnteredKeeps
  <1>4. stack' # <<>> => Last(stack').running \/ Last(stack').owner = t
    BY <1>3
  <1>5. Settled'
    BY <1>2, <1>4 DEF Settled, Working, Top
  <1> QED  BY <1>1, <1>2, <1>3, <1>5 DEF FramesKept

(* Nothing has happened to the calls, or one more was made. *)
LEMMA OwnedStays ==
  ASSUME Owned, ShutdownRunsAll, log' = log, threads' = threads, born' = born, owner' = owner,
         Range(ran) \subseteq Range(ran'), task'.call = "down" => task.call = "down"
  PROVE  Owned' /\ ShutdownRunsAll'
  <1>1. Waiting' \subseteq Waiting
    BY DEF Waiting
  <1>2. Owned'
    BY <1>1 DEF Owned
  <1>3. ShutdownRunsAll'
    BY <1>1 DEF ShutdownRunsAll
  <1> QED  BY <1>2, <1>3

(* A step of JIT-ed code keeps every handler. *)
LEMMA RegisterStepKeeps ==
  ASSUME IInv, KeepInv, NEW h \in Handler, Register(h)
  PROVE  KeepInv'
  <1> DEFINE t == Last(log)
  <1>1. /\ threads \/ InHandler \/ task = Idle
        /\ task.call # "down" /\ log # <<>> /\ owner[h] = None
        /\ map' = [map EXCEPT ![t] = Append(map[t], h)]
        /\ born' = Append(born, h) /\ owner' = [owner EXCEPT ![h] = t]
        /\ UNCHANGED <<log, stack, task, threads, ran>>
    BY DEF Register, MapAdd
  <1>2. t \in Txn /\ t \in Range(log)
    <2>1. log \in Seq(Txn)
      BY DEF IInv, TaskOK
    <2>2. PICK n \in Nat : n = Len(log) /\ DOMAIN log = 1..n
      BY <2>1, LenProperties
    <2>3. n # 0
      BY <1>1, <2>1, <2>2, EmptySeq
    <2>4. n \in DOMAIN log /\ t = log[n]
      BY <2>2, <2>3 DEF Last
    <2> QED  BY <2>1, <2>4, ElementOfSeq DEF Range
  <1> HIDE DEF t
  <1>3. KeptOK(stack, map', born', owner', ran) /\ FramesOwned(stack, owner')
    BY <1>1, <1>2, RegisterKeeps DEF IInv, KeepInv, FramesKept
  <1>4. FramesKept'
    BY <1>1, <1>3 DEF KeepInv, FramesKept
  <1>5. TaskKept'
    BY <1>1 DEF KeepInv, TaskKept
  <1>6. ~threads => (InHandler /\ Busy) \/ (task.call = "none" /\ stack = <<>>)
    <2>1. CASE InHandler
      BY <2>1, TopOK DEF IInv, InHandler, FrameShape, Busy
    <2>2. CASE task = Idle
      BY <2>2 DEF Idle, KeepInv, TaskKept
    <2> QED  BY <1>1, <2>1, <2>2
  <1>7. Settled' /\ Drained'
    <2>1. Settled'
      BY <1>1, <1>6 DEF Settled, InHandler, Working, Top
    <2>2. Busy' <=> Busy
      BY <1>1 DEF Busy, Working, Top
    <2>3. Drained'
      BY <1>1, <1>6, <2>2 DEF Drained
    <2> QED  BY <2>1, <2>3
  <1>8. Owned' /\ ShutdownRunsAll'
    <2>1. Range(born') = Range(born) \cup {h}
      BY <1>1, AppendNew DEF KeepInv, FramesKept, KeptOK, Registered
    <2>2. Waiting' \subseteq Waiting \cup {h}
      BY <1>1, <2>1 DEF Waiting
    <2>3. owner'[h] = t /\ \A g \in Handler : g # h => owner'[g] = owner[g]
      BY <1>1 DEF IInv, HistoryOK
    <2>4. Waiting \subseteq Handler
      BY DEF Waiting, KeepInv, FramesKept, KeptOK, Registered
    <2>5. Owned'
      BY <1>1, <1>2, <2>2, <2>3, <2>4 DEF KeepInv, Owned
    <2> QED  BY <1>1, <2>5 DEF ShutdownRunsAll
  <1> QED  BY <1>4, <1>5, <1>7, <1>8 DEF KeepInv

LEMMA CommitStepKeeps ==
  ASSUME IInv, KeepInv, NEW t \in Txn, Commit(t)
  PROVE  KeepInv'
  <1>1. /\ task = Idle \/ (InHandler /\ task.call # "unload")
        /\ log' = Append(log, t)
        /\ UNCHANGED <<map, stack, task, threads, born, owner, ran>>
    BY DEF Commit, mapVars, history
  <1>2. task.call # "unload"
    BY <1>1 DEF Idle
  <1>3. FramesKept' /\ TaskKept' /\ Settled'
    BY <1>1, <1>2 DEF KeepInv, FramesKept, TaskKept, Settled, Working, Top
  <1>4. Drained'
    BY <1>1, <1>2 DEF KeepInv, Drained, Busy, Working, Top
  <1>5. Range(log) \subseteq Range(log')
    <2>1. PICK n \in Nat : n = Len(log) /\ DOMAIN log = 1..n
      BY LenProperties DEF IInv, TaskOK
    <2>2. DOMAIN log' = 1..(n + 1) /\ \A i \in 1..n : log'[i] = log[i]
      BY <1>1, <2>1, AppendProperties DEF IInv, TaskOK
    <2>3. \A i \in 1..n : i \in 1..(n + 1)
      OBVIOUS
    <2> QED  BY <2>1, <2>2, <2>3 DEF Range
  <1>6. Waiting' = Waiting
    BY <1>1 DEF Waiting
  <1>7. Owned' /\ ShutdownRunsAll'
    BY <1>1, <1>5, <1>6 DEF KeepInv, Owned, ShutdownRunsAll
  <1> QED  BY <1>3, <1>4, <1>7 DEF KeepInv

LEMMA NestedStepKeeps ==
  ASSUME IInv, KeepInv, NestedRunAtExitFuncs
  PROVE  KeepInv'
  <1>1. /\ Working /\ Top.running /\ EnterExits(stack)
        /\ UNCHANGED <<log, task, threads, history, ran>>
    BY DEF NestedRunAtExitFuncs, InHandler
  <1>2. /\ FramesKept' /\ Settled' /\ \A u \in Txn : map'[u] = <<>>
        /\ \A O : Owners(stack, O) /\ None \in O => Owners(stack', O)
    BY <1>1, EnterKeeps DEF IInv, KeepInv, FramesKept, Top
  <1>3. stack # <<>>
    BY <1>1 DEF Working
  <1>4. TaskKept'
    BY <1>1, <1>2, <1>3 DEF KeepInv, TaskKept
  <1>5. Drained'
    <2>1. task.call = "unload" => Last(log) \in Txn
      BY FrontFacts DEF IInv, TaskOK
    <2> QED  BY <1>1, <1>2, <2>1 DEF Drained
  <1>6. Owned' /\ ShutdownRunsAll'
    BY <1>1, OwnedStays DEF KeepInv, history
  <1> QED  BY <1>2, <1>4, <1>5, <1>6 DEF KeepInv

(* A call of the client begins. *)
LEMMA UnloadStepKeeps ==
  ASSUME IInv, KeepInv, Unload
  PROVE  KeepInv'
  <1>1. /\ task = Idle /\ task' = [call |-> "unload", todo |-> <<Last(log)>>]
        /\ UNCHANGED <<log, map, stack, threads, born, owner, ran>>
    BY DEF Unload, mapVars, history
  <1>2. stack = <<>>
    BY <1>1 DEF Idle, KeepInv, TaskKept
  <1>3. task'.call = "unload" /\ task'.todo = <<Last(log')>> /\ task'.todo # <<>>
    BY <1>1
  <1>4. FramesKept' /\ TaskKept' /\ Settled' /\ Drained'
    BY <1>1, <1>2, <1>3 DEF KeepInv, FramesKept, TaskKept, Settled, Working, Top, Drained
  <1>5. Owned' /\ ShutdownRunsAll'
    BY <1>1, <1>3, OwnedStays DEF KeepInv
  <1> QED  BY <1>4, <1>5 DEF KeepInv

LEMMA DestructorsStepKeeps ==
  ASSUME IInv, KeepInv, NEW n, RunDestructors(n)
  PROVE  KeepInv'
  <1>1. /\ task'.call = "dtors" /\ UNCHANGED <<log, map, stack, threads, born, owner, ran>>
    BY DEF RunDestructors, mapVars, history
  <1>2. FramesKept' /\ TaskKept' /\ Settled' /\ Drained'
    BY <1>1 DEF KeepInv, FramesKept, TaskKept, Settled, Working, Top, Drained
  <1>3. Owned' /\ ShutdownRunsAll'
    BY <1>1, OwnedStays DEF KeepInv
  <1> QED  BY <1>2, <1>3 DEF KeepInv

LEMMA AtExitStepKeeps ==
  ASSUME IInv, KeepInv, NEW call \in {"exits", "shutdown"}, RunAtExitFuncs(call)
  PROVE  KeepInv'
  <1>1. /\ task = Idle /\ task' = [call |-> call, todo |-> <<>>]
        /\ EnterExits(stack) /\ UNCHANGED <<log, threads, history, ran>>
    BY DEF RunAtExitFuncs
  <1>2. stack = <<>>
    BY <1>1 DEF Idle, KeepInv, TaskKept
  <1>3. /\ FramesKept' /\ Settled' /\ \A u \in Txn : map'[u] = <<>>
        /\ \A O : Owners(stack, O) /\ None \in O => Owners(stack', O)
    BY <1>1, <1>2, EnterKeeps DEF IInv, KeepInv, FramesKept
  <1>4. Owners(stack, {None})
    BY <1>2 DEF Owners
  <1>5. task'.call = call /\ task'.todo = <<>>
    BY <1>1
  <1>6. TaskKept' /\ Drained'
    BY <1>3, <1>4, <1>5 DEF TaskKept, Drained
  <1>7. Owned' /\ ShutdownRunsAll'
    BY <1>1, <1>5, OwnedStays DEF KeepInv, history
  <1> QED  BY <1>3, <1>6, <1>7 DEF KeepInv

(* The next transaction of the call. *)
LEMMA NextTransactionKeeps ==
  ASSUME IInv, KeepInv, NextTransaction
  PROVE  KeepInv'
  <1> DEFINE todo == task.todo
             t == Last(todo)
  <1>1. /\ stack = <<>> /\ todo # <<>> /\ EnterDtors(stack, t)
        /\ task' = [task EXCEPT !.todo = Front(todo)]
        /\ UNCHANGED <<log, threads, history, ran>>
    BY DEF NextTransaction, Working
  <1>2. todo \in Seq(Txn) /\ task \in Task
    BY DEF IInv, TaskOK, Task
  <1>3. t \in Txn
    BY <1>1, <1>2, FrontFacts
  <1>4. task'.call = task.call /\ task'.todo = Front(todo)
    BY <1>1, <1>2 DEF Task
  <1>5. /\ FramesKept' /\ Settled' /\ map'[t] = <<>>
        /\ \A O : Owners(stack, O) /\ t \in O => Owners(stack', O)
    BY <1>1, <1>3, EnterKeeps, AtExitAssumption DEF IInv, KeepInv, FramesKept
  <1>6. task.call \notin {"none", "down", "shutdown"}
    BY <1>1 DEF KeepInv, TaskKept
  <1>7. ASSUME task.call = "unload"
        PROVE  t = Last(log) /\ Front(todo) = <<>> /\ Owners(stack', {None, t})
    <2>1. todo = <<Last(log)>>
      BY <1>1, <1>7 DEF KeepInv, TaskKept
    <2>2. t = Last(log) /\ Len(todo) = 1
      BY <2>1 DEF Last
    <2>3. Front(todo) \in Seq(Txn) /\ Len(Front(todo)) = 0
      BY <1>1, <1>2, <2>2, FrontFacts
    <2>4. Front(todo) = <<>>
      BY <2>3, EmptySeq
    <2>5. Owners(stack, {None, t})
      BY <1>1 DEF Owners
    <2> QED  BY <1>5, <2>2, <2>4, <2>5
  <1>8. TaskKept' /\ Drained'
    BY <1>1, <1>4, <1>5, <1>6, <1>7 DEF TaskKept, Drained
  <1>9. Owned' /\ ShutdownRunsAll'
    BY <1>1, <1>4, OwnedStays DEF KeepInv, history
  <1> QED  BY <1>5, <1>8, <1>9 DEF KeepInv

(* The handlers that wait when no function runs are in the map. *)
LEMMA WaitInMap ==
  ASSUME IInv, KeepInv, stack = <<>>, NEW h \in Waiting
  PROVE  h \in Handler /\ owner[h] \in Txn /\ map[owner[h]] # <<>>
  <1>1. h \in Handler /\ owner[h] # None /\ h \notin Range(ran)
    BY DEF Waiting, KeepInv, FramesKept, KeptOK, Registered
  <1>2. Held(stack, map, h)
    BY <1>1 DEF KeepInv, FramesKept, KeptOK, NoneLost
  <1>3. ~StackHas(stack, h)
    BY DEF StackHas, At
  <1>4. PICK t, k : Waits(map, t, k, h)
    BY <1>2, <1>3 DEF Held, MapHas
  <1>5. owner[h] = t
    BY <1>4 DEF KeepInv, FramesKept, KeptOK, MapOwned
  <1> QED  BY <1>1, <1>4, <1>5, MapNumbers DEF IInv, Waits

(* The call is over: none of its transaction's handlers waits. *)
LEMMA FinishKeeps ==
  ASSUME IInv, KeepInv, Finish
  PROVE  KeepInv'
  <1>1. /\ stack = <<>> /\ task.todo = <<>> /\ task.call \notin {"none", "down"}
        /\ task' = IF task.call = "shutdown" THEN [task EXCEPT !.call = "down"] ELSE Idle
        /\ log' = IF task.call = "unload" THEN Front(log) ELSE log
        /\ UNCHANGED <<map, stack, threads, born, owner, ran>>
    BY DEF Finish, Working, mapVars, history
  <1>2. task'.todo = <<>> /\ task'.call = IF task.call = "shutdown" THEN "down" ELSE "none"
    BY <1>1 DEF Idle, IInv, TaskOK, Task
  <1>3. FramesKept' /\ TaskKept' /\ Settled' /\ Drained'
    BY <1>1, <1>2 DEF KeepInv, FramesKept, TaskKept, Settled, Working, Top, Drained
  <1>4. ~Busy /\ Waiting' = Waiting
    BY <1>1 DEF Busy, Working, Waiting
  <1>5. Owned'
    <2> SUFFICES ASSUME ~threads, NEW h \in Waiting  PROVE owner[h] \in Range(log')
      BY <1>1, <1>4 DEF Owned
    <2>1. owner[h] \in Range(log)
      BY DEF KeepInv, Owned
    <2>2. CASE task.call # "unload"
      BY <1>1, <2>1, <2>2
    <2>3. CASE task.call = "unload"
      <3>1. map[Last(log)] = <<>>
        BY <1>1, <1>4, <2>3 DEF KeepInv, Drained
      <3>2. owner[h] # Last(log)
        BY <1>1, <3>1, WaitInMap
      <3>3. log \in Seq(Txn) /\ log # <<>> /\ log' = Front(log)
        BY <1>1, <2>3 DEF IInv, TaskOK
      <3>4. PICK n \in Nat : n = Len(log) /\ DOMAIN log = 1..n /\ Last(log) = log[n]
        BY <3>3, LenProperties DEF Last
      <3>5. log' \in Seq(Txn) /\ Len(log') = n - 1 /\ \A i \in 1..(n - 1) : log'[i] = log[i]
        BY <3>3, <3>4, FrontFacts
      <3>6. DOMAIN log' = 1..(n - 1)
        BY <3>5, LenProperties
      <3>7. PICK i \in 1..n : owner[h] = log[i]
        BY <2>1, <3>4 DEF Range
      <3>8. i \in 1..(n - 1)
        BY <3>2, <3>4, <3>7
      <3> QED  BY <3>5, <3>6, <3>7, <3>8 DEF Range
    <2> QED  BY <2>2, <2>3
  <1>6. ShutdownRunsAll'
    <2> SUFFICES ASSUME task.call = "shutdown", ~threads, NEW h \in Waiting  PROVE FALSE
      BY <1>1, <1>2, <1>4 DEF ShutdownRunsAll
    <2>1. \A t \in Txn : map[t] = <<>>
      BY <1>4 DEF KeepInv, Drained
    <2> QED  BY <1>1, <2>1, WaitInMap
  <1> QED  BY <1>3, <1>5, <1>6 DEF KeepInv

LEMMA LastFrame ==
  ASSUME WellFormed(stack), stack # <<>>
  PROVE  \E n \in DOMAIN stack : Last(stack) = stack[n]
  <1>1. PICK n \in Nat : n = Len(stack) /\ DOMAIN stack = 1..n
    BY LenProperties DEF WellFormed
  <1>2. n # 0
    BY <1>1, EmptySeq DEF WellFormed
  <1> QED  BY <1>1, <1>2 DEF Last

(* The loops over the handlers. *)
LEMMA TaskStays ==
  ASSUME TaskKept, \A O : Owners(stack, O) => Owners(stack', O), stack # <<>>,
         log' = log, task' = task
  PROVE  TaskKept'
  BY DEF TaskKept

LEMMA CallStepKeeps ==
  ASSUME IInv, KeepInv, Call
  PROVE  KeepInv'
  <1>1. stack # <<>> /\ UNCHANGED <<log, map, task, threads, born, owner>>
    BY DEF Call, Working, mapVars, history
  <1>2. /\ KeptOK(stack', map, born, owner, ran') /\ FramesOwned(stack', owner) /\ Joined(stack')
        /\ \A O : Owners(stack, O) => Owners(stack', O)
        /\ stack' # <<>> /\ Last(stack').running /\ Last(stack').local # <<>>
    BY CallKeeps DEF IInv, HistoryOK, KeepInv, FramesKept
  <1>3. FramesKept' /\ Settled' /\ Drained'
    BY <1>1, <1>2 DEF FramesKept, Settled, Drained, Busy, Working, Top
  <1>4. TaskKept'
    BY <1>1, <1>2, TaskStays DEF KeepInv
  <1>5. Range(ran) \subseteq Range(ran')
    <2>1. PICK h \in Handler : ran' = Append(ran, h)
      BY CallOK DEF IInv
    <2>2. PICK n \in Nat : n = Len(ran) /\ DOMAIN ran = 1..n
      BY LenProperties DEF IInv, HistoryOK
    <2>3. DOMAIN ran' = 1..(n + 1) /\ \A i \in 1..n : ran'[i] = ran[i]
      BY <2>1, <2>2, AppendProperties DEF IInv, HistoryOK
    <2>4. \A i \in 1..n : i \in 1..(n + 1)
      OBVIOUS
    <2> QED  BY <2>2, <2>3, <2>4 DEF Range
  <1>6. Owned' /\ ShutdownRunsAll'
    BY <1>1, <1>5, OwnedStays DEF KeepInv
  <1> QED  BY <1>3, <1>4, <1>6 DEF KeepInv

LEMMA ReturnStepKeeps ==
  ASSUME IInv, KeepInv, Return
  PROVE  KeepInv'
  <1>1. /\ stack # <<>> /\ Working /\ Top.running
        /\ UNCHANGED <<log, map, task, threads, born, owner, ran>>
    BY DEF Return, InHandler, Working, mapVars, history
  <1>2. /\ KeptOK(stack', map, born, owner, ran) /\ FramesOwned(stack', owner) /\ Joined(stack')
        /\ \A O : Owners(stack, O) => Owners(stack', O)
        /\ stack' # <<>> /\ Last(stack').owner = Top.owner /\ Last(stack').local # <<>>
        /\ Last(Top.local) # <<>> /\ Top.local # <<>>
    BY ReturnKeeps DEF IInv, KeepInv, FramesKept
  <1>3. Top.owner = None
    <2>1. FrameOwned(Top, owner)
      BY <1>1, LastFrame DEF IInv, KeepInv, FramesKept, FramesOwned, Top
    <2> QED  BY <1>1, <1>2, <2>1 DEF FrameOwned
  <1>4. FramesKept' /\ Settled' /\ Drained'
    BY <1>1, <1>2, <1>3 DEF FramesKept, Settled, Drained, Busy, Working, Top
  <1>5. TaskKept'
    BY <1>1, <1>2, TaskStays DEF KeepInv
  <1>6. Owned' /\ ShutdownRunsAll'
    BY <1>1, OwnedStays DEF KeepInv
  <1> QED  BY <1>4, <1>5, <1>6 DEF KeepInv

LEMMA RecurseStepKeeps ==
  ASSUME IInv, KeepInv, Recurse
  PROVE  KeepInv'
  <1> DEFINE t == Top.owner
  <1>1. /\ stack # <<>> /\ InHandler /\ Last(Top.local) = <<>>
        /\ IF t = None THEN EnterExits(AfterGroup) ELSE EnterDtors(AfterGroup, t)
        /\ UNCHANGED <<log, task, threads, history, ran>>
    BY DEF Recurse, InHandler, Working
  <1>2. WellFormed(AfterGroup) /\ t \in Txn \cup {None}
    BY <1>1, AfterGroupOK DEF IInv
  <1>3. /\ KeptOK(AfterGroup, map, born, owner, ran) /\ FramesOwned(AfterGroup, owner)
        /\ Joined(AfterGroup) /\ \A O : Owners(stack, O) => Owners(AfterGroup, O)
        /\ AfterGroup # <<>> /\ Last(AfterGroup).owner = t
    BY <1>1, AfterGroupKeeps DEF IInv, KeepInv, FramesKept
  <1>4. \A O : Owners(stack, O) => t \in O
    BY <1>1, LastFrame DEF IInv, Owners, Top
  <1> HIDE DEF t
  <1>5. /\ FramesKept' /\ Settled'
        /\ t # None => map'[t] = <<>>
        /\ t = None => \A u \in Txn : map'[u] = <<>>
        /\ \A O : Owners(AfterGroup, O) /\ t \in O => Owners(stack', O)
    BY <1>1, <1>2, <1>3, EnterKeeps DEF IInv
  <1>6. TaskKept'
    BY <1>1, <1>3, <1>4, <1>5, TaskStays DEF KeepInv
  <1>7. Drained'
    <2>1. ASSUME task.call = "unload"  PROVE map'[Last(log)] = <<>>
      <3>1. t \in {None, Last(log)}
        BY <1>1, <1>4, <2>1 DEF KeepInv, TaskKept
      <3>2. Last(log) \in Txn
        BY <2>1, FrontFacts DEF IInv, TaskOK
      <3> QED  BY <1>5, <3>1, <3>2
    <2>2. task.call = "shutdown" => t = None
      BY <1>4 DEF KeepInv, TaskKept
    <2> QED  BY <1>1, <1>5, <2>1, <2>2 DEF Drained
  <1>8. Owned' /\ ShutdownRunsAll'
    BY <1>1, OwnedStays DEF KeepInv, history
  <1> QED  BY <1>5, <1>6, <1>7, <1>8 DEF KeepInv

LEMMA DoneStepKeeps ==
  ASSUME IInv, KeepInv, Done
  PROVE  KeepInv'
  <1>1. /\ stack # <<>> /\ Working /\ ~Top.running /\ Top.local = <<>>
        /\ UNCHANGED <<log, map, task, threads, born, owner, ran>>
    BY DEF Done, Working, mapVars, history
  <1>2. /\ KeptOK(stack', map, born, owner, ran) /\ FramesOwned(stack', owner) /\ Joined(stack')
        /\ \A O : Owners(stack, O) => Owners(stack', O)
        /\ stack' # <<>> /\ ~Last(stack').running => Last(stack').owner = Top.owner
    BY DoneKeeps DEF IInv, KeepInv, FramesKept
  <1>3. Settled'
    BY <1>1, <1>2 DEF KeepInv, Settled, Working, Top
  <1>4. FramesKept' /\ Drained'
    BY <1>1, <1>2 DEF KeepInv, FramesKept, Drained, Busy
  <1>5. TaskKept'
    BY <1>1, <1>2, TaskStays DEF KeepInv
  <1>6. Owned' /\ ShutdownRunsAll'
    BY <1>1, OwnedStays DEF KeepInv
  <1> QED  BY <1>3, <1>4, <1>5, <1>6 DEF KeepInv

(***************************************************************************)
(* The steps.                                                              *)
(***************************************************************************)

(* A fresh interpreter. *)
LEMMA InitIInv == Init => IInv
  <1> SUFFICES ASSUME Init PROVE IInv
    OBVIOUS
  <1>1. MapOK
    <2>1. IsInjective(<<>>) /\ Range(<<>>) = {}
      BY DEF IsInjective, Range
    <2> QED  BY <2>1 DEF Init, MapOK, OrderSync
  <1>2. WellFormed(stack)
    BY DEF Init, WellFormed
  <1>3. TaskOK
    BY DEF Init, TaskOK, Task, Idle
  <1>4. HistoryOK
    BY DEF Init, HistoryOK
  <1> QED  BY <1>1, <1>2, <1>3, <1>4 DEF IInv

(* A step of JIT-ed code. *)
LEMMA UserStep ==
  ASSUME IInv, (\E h \in Handler : Register(h)) \/ (\E t \in Txn : Commit(t)) \/ NestedRunAtExitFuncs
  PROVE  IInv'
  <1> USE DEF IInv
  <1>1. ASSUME NEW h \in Handler, Register(h)  PROVE IInv'
    <2>1. Last(log) \in Txn
      BY <1>1, FrontFacts DEF Register, TaskOK
    <2>2. MapOK'
      BY <1>1, <2>1, MapAddOK DEF Register
    <2>3. HistoryOK'
      BY <1>1, <2>1 DEF Register, HistoryOK
    <2> QED  BY <1>1, <2>2, <2>3 DEF Register, TaskOK, WellFormed
  <1>2. ASSUME NEW t \in Txn, Commit(t)  PROVE IInv'
    <2>1. log' = Append(log, t) /\ UNCHANGED <<mapVars, stack, task, threads, history, ran>>
      BY <1>2 DEF Commit
    <2>2. log' \in Seq(Txn) /\ log' # <<>>
      BY <2>1 DEF TaskOK
    <2>3. TaskOK'
      BY <2>1, <2>2 DEF TaskOK
    <2> QED  BY <2>1, <2>3 DEF MapOK, OrderSync, mapVars, history, HistoryOK
  <1>3. CASE NestedRunAtExitFuncs
    <2>1. EnterExits(stack) /\ UNCHANGED <<log, task, threads, history, ran>>
      BY <1>3 DEF NestedRunAtExitFuncs
    <2>2. MapOK' /\ WellFormed(stack')
      BY <2>1, EnterExitsOK
    <2> QED  BY <2>1, <2>2 DEF TaskOK, HistoryOK, history
  <1> QED  BY <1>1, <1>2, <1>3

(* A call of the client begins or ends. *)
LEMMA ClientStep ==
  ASSUME IInv,
         \/ Unload \/ NextTransaction \/ Finish
         \/ \E n \in 1..Len(log) : RunDestructors(n)
         \/ \E call \in {"exits", "shutdown"} : RunAtExitFuncs(call)
  PROVE  IInv'
  <1> USE DEF IInv
  <1>0. PICK k \in Nat : k = Len(log)
    BY LenProperties DEF TaskOK
  <1>1. CASE Unload
    <2>1. log # <<>> /\ UNCHANGED <<log, mapVars, stack, threads, history, ran>>
      BY <1>1, EmptySeq DEF Unload
    <2>2. Last(log) \in Txn
      BY <2>1, FrontFacts DEF TaskOK
    <2>3. task' = [call |-> "unload", todo |-> <<Last(log)>>] /\ <<Last(log)>> \in Seq(Txn)
      BY <1>1, <2>2 DEF Unload
    <2>4. TaskOK'
      BY <2>1, <2>3 DEF TaskOK, Task
    <2> QED  BY <2>1, <2>4 DEF MapOK, OrderSync, mapVars, history, HistoryOK
  <1>2. CASE NextTransaction
    <2> DEFINE todo == task.todo
    <2>1. /\ EnterDtors(stack, Last(todo)) /\ task' = [task EXCEPT !.todo = Front(todo)]
          /\ todo # <<>> /\ UNCHANGED <<log, threads, history, ran>>
      BY <1>2 DEF NextTransaction
    <2>2. todo \in Seq(Txn)
      BY DEF TaskOK, Task
    <2>3. Last(todo) \in Txn /\ Front(todo) \in Seq(Txn)
      BY <2>1, <2>2, FrontFacts
    <2>4. MapOK' /\ WellFormed(stack')
      BY <2>1, <2>3, EnterDtorsOK
    <2>5. task' \in Task /\ task'.call = task.call
      BY <2>1, <2>3 DEF TaskOK, Task
    <2>6. TaskOK'
      BY <2>1, <2>5 DEF TaskOK
    <2> QED  BY <2>1, <2>4, <2>6 DEF HistoryOK, history
  <1>3. CASE Finish
    <2>1. UNCHANGED <<mapVars, stack, threads, history, ran>>
      BY <1>3 DEF Finish
    <2>2. log' \in Seq(Txn)
      BY <1>3, FrontFacts DEF Finish, TaskOK
    <2>3. task' \in Task /\ task'.call # "unload"
      BY <1>3 DEF Finish, TaskOK, Task, Idle
    <2>4. TaskOK'
      BY <2>1, <2>2, <2>3 DEF TaskOK
    <2> QED  BY <2>1, <2>4 DEF MapOK, OrderSync, mapVars, history, HistoryOK
  <1>4. ASSUME NEW n \in 1..Len(log), RunDestructors(n)  PROVE IInv'
    <2>1. /\ task' = [call |-> "dtors", todo |-> SubSeq(log, k - n + 1, k)]
          /\ UNCHANGED <<log, mapVars, stack, threads, history, ran>>
      BY <1>0, <1>4 DEF RunDestructors
    <2>2. n \in 1..k /\ DOMAIN log = 1..k /\ \A i \in 1..k : log[i] \in Txn
      BY <1>0, LenProperties DEF TaskOK
    <2>3. \A i \in (k - n + 1)..k : i \in 1..k
      BY <2>2
    <2>4. SubSeq(log, k - n + 1, k) \in Seq(Txn)
      BY <2>2, <2>3, SliceFacts
    <2>5. TaskOK'
      BY <2>1, <2>4 DEF TaskOK, Task
    <2> QED  BY <2>1, <2>5 DEF MapOK, OrderSync, mapVars, history, HistoryOK
  <1>5. ASSUME NEW call \in {"exits", "shutdown"}, RunAtExitFuncs(call)  PROVE IInv'
    <2>1. /\ EnterExits(stack) /\ task' = [call |-> call, todo |-> <<>>]
          /\ UNCHANGED <<log, threads, history, ran>>
      BY <1>5 DEF RunAtExitFuncs
    <2>2. MapOK' /\ WellFormed(stack')
      BY <2>1, EnterExitsOK
    <2>3. TaskOK'
      BY <2>1 DEF TaskOK, Task
    <2> QED  BY <2>1, <2>2, <2>3 DEF HistoryOK, history
  <1> QED  BY <1>1, <1>2, <1>3, <1>4, <1>5

(* A step of the loops over the handlers. *)
LEMMA LoopStep ==
  ASSUME IInv, Call \/ Return \/ Recurse \/ Done
  PROVE  IInv'
  <1> USE DEF IInv
  <1>1. UNCHANGED <<log, task, threads, history>> /\ TaskOK'
    BY DEF Call, Return, Recurse, Done, TaskOK
  <1>2. CASE Call
    <2>1. WellFormed(stack') /\ \E h \in Handler : ran' = Append(ran, h)
      BY <1>2, CallOK
    <2>2. HistoryOK'
      BY <1>1, <2>1 DEF HistoryOK, history
    <2> QED  BY <1>1, <1>2, <2>1, <2>2 DEF Call, MapOK, OrderSync, mapVars
  <1>3. CASE Return
    BY <1>1, <1>3, ReturnOK DEF Return, MapOK, OrderSync, mapVars, HistoryOK, history
  <1>4. CASE Recurse
    <2>1. WellFormed(AfterGroup) /\ Top.owner \in Txn \cup {None}
      BY <1>4, AfterGroupOK DEF Recurse
    <2>2. IF Top.owner = None THEN EnterExits(AfterGroup) ELSE EnterDtors(AfterGroup, Top.owner)
      BY <1>4 DEF Recurse
    <2>3. MapOK' /\ WellFormed(stack')
      BY <2>1, <2>2, EnterExitsOK, EnterDtorsOK
    <2> QED  BY <1>1, <1>4, <2>3 DEF Recurse, HistoryOK, history
  <1>5. CASE Done
    <2>1. WellFormed(stack')
      BY <1>5, FrontOK DEF Done, Working
    <2> QED  BY <1>1, <1>5, <2>1 DEF Done, MapOK, OrderSync, mapVars, HistoryOK, history
  <1> QED  BY <1>2, <1>3, <1>4, <1>5

(* Every step keeps the invariant. *)
LEMMA NextIInv == IInv /\ [Next]_vars => IInv'
  <1> SUFFICES ASSUME IInv, [Next]_vars  PROVE IInv'
    OBVIOUS
  <1>1. CASE UNCHANGED vars
    BY <1>1 DEF vars, IInv, MapOK, OrderSync, WellFormed, TaskOK, HistoryOK
  <1> QED  BY <1>1, UserStep, ClientStep, LoopStep DEF Next

(* The inductive invariant holds of every behaviour of the exit handlers.    *)
THEOREM Invariance == Spec => []IInv
  BY InitIInv, NextIInv, PTL DEF Spec

(* Types, and: a handler is only ever taken from a group that has one, also  *)
(* when handlers run handlers.                                               *)
THEOREM TypeCorrect == Spec => []TypeOK
  BY Invariance, IInvImplies, PTL

(* The two halves of the OrderedMap list the same keys, each once, whatever  *)
(* order AddAtExitFunc, runAtExitFuncs and runAndRemoveStaticDestructors are *)
(* called in, and on whichever thread.                                       *)
THEOREM OrderSynced == Spec => []OrderSync
  BY Invariance, IInvImplies, PTL

(***************************************************************************)
(* Every handler runs once, and in time.                                   *)
(***************************************************************************)

LEMMA InitKeepInv == Init => KeepInv
  <1> SUFFICES ASSUME Init  PROVE KeepInv
    OBVIOUS
  <1>1. /\ stack = <<>> /\ born = <<>> /\ ran = <<>> /\ \A h \in Handler : owner[h] = None
        /\ task.call = "none" /\ task.todo = <<>> /\ \A t \in Txn : map[t] = <<>>
    BY DEF Init, Idle
  <1>2. IsInjective(<<>>) /\ Range(<<>>) = {}
    BY DEF IsInjective, Range
  <1>3. (\A i, j, k, h : ~At(stack, i, j, k, h)) /\ (\A t, k, h : ~Waits(map, t, k, h))
    BY <1>1 DEF At, Waits
  <1>4. Registered(born, owner)
    BY <1>1, <1>2 DEF Registered
  <1>5. \A h : ~Held(stack, map, h)
    BY <1>3 DEF Held, StackHas, MapHas
  <1>6. CalledOnce(stack, map, owner, ran) /\ NoneLost(stack, map, owner, ran)
    BY <1>1, <1>2, <1>5 DEF CalledOnce, NoneLost
  <1>7. /\ MapOwned(map, owner) /\ StackSorted(stack, born, owner) /\ MapSorted(map, born)
        /\ StackFirst(stack, map, born, owner)
    BY <1>3 DEF MapOwned, StackSorted, MapSorted, StackFirst
  <1>8. FramesKept
    BY <1>1, <1>4, <1>6, <1>7 DEF FramesKept, KeptOK, FramesOwned, Joined
  <1>9. Waiting = {}
    BY <1>1, <1>2 DEF Waiting
  <1> QED  BY <1>1, <1>8, <1>9 DEF KeepInv, TaskKept, Settled, Drained, Working, Owned, ShutdownRunsAll

LEMMA NextKeepInv == IInv /\ KeepInv /\ [Next]_vars => KeepInv'
  <1> SUFFICES ASSUME IInv, KeepInv, [Next]_vars  PROVE KeepInv'
    OBVIOUS
  <1>1. CASE UNCHANGED vars
    BY <1>1 DEF vars, KeepInv, FramesKept, TaskKept, Settled, Drained, Busy, Working, Top, Owned,
                ShutdownRunsAll, Waiting
  <1>2. CASE (\E h \in Handler : Register(h)) \/ (\E t \in Txn : Commit(t)) \/ NestedRunAtExitFuncs
    BY <1>2, RegisterStepKeeps, CommitStepKeeps, NestedStepKeeps
  <1>3. CASE \/ Unload \/ NextTransaction \/ Finish
             \/ \E n \in 1..Len(log) : RunDestructors(n)
             \/ \E call \in {"exits", "shutdown"} : RunAtExitFuncs(call)
    BY <1>3, UnloadStepKeeps, NextTransactionKeeps, FinishKeeps, DestructorsStepKeeps, AtExitStepKeeps
  <1>4. CASE Call \/ Return \/ Recurse \/ Done
    BY <1>4, CallStepKeeps, ReturnStepKeeps, RecurseStepKeeps, DoneStepKeeps
  <1> QED  BY <1>1, <1>2, <1>3, <1>4 DEF Next

(* What is held in one place, or was called once, is in one place. *)
LEMMA PlacesOf ==
  ASSUME NEW h, NEW p
  PROVE  p \in Places(h) <=>
           \/ \E t, k : Waits(map, t, k, h) /\ p = <<"map", t, k>>
           \/ \E i, j, k : At(stack, i, j, k, h) /\ p = <<"local", i, j, k>>
           \/ \E i : i \in DOMAIN ran /\ ran[i] = h /\ p = <<"ran", i>>
  <1>1. p \in InMap(h) <=> \E t, k : Waits(map, t, k, h) /\ p = <<"map", t, k>>
    BY DEF InMap, Waits
  <1>2. (\E i \in DOMAIN stack : p \in InLocal(h, i)) <=>
          \E i, j, k : At(stack, i, j, k, h) /\ p = <<"local", i, j, k>>
    BY DEF InLocal, At, InFrame
  <1>3. p \in InRan(h) <=> \E i : i \in DOMAIN ran /\ ran[i] = h /\ p = <<"ran", i>>
    BY DEF InRan
  <1>4. p \in InStack(h) <=> \E i \in DOMAIN stack : p \in InLocal(h, i)
    BY DEF InStack
  <1>5. p \in Places(h) <=> p \in InMap(h) \/ p \in InStack(h) \/ p \in InRan(h)
    BY DEF Places
  <1> QED  BY <1>1, <1>2, <1>3, <1>4, <1>5, Zenon

LEMMA KeepEachOnce == IInv /\ KeepInv => EachOnce
  <1> SUFFICES ASSUME IInv, KeepInv, NEW h \in Handler
               PROVE  IF owner[h] = None THEN Places(h) = {} ELSE Cardinality(Places(h)) = 1
    BY DEF EachOnce
  <1>1. KeptOK(stack, map, born, owner, ran) /\ WellFormed(stack) /\ MapOK /\ ran \in Seq(Handler)
    BY DEF KeepInv, FramesKept, IInv, HistoryOK
  <1>2. h \in Range(ran) <=> \E i : i \in DOMAIN ran /\ ran[i] = h
    BY DEF Range
  <1>3. ASSUME owner[h] = None  PROVE Places(h) = {}
    <2>1. \A t, k : ~Waits(map, t, k, h)
      BY <1>1, <1>3, AtExitAssumption DEF KeptOK, MapOwned, Waits
    <2>2. \A i, j, k : ~At(stack, i, j, k, h)
      BY <1>1, <1>3 DEF KeptOK, StackFirst
    <2>3. h \notin Range(ran)
      BY <1>1, <1>3 DEF KeptOK, CalledOnce
    <2> QED  BY <1>2, <2>1, <2>2, <2>3, PlacesOf
  <1>4. ASSUME owner[h] # None  PROVE \E p : Places(h) = {p}
    <2>1. CASE h \in Range(ran)
      <3>1. PICK i : i \in DOMAIN ran /\ ran[i] = h
        BY <1>2, <2>1
      <3>2. \A x : x \in DOMAIN ran /\ ran[x] = h => x = i
        BY <1>1, <3>1 DEF KeptOK, CalledOnce, IsInjective
      <3>3. ~Held(stack, map, h)
        BY <1>1, <2>1 DEF KeptOK, CalledOnce
      <3>4. \A p : p \in Places(h) <=> p = <<"ran", i>>
        BY <3>1, <3>2, <3>3, PlacesOf DEF Held, StackHas, MapHas
      <3>5. Places(h) = {<<"ran", i>>}
        BY <3>4, Zenon
      <3> QED  BY <3>5
    <2>2. CASE StackHas(stack, h)
      <3>1. PICK i, j, k : At(stack, i, j, k, h)
        BY <2>2 DEF StackHas
      <3>2. ~MapHas(map, h) /\ \A a, c, d : At(stack, a, c, d, h) => i = a /\ j = c /\ k = d
        BY <1>1, <3>1, OnePlace
      <3>3. h \notin Range(ran)
        BY <1>1, <2>2 DEF KeptOK, CalledOnce, Held
      <3>4. \A p : p \in Places(h) <=> p = <<"local", i, j, k>>
        BY <1>2, <3>1, <3>2, <3>3, PlacesOf DEF MapHas
      <3>5. Places(h) = {<<"local", i, j, k>>}
        BY <3>4, Zenon
      <3> QED  BY <3>5
    <2>3. CASE MapHas(map, h) /\ ~StackHas(stack, h)
      <3>1. PICK t, k : Waits(map, t, k, h)
        BY <2>3 DEF MapHas
      <3>2. \A u, l : Waits(map, u, l, h) => u = t /\ l = k
        <4> SUFFICES ASSUME NEW u, NEW l, Waits(map, u, l, h)  PROVE u = t /\ l = k
          OBVIOUS
        <4>1. u = t
          BY <1>1, <3>1 DEF KeptOK, MapOwned
        <4>2. ~Older(born, h, h)
          BY <1>1, OlderStrict DEF KeptOK, Registered
        <4>3. ~(k < l) /\ ~(l < k)
          BY <1>1, <3>1, <4>1, <4>2 DEF KeptOK, MapSorted
        <4>4. k \in Nat /\ l \in Nat
          BY <1>1, <3>1, MapNumbers
        <4> QED  BY <4>1, <4>3, <4>4
      <3>3. h \notin Range(ran)
        BY <1>1, <2>3 DEF KeptOK, CalledOnce, Held
      <3>4. \A p : p \in Places(h) <=> p = <<"map", t, k>>
        BY <1>2, <2>3, <3>1, <3>2, <3>3, PlacesOf DEF StackHas
      <3>5. Places(h) = {<<"map", t, k>>}
        BY <3>4, Zenon
      <3> QED  BY <3>5
    <2>4. h \in Range(ran) \/ StackHas(stack, h) \/ MapHas(map, h)
      BY <1>1, <1>4 DEF KeptOK, NoneLost, Held
    <2> QED  BY <2>1, <2>2, <2>3, <2>4
  <1>5. owner[h] # None => Cardinality(Places(h)) = 1
    BY <1>4, FS_Singleton
  <1> QED  BY <1>3, <1>5

LEMMA KeptInvariance == Spec => [](IInv /\ KeepInv)
  <1>1. Init => IInv /\ KeepInv
    BY InitIInv, InitKeepInv
  <1>2. IInv /\ KeepInv /\ [Next]_vars => (IInv /\ KeepInv)'
    BY NextIInv, NextKeepInv
  <1> QED  BY <1>1, <1>2, PTL DEF Spec

(* A handler that AddAtExitFunc registered is never lost and never called    *)
(* twice, on any thread; without other threads it has been called when its   *)
(* transaction is unloaded and when the interpreter is gone.                 *)
THEOREM HandlersAreKept == Spec => []HandlersKept
  <1>1. IInv /\ KeepInv => HandlersKept
    BY IInvImplies, KeepEachOnce DEF HandlersKept, KeepInv
  <1> QED  BY <1>1, KeptInvariance, PTL

(* Of the handlers of a transaction the youngest is called. *)
LEMMA CallsNewest ==
  ASSUME IInv, KeepInv, Call, Top.owner # None, ~threads, NEW h \in Handler, Calls(h),
         NEW g \in Waiting, owner[g] = owner[h]
  PROVE  Age(g) <= Age(h)
  <1>1. KeptOK(stack, map, born, owner, ran) /\ WellFormed(stack) /\ MapOK /\ ran \in Seq(Handler)
    BY DEF KeepInv, FramesKept, IInv, HistoryOK
  <1>2. PICK m, l, x : Working /\ ~Top.running /\ ran' = Append(ran, x) /\ LastIn(Top, m, l, x)
    BY <1>1, CallFrame
  <1>3. x = h
    <2>1. x \in Handler /\ Append(ran, x) = Append(ran, h)
      BY <1>1, <1>2, TopOK, FrameNumbers DEF Calls, LastIn
    <2> QED  BY <1>1, <2>1, AppendProperties
  <1>4. PICK n \in Nat : n = Len(stack) /\ DOMAIN stack = 1..n /\ n \in DOMAIN stack /\ Top = stack[n]
    <2>1. FrameShape(Top)
      BY <1>1, <1>2, TopOK
    <2> QED  BY <1>1, <1>2, <2>1, AtGoto
  <1>5. At(stack, n, m, l, h)
    BY <1>2, <1>3, <1>4 DEF At, LastIn
  <1>6. owner[h] = Top.owner
    <2>1. FrameOwned(Top, owner)
      BY <1>4 DEF KeepInv, FramesKept, FramesOwned
    <2>2. InFrame(Top, m, l, h) /\ m \in DOMAIN Top.local
      BY <1>2, <1>3 DEF LastIn, InFrame
    <2> QED  BY <2>1, <2>2 DEF FrameOwned
  <1>7. map[Top.owner] = <<>>
    BY <1>2 DEF KeepInv, Settled
  <1>8. g \in Handler /\ owner[g] # None /\ g \notin Range(ran)
    BY <1>1 DEF Waiting, KeptOK, Registered
  <1>9. ~MapHas(map, g)
    <2> SUFFICES ASSUME NEW t, NEW k, Waits(map, t, k, g)  PROVE FALSE
      BY DEF MapHas
    <2>1. t = Top.owner
      BY <1>1, <1>6 DEF KeptOK, MapOwned
    <2> QED  BY <1>1, <1>7, <2>1, MapNumbers
  <1>10. PICK i, j, k : At(stack, i, j, k, g)
    BY <1>1, <1>8, <1>9 DEF KeptOK, NoneLost, Held, StackHas
  <1>11. i \in Nat /\ j \in Nat /\ k \in Nat /\ m \in Nat /\ l \in Nat /\ i <= n
    BY <1>1, <1>4, <1>5, <1>10, Numbers
  <1>12. i = n => j < m \/ (j = m /\ k <= l)
    BY <1>2, <1>4, <1>10 DEF At, LastIn
  <1>13. Earlier(i, j, k, n, m, l) \/ (i = n /\ j = m /\ k = l)
    BY <1>11, <1>12 DEF Earlier
  <1>14. g = h \/ Older(born, g, h)
    <2>1. CASE Earlier(i, j, k, n, m, l)
      BY <1>1, <1>5, <1>10, <2>1 DEF KeptOK, StackSorted
    <2>2. CASE i = n /\ j = m /\ k = l
      BY <1>5, <1>10, <2>2 DEF At, InFrame
    <2> QED  BY <1>13, <2>1, <2>2
  <1>15. /\ IsInjective(born) /\ born \in Seq(Handler) /\ g \in Range(born)
    BY <1>1 DEF KeptOK, Registered, Waiting
  <1>16. \A y \in DOMAIN born : Age(born[y]) = y
    BY <1>15 DEF Age, IsInjective
  <1>17. DOMAIN born = 1..Len(born) /\ Len(born) \in Nat
    BY <1>15, LenProperties
  <1>18. PICK y \in DOMAIN born : born[y] = g
    BY <1>15 DEF Range
  <1>19. CASE g = h
    BY <1>16, <1>17, <1>18, <1>19
  <1>20. CASE Older(born, g, h)
    <2>1. PICK a, c \in DOMAIN born : a < c /\ born[a] = g /\ born[c] = h
      BY <1>20 DEF Older
    <2> QED  BY <1>16, <1>17, <2>1
  <1> QED  BY <1>14, <1>19, <1>20

(* runAndRemoveStaticDestructors calls the handlers of a transaction         *)
(* youngest first, whatever they register while they run: it calls itself    *)
(* after each.                                                               *)
THEOREM NewestRunsFirst == Spec => NewestFirst
  <1> DEFINE Step == \A h \in Handler : Calls(h) /\ Top.owner # None /\ ~threads =>
                       \A g \in Waiting : owner[g] = owner[h] => Age(g) <= Age(h)
  <1>1. ASSUME IInv, KeepInv, [Next]_vars  PROVE [Step]_vars
    <2>1. CASE Call
      BY <1>1, <2>1, CallsNewest
    <2>2. CASE ran' = ran
      <3>1. \A h \in Handler : ~Calls(h)
        <4>1. ran \in Seq(Handler)
          BY <1>1 DEF IInv, HistoryOK
        <4>2. \A h \in Handler : Len(Append(ran, h)) = Len(ran) + 1 /\ Len(ran) \in Nat
          BY <4>1, AppendProperties, LenProperties
        <4>3. \A h \in Handler : Append(ran, h) # ran
          BY <4>2
        <4> QED  BY <2>2, <4>3 DEF Calls
      <3> QED  BY <3>1
    <2>3. [Next]_vars => Call \/ ran' = ran
      BY DEF Next, vars, Register, Commit, NestedRunAtExitFuncs, Unload, RunDestructors,
             RunAtExitFuncs, NextTransaction, Finish, Return, Recurse, Done
    <2> QED  BY <1>1, <2>1, <2>2, <2>3
  <1> QED  BY <1>1, KeptInvariance, PTL DEF NewestFirst, Spec

=============================================================================
