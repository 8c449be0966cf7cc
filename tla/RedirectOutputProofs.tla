------------------------ MODULE RedirectOutputProofs ------------------------
(***************************************************************************)
(* Who owns which descriptor, and where the original streams are: proved   *)
(* of RedirectOutput for any set of files and any size of the descriptor   *)
(* table, whatever fails to open.                                          *)
(***************************************************************************)
EXTENDS RedirectOutput, SequenceLemmas

(* Descriptors and backups, apart from the stack that owns the others, K. *)
Desc == [fds : [Stream \cup FD -> Target \cup {Closed}],
         bak : [Stream -> FD \cup {InvalidFD}]]

BaksOf(o) == {o.bak[s] : s \in Stream} \ {InvalidFD}

DescOK(o, K) ==
  /\ o \in Desc
  /\ {d \in FD : o.fds[d] # Closed} = BaksOf(o) \cup K
  /\ K \cap BaksOf(o) = {}
  /\ o.bak[STDOUT] = o.bak[STDERR] => o.bak[STDOUT] = InvalidFD
  /\ \A s \in Stream : IF o.bak[s] = InvalidFD THEN o.fds[s] = s ELSE o.fds[o.bak[s]] = s

ClosingOf(stk) == {i \in DOMAIN stk : stk[i].close}
Owns(stk) == {stk[i].fd : i \in ClosingOf(stk)}
OwnsAt(stk, I) == {stk[i].fd : i \in I \cap ClosingOf(stk)}

(* q is what is left of stk without the entries at R; e says where it was. *)
Keeps(e, q, stk, R) ==
  /\ e \in [DOMAIN q -> (DOMAIN stk) \ R]
  /\ \A k, l \in DOMAIN q : e[k] = e[l] => k = l
  /\ \A i \in (DOMAIN stk) \ R : \E k \in DOMAIN q : e[k] = i
  /\ \A k \in DOMAIN q : /\ q[k].fd = stk[e[k]].fd /\ q[k].close = stk[e[k]].close
                         /\ q[k].scope # {}

(* Entries are typed, have a scope, and no two of them own a descriptor. *)
StackOK(stk) ==
  /\ stk \in Seq(Redirect)
  /\ \A i \in DOMAIN stk : stk[i].scope # {}
  /\ \A i \in ClosingOf(stk) : stk[i].fd \in FD
  /\ \A i, j \in ClosingOf(stk) : stk[i].fd = stk[j].fd => i = j

(* stdout is only connected again while there is a backup of it. *)
CurOK(o, c) == c \in FD \cup {InvalidFD} /\ (c # InvalidFD => o.bak[STDOUT] # InvalidFD)

Current == [fds |-> fds, bak |-> bak]

IInv ==
  /\ DescOK(Current, Owns(stack))
  /\ StackOK(stack)
  /\ CurOK(Current, cur)
  /\ {prompt, tty, streams, failing} \subseteq BOOLEAN

(***************************************************************************)
(* Numbers.                                                                *)
(***************************************************************************)

(* Descriptors are neither streams nor one of the two special values. *)
LEMMA Numbers ==
  /\ FD \cap Stream = {} /\ InvalidFD \notin FD \cup Stream
  /\ Closed \notin FD \cup Stream /\ Closed \notin File /\ Closed \notin Target
  /\ FD \subseteq Nat /\ STDOUT # STDERR
  BY RedirectAssumption DEF FD, Stream, STDOUT, STDERR, InvalidFD, Closed, Target

(* A non-empty set of positions has a least and a greatest element. *)
LEMMA Extremes ==
  ASSUME NEW n \in Nat, NEW T \in SUBSET (1..n), T # {}
  PROVE  /\ Min(T) \in T /\ \A x \in T : Min(T) <= x
         /\ Max(T) \in T /\ \A x \in T : Max(T) >= x
  <1>1. /\ IsFiniteSet(T) /\ Cardinality(T) \in Nat /\ Cardinality(T) >= 1
        /\ \A y \in T : {x \in T : x <= y} \in SUBSET T
    <2>1. IsFiniteSet(1..n)
      BY FS_Interval
    <2>2. IsFiniteSet(T)
      BY <2>1, FS_Subset
    <2>3. Cardinality(T) \in Nat /\ Cardinality(T) # 0
      BY <2>2, FS_CardinalityType, FS_EmptySet
    <2> QED  BY <2>2, <2>3
  <1>2. ASSUME NEW k \in Nat, 1 <= k, k <= Cardinality(T)
        PROVE  \E i \in T : Cardinality({x \in T : x <= i}) = k
    BY <1>2, KthElement
  <1>3. PICK i \in T : Cardinality({x \in T : x <= i}) = 1
    BY <1>1, <1>2
  <1>4. \A x \in T : i <= x
    <2>1. i \in {x \in T : x <= i} /\ IsFiniteSet({x \in T : x <= i})
      BY <1>1, FS_Subset
    <2>2. PICK e : {x \in T : x <= i} = {e}
      BY <1>3, <2>1, FS_Singleton
    <2>3. {x \in T : x <= i} = {i}
      BY <2>1, <2>2
    <2> QED  BY <2>3
  <1>5. PICK j \in T : Cardinality({x \in T : x <= j}) = Cardinality(T)
    BY <1>1, <1>2
  <1>6. \A x \in T : j >= x
    <2>1. {x \in T : x <= j} = T
      BY <1>1, <1>5, FS_Subset
    <2> QED  BY <2>1
  <1> QED  BY <1>3, <1>4, <1>5, <1>6 DEF Min, Max

(* What open() and dup() return was not in use. *)
LEMMA LowestFacts ==
  ASSUME NEW t, Lowest(t) # InvalidFD
  PROVE  Lowest(t) \in FD /\ t[Lowest(t)] = Closed
  <1> DEFINE free == {d \in FD : t[d] = Closed}
  <1>1. free # {} /\ Lowest(t) = Min(free)
    BY DEF Lowest
  <1>2. free \in SUBSET (1..MaxFD) /\ MaxFD \in Nat
    BY RedirectAssumption DEF FD
  <1>3. Min(free) \in free
    BY <1>1, <1>2, Extremes
  <1> QED  BY <1>1, <1>3

(***************************************************************************)
(* Descriptors.                                                            *)
(***************************************************************************)

(* A backup is made of what the stream still is. *)
LEMMA DupOnceOK ==
  ASSUME NEW K, NEW o, DescOK(o, K), NEW s \in Stream
  PROVE  DescOK(DupOnce(o, s), K)
  <1> DEFINE d == Lowest(o.fds)
  <1>1. CASE o.bak[s] # InvalidFD
    BY <1>1 DEF DupOnce
  <1>2. CASE o.bak[s] = InvalidFD /\ d = InvalidFD
    <2>1. DupOnce(o, s) = [fds |-> o.fds, bak |-> [o.bak EXCEPT ![s] = o.bak[s]]]
      BY <1>2 DEF DupOnce, Opened
    <2>2. DupOnce(o, s) = o
      BY <2>1 DEF DescOK, Desc
    <2> QED  BY <2>2
  <1>3. CASE o.bak[s] = InvalidFD /\ d # InvalidFD
    <2>1. d \in FD /\ o.fds[d] = Closed
      BY <1>3, LowestFacts
    <2> DEFINE p == DupOnce(o, s)
    <2>2. p = [fds |-> [o.fds EXCEPT ![d] = o.fds[s]], bak |-> [o.bak EXCEPT ![s] = d]]
      BY <1>3 DEF DupOnce, Opened
    <2> HIDE DEF d, p
    <2>3. o.fds[s] = s /\ o.fds \in [Stream \cup FD -> Target \cup {Closed}]
          /\ o.bak \in [Stream -> FD \cup {InvalidFD}]
      BY <1>3 DEF DescOK, Desc
    <2>4. p \in Desc /\ p.fds[d] = s /\ p.bak[s] = d
          /\ (\A x \in (Stream \cup FD) \ {d} : p.fds[x] = o.fds[x])
          /\ (\A x \in Stream \ {s} : p.bak[x] = o.bak[x])
      BY <2>1, <2>2, <2>3 DEF Desc
    <2>5. d \notin BaksOf(o) \cup K
      BY <2>1 DEF DescOK
    <2>6. BaksOf(p) = BaksOf(o) \cup {d}
      BY <1>3, <2>1, <2>4, Numbers DEF BaksOf
    <2>7. {x \in FD : p.fds[x] # Closed} = {x \in FD : o.fds[x] # Closed} \cup {d}
      BY <2>1, <2>4, Numbers
    <2>8. p.bak[STDOUT] = p.bak[STDERR] => p.bak[STDOUT] = InvalidFD
      BY <1>3, <2>1, <2>4, <2>5, Numbers DEF Stream, BaksOf
    <2>9. \A x \in Stream : IF p.bak[x] = InvalidFD THEN p.fds[x] = x ELSE p.fds[p.bak[x]] = x
      <3> TAKE x \in Stream
      <3>1. CASE x = s
        BY <2>1, <2>4, <3>1, Numbers
      <3>2. CASE x # s
        <4>1. p.bak[x] = o.bak[x] /\ x # d
          BY <2>1, <2>4, <3>2, Numbers
        <4>2. CASE o.bak[x] = InvalidFD
          BY <2>4, <4>1, <4>2 DEF DescOK
        <4>3. CASE o.bak[x] # InvalidFD
          <5>1. o.bak[x] \in BaksOf(o) /\ o.bak[x] \in FD
            BY <2>3, <4>3 DEF BaksOf
          <5> QED  BY <2>4, <2>5, <4>1, <4>3, <5>1 DEF DescOK
        <4> QED  BY <4>2, <4>3
      <3> QED  BY <3>1, <3>2
    <2>10. DescOK(p, K)
      BY <2>4, <2>5, <2>6, <2>7, <2>8, <2>9 DEF DescOK
    <2> QED  BY <2>10 DEF p
  <1> QED  BY <1>1, <1>2, <1>3

(* A stream that has a backup may be connected to anything. *)
LEMMA Dup2OK ==
  ASSUME NEW K, NEW o, DescOK(o, K), NEW s \in Stream, o.bak[s] # InvalidFD, NEW from
  PROVE  DescOK([o EXCEPT !.fds = Dup2(o.fds, from, s)], K)
  <1> DEFINE p == [o EXCEPT !.fds = Dup2(o.fds, from, s)]
  <1>1. CASE from \in FD /\ o.fds[from] # Closed
    <2>1. p.fds = [o.fds EXCEPT ![s] = o.fds[from]] /\ p.bak = o.bak
      BY <1>1 DEF Dup2, DescOK, Desc
    <2>2. p \in Desc
      BY <1>1, <2>1 DEF DescOK, Desc
    <2>3. \A x \in (Stream \cup FD) \ {s} : p.fds[x] = o.fds[x]
      BY <2>1 DEF DescOK, Desc
    <2>4. s \notin FD
      BY Numbers
    <2> HIDE DEF p
    <2>5. {x \in FD : p.fds[x] # Closed} = {x \in FD : o.fds[x] # Closed}
      BY <2>3, <2>4
    <2>6. BaksOf(p) = BaksOf(o)
      BY <2>1 DEF BaksOf
    <2>7. \A x \in Stream : IF p.bak[x] = InvalidFD THEN p.fds[x] = x ELSE p.fds[p.bak[x]] = x
      <3> TAKE x \in Stream
      <3>1. o.bak[x] \in FD \cup {InvalidFD}
        BY DEF DescOK, Desc
      <3>2. CASE o.bak[x] = InvalidFD
        BY <2>1, <2>3, <3>2 DEF DescOK
      <3>3. CASE o.bak[x] # InvalidFD
        BY <2>1, <2>3, <2>4, <3>1, <3>3 DEF DescOK
      <3> QED  BY <3>2, <3>3
    <2>8. DescOK(p, K)
      BY <2>1, <2>2, <2>5, <2>6, <2>7 DEF DescOK
    <2> QED  BY <2>8 DEF p
  <1>2. CASE ~(from \in FD /\ o.fds[from] # Closed)
    <2>1. p = o
      BY <1>2 DEF Dup2, DescOK, Desc
    <2> QED  BY <2>1
  <1> QED  BY <1>1, <1>2

(* Closing a backup puts the stream back first. *)
LEMMA CloseBakOK ==
  ASSUME NEW K, NEW o, DescOK(o, K), NEW s \in Stream
  PROVE  DescOK(CloseBak(o, s), K) /\ CloseBak(o, s).bak[s] = InvalidFD
         /\ \A x \in Stream : o.bak[x] = InvalidFD => CloseBak(o, s).bak[x] = InvalidFD
  <1>1. CASE o.bak[s] = InvalidFD
    BY <1>1 DEF CloseBak
  <1>2. CASE o.bak[s] # InvalidFD
    <2> DEFINE d == o.bak[s]
               p == CloseBak(o, s)
    <2>1. /\ o.fds \in [Stream \cup FD -> Target \cup {Closed}]
          /\ o.bak \in [Stream -> FD \cup {InvalidFD}]
          /\ d \in FD /\ o.fds[d] = s /\ s # Closed /\ s \notin FD
      BY <1>2, Numbers DEF DescOK, Desc
    <2>2. p = [fds |-> [[o.fds EXCEPT ![s] = s] EXCEPT ![d] = Closed],
               bak |-> [o.bak EXCEPT ![s] = InvalidFD]]
      BY <1>2, <2>1 DEF CloseBak, Dup2
    <2>3. \A x \in Stream \ {s} : o.bak[x] # d
      BY <1>2 DEF DescOK, Stream
    <2>4. d \in BaksOf(o) /\ d \notin K
      BY <1>2 DEF BaksOf, DescOK
    <2> HIDE DEF d, p
    <2>5. /\ p \in Desc /\ p.fds[d] = Closed /\ p.fds[s] = s /\ p.bak[s] = InvalidFD
          /\ \A x \in (Stream \cup FD) \ {d, s} : p.fds[x] = o.fds[x]
          /\ \A x \in Stream \ {s} : p.bak[x] = o.bak[x]
      BY <2>1, <2>2 DEF Desc, Target
    <2>6. BaksOf(p) = BaksOf(o) \ {d}
      <3>1. \A x \in Stream : p.bak[x] = IF x = s THEN InvalidFD ELSE o.bak[x]
        BY <2>5
      <3>2. o.bak[s] = d
        BY DEF d
      <3> QED  BY <2>3, <3>1, <3>2 DEF BaksOf
    <2>7. {x \in FD : p.fds[x] # Closed} = {x \in FD : o.fds[x] # Closed} \ {d}
      BY <2>1, <2>5
    <2>8. \A x \in Stream : IF p.bak[x] = InvalidFD THEN p.fds[x] = x ELSE p.fds[p.bak[x]] = x
      <3> TAKE x \in Stream
      <3>1. CASE x = s
        BY <2>5, <3>1
      <3>2. CASE x # s
        <4>1. p.bak[x] = o.bak[x] /\ x # d /\ o.bak[x] # d
              /\ p.fds[x] = o.fds[x] /\ o.bak[x] \in FD \cup {InvalidFD}
          BY <2>1, <2>3, <2>5, <3>2, Numbers
        <4>2. CASE o.bak[x] = InvalidFD
          BY <4>1, <4>2 DEF DescOK
        <4>3. CASE o.bak[x] # InvalidFD
          <5>1. o.bak[x] # s /\ o.bak[x] \in FD
            BY <2>1, <4>1, <4>3
          <5> QED  BY <2>5, <4>1, <4>3, <5>1 DEF DescOK
        <4> QED  BY <4>2, <4>3
      <3> QED  BY <3>1, <3>2
    <2>9. p.bak[STDOUT] = p.bak[STDERR] => p.bak[STDOUT] = InvalidFD
      BY <2>5 DEF Stream
    <2>10. DescOK(p, K)
      BY <2>4, <2>5, <2>6, <2>7, <2>8, <2>9 DEF DescOK
    <2>11. \A x \in Stream : o.bak[x] = InvalidFD => p.bak[x] = InvalidFD
      BY <2>5
    <2> QED  BY <2>5, <2>10, <2>11 DEF p
  <1> QED  BY <1>1, <1>2

(* restore() only touches the stream and its backup, whatever descriptor the *)
(* entry it finds has.                                                       *)
LEMMA RestoreOK ==
  ASSUME NEW K, NEW o, DescOK(o, K), NEW s \in Stream, NEW stk
  PROVE  DescOK(Restore(o, stk, s), K)
  <1>1. CASE o.bak[s] = InvalidFD
    BY <1>1 DEF Restore
  <1>2. CASE o.bak[s] # InvalidFD /\ For(stk, s) # {}
    BY <1>2, Dup2OK DEF Restore
  <1>3. CASE o.bak[s] # InvalidFD /\ For(stk, s) = {}
    BY <1>3, CloseBakOK DEF Restore
  <1> QED  BY <1>1, <1>2, <1>3

(* A file that has been opened is owned by its entry. *)
LEMMA OpenedOK ==
  ASSUME NEW K, NEW o, DescOK(o, K), NEW f \in File, Lowest(o.fds) # InvalidFD
  PROVE  /\ Lowest(o.fds) \in FD \ K
         /\ DescOK([o EXCEPT !.fds = Opened(o.fds, Lowest(o.fds), f)], K \cup {Lowest(o.fds)})
  <1> DEFINE d == Lowest(o.fds)
             p == [o EXCEPT !.fds = Opened(o.fds, d, f)]
  <1>1. d \in FD /\ o.fds[d] = Closed /\ f # Closed /\ d # InvalidFD
    BY LowestFacts, Numbers
  <1> HIDE DEF d
  <1>2. p.fds = [o.fds EXCEPT ![d] = f] /\ p.bak = o.bak /\ p \in Desc
    BY <1>1 DEF Opened, DescOK, Desc, Target
  <1>3. p.fds[d] = f /\ \A x \in (Stream \cup FD) \ {d} : p.fds[x] = o.fds[x]
    BY <1>1, <1>2 DEF DescOK, Desc
  <1> HIDE DEF p
  <1>4. BaksOf(p) = BaksOf(o)
    BY <1>2 DEF BaksOf
  <1>5. {x \in FD : p.fds[x] # Closed} = {x \in FD : o.fds[x] # Closed} \cup {d}
    BY <1>1, <1>3
  <1>6. d \notin BaksOf(o) \cup K
    BY <1>1 DEF DescOK
  <1>7. \A x \in Stream : IF p.bak[x] = InvalidFD THEN p.fds[x] = x ELSE p.fds[p.bak[x]] = x
    <2> TAKE x \in Stream
    <2>1. o.bak[x] \in FD \cup {InvalidFD} /\ p.fds[x] = o.fds[x]
      BY <1>1, <1>3, Numbers DEF DescOK, Desc
    <2>2. CASE o.bak[x] = InvalidFD
      BY <1>2, <2>1, <2>2 DEF DescOK
    <2>3. CASE o.bak[x] # InvalidFD
      <3>1. o.bak[x] \in BaksOf(o) /\ o.bak[x] \in FD
        BY <2>1, <2>3 DEF BaksOf
      <3> QED  BY <1>2, <1>3, <1>6, <2>3, <3>1 DEF DescOK
    <2> QED  BY <2>2, <2>3
  <1>8. DescOK(p, K \cup {d})
    BY <1>2, <1>4, <1>5, <1>6, <1>7 DEF DescOK
  <1> QED  BY <1>1, <1>6, <1>8 DEF p, d

(* Entries that go close what they own. *)
LEMMA CloseEntriesOK ==
  ASSUME NEW o, NEW stk, StackOK(stk), DescOK(o, Owns(stk)), NEW I \in SUBSET DOMAIN stk
  PROVE  DescOK([o EXCEPT !.fds = CloseEntries(o.fds, stk, I)],
                Owns(stk) \ OwnsAt(stk, I))
  <1> DEFINE J == OwnsAt(stk, I)
             K == Owns(stk)
             p == [o EXCEPT !.fds = CloseEntries(o.fds, stk, I)]
  <1>1. J \subseteq FD /\ J \subseteq K
    BY DEF StackOK, Owns, OwnsAt
  <1>2. p.bak = o.bak /\ p \in Desc
        /\ \A x \in Stream \cup FD : p.fds[x] = IF x \in J THEN Closed ELSE o.fds[x]
    <2>1. p.fds = [d \in Stream \cup FD |-> IF d \in J THEN Closed ELSE o.fds[d]]
      BY DEF CloseEntries, ClosingOf, OwnsAt, DescOK, Desc
    <2>2. p.fds \in [Stream \cup FD -> Target \cup {Closed}]
      BY <2>1 DEF DescOK, Desc
    <2>3. p.bak = o.bak
      BY DEF DescOK, Desc
    <2>4. p = [fds |-> p.fds, bak |-> o.bak]
      BY DEF DescOK, Desc
    <2> HIDE DEF p, J
    <2>5. p \in Desc
      BY <2>2, <2>4 DEF DescOK, Desc
    <2> QED  BY <2>1, <2>3, <2>5
  <1> HIDE DEF p, J, K
  <1>3. BaksOf(p) = BaksOf(o)
    BY <1>2 DEF BaksOf
  <1>4. {x \in FD : p.fds[x] # Closed} = {x \in FD : o.fds[x] # Closed} \ J
    BY <1>1, <1>2
  <1>5. K \cap BaksOf(o) = {} /\ {x \in FD : o.fds[x] # Closed} = BaksOf(o) \cup K
    BY DEF DescOK, K
  <1>6. \A x \in Stream : IF p.bak[x] = InvalidFD THEN p.fds[x] = x ELSE p.fds[p.bak[x]] = x
    <2> TAKE x \in Stream
    <2>1. o.bak[x] \in FD \cup {InvalidFD} /\ x \notin J
      BY <1>1, Numbers DEF DescOK, Desc
    <2>2. CASE o.bak[x] = InvalidFD
      BY <1>2, <2>1, <2>2 DEF DescOK
    <2>3. CASE o.bak[x] # InvalidFD
      <3>1. o.bak[x] \in BaksOf(o) /\ o.bak[x] \in FD
        BY <2>1, <2>3 DEF BaksOf
      <3>2. o.bak[x] \notin J
        BY <1>1, <1>5, <3>1
      <3> QED  BY <1>2, <2>3, <3>1, <3>2 DEF DescOK
    <2> QED  BY <2>2, <2>3
  <1>7. p.bak[STDOUT] = p.bak[STDERR] => p.bak[STDOUT] = InvalidFD
    BY <1>2 DEF DescOK
  <1>8. DescOK(p, K \ J)
    BY <1>1, <1>2, <1>3, <1>4, <1>5, <1>6, <1>7 DEF DescOK
  <1> QED  BY <1>8 DEF p, J, K

(* Both backups and all entries are closed at the end. *)
LEMMA DestroyedOK ==
  ASSUME NEW o, NEW stk, StackOK(stk), DescOK(o, Owns(stk))
  PROVE  DescOK(Destroyed(o, stk), {})
  <1> DEFINE b == Both(CloseBak, o, Stream)
  <1>1. STDOUT \in Stream /\ STDERR \in Stream
    BY DEF Stream
  <1>2. b = CloseBak(CloseBak(o, STDOUT), STDERR)
    BY <1>1 DEF Both
  <1>3. DescOK(b, Owns(stk))
    BY <1>1, <1>2, CloseBakOK
  <1> HIDE DEF b
  <1>4. DescOK([b EXCEPT !.fds = CloseEntries(b.fds, stk, DOMAIN stk)],
               Owns(stk) \ OwnsAt(stk, DOMAIN stk))
    BY <1>3, CloseEntriesOK
  <1>5. Owns(stk) \ OwnsAt(stk, DOMAIN stk) = {}
    BY DEF Owns, OwnsAt, ClosingOf
  <1>6. Destroyed(o, stk) = [b EXCEPT !.fds = CloseEntries(b.fds, stk, DOMAIN stk)]
    BY DEF Destroyed, b
  <1> QED  BY <1>4, <1>5, <1>6

(***************************************************************************)
(* The stack.                                                              *)
(***************************************************************************)

(* A redirection for a stream is found when there is one. *)
LEMMA LastForFacts ==
  ASSUME NEW stk \in Seq(Redirect), NEW s, For(stk, s) # {}
  PROVE  /\ LastFor(stk, s) \in DOMAIN stk /\ s \in stk[LastFor(stk, s)].scope
         /\ \A i \in DOMAIN stk : s \in stk[i].scope => i <= LastFor(stk, s)
  <1>1. Len(stk) \in Nat /\ DOMAIN stk = 1..Len(stk)
    BY LenProperties
  <1>2. For(stk, s) \in SUBSET (1..Len(stk))
    BY <1>1 DEF For
  <1>3. Max(For(stk, s)) \in For(stk, s) /\ \A i \in For(stk, s) : Max(For(stk, s)) >= i
    BY <1>1, <1>2, Extremes
  <1>4. LastFor(stk, s) \in For(stk, s) /\ \A i \in For(stk, s) : LastFor(stk, s) >= i
    BY <1>3 DEF LastFor
  <1> QED  BY <1>1, <1>4 DEF For

(* What restore() returns. *)
LEMMA RestoredType ==
  ASSUME NEW o, NEW stk \in Seq(Redirect), NEW s
  PROVE  Restored(o, stk, s) \in FD \cup {InvalidFD}
  <1>1. CASE o.bak[s] = InvalidFD \/ For(stk, s) = {}
    BY <1>1 DEF Restored
  <1>2. CASE ~(o.bak[s] = InvalidFD \/ For(stk, s) = {})
    <2>1. LastFor(stk, s) \in DOMAIN stk
      BY <1>2, LastForFacts
    <2>2. stk[LastFor(stk, s)] \in Redirect
      BY <2>1
    <2> QED  BY <1>2, <2>2 DEF Restored, Redirect
  <1> QED  BY <1>1, <1>2

(* push() leaves something. *)
LEMMA AppendNotEmpty ==
  ASSUME NEW stk \in Seq(Redirect), NEW r
  PROVE  Append(stk, r) # <<>>
  <1>1. Len(Append(stk, r)) = Len(stk) + 1 /\ Len(stk) \in Nat
    BY LenProperties
  <1> QED  BY <1>1

(* push() of an entry that owns nothing, or something new. *)
LEMMA AppendOK ==
  ASSUME NEW stk, StackOK(stk), NEW r \in Redirect, r.scope # {},
         r.close => r.fd \in FD \ Owns(stk)
  PROVE  /\ StackOK(Append(stk, r)) /\ Append(stk, r) # <<>>
         /\ Owns(Append(stk, r)) = IF r.close THEN Owns(stk) \cup {r.fd} ELSE Owns(stk)
  <1> DEFINE n == Len(stk)
             q == Append(stk, r)
  <1>1. /\ n \in Nat /\ DOMAIN stk = 1..n /\ DOMAIN q = 1..(n + 1) /\ q \in Seq(Redirect)
        /\ q[n + 1] = r /\ \A i \in 1..n : q[i] = stk[i]
    BY LenProperties DEF StackOK
  <1> HIDE DEF n, q
  <1>2. ClosingOf(q) = IF r.close THEN ClosingOf(stk) \cup {n + 1} ELSE ClosingOf(stk)
    BY <1>1 DEF ClosingOf
  <1>3. \A i \in ClosingOf(stk) : i \in 1..n /\ q[i] = stk[i]
    BY <1>1 DEF ClosingOf
  <1>4. Owns(q) = IF r.close THEN Owns(stk) \cup {r.fd} ELSE Owns(stk)
    <2>1. CASE r.close
      BY <1>1, <1>2, <1>3, <2>1 DEF Owns
    <2>2. CASE ~r.close
      BY <1>2, <1>3, <2>2 DEF Owns
    <2> QED  BY <2>1, <2>2
  <1>5. \A i, j \in ClosingOf(q) : q[i].fd = q[j].fd => i = j
    <2>1. \A i \in ClosingOf(stk) : q[i].fd \in Owns(stk)
      BY <1>3 DEF Owns
    <2>2. \A i, j \in ClosingOf(stk) : q[i].fd = q[j].fd => i = j
      BY <1>3 DEF StackOK
    <2> QED  BY <1>1, <1>2, <2>1, <2>2
  <1>6. \A i \in ClosingOf(q) : q[i].fd \in FD
    BY <1>1, <1>2, <1>3 DEF StackOK
  <1>7. \A i \in DOMAIN q : q[i].scope # {}
    BY <1>1 DEF StackOK
  <1>8. q # <<>>
    BY <1>1
  <1>9. StackOK(q)
    BY <1>1, <1>5, <1>6, <1>7 DEF StackOK
  <1> QED  BY <1>4, <1>8, <1>9 DEF q

(* Positions of what is left of a stack, in it. *)
LEMMA KeptOK ==
  ASSUME NEW stk, StackOK(stk), NEW R \in SUBSET DOMAIN stk, NEW q \in Seq(Redirect),
         NEW e, Keeps(e, q, stk, R)
  PROVE  StackOK(q) /\ Owns(q) = Owns(stk) \ OwnsAt(stk, R)
  <1> USE DEF Keeps
  <1>1. \A k \in DOMAIN q : k \in ClosingOf(q) <=> e[k] \in ClosingOf(stk)
    BY DEF ClosingOf
  <1>2. ClosingOf(q) \subseteq DOMAIN q /\ ClosingOf(stk) \subseteq DOMAIN stk
    BY DEF ClosingOf
  <1>3. StackOK(q)
    <2>1. \A i \in ClosingOf(q) : q[i].fd \in FD
      BY <1>1, <1>2 DEF StackOK
    <2>2. \A i, j \in ClosingOf(q) : q[i].fd = q[j].fd => i = j
      BY <1>1, <1>2 DEF StackOK
    <2> QED  BY <2>1, <2>2 DEF StackOK
  <1>4. Owns(q) = {stk[i].fd : i \in ClosingOf(stk) \ R}
    <2>1. \A k \in ClosingOf(q) : e[k] \in ClosingOf(stk) \ R /\ q[k].fd = stk[e[k]].fd
      BY <1>1, <1>2
    <2>2. \A i \in ClosingOf(stk) \ R : \E k \in ClosingOf(q) : q[k].fd = stk[i].fd
      BY <1>1, <1>2
    <2> QED  BY <2>1, <2>2 DEF Owns
  <1>5. {stk[i].fd : i \in ClosingOf(stk) \ R}
          = Owns(stk) \ OwnsAt(stk, R)
    <2> DEFINE left == {stk[i].fd : i \in ClosingOf(stk) \ R}
               gone == OwnsAt(stk, R)
    <2>1. \A i, j \in ClosingOf(stk) : stk[i].fd = stk[j].fd => i = j
      BY DEF StackOK
    <2>2. left \cap gone = {}
      BY <2>1 DEF OwnsAt
    <2>3. Owns(stk) = left \cup gone
      BY DEF Owns, OwnsAt
    <2> QED  BY <2>2, <2>3
  <1> QED  BY <1>3, <1>4, <1>5

(* What undoing a redirection does to the entries. *)
LEMMA ClearedFacts ==
  ASSUME StackOK(stack), NEW S \in Scope
  PROVE  /\ Cleared(S) \in Seq(Redirect) /\ Len(Cleared(S)) = Len(stack)
         /\ Removed(S) \in SUBSET (1..Len(stack))
         /\ \A i \in 1..Len(stack) :
              /\ Cleared(S)[i].fd = stack[i].fd /\ Cleared(S)[i].close = stack[i].close
              /\ Cleared(S)[i].target = stack[i].target
              /\ \A s \in Stream : s \in Cleared(S)[i].scope <=>
                   s \in stack[i].scope /\ ~(s \in S /\ i = LastFor(stack, s))
              /\ i \notin Removed(S) => Cleared(S)[i].scope # {}
  <1> DEFINE n == Len(stack)
             c(i) == {s \in stack[i].scope : ~(s \in S /\ i = LastFor(stack, s))}
  <1>1. n \in Nat /\ DOMAIN stack = 1..n /\ \A i \in 1..n : stack[i] \in Redirect
    BY LenProperties DEF StackOK
  <1>2. Cleared(S) = [i \in 1..n |-> [stack[i] EXCEPT !.scope = c(i)]]
    BY <1>1 DEF Cleared
  <1>3. \A i \in 1..n : /\ Cleared(S)[i] \in Redirect /\ Cleared(S)[i].scope = c(i)
                        /\ Cleared(S)[i].fd = stack[i].fd /\ Cleared(S)[i].close = stack[i].close
                        /\ Cleared(S)[i].target = stack[i].target
    BY <1>1, <1>2 DEF Redirect
  <1>4. Cleared(S) \in Seq(Redirect) /\ Len(Cleared(S)) = n
    BY <1>1, <1>2, <1>3
  <1>5. Removed(S) = {i \in 1..n : Cleared(S)[i].scope = {}}
    BY <1>1 DEF Removed
  <1> QED  BY <1>3, <1>4, <1>5

(* Of an entry that goes, one stream is the reason: it is the last entry for *)
(* that stream.  With two of them the second is the last of the stack.       *)
LEMMA RemovedFacts ==
  ASSUME StackOK(stack), NEW S \in Scope, NEW i \in Removed(S), NEW j \in Removed(S), i < j
  PROVE  j = Len(stack) /\ Removed(S) = {i, j}
  <1> DEFINE n == Len(stack)
             Reason(r, s) == s \in S /\ s \in Stream /\ r = LastFor(stack, s)
  <1>1. n \in Nat /\ DOMAIN stack = 1..n /\ (\A k \in 1..n : stack[k].scope \in (SUBSET Stream) \ {{}})
    <2>1. stack \in Seq(Redirect) /\ \A k \in DOMAIN stack : stack[k].scope # {}
      BY DEF StackOK
    <2>2. n \in Nat /\ DOMAIN stack = 1..n /\ \A k \in 1..n : stack[k] \in Redirect
      BY <2>1, LenProperties
    <2>3. \A r \in Redirect : r.scope \in SUBSET Stream
      BY DEF Redirect
    <2> QED  BY <2>1, <2>2, <2>3
  <1>2. \A r \in Removed(S) : r \in 1..n /\ Cleared(S)[r].scope = {}
    BY <1>1 DEF Removed
  <1>3. ASSUME NEW r \in Removed(S)
        PROVE  \E s \in S : Reason(r, s)
    <2>1. PICK s \in Stream : s \in stack[r].scope
      BY <1>1, <1>2
    <2>2. s \notin Cleared(S)[r].scope
      BY <1>2
    <2> QED  BY <1>2, <2>1, <2>2, ClearedFacts
  <1>4. PICK a \in S : Reason(i, a)
    BY <1>3
  <1>5. PICK b \in S : Reason(j, b)
    BY <1>3
  <1>6. i # j /\ a # b
    BY <1>1, <1>2, <1>4, <1>5
  <1>7. S = {a, b} /\ S = Stream
    BY <1>4, <1>5, <1>6 DEF Scope, Stream
  <1>8. \A r \in Removed(S) : r = i \/ r = j
    BY <1>3, <1>4, <1>5, <1>7
  <1>9. n \in Removed(S)
    <2>1. n \in 1..n
      BY <1>1, <1>2
    <2>2. ASSUME NEW s \in Stream, s \in stack[n].scope
          PROVE  n = LastFor(stack, s)
      <3>1. For(stack, s) # {}
        BY <1>1, <2>1, <2>2 DEF For
      <3>2. LastFor(stack, s) \in 1..n /\ n <= LastFor(stack, s)
        BY <1>1, <2>1, <2>2, <3>1, LastForFacts DEF StackOK
      <3> QED  BY <1>1, <3>2
    <2>3. \A s \in Stream : s \notin Cleared(S)[n].scope
      BY <1>7, <2>1, <2>2, ClearedFacts
    <2>4. Cleared(S)[n] \in Redirect
      BY <1>1, <2>1, ClearedFacts
    <2>5. Cleared(S)[n].scope = {}
      BY <2>3, <2>4 DEF Redirect
    <2> QED  BY <1>1, <2>1, <2>5 DEF Removed
  <1>10. j = n
    BY <1>1, <1>2, <1>8, <1>9
  <1> QED  BY <1>8, <1>10

(* q is what is left when the redirections for S are undone, in its order;   *)
(* e says where it was.                                                      *)
IsRest(e, q, S) ==
  /\ Keeps(e, q, stack, Removed(S))
  /\ \A k, l \in DOMAIN q : k < l => e[k] < e[l]
  /\ \A k \in DOMAIN q : q[k] = Cleared(S)[e[k]]

(* The entries that go, and only they, are erased, although the second       *)
(* iterator is invalid when it is used.                                      *)
LEMMA ErasedRest ==
  ASSUME StackOK(stack), NEW S \in Scope
  PROVE  Erased(S) \in Seq(Redirect) /\ \E e : IsRest(e, Erased(S), S)
  <1> DEFINE n == Len(stack)
             C == Cleared(S)
             R == Removed(S)
             i == Min(R)
             j == Max(R)
  <1>1. n \in Nat /\ DOMAIN stack = 1..n /\ R \in SUBSET (1..n) /\ R \in SUBSET DOMAIN stack
    BY LenProperties, ClearedFacts DEF StackOK
  <1>2. C \in Seq(Redirect) /\ Len(C) = n /\ DOMAIN C = 1..n
    BY <1>1, ClearedFacts, LenProperties
  <1>3. \A k \in (1..n) \ R : /\ C[k].fd = stack[k].fd /\ C[k].close = stack[k].close
                              /\ C[k].scope # {}
    BY ClearedFacts
  <1>4. CASE R = {}
    <2>1. Erased(S) = C
      BY <1>4 DEF Erased
    <2> HIDE DEF n, C, R
    <2> DEFINE e == [k \in 1..n |-> k]
    <2>2. Keeps(e, C, stack, R)
      BY <1>1, <1>2, <1>3, <1>4 DEF Keeps
    <2>3. /\ \A k, l \in DOMAIN C : k < l => e[k] < e[l]
          /\ \A k \in DOMAIN C : C[k] = C[e[k]]
      BY <1>2
    <2> HIDE DEF e
    <2>4. IsRest(e, C, S)
      BY <2>2, <2>3 DEF IsRest, C, R
    <2> QED  BY <1>2, <2>1, <2>4
  <1>5. CASE R # {}
    <2>1. /\ i \in R /\ j \in R /\ i \in 1..n /\ j \in 1..n
          /\ \A x \in R : x \in 1..n /\ i <= x /\ x <= j
      <3> HIDE DEF n, C, R
      <3>1. /\ Min(R) \in R /\ \A x \in R : Min(R) <= x
            /\ Max(R) \in R /\ \A x \in R : Max(R) >= x
        BY <1>1, <1>5, Extremes
      <3> QED  BY <1>1, <3>1
    <2>2. Erased(S) = IF i = j THEN RemoveAt(C, i)
                      ELSE IF j \in DOMAIN RemoveAt(C, i) THEN RemoveAt(RemoveAt(C, i), j)
                      ELSE Front(RemoveAt(C, i))
      BY <1>5 DEF Erased, EraseFirst, EraseSecond
    <2> HIDE DEF i, j
    <2>3. i # j => j = n /\ R = {i, n} /\ n > 1
      <3> HAVE i # j
      <3>1. i \in Removed(S) /\ j \in Removed(S) /\ i < j
        BY <1>1, <2>1
      <3>2. j = n /\ R = {i, j}
        BY <3>1, RemovedFacts
      <3>3. i < j /\ i \in 1..n
        BY <2>1, <3>1
      <3> HIDE DEF n, C, R
      <3>4. R = {i, n} /\ n > 1
        BY <1>1, <3>2, <3>3
      <3> QED  BY <3>2, <3>4
    <2> HIDE DEF n, C, R
    <2>4. i = j => R = {i}
      <3> HAVE i = j
      <3>1. \A x \in R : x = i
        BY <1>1, <2>1
      <3> QED  BY <2>1, <3>1
    <2> DEFINE f == RemoveAt(C, i)
    <2>5. /\ f \in Seq(Redirect) /\ Len(f) = n - 1 /\ DOMAIN f = 1..(n - 1)
          /\ \A k \in 1..(n - 1) : f[k] = IF k < i THEN C[k] ELSE C[k + 1]
      <3>1. i \in 1..Len(C)
        BY <1>2, <2>1
      <3>2. /\ f \in Seq(Redirect) /\ Len(f) = Len(C) - 1
            /\ \A k \in 1..(Len(C) - 1) : f[k] = IF k < i THEN C[k] ELSE C[k + 1]
        BY <1>2, <3>1, RemoveAtFacts
      <3> HIDE DEF f
      <3> QED  BY <1>1, <1>2, <3>2, LenProperties
    <2> HIDE DEF f
    <2>6. PICK q \in Seq(Redirect), m \in Int :
            /\ Erased(S) = q /\ DOMAIN q = 1..m /\ \A k \in 1..m : q[k] = f[k]
            /\ m = IF i = j THEN n - 1 ELSE n - 2
      <3>1. CASE i = j
        <4>1. Erased(S) = f /\ n - 1 \in Int
          BY <1>1, <2>2, <3>1 DEF f
        <4> QED  BY <2>5, <3>1, <4>1
      <3>2. CASE i # j
        <4>1. n - 2 \in Int /\ j \notin DOMAIN f /\ Len(f) # 0
          BY <1>1, <2>3, <2>5, <3>2
        <4>2. Erased(S) = Front(f)
          BY <2>2, <3>2, <4>1 DEF f
        <4>3. f # <<>>
          BY <4>1
        <4>4. /\ Front(f) \in Seq(Redirect) /\ Len(Front(f)) = Len(f) - 1
              /\ \A k \in 1..(Len(f) - 1) : Front(f)[k] = f[k]
          BY <2>5, <4>3, FrontFacts
        <4>5. DOMAIN Front(f) = 1..(n - 2) /\ \A k \in 1..(n - 2) : Front(f)[k] = f[k]
          BY <1>1, <2>5, <4>4, LenProperties
        <4> QED  BY <3>2, <4>1, <4>2, <4>4, <4>5
      <3> QED  BY <3>1, <3>2
    <2> DEFINE e == [k \in 1..m |-> IF k < i THEN k ELSE k + 1]
    <2>7. \A k \in 1..m : e[k] \in (1..n) \ R /\ q[k] = C[e[k]]
      <3> TAKE k \in 1..m
      <3>1. k \in 1..(n - 1) /\ q[k] = f[k] /\ e[k] = IF k < i THEN k ELSE k + 1
        BY <1>1, <2>6
      <3>2. q[k] = C[e[k]] /\ e[k] \in 1..n /\ e[k] # i
        BY <1>1, <2>1, <2>5, <3>1
      <3>3. i # j => e[k] # n
        BY <1>1, <2>1, <2>3, <2>6, <3>1
      <3> QED  BY <2>3, <2>4, <3>2, <3>3
    <2>8. \A x \in (1..n) \ R : \E k \in 1..m : e[k] = x
      <3> TAKE x \in (1..n) \ R
      <3>1. x # i /\ (i # j => x # n) /\ x \in 1..n
        BY <2>1, <2>3
      <3>2. CASE x < i
        <4>1. x \in 1..m
          BY <1>1, <2>1, <2>3, <2>6, <3>1, <3>2
        <4> QED  BY <3>2, <4>1
      <3>3. CASE x > i
        <4>1. x - 1 \in 1..m /\ ~(x - 1 < i) /\ (x - 1) + 1 = x
          BY <1>1, <2>1, <2>6, <3>1, <3>3
        <4> QED  BY <4>1
      <3> QED  BY <1>1, <2>1, <3>1, <3>2, <3>3
    <2>9. \A k, l \in 1..m : e[k] = e[l] => k = l
      BY <1>1, <2>1
    <2>10. e \in [1..m -> (1..n) \ R] /\ \A k, l \in 1..m : k < l => e[k] < e[l]
      BY <1>1, <2>1, <2>7
    <2> HIDE DEF e
    <2>11. Keeps(e, q, stack, R)
      <3>1. \A k \in 1..m : /\ q[k].fd = stack[e[k]].fd /\ q[k].close = stack[e[k]].close
                            /\ q[k].scope # {}
        BY <1>3, <2>7
      <3>2. DOMAIN stack = 1..n /\ DOMAIN q = 1..m
        BY <1>1, <2>6
      <3> QED  BY <2>8, <2>9, <2>10, <3>1, <3>2 DEF Keeps
    <2>12. IsRest(e, q, S)
      BY <2>6, <2>7, <2>10, <2>11 DEF IsRest, C, R
    <2> QED  BY <2>6, <2>12
  <1> QED  BY <1>4, <1>5

(* So what is left owns its descriptors, and no others. *)
LEMMA ErasedOK ==
  ASSUME StackOK(stack), NEW S \in Scope
  PROVE  StackOK(Erased(S)) /\ Owns(Erased(S)) = Owns(stack) \ OwnsAt(stack, Removed(S))
  <1>1. PICK e : IsRest(e, Erased(S), S)
    BY ErasedRest
  <1>2. Keeps(e, Erased(S), stack, Removed(S)) /\ Erased(S) \in Seq(Redirect)
    BY <1>1, ErasedRest DEF IsRest
  <1>3. Removed(S) \in SUBSET DOMAIN stack
    BY DEF Removed
  <1> QED  BY <1>2, <1>3, KeptOK

(***************************************************************************)
(* The actions.                                                            *)
(***************************************************************************)

(* setStdStream() ends with a consistent object, or with none. *)
LEMMA LeaveOK ==
  ASSUME NEW o, NEW stk, StackOK(stk), DescOK(o, Owns(stk)), NEW c, CurOK(o, c), Leave(o, stk, c)
  PROVE  DescOK(Current, Owns(stack))' /\ StackOK(stack)' /\ CurOK(Current, cur)'
  <1> DEFINE d == IF stk = <<>> THEN Destroyed(o, stk) ELSE o
  <1>1. fds' = d.fds /\ bak' = d.bak /\ stack' = stk /\ CurOK(d, cur')
    BY DEF Leave, CurOK
  <1>2. stk = <<>> => Owns(stk) = {}
    BY DEF Owns, ClosingOf
  <1>3. DescOK(d, Owns(stk))
    BY <1>2, DestroyedOK
  <1>4. d = [fds |-> d.fds, bak |-> d.bak]
    BY <1>3 DEF DescOK, Desc
  <1> HIDE DEF d
  <1>5. Current' = d
    BY <1>1, <1>4 DEF Current
  <1>6. StackOK(stack)'
    BY <1>1 DEF StackOK, ClosingOf
  <1>7. Owns(stack)' = Owns(stk)
    BY <1>1 DEF Owns, ClosingOf
  <1>8. DescOK(Current, Owns(stack))'
    BY <1>3, <1>5, <1>7 DEF DescOK, BaksOf
  <1>9. CurOK(Current, cur)'
    BY <1>1, <1>5 DEF CurOK
  <1> QED  BY <1>6, <1>8, <1>9

(* restore() of one stream leaves the backup of the other alone, and its own *)
(* as long as there is a redirection for it.                                 *)
LEMMA RestoreBaks ==
  ASSUME NEW K, NEW o, DescOK(o, K), NEW stk, NEW s \in Stream
  PROVE  /\ \A x \in Stream \ {s} : Restore(o, stk, s).bak[x] = o.bak[x]
         /\ For(stk, s) # {} => Restore(o, stk, s).bak = o.bak
  BY DEF Restore, CloseBak, DescOK, Desc

(* So does redirect(), after the stack has been changed. *)
LEMMA RedoOK ==
  ASSUME NEW o, NEW stk, StackOK(stk), DescOK(o, Owns(stk)), NEW S \in Scope,
         CurOK(o, cur), Redo(o, stk, S)
  PROVE  DescOK(Current, Owns(stack))' /\ StackOK(stack)' /\ CurOK(Current, cur)'
  <1> DEFINE c == IF STDOUT \in S THEN Restored(o, stk, STDOUT) ELSE cur
             a == IF STDOUT \in S THEN Restore(o, stk, STDOUT) ELSE o
             b == IF STDERR \in S THEN Restore(a, stk, STDERR) ELSE a
  <1>1. Leave(b, stk, c)
    BY DEF Redo, Both
  <1>2. c \in FD \cup {InvalidFD}
    BY RestoredType DEF StackOK, CurOK
  <1>3. STDOUT \in Stream /\ STDERR \in Stream /\ STDOUT # STDERR
    BY Numbers DEF Stream
  <1>4. DescOK(a, Owns(stk))
    BY <1>3, RestoreOK
  <1>5. c # InvalidFD => a.bak[STDOUT] # InvalidFD
    <2>1. CASE STDOUT \in S
      <3> HAVE c # InvalidFD
      <3>1. o.bak[STDOUT] # InvalidFD /\ For(stk, STDOUT) # {}
        BY <2>1 DEF Restored
      <3>2. Restore(o, stk, STDOUT).bak = o.bak
        BY <1>3, <3>1, RestoreBaks
      <3> QED  BY <2>1, <3>1, <3>2
    <2>2. CASE STDOUT \notin S
      BY <2>2 DEF CurOK
    <2> QED  BY <2>1, <2>2
  <1> HIDE DEF a, c
  <1>6. DescOK(b, Owns(stk))
    BY <1>3, <1>4, RestoreOK
  <1>7. b.bak[STDOUT] = a.bak[STDOUT]
    BY <1>3, <1>4, RestoreBaks
  <1> HIDE DEF b
  <1>8. CurOK(b, c)
    BY <1>2, <1>5, <1>7 DEF CurOK
  <1> QED  BY <1>1, <1>6, <1>8, LeaveOK

(* A backup that is there stays. *)
LEMMA DupOnceBaks ==
  ASSUME NEW K, NEW o, DescOK(o, K), NEW s \in Stream, NEW c, CurOK(o, c)
  PROVE  CurOK(DupOnce(o, s), c)
  <1>1. STDOUT \in Stream
    BY DEF Stream
  <1>2. o.bak[STDOUT] # InvalidFD => DupOnce(o, s).bak[STDOUT] = o.bak[STDOUT]
    BY <1>1 DEF DupOnce, DescOK, Desc
  <1> QED  BY <1>2 DEF CurOK

(* Backups for both streams of a scope. *)
LEMMA DupBothOK ==
  ASSUME NEW K, NEW o, DescOK(o, K), NEW S, NEW c, CurOK(o, c)
  PROVE  DescOK(Both(DupOnce, o, S), K) /\ CurOK(Both(DupOnce, o, S), c)
  <1> DEFINE a == IF STDOUT \in S THEN DupOnce(o, STDOUT) ELSE o
  <1>1. STDOUT \in Stream /\ STDERR \in Stream
    BY DEF Stream
  <1>2. DescOK(a, K)
    BY <1>1, DupOnceOK
  <1>3. Both(DupOnce, o, S) = IF STDERR \in S THEN DupOnce(a, STDERR) ELSE a
    BY DEF Both
  <1>4. CurOK(a, c)
    BY <1>1, DupOnceBaks
  <1> HIDE DEF a
  <1> QED  BY <1>1, <1>2, <1>3, <1>4, DupOnceOK, DupOnceBaks

(* The program starts with nothing redirected. *)
LEMMA InitIInv == Init => IInv
  <1> SUFFICES ASSUME Init PROVE IInv
    OBVIOUS
  <1>1. StackOK(stack) /\ Owns(stack) = {}
    BY DEF Init, StackOK, Owns, ClosingOf
  <1>2. fds \in [Stream \cup FD -> Target \cup {Closed}] /\ bak \in [Stream -> FD \cup {InvalidFD}]
    BY DEF Init, Target
  <1>3. Current \in Desc /\ Current.fds = fds /\ Current.bak = bak
    BY <1>2 DEF Current, Desc
  <1>4. BaksOf(Current) = {} /\ {d \in FD : Current.fds[d] # Closed} = {}
    BY <1>3, Numbers DEF Init, BaksOf
  <1>5. \A s \in Stream : Current.bak[s] = InvalidFD /\ Current.fds[s] = s
    BY <1>3 DEF Init
  <1>6. STDOUT \in Stream
    BY DEF Stream
  <1>7. DescOK(Current, Owns(stack))
    BY <1>1, <1>3, <1>4, <1>5, <1>6 DEF DescOK
  <1> QED  BY <1>1, <1>7 DEF Init, IInv, CurOK

(* Every action keeps the descriptors owned and the originals safe. *)
LEMMA NextIInv == IInv /\ [Next]_vars => IInv'
  <1> SUFFICES ASSUME IInv, [Next]_vars PROVE IInv'
    OBVIOUS
  <1> DEFINE Kept == DescOK(Current, Owns(stack))' /\ StackOK(stack)' /\ CurOK(Current, cur)'
  <1>1. /\ DescOK(Current, Owns(stack)) /\ StackOK(stack) /\ CurOK(Current, cur)
        /\ Current.fds = fds /\ Current.bak = bak
        /\ Current = [fds |-> fds, bak |-> bak]
    BY DEF IInv, Current
  <1>2. Kept /\ UNCHANGED modes /\ prompt' \in BOOLEAN => IInv'
    BY DEF IInv, modes
  <1>3. prompt \in BOOLEAN
    BY DEF IInv
  <1>4. ASSUME UNCHANGED <<fds, bak, stack, cur>>
        PROVE  Kept
    <2>1. Current' = Current /\ stack' = stack /\ cur' = cur
      BY <1>4 DEF Current
    <2> QED  BY <1>1, <2>1 DEF DescOK, BaksOf, Owns, ClosingOf, StackOK, CurOK
  <1>5. ASSUME NEW S \in Scope, NEW f \in File, AddFile(f, S)
        PROVE  IInv'
    <2> DEFINE d == Lowest(fds)
               o == [fds |-> Opened(fds, d, f), bak |-> bak]
               r == [fd |-> d, scope |-> S, close |-> TRUE, target |-> f]
    <2>1. d # InvalidFD /\ Redo(Both(DupOnce, o, S), Append(stack, r), S) /\ UNCHANGED <<prompt, modes>>
      BY <1>5 DEF AddFile
    <2>2. d \in FD \ Owns(stack) /\ DescOK(o, Owns(stack) \cup {d}) /\ CurOK(o, cur)
      <3>1. o = [Current EXCEPT !.fds = Opened(Current.fds, d, f)]
        BY <1>1
      <3> QED  BY <1>1, <2>1, <3>1, OpenedOK DEF CurOK
    <2> HIDE DEF d
    <2>3. r \in Redirect /\ r.close /\ r.fd = d /\ r.scope # {}
      BY <2>2 DEF Redirect, Scope, Target
    <2> HIDE DEF o, r
    <2>4. StackOK(Append(stack, r)) /\ Owns(Append(stack, r)) = Owns(stack) \cup {d}
      BY <1>1, <2>2, <2>3, AppendOK
    <2>5. DescOK(Both(DupOnce, o, S), Owns(Append(stack, r))) /\ CurOK(Both(DupOnce, o, S), cur)
      BY <2>2, <2>4, DupBothOK
    <2>6. Kept
      BY <2>1, <2>4, <2>5, RedoOK
    <2> QED  BY <1>2, <1>3, <2>1, <2>6
  <1>6. ASSUME NEW S \in Scope, AddBadFile(S)
        PROVE  IInv'
    <2> DEFINE r == [fd |-> InvalidFD, scope |-> S, close |-> FALSE, target |-> BadFile]
    <2>1. r \in Redirect /\ ~r.close /\ r.scope # {}
      BY DEF Redirect, Scope, Target
    <2>2. stack' = Append(stack, r) /\ UNCHANGED <<fds, bak, cur, prompt, modes>>
      BY <1>6 DEF AddBadFile
    <2> HIDE DEF r
    <2>3. StackOK(Append(stack, r)) /\ Owns(Append(stack, r)) = Owns(stack)
      BY <1>1, <2>1, AppendOK
    <2>4. StackOK(stack)' /\ Owns(stack)' = Owns(stack) /\ Current' = Current
      BY <2>2, <2>3 DEF StackOK, Owns, ClosingOf, Current
    <2>5. DescOK(Current, Owns(stack))' /\ CurOK(Current, cur)'
      BY <1>1, <2>2, <2>4 DEF DescOK, BaksOf, CurOK
    <2> QED  BY <1>1, <1>2, <1>3, <2>2, <2>4, <2>5
  <1>7. ASSUME NEW S \in Scope, NEW s \in Stream, AddStream(s, S)
        PROVE  IInv'
    <2> DEFINE o == DupOnce(Current, s)
               r == [fd |-> o.bak[s], scope |-> S, close |-> FALSE, target |-> s]
    <2>1. Redo(Both(DupOnce, o, S), Append(stack, r), S) /\ UNCHANGED <<prompt, modes>>
      BY <1>7 DEF AddStream, Current
    <2>2. DescOK(o, Owns(stack)) /\ CurOK(o, cur)
      BY <1>1, DupOnceOK, DupOnceBaks
    <2> HIDE DEF o
    <2>3. r \in Redirect /\ ~r.close /\ r.scope # {}
      BY <2>2 DEF Redirect, Scope, Target, DescOK, Desc
    <2> HIDE DEF r
    <2>4. StackOK(Append(stack, r)) /\ Owns(Append(stack, r)) = Owns(stack)
      BY <1>1, <2>3, AppendOK
    <2>5. DescOK(Both(DupOnce, o, S), Owns(Append(stack, r))) /\ CurOK(Both(DupOnce, o, S), cur)
      BY <2>2, <2>4, DupBothOK
    <2>6. Kept
      BY <2>1, <2>4, <2>5, RedoOK
    <2> QED  BY <1>2, <1>3, <2>1, <2>6
  <1>8. ASSUME NEW S \in Scope, Unredirect(S)
        PROVE  IInv'
    <2> DEFINE o == [fds |-> CloseEntries(fds, stack, Removed(S)), bak |-> bak]
    <2>1. Redo(o, Erased(S), S) /\ UNCHANGED <<prompt, modes>>
      BY <1>8 DEF Unredirect
    <2>2. Removed(S) \in SUBSET DOMAIN stack
      BY DEF Removed
    <2>3. o = [Current EXCEPT !.fds = CloseEntries(Current.fds, stack, Removed(S))]
      BY <1>1
    <2>4. DescOK(o, Owns(stack) \ OwnsAt(stack, Removed(S)))
      BY <1>1, <2>2, <2>3, CloseEntriesOK
    <2>5. CurOK(o, cur)
      BY <1>1 DEF CurOK
    <2> HIDE DEF o
    <2>6. StackOK(Erased(S)) /\ DescOK(o, Owns(Erased(S)))
      BY <1>1, <2>4, ErasedOK
    <2>7. Kept
      BY <2>1, <2>5, <2>6, RedoOK
    <2> QED  BY <1>2, <1>3, <2>1, <2>7
  <1>9. CASE Exit
    <2>1. Leave(Destroyed(Current, stack), <<>>, InvalidFD) /\ UNCHANGED <<prompt, modes>>
      BY <1>9 DEF Exit, Current
    <2>2. StackOK(<<>>) /\ Owns(<<>>) = {}
      BY DEF StackOK, Owns, ClosingOf
    <2>3. DescOK(Destroyed(Current, stack), Owns(<<>>))
      BY <1>1, <2>2, DestroyedOK
    <2>4. Kept
      BY <2>1, <2>2, <2>3, LeaveOK DEF CurOK
    <2> QED  BY <1>2, <1>3, <2>1, <2>4
  <1>10. ASSUME prompt' \in BOOLEAN, UNCHANGED <<stack, bak, cur, modes>>, NEW from,
                \/ fds' = fds
                \/ bak[STDOUT] # InvalidFD /\ fds' = Dup2(fds, from, STDOUT)
         PROVE  IInv'
    <2>1. Owns(stack)' = Owns(stack) /\ StackOK(stack)'
      BY <1>1, <1>10 DEF Owns, ClosingOf, StackOK
    <2>2. DescOK(Current', Owns(stack))
      <3>1. CASE fds' = fds
        BY <1>1, <1>10, <3>1 DEF Current
      <3>2. CASE bak[STDOUT] # InvalidFD /\ fds' = Dup2(fds, from, STDOUT)
        <4>1. STDOUT \in Stream
          BY DEF Stream
        <4>2. Current' = [Current EXCEPT !.fds = Dup2(Current.fds, from, STDOUT)]
          BY <1>10, <3>2 DEF Current
        <4> QED  BY <1>1, <3>2, <4>1, <4>2, Dup2OK
      <3> QED  BY <1>10, <3>1, <3>2
    <2>3. DescOK(Current, Owns(stack))'
      BY <2>1, <2>2 DEF DescOK, BaksOf
    <2>4. CurOK(Current, cur)'
      BY <1>1, <1>10 DEF CurOK, Current
    <2> QED  BY <1>2, <1>10, <2>1, <2>3, <2>4
  <1>11. CASE ReadLine
    <2>1. /\ prompt' = TRUE /\ UNCHANGED <<stack, bak, cur, modes>>
          /\ fds' = fds \/ fds' = Dup2(fds, bak[STDOUT], STDOUT)
      BY <1>11 DEF ReadLine
    <2>2. bak[STDOUT] = InvalidFD => Dup2(fds, bak[STDOUT], STDOUT) = fds
      BY Numbers DEF Dup2
    <2> QED  BY <1>10, <2>1, <2>2
  <1>12. CASE LineRead
    <2>1. /\ prompt' = FALSE /\ UNCHANGED <<stack, bak, cur, modes>>
          /\ fds' = fds \/ fds' = Dup2(fds, cur, STDOUT)
      BY <1>12 DEF LineRead
    <2>2. cur = InvalidFD => Dup2(fds, cur, STDOUT) = fds
      BY Numbers DEF Dup2
    <2> QED  BY <1>1, <1>10, <2>1, <2>2 DEF CurOK
  <1>13. CASE UNCHANGED vars
    BY <1>2, <1>3, <1>4, <1>13 DEF vars
  <1> QED  BY <1>5, <1>6, <1>7, <1>8, <1>9, <1>11, <1>12, <1>13 DEF Next

(* IInv is what the properties that are proved say, and more. *)
LEMMA IInvImplies == IInv => TypeOK /\ FDsOwned /\ OriginalsKept
  <1> SUFFICES ASSUME IInv PROVE TypeOK /\ FDsOwned /\ OriginalsKept
    OBVIOUS
  <1>1. /\ DescOK(Current, Owns(stack)) /\ StackOK(stack)
        /\ Current.fds = fds /\ Current.bak = bak
    BY DEF IInv, Current
  <1>2. fds \in [Stream \cup FD -> Target \cup {Closed}] /\ bak \in [Stream -> FD \cup {InvalidFD}]
    BY <1>1 DEF DescOK, Desc
  <1>3. TypeOK
    BY <1>1, <1>2 DEF TypeOK, IInv, CurOK, StackOK
  <1>4. /\ BaksOf(Current) = Backups /\ Owns(stack) = {stack[i].fd : i \in Closing}
        /\ ClosingOf(stack) = Closing
    BY <1>1 DEF BaksOf, Backups, Owns, Closing, ClosingOf
  <1>5. FDsOwned
    <2>1. {d \in FD : fds[d] # Closed} = Backups \cup {stack[i].fd : i \in Closing}
      BY <1>1, <1>4 DEF DescOK
    <2>2. \A i \in Closing : stack[i].fd \notin Backups
      BY <1>1, <1>4 DEF DescOK
    <2>3. \A i, j \in Closing : stack[i].fd = stack[j].fd => i = j
      BY <1>1, <1>4 DEF StackOK
    <2> QED  BY <1>1, <2>1, <2>2, <2>3 DEF FDsOwned, DescOK
  <1>6. OriginalsKept
    BY <1>1 DEF OriginalsKept, DescOK
  <1> QED  BY <1>3, <1>5, <1>6

(***************************************************************************)
(* Where output goes.                                                      *)
(***************************************************************************)

(* The descriptor table holds the files and the backups of as many           *)
(* redirections as there may be.                                             *)
Roomy == MaxStack \in Nat /\ MaxFD >= MaxStack + 4

(* Every entry has opened the file it was meant for. *)
Entries(o, stk) ==
  \A i \in DOMAIN stk :
    stk[i].close /\ stk[i].fd \in FD /\ o.fds[stk[i].fd] = stk[i].target

Backed(o, stk, s) == o.bak[s] # InvalidFD <=> For(stk, s) # {}

Connected(o, stk, s) == For(stk, s) # {} => o.fds[s] = stk[LastFor(stk, s)].target

(* m_CurStdOut is what stdout is connected to. *)
CurFollows(stk, c) == For(stk, STDOUT) # {} => c = stk[LastFor(stk, STDOUT)].fd

Plain == ~streams /\ ~failing

FilesFollow ==
  /\ Len(stack) <= MaxStack
  /\ Entries(Current, stack)
  /\ \A s \in Stream : Backed(Current, stack, s)
  /\ \A s \in Stream : Connected(Current, stack, s) \/ (prompt /\ tty /\ s = STDOUT)
  /\ CurFollows(stack, cur)

GoInv ==
  /\ stack = <<>> => \A s \in Stream : bak[s] = InvalidFD
  /\ PromptOnTerminal
  /\ Plain => FilesFollow

(* A table with fewer entries and backups than places has a free one. *)
LEMMA FreeFD ==
  ASSUME Roomy, NEW o, NEW stk, StackOK(stk), DescOK(o, Owns(stk)), Len(stk) <= MaxStack,
         NEW s \in Stream, o.bak[s] = InvalidFD
  PROVE  Lowest(o.fds) # InvalidFD
  <1>0. PICK n \in Nat : n = Len(stk)
    BY LenProperties DEF StackOK
  <1>1. n <= MaxStack /\ DOMAIN stk = 1..n /\ MaxFD \in Nat
    BY <1>0, RedirectAssumption, LenProperties DEF StackOK
  <1> DEFINE free == {d \in FD : o.fds[d] = Closed}
  <1>2. free # {}
    <2> SUFFICES ASSUME free = {}  PROVE FALSE
      OBVIOUS
    <2>1. FD \subseteq BaksOf(o) \cup Owns(stk)
      BY DEF DescOK
    <2>2. PICK x : BaksOf(o) \subseteq {x}
      <3>1. PICK r \in Stream : \A q \in Stream : q = s \/ q = r
        BY DEF Stream
      <3>2. BaksOf(o) \subseteq {o.bak[r]}
        BY <3>1 DEF BaksOf
      <3> QED  BY <3>2
    <2> DEFINE f == [i \in 1..(n + 1) |-> IF i <= n THEN stk[i].fd ELSE x]
               T == {f[i] : i \in 1..(n + 1)}
    <2>3. FD \subseteq T
      <3> SUFFICES ASSUME NEW d \in FD  PROVE \E i \in 1..(n + 1) : d = f[i]
        OBVIOUS
      <3>1. CASE d \in BaksOf(o)
        <4>1. n + 1 \in 1..(n + 1) /\ ~(n + 1 <= n)
          OBVIOUS
        <4> QED  BY <2>2, <3>1, <4>1
      <3>2. CASE d \in Owns(stk)
        <4>1. PICK i \in 1..n : d = stk[i].fd
          BY <1>1, <3>2 DEF Owns, ClosingOf
        <4>2. i \in 1..(n + 1) /\ i <= n
          OBVIOUS
        <4> QED  BY <4>1, <4>2
      <3> QED  BY <2>1, <3>1, <3>2
    <2>4. f \in Surjection(1..(n + 1), T)
      BY DEF Surjection
    <2> HIDE DEF f, T
    <2>5. IsFiniteSet(1..(n + 1)) /\ Cardinality(1..(n + 1)) = n + 1
      BY FS_Interval
    <2>6. IsFiniteSet(T) /\ Cardinality(T) <= n + 1
      BY <2>4, <2>5, FS_Surjection
    <2>7. Cardinality(FD) <= Cardinality(T) /\ Cardinality(T) \in Nat
      BY <2>3, <2>6, FS_Subset, FS_CardinalityType
    <2>8. Cardinality(FD) = MaxFD - 2
      <3>1. Cardinality(3..MaxFD) = IF 3 > MaxFD THEN 0 ELSE MaxFD - 3 + 1
        BY <1>1, FS_Interval
      <3> QED  BY <1>1, <3>1 DEF FD, Roomy
    <2> QED  BY <1>1, <2>6, <2>7, <2>8 DEF Roomy
  <1>3. free \in SUBSET (1..MaxFD)
    BY <1>1 DEF FD
  <1>4. Min(free) \in free
    BY <1>1, <1>2, <1>3, Extremes
  <1> QED  BY <1>2, <1>4, Numbers DEF Lowest

(* What is redirected goes somewhere. *)
LEMMA EntryTarget ==
  ASSUME NEW stk, StackOK(stk), NEW i \in DOMAIN stk
  PROVE  stk[i] \in Redirect /\ stk[i].target # Closed
  <1>1. PICK n \in Nat : n = Len(stk)
    BY LenProperties DEF StackOK
  <1>2. i \in 1..n
    BY <1>1, LenProperties DEF StackOK
  <1>3. stk[i] \in Redirect
    BY <1>1, <1>2, ElementOfSeq DEF StackOK
  <1> QED  BY <1>3, Numbers DEF Redirect

(* dup() of the backup leaves everything else alone. *)
LEMMA DupFollows ==
  ASSUME Roomy, NEW o, NEW stk, StackOK(stk), DescOK(o, Owns(stk)), Len(stk) <= MaxStack,
         Entries(o, stk), NEW s \in Stream
  PROVE  LET p == DupOnce(o, s)
         IN  /\ DescOK(p, Owns(stk)) /\ Entries(p, stk)
             /\ p.bak[s] # InvalidFD
             /\ \A x \in Stream : p.fds[x] = o.fds[x]
             /\ \A x \in Stream \ {s} : p.bak[x] = o.bak[x]
  <1> DEFINE p == DupOnce(o, s)
             d == Lowest(o.fds)
  <1>1. DescOK(p, Owns(stk))
    BY DupOnceOK
  <1>2. CASE o.bak[s] # InvalidFD
    BY <1>1, <1>2 DEF DupOnce
  <1>3. CASE o.bak[s] = InvalidFD
    <2>1. d # InvalidFD
      BY <1>3, FreeFD
    <2>2. d \in FD /\ o.fds[d] = Closed
      BY <2>1, LowestFacts
    <2>3. p = [fds |-> [o.fds EXCEPT ![d] = o.fds[s]], bak |-> [o.bak EXCEPT ![s] = d]]
      BY <1>3, <2>1 DEF DupOnce, Opened
    <2> HIDE DEF d, p
    <2>4. /\ p.bak[s] = d /\ \A x \in Stream \ {s} : p.bak[x] = o.bak[x]
          /\ \A x \in (Stream \cup FD) \ {d} : p.fds[x] = o.fds[x]
      BY <2>3 DEF DescOK, Desc
    <2>5. Entries(p, stk)
      <3> SUFFICES ASSUME NEW i \in DOMAIN stk
                   PROVE  stk[i].close /\ stk[i].fd \in FD /\ p.fds[stk[i].fd] = stk[i].target
        BY DEF Entries
      <3>1. stk[i].close /\ stk[i].fd \in FD /\ o.fds[stk[i].fd] = stk[i].target
        BY DEF Entries
      <3>2. stk[i].target # Closed
        BY EntryTarget
      <3> QED  BY <2>2, <2>4, <3>1, <3>2
    <2>6. \A x \in Stream : p.fds[x] = o.fds[x]
      BY <2>2, <2>4, Numbers
    <2> QED  BY <1>1, <2>1, <2>4, <2>5, <2>6 DEF p
  <1> QED  BY <1>2, <1>3

(* restore() connects the stream to the last entry for it, or to what it was. *)
LEMMA RestoreFollows ==
  ASSUME NEW o, NEW stk, StackOK(stk), DescOK(o, Owns(stk)), Entries(o, stk), NEW s \in Stream,
         For(stk, s) # {} => o.bak[s] # InvalidFD
  PROVE  LET p == Restore(o, stk, s)
         IN  /\ DescOK(p, Owns(stk)) /\ Entries(p, stk)
             /\ Backed(p, stk, s) /\ Connected(p, stk, s)
             /\ \A x \in Stream \ {s} : p.fds[x] = o.fds[x] /\ p.bak[x] = o.bak[x]
  <1> DEFINE p == Restore(o, stk, s)
  <1>1. DescOK(p, Owns(stk))
    BY RestoreOK
  <1>2. \A i \in DOMAIN stk : /\ stk[i].close /\ stk[i].fd \in FD /\ stk[i].fd \in Owns(stk)
                              /\ o.fds[stk[i].fd] = stk[i].target /\ stk[i].target # Closed
    BY EntryTarget DEF Entries, Owns, ClosingOf
  <1>3. CASE For(stk, s) # {}
    <2> DEFINE d == stk[LastFor(stk, s)].fd
    <2>1. LastFor(stk, s) \in DOMAIN stk
      BY <1>3, LastForFacts DEF StackOK
    <2>2. d \in FD /\ o.fds[d] = stk[LastFor(stk, s)].target /\ o.fds[d] # Closed
      BY <1>2, <2>1
    <2>3. p.fds = [o.fds EXCEPT ![s] = o.fds[d]] /\ p.bak = o.bak
      BY <1>3, <2>2 DEF Restore, Dup2, DescOK, Desc
    <2> HIDE DEF d, p
    <2>4. p.fds[s] = o.fds[d] /\ \A x \in (Stream \cup FD) \ {s} : p.fds[x] = o.fds[x]
      BY <2>3 DEF DescOK, Desc
    <2>5. Entries(p, stk)
      BY <1>2, <2>4, Numbers DEF Entries
    <2>6. Backed(p, stk, s) /\ Connected(p, stk, s)
      BY <1>3, <2>2, <2>3, <2>4 DEF Backed, Connected
    <2> QED  BY <1>1, <2>3, <2>4, <2>5, <2>6 DEF p
  <1>4. CASE For(stk, s) = {} /\ o.bak[s] = InvalidFD
    <2>1. p = o
      BY <1>4 DEF Restore
    <2> QED  BY <1>4, <2>1 DEF Backed, Connected
  <1>5. CASE For(stk, s) = {} /\ o.bak[s] # InvalidFD
    <2> DEFINE d == o.bak[s]
    <2>1. p = CloseBak(o, s)
      BY <1>5 DEF Restore
    <2>2. d \in BaksOf(o) /\ d \in FD /\ d \notin Owns(stk)
      BY <1>5 DEF BaksOf, DescOK, Desc
    <2>3. p.bak = [o.bak EXCEPT ![s] = InvalidFD]
      BY <1>5, <2>1 DEF CloseBak
    <2>4. p.fds = [Dup2(o.fds, d, s) EXCEPT ![d] = Closed]
      BY <1>5, <2>1 DEF CloseBak
    <2>5. \A x \in (Stream \cup FD) \ {s, d} : p.fds[x] = o.fds[x]
      BY <2>4 DEF DescOK, Desc, Dup2
    <2> HIDE DEF d, p
    <2>6. Entries(p, stk)
      BY <1>2, <2>2, <2>5, Numbers DEF Entries
    <2>7. Backed(p, stk, s) /\ Connected(p, stk, s)
      BY <1>5, <2>3 DEF Backed, Connected, DescOK, Desc
    <2>8. \A x \in Stream \ {s} : p.bak[x] = o.bak[x] /\ p.fds[x] = o.fds[x]
      BY <2>2, <2>3, <2>5, Numbers DEF DescOK, Desc
    <2> QED  BY <1>1, <2>6, <2>7, <2>8 DEF p
  <1> QED  BY <1>3, <1>4, <1>5

(* An object that goes has put both streams back. *)
LEMMA DestroyedBaks ==
  ASSUME NEW o, NEW stk, StackOK(stk), DescOK(o, Owns(stk))
  PROVE  \A s \in Stream : Destroyed(o, stk).bak[s] = InvalidFD
  <1> DEFINE a == CloseBak(o, STDOUT)
             b == CloseBak(a, STDERR)
  <1>1. STDOUT \in Stream /\ STDERR \in Stream /\ \A s \in Stream : s = STDOUT \/ s = STDERR
    BY DEF Stream
  <1>2. Both(CloseBak, o, Stream) = b
    BY <1>1 DEF Both
  <1>3. DescOK(a, Owns(stk)) /\ a.bak[STDOUT] = InvalidFD
    BY <1>1, CloseBakOK
  <1> HIDE DEF a
  <1>4. DescOK(b, Owns(stk)) /\ \A s \in Stream : b.bak[s] = InvalidFD
    <2>1. /\ DescOK(b, Owns(stk)) /\ b.bak[STDERR] = InvalidFD
          /\ \A x \in Stream : a.bak[x] = InvalidFD => b.bak[x] = InvalidFD
      BY <1>1, <1>3, CloseBakOK
    <2> QED  BY <1>1, <1>3, <2>1
  <1> HIDE DEF b
  <1>5. Destroyed(o, stk).bak = b.bak
    BY <1>2, <1>4 DEF Destroyed, DescOK, Desc
  <1> QED  BY <1>4, <1>5

(* The object ends up with what it had, or without anything. *)
LEMMA LeaveEmpty ==
  ASSUME NEW o, NEW stk, StackOK(stk), DescOK(o, Owns(stk)), NEW c, Leave(o, stk, c)
  PROVE  /\ stack' = <<>> => \A s \in Stream : bak'[s] = InvalidFD
         /\ stack' = stk
         /\ stk # <<>> => fds' = o.fds /\ bak' = o.bak /\ cur' = c
  BY DestroyedBaks DEF Leave

Files(o, stk, c) ==
  /\ Len(stk) <= MaxStack
  /\ Entries(o, stk)
  /\ \A s \in Stream : Backed(o, stk, s) /\ Connected(o, stk, s)
  /\ CurFollows(stk, c)

LEMMA ForEmpty == \A s : For(<<>>, s) = {}
  BY DEF For

(* Nothing has to follow if nothing is redirected. *)
LEMMA LeaveFollows ==
  ASSUME NEW o, NEW stk, StackOK(stk), DescOK(o, Owns(stk)), NEW c, Leave(o, stk, c),
         stk # <<>> => Files(o, stk, c), Roomy
  PROVE  Files(Current, stack, cur)'
  <1>1. CASE stk = <<>>
    <2>1. stack' = <<>> /\ \A s \in Stream : Current'.bak[s] = InvalidFD
      BY <1>1, LeaveEmpty DEF Current
    <2>2. Len(<<>>) <= MaxStack /\ DOMAIN <<>> = {}
      BY DEF Roomy
    <2> QED
      BY <2>1, <2>2, ForEmpty DEF Files, Entries, Backed, Connected, CurFollows
  <1>2. CASE stk # <<>>
    <2>1. stack' = stk /\ Current'.fds = o.fds /\ Current'.bak = o.bak /\ cur' = c
      BY <1>2, LeaveEmpty DEF Current
    <2>2. Files(o, stk, c)
      BY <1>2
    <2> QED  BY <2>1, <2>2 DEF Files, Entries, Backed, Connected, CurFollows
  <1> QED  BY <1>1, <1>2

(* redirect() leaves both streams where the stack says, if the streams that it *)
(* does not touch were there before.                                           *)
LEMMA RedoFollows ==
  ASSUME Roomy, NEW o, NEW stk, StackOK(stk), DescOK(o, Owns(stk)), NEW S \in Scope,
         Redo(o, stk, S), Len(stk) <= MaxStack, Entries(o, stk),
         \A s \in Stream : For(stk, s) # {} => o.bak[s] # InvalidFD,
         \A s \in Stream \ S : Backed(o, stk, s) /\ Connected(o, stk, s),
         STDOUT \notin S => CurFollows(stk, cur)
  PROVE  Files(Current, stack, cur)'
  <1> DEFINE c == IF STDOUT \in S THEN Restored(o, stk, STDOUT) ELSE cur
             a == IF STDOUT \in S THEN Restore(o, stk, STDOUT) ELSE o
             b == IF STDERR \in S THEN Restore(a, stk, STDERR) ELSE a
  <1>1. Leave(b, stk, c)
    BY DEF Redo, Both
  <1>2. STDOUT \in Stream /\ STDERR \in Stream /\ STDOUT # STDERR
        /\ \A s \in Stream : s = STDOUT \/ s = STDERR
    BY Numbers DEF Stream
  <1>3. CurFollows(stk, c)
    BY <1>2 DEF CurFollows, Restored
  <1>4. /\ DescOK(a, Owns(stk)) /\ Entries(a, stk)
        /\ Backed(a, stk, STDOUT) /\ Connected(a, stk, STDOUT)
        /\ a.fds[STDERR] = o.fds[STDERR] /\ a.bak[STDERR] = o.bak[STDERR]
    <2>1. CASE STDOUT \in S
      BY <1>2, <2>1, RestoreFollows
    <2>2. CASE STDOUT \notin S
      BY <1>2, <2>2
    <2> QED  BY <2>1, <2>2
  <1> HIDE DEF a, c
  <1>5. /\ DescOK(b, Owns(stk)) /\ Entries(b, stk)
        /\ Backed(b, stk, STDERR) /\ Connected(b, stk, STDERR)
        /\ b.fds[STDOUT] = a.fds[STDOUT] /\ b.bak[STDOUT] = a.bak[STDOUT]
    <2>1. CASE STDERR \in S
      <3>1. For(stk, STDERR) # {} => a.bak[STDERR] # InvalidFD
        BY <1>2, <1>4
      <3> QED  BY <1>2, <1>4, <2>1, <3>1, RestoreFollows
    <2>2. CASE STDERR \notin S
      <3>1. Backed(o, stk, STDERR) /\ Connected(o, stk, STDERR)
        BY <1>2, <2>2
      <3> QED  BY <1>4, <2>2, <3>1 DEF Backed, Connected
    <2> QED  BY <2>1, <2>2
  <1> HIDE DEF b
  <1>6. Backed(b, stk, STDOUT) /\ Connected(b, stk, STDOUT)
    BY <1>4, <1>5 DEF Backed, Connected
  <1>7. Files(b, stk, c)
    BY <1>2, <1>3, <1>5, <1>6 DEF Files
  <1> QED  BY <1>1, <1>5, <1>7, LeaveFollows

(* push() of a redirection: the last one for the streams of its scope, and   *)
(* nothing to the others.                                                    *)
LEMMA AppendFor ==
  ASSUME NEW stk, StackOK(stk), NEW r \in Redirect
  PROVE  LET q == Append(stk, r)
         IN  /\ q[Len(stk) + 1] = r
             /\ \A s \in r.scope : For(q, s) # {} /\ LastFor(q, s) = Len(stk) + 1
             /\ \A s \in Stream \ r.scope :
                  /\ For(q, s) = For(stk, s)
                  /\ For(q, s) # {} => q[LastFor(q, s)] = stk[LastFor(stk, s)]
  <1> DEFINE q == Append(stk, r)
  <1>1. PICK n \in Nat : n = Len(stk)
    BY LenProperties DEF StackOK
  <1>2. /\ q \in Seq(Redirect) /\ DOMAIN stk = 1..n /\ DOMAIN q = 1..(n + 1)
        /\ q[n + 1] = r /\ \A i \in 1..n : q[i] = stk[i]
    BY <1>1, LenProperties DEF StackOK
  <1> HIDE DEF q
  <1>3. ASSUME NEW s \in r.scope
        PROVE  For(q, s) # {} /\ LastFor(q, s) = n + 1
    <2>1. n + 1 \in For(q, s)
      BY <1>2 DEF For
    <2>2. LastFor(q, s) \in 1..(n + 1) /\ n + 1 <= LastFor(q, s)
      BY <1>2, <2>1, LastForFacts DEF For
    <2> QED  BY <2>1, <2>2
  <1>4. ASSUME NEW s \in Stream \ r.scope
        PROVE  /\ For(q, s) = For(stk, s)
               /\ For(q, s) # {} => q[LastFor(q, s)] = stk[LastFor(stk, s)]
    <2>1. For(q, s) = For(stk, s)
      <3>1. \A i \in 1..(n + 1) : i = n + 1 \/ i \in 1..n
        OBVIOUS
      <3> QED  BY <1>2, <3>1 DEF For
    <2>2. LastFor(q, s) = LastFor(stk, s)
      BY <2>1 DEF LastFor
    <2>3. For(stk, s) # {} => LastFor(stk, s) \in 1..n
      BY <1>2, LastForFacts DEF StackOK
    <2> QED  BY <1>2, <2>1, <2>2, <2>3
  <1> QED  BY <1>1, <1>2, <1>3, <1>4 DEF q

(* Undoing redirections takes nothing from the other streams. *)
LEMMA ErasedFor ==
  ASSUME StackOK(stack), NEW S \in Scope, NEW q \in Seq(Redirect), NEW e, IsRest(e, q, S)
  PROVE  /\ \A s \in Stream : For(q, s) # {} => For(stack, s) # {}
         /\ \A s \in Stream \ S : For(stack, s) # {} =>
              /\ For(q, s) # {}
              /\ q[LastFor(q, s)].fd = stack[LastFor(stack, s)].fd
              /\ q[LastFor(q, s)].target = stack[LastFor(stack, s)].target
  <1>1. PICK n \in Nat, m \in Nat : DOMAIN stack = 1..n /\ n = Len(stack) /\ DOMAIN q = 1..m
    BY LenProperties DEF StackOK
  <1>2. \A k \in 1..m : /\ e[k] \in (1..n) \ Removed(S) /\ q[k] = Cleared(S)[e[k]]
                        /\ \A l \in 1..m : k < l => e[k] < e[l]
    BY <1>1 DEF IsRest, Keeps
  <1>3. \A i \in (1..n) \ Removed(S) : \E k \in 1..m : e[k] = i
    BY <1>1 DEF IsRest, Keeps
  <1>4. ASSUME NEW s \in Stream, NEW i \in 1..n
        PROVE  /\ s \in Cleared(S)[i].scope => s \in stack[i].scope
               /\ s \notin S /\ s \in stack[i].scope => s \in Cleared(S)[i].scope
               /\ Cleared(S)[i].target = stack[i].target /\ Cleared(S)[i].fd = stack[i].fd
    BY <1>1, ClearedFacts
  <1>5. ASSUME NEW s \in Stream, For(q, s) # {}
        PROVE  For(stack, s) # {}
    <2>1. PICK k \in 1..m : s \in q[k].scope
      BY <1>1, <1>5 DEF For
    <2>2. s \in stack[e[k]].scope /\ e[k] \in 1..n
      BY <1>2, <1>4, <2>1
    <2> QED  BY <1>1, <2>2 DEF For
  <1>6. ASSUME NEW s \in Stream \ S, For(stack, s) # {}
        PROVE  /\ For(q, s) # {}
               /\ q[LastFor(q, s)].fd = stack[LastFor(stack, s)].fd
               /\ q[LastFor(q, s)].target = stack[LastFor(stack, s)].target
    <2> DEFINE l == LastFor(stack, s)
               h == LastFor(q, s)
    <2>1. l \in 1..n /\ s \in stack[l].scope /\ \A i \in 1..n : s \in stack[i].scope => i <= l
      BY <1>1, <1>6, LastForFacts DEF StackOK
    <2>2. s \in Cleared(S)[l].scope
      BY <1>4, <2>1
    <2>3. l \notin Removed(S)
      BY <2>2 DEF Removed
    <2>4. PICK k \in 1..m : e[k] = l
      BY <1>3, <2>1, <2>3
    <2>5. s \in q[k].scope /\ k \in For(q, s)
      BY <1>1, <1>2, <2>2, <2>4 DEF For
    <2>6. h \in 1..m /\ s \in q[h].scope /\ k <= h
      BY <1>1, <2>5, LastForFacts DEF For
    <2> HIDE DEF l, h
    <2>7. e[h] \in 1..n /\ s \in stack[e[h]].scope
      BY <1>2, <1>4, <2>6
    <2>8. e[h] <= l
      BY <2>1, <2>7
    <2>9. h = k
      <3>1. k < h => e[k] < e[h]
        BY <1>2, <2>6
      <3> QED  BY <2>1, <2>4, <2>6, <2>7, <2>8, <3>1
    <2>10. q[h] = Cleared(S)[l]
      BY <1>2, <2>4, <2>9
    <2> QED  BY <1>4, <2>1, <2>5, <2>10 DEF l, h
  <1> QED  BY <1>5, <1>6

(* The entries that stay keep their files open. *)
LEMMA CloseOthers ==
  ASSUME StackOK(stack), DescOK(Current, Owns(stack)), NEW S \in Scope,
         NEW q \in Seq(Redirect), NEW e, IsRest(e, q, S), Entries(Current, stack)
  PROVE  LET t == CloseEntries(fds, stack, Removed(S))
         IN  /\ \A k \in DOMAIN q : q[k].close /\ q[k].fd \in FD /\ t[q[k].fd] = q[k].target
             /\ \A s \in Stream : t[s] = fds[s]
  <1> DEFINE t == CloseEntries(fds, stack, Removed(S))
             goes(d) == \E i \in Removed(S) : stack[i].close /\ stack[i].fd = d
  <1>1. fds \in [Stream \cup FD -> Target \cup {Closed}] /\ Current.fds = fds
    BY DEF DescOK, Desc, Current
  <1>2. \A d \in Stream \cup FD : t[d] = IF goes(d) THEN Closed ELSE fds[d]
    BY <1>1 DEF CloseEntries
  <1> HIDE DEF t
  <1>3. \A i \in DOMAIN stack : /\ stack[i].close /\ stack[i].fd \in FD
                                /\ fds[stack[i].fd] = stack[i].target
    BY <1>1 DEF Entries
  <1>4. Removed(S) \subseteq DOMAIN stack
    BY DEF Removed
  <1>5. \A s \in Stream : t[s] = fds[s]
    BY <1>2, <1>3, <1>4, Numbers
  <1>6. ASSUME NEW k \in DOMAIN q
        PROVE  q[k].close /\ q[k].fd \in FD /\ t[q[k].fd] = q[k].target
    <2>1. e[k] \in (DOMAIN stack) \ Removed(S) /\ q[k] = Cleared(S)[e[k]]
      BY DEF IsRest, Keeps
    <2>2. /\ q[k].fd = stack[e[k]].fd /\ q[k].close = stack[e[k]].close
          /\ q[k].target = stack[e[k]].target
      <3>1. DOMAIN stack = 1..Len(stack)
        BY LenProperties DEF StackOK
      <3> QED  BY <2>1, <3>1, ClearedFacts
    <2>3. ~goes(q[k].fd)
      <3>1. \A i, j \in ClosingOf(stack) : stack[i].fd = stack[j].fd => i = j
        BY DEF StackOK
      <3>2. \A i \in DOMAIN stack : i \in ClosingOf(stack)
        BY <1>3 DEF ClosingOf
      <3> QED  BY <1>4, <2>1, <2>2, <3>1, <3>2
    <2> QED  BY <1>2, <1>3, <2>1, <2>2, <2>3
  <1> QED  BY <1>5, <1>6 DEF t

(* .> without an argument: the streams go where the redirections before say. *)
LEMMA UnredirectFollows ==
  ASSUME Roomy, IInv, ~prompt, FilesFollow, NEW S \in Scope, Unredirect(S)
  PROVE  Files(Current, stack, cur)'
  <1> DEFINE o == [fds |-> CloseEntries(fds, stack, Removed(S)), bak |-> bak]
             q == Erased(S)
  <1>1. DescOK(Current, Owns(stack)) /\ StackOK(stack) /\ Current.fds = fds /\ Current.bak = bak
    BY DEF IInv, Current
  <1>2. Redo(o, q, S) /\ o.bak = bak /\ o.fds = CloseEntries(fds, stack, Removed(S))
    BY DEF Unredirect
  <1>3. StackOK(q) /\ DescOK(o, Owns(q))
    <2>1. o = [Current EXCEPT !.fds = CloseEntries(Current.fds, stack, Removed(S))]
      BY DEF Current
    <2>2. Removed(S) \in SUBSET DOMAIN stack
      BY DEF Removed
    <2>3. DescOK(o, Owns(stack) \ OwnsAt(stack, Removed(S)))
      BY <1>1, <2>1, <2>2, CloseEntriesOK
    <2> QED  BY <1>1, <2>3, ErasedOK
  <1>4. PICK e : q \in Seq(Redirect) /\ IsRest(e, q, S)
    BY <1>1, ErasedRest
  <1>5. Entries(Current, stack) /\ Len(stack) <= MaxStack /\ CurFollows(stack, cur)
        /\ \A s \in Stream : Backed(Current, stack, s) /\ Connected(Current, stack, s)
    BY DEF FilesFollow
  <1>6. Entries(o, q) /\ \A s \in Stream : o.fds[s] = fds[s]
    <2>1. /\ \A k \in DOMAIN q : q[k].close /\ q[k].fd \in FD /\ o.fds[q[k].fd] = q[k].target
          /\ \A s \in Stream : o.fds[s] = fds[s]
      BY <1>1, <1>2, <1>4, <1>5, CloseOthers
    <2> QED  BY <2>1 DEF Entries
  <1>7. /\ \A s \in Stream : For(q, s) # {} => For(stack, s) # {}
        /\ \A s \in Stream \ S : For(stack, s) # {} =>
             /\ For(q, s) # {}
             /\ q[LastFor(q, s)].fd = stack[LastFor(stack, s)].fd
             /\ q[LastFor(q, s)].target = stack[LastFor(stack, s)].target
    BY <1>1, <1>4, ErasedFor
  <1>8. Len(q) <= MaxStack
    <2>1. PICK n \in Nat, m \in Nat : /\ n = Len(stack) /\ DOMAIN stack = 1..n
                                      /\ m = Len(q) /\ DOMAIN q = 1..m
      BY <1>1, <1>4, LenProperties DEF StackOK
    <2>2. e \in Injection(1..m, 1..n)
      BY <1>4, <2>1 DEF IsRest, Keeps, Injection, IsInjective
    <2>3. m <= n
      <3>1. Cardinality(1..m) = m /\ Cardinality(1..n) = n /\ IsFiniteSet(1..n)
        <4>1. 1 \in Int /\ m \in Int /\ n \in Int
          OBVIOUS
        <4>2. Cardinality(1..m) = (IF 1 > m THEN 0 ELSE m - 1 + 1) /\ IsFiniteSet(1..m)
          BY <4>1, FS_Interval
        <4>3. Cardinality(1..n) = (IF 1 > n THEN 0 ELSE n - 1 + 1) /\ IsFiniteSet(1..n)
          BY <4>1, FS_Interval
        <4> QED  BY <4>2, <4>3
      <3> QED  BY <2>2, <3>1, FS_Injection
    <2> QED  BY <1>5, <2>1, <2>3 DEF Roomy
  <1> HIDE DEF o, q
  <1>9. \A s \in Stream : For(q, s) # {} => o.bak[s] # InvalidFD
    BY <1>1, <1>2, <1>5, <1>7 DEF Backed
  <1>10. \A s \in Stream \ S : Backed(o, q, s) /\ Connected(o, q, s)
    BY <1>1, <1>2, <1>5, <1>6, <1>7 DEF Backed, Connected
  <1>11. STDOUT \notin S => CurFollows(q, cur)
    <2>1. STDOUT \in Stream
      BY DEF Stream
    <2> QED  BY <1>5, <1>7, <2>1 DEF CurFollows
  <1> QED  BY <1>2, <1>3, <1>6, <1>8, <1>9, <1>10, <1>11, RedoFollows

(* .> file: the streams of the scope go to the file. *)
LEMMA AddFileFollows ==
  ASSUME Roomy, IInv, ~prompt, FilesFollow, NEW f \in File, NEW S \in Scope, AddFile(f, S)
  PROVE  Files(Current, stack, cur)'
  <1> DEFINE d == Lowest(fds)
             o == [fds |-> Opened(fds, d, f), bak |-> bak]
             r == [fd |-> d, scope |-> S, close |-> TRUE, target |-> f]
             q == Append(stack, r)
             a == IF STDOUT \in S THEN DupOnce(o, STDOUT) ELSE o
             b == IF STDERR \in S THEN DupOnce(a, STDERR) ELSE a
  <1>1. /\ d # InvalidFD /\ Redo(b, q, S) /\ Len(stack) < MaxStack
        /\ o.bak = bak /\ r.fd = d /\ r.scope = S /\ r.close /\ r.target = f
    BY DEF AddFile, Both, CanPush
  <1>2. /\ DescOK(Current, Owns(stack)) /\ StackOK(stack)
        /\ Current.fds = fds /\ Current.bak = bak
    BY DEF IInv, Current
  <1>3. d \in FD \ Owns(stack) /\ DescOK(o, Owns(stack) \cup {d}) /\ fds[d] = Closed
    <2>1. o = [Current EXCEPT !.fds = Opened(Current.fds, d, f)]
      BY DEF Current
    <2> QED  BY <1>1, <1>2, <2>1, OpenedOK, LowestFacts
  <1>4. r \in Redirect
    BY <1>3 DEF Redirect, Scope, Target
  <1>5. o.fds[d] = f /\ \A x \in Stream \cup FD : x # d => o.fds[x] = fds[x]
    BY <1>1, <1>2, <1>3 DEF Opened, DescOK, Desc
  <1> HIDE DEF d, o, r
  <1>6. StackOK(q) /\ DescOK(o, Owns(q))
    BY <1>1, <1>2, <1>3, <1>4, AppendOK DEF Scope
  <1>7. PICK n \in Nat : n = Len(stack) /\ DOMAIN stack = 1..n
    BY <1>2, LenProperties DEF StackOK
  <1>8. /\ Len(q) = n + 1 /\ DOMAIN q = 1..(n + 1) /\ q[n + 1] = r /\ \A i \in 1..n : q[i] = stack[i]
    BY <1>2, <1>4, <1>7, LenProperties DEF StackOK
  <1>9. Len(q) <= MaxStack
    BY <1>1, <1>7, <1>8 DEF Roomy
  <1>10. /\ Entries(Current, stack) /\ CurFollows(stack, cur)
         /\ \A s \in Stream : Backed(Current, stack, s) /\ Connected(Current, stack, s)
    BY DEF FilesFollow
  <1>11. Entries(o, q)
    <2> SUFFICES ASSUME NEW i \in 1..(n + 1)
                 PROVE  q[i].close /\ q[i].fd \in FD /\ o.fds[q[i].fd] = q[i].target
      BY <1>8 DEF Entries
    <2>1. CASE i = n + 1
      BY <1>1, <1>3, <1>5, <1>8, <2>1
    <2>2. CASE i \in 1..n
      <3>1. /\ stack[i].close /\ stack[i].fd \in FD /\ fds[stack[i].fd] = stack[i].target
            /\ stack[i].target # Closed
        BY <1>2, <1>7, <1>10, <2>2, EntryTarget DEF Entries
      <3>2. q[i] = stack[i]
        BY <1>8, <2>2
      <3>3. stack[i].fd # d
        BY <1>3, <3>1
      <3>4. o.fds[stack[i].fd] = stack[i].target
        BY <1>5, <3>1, <3>3
      <3> QED  BY <3>1, <3>2, <3>4
    <2>3. i = n + 1 \/ i \in 1..n
      OBVIOUS
    <2> QED  BY <2>1, <2>2, <2>3
  <1>12. /\ \A s \in S : For(q, s) # {}
         /\ \A s \in Stream \ S : /\ For(q, s) = For(stack, s)
                                  /\ For(q, s) # {} => q[LastFor(q, s)] = stack[LastFor(stack, s)]
    <2>1. /\ \A s \in r.scope : For(q, s) # {}
          /\ \A s \in Stream \ r.scope :
               /\ For(q, s) = For(stack, s)
               /\ For(q, s) # {} => q[LastFor(q, s)] = stack[LastFor(stack, s)]
      BY <1>2, <1>4, AppendFor
    <2> QED  BY <1>1, <2>1
  <1>13. STDOUT \in Stream /\ STDERR \in Stream /\ STDOUT # STDERR
         /\ \A s \in Stream : s = STDOUT \/ s = STDERR
    BY Numbers DEF Stream
  <1> HIDE DEF q
  <1>14. /\ DescOK(a, Owns(q)) /\ Entries(a, q)
         /\ STDOUT \in S => a.bak[STDOUT] # InvalidFD
         /\ \A x \in Stream : a.fds[x] = o.fds[x]
         /\ a.bak[STDERR] = o.bak[STDERR]
         /\ STDOUT \notin S => a.bak[STDOUT] = o.bak[STDOUT]
    <2>1. CASE STDOUT \in S
      BY <1>6, <1>9, <1>11, <1>13, <2>1, DupFollows
    <2>2. CASE STDOUT \notin S
      BY <1>6, <1>11, <2>2
    <2> QED  BY <2>1, <2>2
  <1> HIDE DEF a
  <1>15. /\ DescOK(b, Owns(q)) /\ Entries(b, q)
         /\ STDERR \in S => b.bak[STDERR] # InvalidFD
         /\ \A x \in Stream : b.fds[x] = a.fds[x]
         /\ b.bak[STDOUT] = a.bak[STDOUT]
         /\ STDERR \notin S => b.bak[STDERR] = a.bak[STDERR]
    <2>1. CASE STDERR \in S
      BY <1>6, <1>9, <1>13, <1>14, <2>1, DupFollows
    <2>2. CASE STDERR \notin S
      BY <1>14, <2>2
    <2> QED  BY <2>1, <2>2
  <1> HIDE DEF b
  <1>16. /\ \A s \in S : s \in Stream => b.bak[s] # InvalidFD
         /\ \A s \in Stream : b.fds[s] = fds[s]
         /\ \A s \in Stream \ S : b.bak[s] = bak[s]
    <2>1. \A s \in Stream : s # d
      BY <1>3, Numbers
    <2> QED  BY <1>1, <1>5, <1>13, <1>14, <1>15, <2>1
  <1>17. /\ \A s \in Stream : For(q, s) # {} => b.bak[s] # InvalidFD
         /\ \A s \in Stream \ S : Backed(b, q, s) /\ Connected(b, q, s)
    BY <1>2, <1>10, <1>12, <1>16 DEF Backed, Connected
  <1>18. STDOUT \notin S => CurFollows(q, cur)
    BY <1>10, <1>12, <1>13 DEF CurFollows
  <1> QED  BY <1>1, <1>6, <1>9, <1>15, <1>17, <1>18, RedoFollows

(* A stack that is not empty was restored to, or the object is gone. *)
LEMMA RedoEmpty ==
  ASSUME NEW o, NEW stk, StackOK(stk), DescOK(o, Owns(stk)), NEW S \in Scope, Redo(o, stk, S)
  PROVE  stack' = <<>> => \A s \in Stream : bak'[s] = InvalidFD
  <1> DEFINE c == IF STDOUT \in S THEN Restored(o, stk, STDOUT) ELSE cur
             a == IF STDOUT \in S THEN Restore(o, stk, STDOUT) ELSE o
             b == IF STDERR \in S THEN Restore(a, stk, STDERR) ELSE a
  <1>1. Leave(b, stk, c)
    BY DEF Redo, Both
  <1>2. STDOUT \in Stream /\ STDERR \in Stream
    BY DEF Stream
  <1>3. DescOK(a, Owns(stk))
    BY <1>2, RestoreOK
  <1> HIDE DEF a
  <1>4. DescOK(b, Owns(stk))
    BY <1>2, <1>3, RestoreOK
  <1> HIDE DEF b, c
  <1> QED  BY <1>1, <1>4, LeaveEmpty

LEMMA InitGo ==
  ASSUME Init, Roomy
  PROVE  GoInv
  <1>1. stack = <<>> /\ (\A s \in Stream : bak[s] = InvalidFD) /\ ~prompt /\ DOMAIN stack = {}
        /\ Len(stack) <= MaxStack /\ Current.bak = bak
    BY DEF Init, Roomy, Current
  <1>2. FilesFollow
    BY <1>1, ForEmpty DEF FilesFollow, Entries, Backed, Connected, CurFollows
  <1> QED  BY <1>1, <1>2 DEF GoInv, PromptOnTerminal

LEMMA NextGo ==
  ASSUME Roomy, IInv, GoInv, [Next]_vars
  PROVE  GoInv'
  <1>1. /\ DescOK(Current, Owns(stack)) /\ StackOK(stack) /\ CurOK(Current, cur)
        /\ Current.fds = fds /\ Current.bak = bak
        /\ Current = [fds |-> fds, bak |-> bak]
    BY DEF IInv, Current
  <1>2. UNCHANGED modes => Plain' = Plain /\ tty' = tty
    BY DEF modes, Plain
  <1> DEFINE Quiet == stack = <<>> => \A s \in Stream : bak[s] = InvalidFD
  <1>3. ASSUME ~prompt', UNCHANGED modes, Quiet', Plain => Files(Current, stack, cur)'
        PROVE  GoInv'
    BY <1>2, <1>3 DEF GoInv, PromptOnTerminal, FilesFollow, Files
  <1>4. ASSUME NEW S \in Scope, NEW f \in File, AddFile(f, S)
        PROVE  GoInv'
    <2>1. ~prompt /\ UNCHANGED <<prompt, modes>>
      BY <1>4 DEF AddFile, CanPush
    <2>2. \E r : stack' = Append(stack, r) /\ r \in Redirect
      <3> DEFINE r == [fd |-> Lowest(fds), scope |-> S, close |-> TRUE, target |-> f]
      <3>1. stack' = Append(stack, r) /\ Lowest(fds) # InvalidFD
        BY <1>4 DEF AddFile, Redo, Leave
      <3>2. r \in Redirect
        BY <3>1, LowestFacts DEF Redirect, Scope, Target
      <3> QED  BY <3>1, <3>2
    <2>3. stack' # <<>>
      BY <1>1, <2>2, AppendNotEmpty DEF StackOK
    <2>4. Plain => Files(Current, stack, cur)'
      BY <1>4, <2>1, AddFileFollows DEF GoInv
    <2> QED  BY <1>3, <2>1, <2>3, <2>4
  <1>5. ASSUME NEW S \in Scope, AddBadFile(S)
        PROVE  GoInv'
    <2> DEFINE r == [fd |-> InvalidFD, scope |-> S, close |-> FALSE, target |-> BadFile]
    <2>1. ~prompt /\ UNCHANGED <<prompt, modes>> /\ ~Plain /\ stack' = Append(stack, r)
      BY <1>5 DEF AddBadFile, CanPush, Plain
    <2>2. r \in Redirect
      BY DEF Redirect, Scope, Target
    <2>3. stack' # <<>>
      BY <1>1, <2>1, <2>2, AppendNotEmpty DEF StackOK
    <2> QED  BY <1>3, <2>1, <2>3
  <1>6. ASSUME NEW S \in Scope, NEW s \in Stream, AddStream(s, S)
        PROVE  GoInv'
    <2> DEFINE o == DupOnce(Current, s)
               r == [fd |-> o.bak[s], scope |-> S, close |-> FALSE, target |-> s]
    <2>1. ~prompt /\ UNCHANGED <<prompt, modes>> /\ ~Plain /\ stack' = Append(stack, r)
      BY <1>6 DEF AddStream, CanPush, Plain, Redo, Leave, Current
    <2>2. DescOK(o, Owns(stack))
      BY <1>1, DupOnceOK
    <2> HIDE DEF o
    <2>3. r \in Redirect
      BY <2>2 DEF Redirect, Scope, Target, DescOK, Desc
    <2>4. stack' # <<>>
      BY <1>1, <2>1, <2>3, AppendNotEmpty DEF StackOK
    <2> QED  BY <1>3, <2>1, <2>4
  <1>7. ASSUME NEW S \in Scope, Unredirect(S)
        PROVE  GoInv'
    <2> DEFINE o == [fds |-> CloseEntries(fds, stack, Removed(S)), bak |-> bak]
    <2>1. ~prompt /\ UNCHANGED <<prompt, modes>> /\ Redo(o, Erased(S), S)
      BY <1>7 DEF Unredirect
    <2>2. StackOK(Erased(S)) /\ DescOK(o, Owns(Erased(S)))
      <3>1. o = [Current EXCEPT !.fds = CloseEntries(Current.fds, stack, Removed(S))]
        BY DEF Current
      <3>2. Removed(S) \in SUBSET DOMAIN stack
        BY DEF Removed
      <3>3. DescOK(o, Owns(stack) \ OwnsAt(stack, Removed(S)))
        BY <1>1, <3>1, <3>2, CloseEntriesOK
      <3> QED  BY <1>1, <3>3, ErasedOK
    <2> HIDE DEF o
    <2>3. Quiet'
      BY <2>1, <2>2, RedoEmpty
    <2>4. Plain => Files(Current, stack, cur)'
      BY <1>7, <2>1, UnredirectFollows DEF GoInv
    <2> QED  BY <1>3, <2>1, <2>3, <2>4
  <1>8. CASE Exit
    <2> DEFINE o == Destroyed(Current, stack)
    <2>1. ~prompt /\ UNCHANGED <<prompt, modes>> /\ Leave(o, <<>>, InvalidFD)
      BY <1>8 DEF Exit, Current
    <2>2. StackOK(<<>>) /\ Owns(<<>>) = {}
      BY DEF StackOK, Owns, ClosingOf
    <2>3. DescOK(o, Owns(<<>>))
      BY <1>1, <2>2, DestroyedOK
    <2> HIDE DEF o
    <2>4. Quiet'
      BY <2>1, <2>2, <2>3, LeaveEmpty
    <2>5. Files(Current, stack, cur)'
      BY <2>1, <2>2, <2>3, LeaveFollows
    <2> QED  BY <1>3, <2>1, <2>4, <2>5
  <1>9. STDOUT \in Stream /\ STDOUT # Closed /\ STDOUT \notin FD
    BY Numbers DEF Stream
  <1>10. ASSUME UNCHANGED <<stack, bak, cur, modes>>,
                \A x \in (Stream \cup FD) \ {STDOUT} : fds'[x] = fds[x],
                PromptOnTerminal', FilesFollow => (prompt /\ tty)' \/ Connected(Current, stack, STDOUT)'
         PROVE  GoInv'
    <2>1. Quiet'
      BY <1>10 DEF GoInv
    <2>2. ASSUME FilesFollow
          PROVE  FilesFollow'
      <3>1. Len(stack') <= MaxStack /\ CurFollows(stack, cur)'
        BY <1>10, <2>2 DEF FilesFollow, CurFollows, For, LastFor
      <3>2. stack' = stack /\ Current'.fds = fds' /\ Current'.bak = bak
        BY <1>10 DEF Current
      <3>3. Entries(Current, stack)'
        BY <1>1, <1>9, <1>10, <2>2, <3>2 DEF FilesFollow, Entries
      <3>4. \A s \in Stream : Backed(Current, stack, s)'
        BY <1>1, <2>2, <3>2 DEF FilesFollow, Backed, For
      <3>5. ASSUME NEW s \in Stream
            PROVE  Connected(Current, stack, s)' \/ (prompt' /\ tty' /\ s = STDOUT)
        <4>1. CASE s = STDOUT
          BY <1>10, <2>2, <4>1
        <4>2. CASE s # STDOUT
          BY <1>1, <1>10, <2>2, <3>2, <4>2 DEF FilesFollow, Connected, For, LastFor
        <4> QED  BY <4>1, <4>2
      <3> QED  BY <3>1, <3>3, <3>4, <3>5 DEF FilesFollow
    <2> QED  BY <1>2, <1>10, <2>1, <2>2 DEF GoInv
  <1>11. CASE ReadLine
    <2>1. ~prompt /\ prompt' = TRUE /\ UNCHANGED <<stack, bak, cur, modes>>
          /\ fds' = IF tty /\ stack # <<>> THEN Dup2(fds, bak[STDOUT], STDOUT) ELSE fds
      BY <1>11 DEF ReadLine
    <2>2. \A x \in (Stream \cup FD) \ {STDOUT} : fds'[x] = fds[x]
      BY <1>1, <2>1 DEF Dup2, DescOK, Desc
    <2>3. tty => fds'[STDOUT] = STDOUT
      <3> HAVE tty
      <3>1. fds \in [Stream \cup FD -> Target \cup {Closed}] /\ bak[STDOUT] \in FD \cup {InvalidFD}
        BY <1>1, <1>9 DEF DescOK, Desc
      <3>2. CASE bak[STDOUT] = InvalidFD
        <4>1. fds[STDOUT] = STDOUT /\ Dup2(fds, bak[STDOUT], STDOUT) = fds
          BY <1>1, <1>9, <3>2, Numbers DEF DescOK, Dup2
        <4> QED  BY <2>1, <4>1
      <3>3. CASE bak[STDOUT] # InvalidFD
        <4>1. stack # <<>> /\ bak[STDOUT] \in FD /\ fds[bak[STDOUT]] = STDOUT
          BY <1>1, <1>9, <3>1, <3>3 DEF DescOK, GoInv
        <4>2. fds' = [fds EXCEPT ![STDOUT] = STDOUT]
          BY <1>9, <2>1, <4>1 DEF Dup2
        <4> QED  BY <1>9, <3>1, <4>2
      <3> QED  BY <3>2, <3>3
    <2>4. tty' = tty
      BY <1>2, <2>1
    <2>5. PromptOnTerminal'
      BY <2>3, <2>4 DEF PromptOnTerminal
    <2>6. FilesFollow => (prompt /\ tty)' \/ Connected(Current, stack, STDOUT)'
      <3> SUFFICES ASSUME FilesFollow, ~tty  PROVE Connected(Current, stack, STDOUT)'
        BY <2>1, <2>4
      <3>1. Connected(Current, stack, STDOUT) /\ fds' = fds
        BY <1>9, <2>1 DEF FilesFollow
      <3> QED  BY <2>1, <3>1 DEF Connected, Current, For, LastFor
    <2> QED  BY <1>10, <2>1, <2>2, <2>5, <2>6
  <1>12. CASE LineRead
    <2>1. prompt /\ prompt' = FALSE /\ UNCHANGED <<stack, bak, cur, modes>>
          /\ fds' = IF tty /\ stack # <<>> THEN Dup2(fds, cur, STDOUT) ELSE fds
      BY <1>12 DEF LineRead
    <2>2. \A x \in (Stream \cup FD) \ {STDOUT} : fds'[x] = fds[x]
      BY <1>1, <2>1 DEF Dup2, DescOK, Desc
    <2>3. PromptOnTerminal'
      BY <2>1 DEF PromptOnTerminal
    <2>4. ASSUME FilesFollow
          PROVE  Connected(Current, stack, STDOUT)'
      <3>1. CASE ~tty
        <4>1. Connected(Current, stack, STDOUT) /\ fds' = fds
          BY <1>9, <2>1, <2>4, <3>1 DEF FilesFollow
        <4> QED  BY <2>1, <4>1 DEF Connected, Current, For, LastFor
      <3>2. CASE tty /\ For(stack, STDOUT) # {}
        <4> DEFINE l == LastFor(stack, STDOUT)
        <4>1. l \in DOMAIN stack
          BY <1>1, <3>2, LastForFacts DEF StackOK
        <4>2. stack # <<>>
          BY <3>2, ForEmpty
        <4>3. cur = stack[l].fd
          BY <2>4, <3>2 DEF FilesFollow, CurFollows
        <4>4. stack[l].fd \in FD /\ fds[stack[l].fd] = stack[l].target
          BY <1>1, <2>4, <4>1 DEF FilesFollow, Entries
        <4>5. stack[l].target # Closed
          BY <1>1, <4>1, EntryTarget
        <4> HIDE DEF l
        <4>6. fds' = [fds EXCEPT ![STDOUT] = stack[l].target]
          BY <2>1, <3>2, <4>2, <4>3, <4>4, <4>5 DEF Dup2
        <4>7. fds'[STDOUT] = stack[l].target
          BY <1>1, <1>9, <4>6 DEF DescOK, Desc
        <4> QED  BY <2>1, <4>7 DEF Connected, Current, For, LastFor, l
      <3>3. CASE For(stack, STDOUT) = {}
        BY <2>1, <3>3 DEF Connected, For
      <3> QED  BY <3>1, <3>2, <3>3
    <2> QED  BY <1>10, <2>1, <2>2, <2>3, <2>4
  <1>13. CASE UNCHANGED vars
    <2>1. UNCHANGED <<fds, stack, bak, cur, prompt, modes>>
      BY <1>13 DEF vars
    <2>2. PromptOnTerminal' /\ (tty' = tty)
      BY <1>2, <2>1 DEF GoInv, PromptOnTerminal
    <2>3. FilesFollow => (prompt /\ tty)' \/ Connected(Current, stack, STDOUT)'
      <3> SUFFICES ASSUME FilesFollow, ~(prompt /\ tty)  PROVE Connected(Current, stack, STDOUT)'
        BY <2>1, <2>2
      <3>1. Connected(Current, stack, STDOUT)
        BY <1>9 DEF FilesFollow
      <3> QED  BY <2>1, <3>1 DEF Connected, Current, For, LastFor
    <2> QED  BY <1>10, <2>1, <2>2, <2>3
  <1> QED  BY <1>4, <1>5, <1>6, <1>7, <1>8, <1>11, <1>12, <1>13 DEF Next

(* The invariant says what StreamsFollow does. *)
LEMMA GoInvImplies ==
  ASSUME IInv, GoInv
  PROVE  PromptOnTerminal /\ StreamsFollow
  <1>1. /\ DescOK(Current, Owns(stack)) /\ Current.fds = fds /\ Current.bak = bak
    BY DEF IInv, Current
  <1>2. ASSUME Plain, ~(prompt /\ tty), NEW s \in Stream
        PROVE  fds[s] = Goes(s)
    <2>1. Backed(Current, stack, s) /\ Connected(Current, stack, s)
      BY <1>2 DEF GoInv, FilesFollow
    <2>2. CASE For(stack, s) = {}
      BY <1>1, <2>1, <2>2 DEF Goes, Backed, DescOK
    <2>3. CASE For(stack, s) # {}
      BY <1>1, <2>1, <2>3 DEF Goes, Connected
    <2> QED  BY <2>2, <2>3
  <1> QED  BY <1>2 DEF GoInv, StreamsFollow, Follows, Plain

(***************************************************************************)
(* Two stacks.                                                             *)
(***************************************************************************)

(* f is the function that TargetsOf(stk, s) defines, for the length n. *)
IsTargets(stk, s, n, f) ==
  f = [k \in 0..n |-> IF k = 0 THEN <<>>
                      ELSE IF s \in stk[k].scope THEN Append(f[k - 1], stk[k].target)
                      ELSE f[k - 1]]

(* It exists: by induction, on the least length for which it does not. *)
LEMMA TargetsExist ==
  ASSUME NEW stk, NEW s, NEW n \in Nat
  PROVE  \E f : IsTargets(stk, s, n, f)
  <1> DEFINE Bad == {k \in Nat : ~\E f : IsTargets(stk, s, k, f)}
  <1> SUFFICES ASSUME Bad # {}  PROVE FALSE
    OBVIOUS
  <1>1. PICK m \in Bad : \A k \in Bad : m <= k
    <2> HIDE DEF Bad
    <2>1. Bad \in SUBSET Nat
      BY DEF Bad
    <2> QED  BY <2>1, LeastNatural
  <1>2. m # 0
    <2>1. IsTargets(stk, s, 0, [k \in 0..0 |-> <<>>])
      BY DEF IsTargets
    <2> QED  BY <2>1
  <1>3. PICK f : IsTargets(stk, s, m - 1, f)
    BY <1>1, <1>2
  <1> DEFINE g == [k \in 0..m |-> IF k < m THEN f[k]
                                  ELSE IF s \in stk[m].scope THEN Append(f[m - 1], stk[m].target)
                                  ELSE f[m - 1]]
  <1>4. \A k \in 0..(m - 1) : f[k] = IF k = 0 THEN <<>>
                      ELSE IF s \in stk[k].scope THEN Append(f[k - 1], stk[k].target)
                      ELSE f[k - 1]
    BY <1>3 DEF IsTargets
  <1>5. \A k \in 0..m : g[k] = IF k = 0 THEN <<>>
                      ELSE IF s \in stk[k].scope THEN Append(g[k - 1], stk[k].target)
                      ELSE g[k - 1]
    <2> TAKE k \in 0..m
    <2>1. k # 0 => k - 1 \in 0..(m - 1) /\ g[k - 1] = f[k - 1]
      OBVIOUS
    <2> QED  BY <1>2, <1>4, <2>1
  <1>6. IsTargets(stk, s, m, g)
    <2> HIDE DEF g
    <2>1. g = [k \in 0..m |-> g[k]]
      BY DEF g
    <2> QED  BY <1>5, <2>1 DEF IsTargets
  <1> QED  BY <1>6

(* What that function is at each number. *)
IsTable(stk, s, n, f) ==
  /\ f[0] = <<>>
  /\ \A k \in 1..n :
       f[k] = IF s \in stk[k].scope THEN Append(f[k - 1], stk[k].target) ELSE f[k - 1]

LEMMA TargetsAre ==
  ASSUME NEW stk, NEW s, Len(stk) \in Nat
  PROVE  \E f : IsTable(stk, s, Len(stk), f) /\ TargetsOf(stk, s) = f[Len(stk)]
  <1> DEFINE n == Len(stk)
             f == CHOOSE f : IsTargets(stk, s, n, f)
  <1>1. IsTargets(stk, s, n, f)
    BY TargetsExist
  <1>2. TargetsOf(stk, s) = f[n]
    BY DEF TargetsOf, IsTargets
  <1>3. IsTable(stk, s, n, f)
    <2> HIDE DEF f
    <2>1. \A k \in 0..n : f[k] = IF k = 0 THEN <<>>
                      ELSE IF s \in stk[k].scope THEN Append(f[k - 1], stk[k].target)
                      ELSE f[k - 1]
      BY <1>1 DEF IsTargets
    <2>2. \A k \in 1..n : k \in 0..n /\ k # 0
      OBVIOUS
    <2> HIDE DEF n
    <2>3. 0 \in 0..n
      BY DEF n
    <2>4. f[0] = <<>>
      BY <2>1, <2>3
    <2>5. \A k \in 1..n :
       f[k] = IF s \in stk[k].scope THEN Append(f[k - 1], stk[k].target) ELSE f[k - 1]
      BY <2>1, <2>2
    <2> QED  BY <2>4, <2>5 DEF IsTable
  <1> QED  BY <1>2, <1>3

(* The targets are targets. *)
LEMMA TableType ==
  ASSUME NEW stk, NEW s, NEW n \in Nat, NEW f, IsTable(stk, s, n, f),
         \A k \in DOMAIN stk : stk[k].target \in Target, 1..n \subseteq DOMAIN stk
  PROVE  \A k \in 0..n : f[k] \in Seq(Target)
  <1> DEFINE Bad == {k \in Nat : k <= n /\ f[k] \notin Seq(Target)}
  <1> SUFFICES ASSUME Bad # {}  PROVE FALSE
    OBVIOUS
  <1>1. PICK k \in Bad : \A j \in Bad : k <= j
    <2> HIDE DEF Bad
    <2>1. Bad \in SUBSET Nat
      BY DEF Bad
    <2> QED  BY <2>1, LeastNatural
  <1>2. f[0] \in Seq(Target)
    BY DEF IsTable
  <1>3. k \in 1..n /\ k - 1 \in Nat /\ k - 1 <= n /\ ~(k <= k - 1)
    BY <1>1, <1>2
  <1>4. f[k - 1] \in Seq(Target)
    BY <1>1, <1>3
  <1>5. f[k] = IF s \in stk[k].scope THEN Append(f[k - 1], stk[k].target) ELSE f[k - 1]
    BY <1>3 DEF IsTable
  <1>6. stk[k].target \in Target
    BY <1>3
  <1>7. f[k] \in Seq(Target)
    <2>1. Append(f[k - 1], stk[k].target) \in Seq(Target)
      BY <1>4, <1>6, AppendProperties
    <2> QED  BY <1>4, <1>5, <2>1
  <1> QED  BY <1>1, <1>7

(* Up to n, both stacks have the same entries for the stream. *)
SameEntries(n, stk, q, s) ==
  \A k \in 1..n : /\ s \in stk[k].scope <=> s \in q[k].scope
                  /\ s \in stk[k].scope => stk[k].target = q[k].target

LEMMA TablesAgree ==
  ASSUME NEW s, NEW n \in Nat, NEW l \in Nat, NEW m \in Nat, n <= m, n <= l,
         NEW stk, NEW f, IsTable(stk, s, l, f), NEW q, NEW g, IsTable(q, s, m, g),
         SameEntries(n, stk, q, s)
  PROVE  f[n] = g[n]
  <1> DEFINE Bad == {k \in Nat : k <= n /\ f[k] # g[k]}
  <1> SUFFICES ASSUME Bad # {}  PROVE FALSE
    OBVIOUS
  <1>1. PICK k \in Bad : \A j \in Bad : k <= j
    <2> HIDE DEF Bad
    <2>1. Bad \in SUBSET Nat
      BY DEF Bad
    <2> QED  BY <2>1, LeastNatural
  <1>2. f[0] = <<>> /\ g[0] = <<>>
    BY DEF IsTable
  <1>3. k \in 1..n /\ k \in 1..l /\ k \in 1..m
    BY <1>1, <1>2
  <1>4. f[k - 1] = g[k - 1]
    BY <1>1, <1>3
  <1>5. /\ f[k] = IF s \in stk[k].scope THEN Append(f[k - 1], stk[k].target) ELSE f[k - 1]
        /\ g[k] = IF s \in q[k].scope THEN Append(g[k - 1], q[k].target) ELSE g[k - 1]
    BY <1>3 DEF IsTable
  <1> QED  BY <1>1, <1>3, <1>4, <1>5 DEF SameEntries

(* The entries between a and b are for other streams. *)
Silent(stk, s, a, b) == \A k \in (a + 1)..b : s \notin stk[k].scope

(* Such entries add nothing. *)
LEMMA TableSilent ==
  ASSUME NEW stk, NEW s, NEW n \in Nat, NEW f, IsTable(stk, s, n, f),
         NEW a \in 0..n, NEW b \in 0..n, a <= b,
         Silent(stk, s, a, b)
  PROVE  f[b] = f[a]
  <1> DEFINE Bad == {k \in Nat : a <= k /\ k <= b /\ f[k] # f[a]}
  <1> SUFFICES ASSUME Bad # {}  PROVE FALSE
    OBVIOUS
  <1>1. PICK k \in Bad : \A j \in Bad : k <= j
    <2> HIDE DEF Bad
    <2>1. Bad \in SUBSET Nat
      BY DEF Bad
    <2> QED  BY <2>1, LeastNatural
  <1>2. a < k /\ k <= b /\ k \in 1..n /\ k - 1 \in Nat /\ a <= k - 1 /\ k - 1 <= b
    BY <1>1
  <1>3. f[k - 1] = f[a]
    <2>1. k - 1 \notin Bad
      BY <1>1, <1>2
    <2> QED  BY <1>2, <2>1
  <1>4. f[k] = f[k - 1]
    <2>1. s \notin stk[k].scope
      BY <1>2 DEF Silent
    <2> QED  BY <1>2, <2>1 DEF IsTable
  <1> QED  BY <1>1, <1>3, <1>4

(* q is what is left of stk, in its order, and all of it that is for s. *)
RestFor(e, q, m, stk, n, s) ==
  /\ e \in [1..m -> 1..n]
  /\ \A k, l \in 1..m : k < l => e[k] < e[l]
  /\ \A k \in 1..m : q[k] = stk[e[k]]
  /\ \A i \in 1..n : s \in stk[i].scope => \E k \in 1..m : e[k] = i

(* For s, it does not matter what is gone. *)
LEMMA TableOfRest ==
  ASSUME NEW stk, NEW s, NEW n \in Nat, NEW f, IsTable(stk, s, n, f),
         NEW q, NEW m \in Nat, NEW g, IsTable(q, s, m, g),
         NEW e, RestFor(e, q, m, stk, n, s)
  PROVE  g[m] = f[n]
  <1> DEFINE at(k) == IF k = 0 THEN 0 ELSE e[k]
             Bad == {k \in Nat : k <= m /\ g[k] # f[at(k)]}
  <1> USE DEF RestFor
  <1>1. \A k \in 0..m : at(k) \in 0..n
    OBVIOUS
  <1>2. \A k \in 0..m, l \in 1..m : k < l => at(k) < at(l)
    BY <1>1
  <1>3. Bad = {}
    <2> SUFFICES ASSUME Bad # {}  PROVE FALSE
      OBVIOUS
    <2>1. PICK k \in Bad : \A j \in Bad : k <= j
      <3> HIDE DEF Bad
      <3>1. Bad \in SUBSET Nat
        BY DEF Bad
      <3> QED  BY <3>1, LeastNatural
    <2>2. g[0] = <<>> /\ f[0] = <<>>
      BY DEF IsTable
    <2>3. k \in 1..m /\ k - 1 \in 0..m /\ k - 1 \in Nat
      BY <2>1, <2>2
    <2>4. g[k - 1] = f[at(k - 1)]
      BY <2>1, <2>3
    <2>5. e[k] \in 1..n /\ at(k) = e[k] /\ at(k - 1) \in 0..n /\ at(k - 1) < e[k]
      BY <1>1, <1>2, <2>3
    <2>6. Silent(stk, s, at(k - 1), e[k] - 1)
      <3> SUFFICES ASSUME NEW i \in 1..n, at(k - 1) < i, i <= e[k] - 1, s \in stk[i].scope
                   PROVE  FALSE
        BY <2>5 DEF Silent
      <3>1. PICK j \in 1..m : e[j] = i
        OBVIOUS
      <3>2. at(j) = i
        BY <3>1
      <3>3. j <= k - 1 \/ j >= k
        BY <2>3
      <3>4. CASE j <= k - 1
        <4>1. j = k - 1 \/ j < k - 1
          BY <2>3, <3>4
        <4>2. j < k - 1 => k - 1 \in 1..m
          BY <2>3
        <4>3. at(j) <= at(k - 1)
          BY <1>1, <1>2, <2>3, <4>1, <4>2
        <4> QED  BY <2>5, <3>2, <4>3
      <3>5. CASE j >= k
        <4>1. j = k \/ k < j
          BY <2>3, <3>5
        <4>2. e[k] <= e[j]
          BY <2>3, <2>5, <4>1
        <4> QED  BY <2>5, <3>1, <4>2
      <3> QED  BY <3>3, <3>4, <3>5
    <2>7. f[e[k] - 1] = f[at(k - 1)]
      <3>1. e[k] - 1 \in 0..n /\ at(k - 1) <= e[k] - 1
        BY <2>5
      <3> HIDE DEF at
      <3> QED  BY <2>5, <2>6, <3>1, TableSilent
    <2>8. f[e[k]] = IF s \in stk[e[k]].scope THEN Append(f[e[k] - 1], stk[e[k]].target)
                    ELSE f[e[k] - 1]
      BY <2>5 DEF IsTable
    <2>9. g[k] = IF s \in q[k].scope THEN Append(g[k - 1], q[k].target) ELSE g[k - 1]
      BY <2>3 DEF IsTable
    <2>10. q[k] = stk[e[k]]
      BY <2>3
    <2> QED  BY <2>1, <2>4, <2>5, <2>7, <2>8, <2>9, <2>10
  <1>4. g[m] = f[at(m)]
    BY <1>3
  <1>5. f[n] = f[at(m)]
    <2>1. at(m) \in 0..n /\ at(m) <= n /\ n \in 0..n
      BY <1>1
    <2>2. Silent(stk, s, at(m), n)
      <3> SUFFICES ASSUME NEW i \in 1..n, at(m) < i, s \in stk[i].scope
                   PROVE  FALSE
        BY <2>1 DEF Silent
      <3>1. PICK j \in 1..m : e[j] = i
        OBVIOUS
      <3>2. j = m \/ j < m
        OBVIOUS
      <3>3. at(m) = e[m] /\ e[j] <= e[m]
        BY <3>2
      <3> QED  BY <3>1, <3>3
    <2> HIDE DEF at
    <2> QED  BY <2>1, <2>2, TableSilent
  <1> QED  BY <1>4, <1>5

(* What stdout and stderr are redirected to, as two stacks. *)
Redirections(stk) == [s \in Stream |-> TargetsOf(stk, s)]

LEMMA TargetsType ==
  ASSUME NEW stk \in Seq(Redirect), NEW s
  PROVE  TargetsOf(stk, s) \in Seq(Target)
  <1>1. Len(stk) \in Nat /\ DOMAIN stk = 1..Len(stk) /\ \A k \in DOMAIN stk : stk[k] \in Redirect
    BY LenProperties
  <1>2. \A k \in DOMAIN stk : stk[k].target \in Target
    BY <1>1 DEF Redirect
  <1>3. PICK f : IsTable(stk, s, Len(stk), f) /\ TargetsOf(stk, s) = f[Len(stk)]
    BY <1>1, TargetsAre
  <1>4. \A k \in 0..Len(stk) : f[k] \in Seq(Target)
    BY <1>1, <1>2, <1>3, TableType
  <1> QED  BY <1>1, <1>3, <1>4

LEMMA TargetsOfNone == \A s : TargetsOf(<<>>, s) = <<>>
  <1> TAKE s
  <1>1. Len(<<>>) = 0
    OBVIOUS
  <1>2. PICK f : IsTable(<<>>, s, 0, f) /\ TargetsOf(<<>>, s) = f[0]
    BY <1>1, TargetsAre
  <1> QED  BY <1>2 DEF IsTable

(* push() of an entry pushes its target for each stream of its scope. *)
LEMMA AppendTargets ==
  ASSUME NEW stk \in Seq(Redirect), NEW r \in Redirect, NEW s
  PROVE  TargetsOf(Append(stk, r), s) =
           IF s \in r.scope THEN Append(TargetsOf(stk, s), r.target) ELSE TargetsOf(stk, s)
  <1> DEFINE q == Append(stk, r)
  <1>1. PICK n \in Nat : n = Len(stk)
    BY LenProperties
  <1>2. Len(q) = n + 1 /\ q[n + 1] = r /\ \A i \in 1..n : q[i] = stk[i]
    BY <1>1, AppendProperties
  <1> HIDE DEF q
  <1>3. PICK f : IsTable(stk, s, n, f) /\ TargetsOf(stk, s) = f[n]
    BY <1>1, TargetsAre
  <1>4. PICK g : IsTable(q, s, n + 1, g) /\ TargetsOf(q, s) = g[n + 1]
    BY <1>2, TargetsAre
  <1>5. SameEntries(n, stk, q, s)
    BY <1>2 DEF SameEntries
  <1>6. f[n] = g[n]
    BY <1>3, <1>4, <1>5, TablesAgree
  <1>7. g[n + 1] = IF s \in r.scope THEN Append(g[n], r.target) ELSE g[n]
    <2>1. n + 1 \in 1..(n + 1) /\ n + 1 - 1 = n
      OBVIOUS
    <2> QED  BY <1>2, <1>4, <2>1 DEF IsTable
  <1> QED  BY <1>3, <1>4, <1>6, <1>7 DEF q

(* Undoing redirections pops the last target of each stream of the scope, if *)
(* there is one, and leaves the others as they are.                          *)
LEMMA ErasedTargets ==
  ASSUME StackOK(stack), NEW S \in Scope, NEW s \in Stream
  PROVE  LET t == TargetsOf(stack, s)
         IN  TargetsOf(Erased(S), s) = IF s \in S /\ t # <<>> THEN Front(t) ELSE t
  <1> DEFINE t == TargetsOf(stack, s)
             C == Cleared(S)
             q == Erased(S)
  <1>1. PICK n \in Nat : n = Len(stack) /\ DOMAIN stack = 1..n
    BY LenProperties DEF StackOK
  <1>2. /\ Len(C) = n
        /\ \A i \in 1..n : /\ C[i].target = stack[i].target
                           /\ s \in C[i].scope <=>
                                s \in stack[i].scope /\ ~(s \in S /\ i = LastFor(stack, s))
                           /\ s \in C[i].scope => i \notin Removed(S)
    <2>1. \A i \in Removed(S) : C[i].scope = {}
      BY DEF Removed
    <2> QED  BY <1>1, <2>1, ClearedFacts
  <1>3. PICK e : q \in Seq(Redirect) /\ IsRest(e, q, S)
    BY ErasedRest
  <1>4. PICK m \in Nat : m = Len(q) /\ DOMAIN q = 1..m
    BY <1>3, LenProperties
  <1> HIDE DEF C, q
  <1>5. PICK f : IsTable(stack, s, n, f) /\ t = f[n]
    BY <1>1, TargetsAre
  <1>6. PICK g : IsTable(C, s, n, g)
    BY <1>2, TargetsAre
  <1>7. PICK h : IsTable(q, s, m, h) /\ TargetsOf(q, s) = h[m]
    BY <1>4, TargetsAre
  <1>8. h[m] = g[n]
    <2>1. /\ e \in [1..m -> 1..n] /\ \A k, l \in 1..m : k < l => e[k] < e[l]
          /\ \A k \in 1..m : q[k] = C[e[k]]
      BY <1>1, <1>3, <1>4 DEF IsRest, Keeps, C
    <2>2. \A i \in 1..n : s \in C[i].scope => \E k \in 1..m : e[k] = i
      BY <1>1, <1>2, <1>3, <1>4 DEF IsRest, Keeps
    <2>3. RestFor(e, q, m, C, n, s)
      BY <2>1, <2>2 DEF RestFor
    <2> QED  BY <1>6, <1>7, <2>3, TableOfRest
  <1>9. CASE For(stack, s) = {}
    <2>1. \A i \in 1..n : s \notin stack[i].scope
      BY <1>1, <1>9 DEF For
    <2>2. SameEntries(n, stack, C, s)
      BY <1>2, <2>1 DEF SameEntries
    <2>3. f[n] = g[n]
      BY <1>5, <1>6, <2>2, TablesAgree
    <2>4. Silent(stack, s, 0, n) /\ 0 \in 0..n /\ n \in 0..n /\ 0 <= n
      BY <2>1 DEF Silent
    <2>5. f[n] = f[0]
      BY <1>5, <2>4, TableSilent
    <2>6. t = <<>>
      BY <1>5, <2>5 DEF IsTable
    <2> HIDE DEF t
    <2> QED  BY <1>5, <1>7, <1>8, <2>3, <2>6 DEF q, t
  <1>10. CASE s \notin S
    <2>1. SameEntries(n, stack, C, s)
      BY <1>2, <1>10 DEF SameEntries
    <2>2. f[n] = g[n]
      BY <1>5, <1>6, <2>1, TablesAgree
    <2> HIDE DEF t
    <2> QED  BY <1>5, <1>7, <1>8, <1>10, <2>2 DEF q, t
  <1>11. CASE s \in S /\ For(stack, s) # {}
    <2>1. PICK l \in 1..n : l = LastFor(stack, s)
      BY <1>1, <1>11, LastForFacts DEF StackOK
    <2>2. s \in stack[l].scope /\ \A i \in 1..n : s \in stack[i].scope => i <= l
      BY <1>1, <1>11, <2>1, LastForFacts DEF StackOK
    <2>3. l \in 0..n /\ l - 1 \in 0..n /\ l - 1 \in Nat /\ l - 1 <= n /\ n \in 0..n /\ l <= n
      OBVIOUS
    <2>4. SameEntries(l - 1, stack, C, s)
      BY <1>2, <2>1 DEF SameEntries
    <2>5. f[l - 1] = g[l - 1]
      BY <1>5, <1>6, <2>3, <2>4, TablesAgree
    <2>6. Silent(stack, s, l, n) /\ Silent(C, s, l - 1, n)
      <3>1. \A i \in (l + 1)..n : i \in 1..n /\ ~(i <= l)
        OBVIOUS
      <3>2. \A i \in (l - 1 + 1)..n : i \in 1..n /\ (i = l \/ ~(i <= l))
        OBVIOUS
      <3>3. Silent(stack, s, l, n)
        BY <2>2, <3>1 DEF Silent
      <3>4. Silent(C, s, l - 1, n)
        BY <1>2, <1>11, <2>1, <2>2, <3>2 DEF Silent
      <3> QED  BY <3>3, <3>4
    <2>7. f[n] = f[l]
      BY <1>5, <2>3, <2>6, TableSilent
    <2>8. g[n] = g[l - 1]
      BY <1>6, <2>3, <2>6, TableSilent
    <2>9. f[l] = Append(f[l - 1], stack[l].target)
      BY <1>5, <2>2 DEF IsTable
    <2>10. f[l - 1] \in Seq(Target) /\ stack[l].target \in Target
      <3>1. \A k \in DOMAIN stack : stack[k] \in Redirect
        BY <1>1 DEF StackOK
      <3>2. \A k \in DOMAIN stack : stack[k].target \in Target
        BY <3>1 DEF Redirect
      <3>3. \A k \in 0..n : f[k] \in Seq(Target)
        BY <1>1, <1>5, <3>2, TableType
      <3> QED  BY <1>1, <2>3, <3>2, <3>3
    <2>11. t # <<>> /\ Front(t) = f[l - 1]
      BY <1>5, <2>7, <2>9, <2>10, FrontOfAppend
    <2> HIDE DEF t
    <2> QED  BY <1>7, <1>8, <1>11, <2>5, <2>8, <2>11 DEF q, t
  <1> QED  BY <1>9, <1>10, <1>11

(* redirect() leaves the stack it is called with. *)
LEMMA RedoStack ==
  ASSUME NEW o, NEW stk, NEW S, Redo(o, stk, S)
  PROVE  stack' = stk
  BY DEF Redo, Leave

(* A push of one entry is a push to the stacks of its scope. *)
LEMMA PushRefines ==
  ASSUME StackOK(stack), NEW S \in Scope, NEW r \in Redirect, r.scope = S,
         stack' = Append(stack, r)
  PROVE  Promise!Next
  <1>1. S \in (SUBSET Stream) \ {{}} /\ r.target \in Target
    BY DEF Scope, Redirect
  <1>2. stack \in Seq(Redirect)
    BY DEF StackOK
  <1>3. \A s \in Stream : TargetsOf(stack', s) =
           IF s \in S THEN Append(TargetsOf(stack, s), r.target) ELSE TargetsOf(stack, s)
    BY <1>2, AppendTargets
  <1>4. Promise!Push(S, r.target)
    BY <1>3 DEF Promise!Push
  <1> QED  BY <1>1, <1>4 DEF Promise!Next

(* Every step does what it would do with two stacks, or nothing to them. *)
LEMMA NextRefines == IInv /\ [Next]_vars => [Promise!Next]_(Redirections(stack))
  <1> SUFFICES ASSUME IInv, [Next]_vars
               PROVE  Promise!Next \/ Redirections(stack)' = Redirections(stack)
    OBVIOUS
  <1>1. StackOK(stack) /\ stack \in Seq(Redirect)
    BY DEF IInv, StackOK
  <1>2. ASSUME NEW S \in Scope, NEW f \in File, AddFile(f, S)
        PROVE  Promise!Next
    <2> DEFINE r == [fd |-> Lowest(fds), scope |-> S, close |-> TRUE, target |-> f]
    <2>1. stack' = Append(stack, r) /\ Lowest(fds) # InvalidFD
      BY <1>2, RedoStack DEF AddFile
    <2>2. r \in Redirect /\ r.scope = S
      <3>1. Lowest(fds) \in FD
        BY <2>1, LowestFacts
      <3> QED  BY <3>1 DEF Redirect, Scope, Target
    <2> HIDE DEF r
    <2> QED  BY <1>1, <2>1, <2>2, PushRefines
  <1>3. ASSUME NEW S \in Scope, AddBadFile(S)
        PROVE  Promise!Next
    <2> DEFINE r == [fd |-> InvalidFD, scope |-> S, close |-> FALSE, target |-> BadFile]
    <2>1. stack' = Append(stack, r)
      BY <1>3 DEF AddBadFile
    <2>2. r \in Redirect /\ r.scope = S
      BY DEF Redirect, Scope, Target
    <2> HIDE DEF r
    <2> QED  BY <1>1, <2>1, <2>2, PushRefines
  <1>4. ASSUME NEW S \in Scope, NEW s \in Stream, AddStream(s, S)
        PROVE  Promise!Next
    <2> DEFINE o == DupOnce(Current, s)
               r == [fd |-> o.bak[s], scope |-> S, close |-> FALSE, target |-> s]
    <2>1. stack' = Append(stack, r)
      BY <1>4, RedoStack DEF AddStream, Current
    <2>2. r \in Redirect /\ r.scope = S
      <3>1. DescOK(o, Owns(stack))
        BY DupOnceOK DEF IInv
      <3> HIDE DEF o
      <3> QED  BY <3>1 DEF Redirect, Scope, Target, DescOK, Desc
    <2> HIDE DEF r
    <2> QED  BY <1>1, <2>1, <2>2, PushRefines
  <1>5. ASSUME NEW S \in Scope, Unredirect(S)
        PROVE  Promise!Next
    <2>1. stack' = Erased(S)
      BY <1>5, RedoStack DEF Unredirect
    <2>2. \A s \in Stream : TargetsOf(stack', s) =
             IF s \in S /\ TargetsOf(stack, s) # <<>> THEN Front(TargetsOf(stack, s))
             ELSE TargetsOf(stack, s)
      BY <1>1, <2>1, ErasedTargets
    <2>3. Promise!Pop(S)
      BY <2>2 DEF Promise!Pop, Promise!Front, Front
    <2>4. S \in (SUBSET Stream) \ {{}}
      BY DEF Scope
    <2> QED  BY <2>3, <2>4 DEF Promise!Next
  <1>6. CASE Exit
    <2>1. stack' = <<>>
      BY <1>6 DEF Exit, Leave
    <2>2. \A s \in Stream : TargetsOf(stack', s) = <<>>
      BY <2>1, TargetsOfNone
    <2>3. Promise!Clear
      BY <2>2 DEF Promise!Clear
    <2> QED  BY <2>3 DEF Promise!Next
  <1>7. CASE ReadLine \/ LineRead \/ UNCHANGED vars
    <2>1. stack' = stack
      BY <1>7 DEF ReadLine, LineRead, vars
    <2> QED  BY <2>1 DEF Redirections
  <1> QED  BY <1>2, <1>3, <1>4, <1>5, <1>6, <1>7 DEF Next

(***************************************************************************)
(* The theorems.                                                           *)
(***************************************************************************)

(* The inductive invariant holds in every state. *)
THEOREM Invariance == Spec => []IInv
  BY InitIInv, NextIInv, PTL DEF Spec

(* The members of RedirectOutput keep their types, and no entry without a    *)
(* scope is left behind.                                                     *)
THEOREM TypeCorrect == Spec => []TypeOK
  BY Invariance, IInvImplies, PTL

(* No descriptor leaks and none is closed by anyone but its owner, even when *)
(* files do not open and erase() gets an invalid iterator; and what stdout   *)
(* and stderr were before cling redirected them can always be restored.      *)
THEOREM DescriptorsSafe == Spec => []DescriptorsKept
  BY Invariance, IInvImplies, PTL DEF DescriptorsKept

(* The prompt is written to the terminal.  Whatever is redirected to files and *)
(* undone, in whatever order, stdout and stderr go where the last redirection  *)
(* says, or where they went before: m_Stack, m_Bak and m_CurStdOut agree, as   *)
(* long as descriptors do not run out.                                         *)
THEOREM StreamsRight ==
  ASSUME Roomy
  PROVE  Spec => []StreamsGo
  <1>1. Init => GoInv
    BY InitGo
  <1>2. IInv /\ GoInv /\ [Next]_vars => GoInv'
    BY NextGo
  <1>3. Spec => []GoInv
    BY <1>1, <1>2, Invariance, PTL DEF Spec
  <1>4. IInv /\ GoInv => PromptOnTerminal /\ StreamsFollow
    BY GoInvImplies
  <1>5. TypeOK /\ PromptOnTerminal /\ StreamsFollow => StreamsGo
    BY DEF StreamsGo
  <1> QED  BY <1>3, <1>4, <1>5, Invariance, TypeCorrect, PTL

(* The one stack of entries with scopes does what a stack for stdout and one   *)
(* for stderr would do: a redirection is pushed to the stacks of its scope, and*)
(* the last one of each stream is undone, however entries are shared and       *)
(* erased.                                                                     *)
THEOREM TwoStacksImplemented == Spec => TwoStacks
  <1>1. Init => Promise!Init
    <2> SUFFICES ASSUME Init PROVE Promise!Init
      OBVIOUS
    <2>1. stack = <<>>
      BY DEF Init
    <2> QED  BY <2>1, TargetsOfNone DEF Promise!Init
  <1>2. IInv /\ [Next]_vars => [Promise!Next]_(Redirections(stack))
    BY NextRefines
  <1>3. TwoStacks <=> Promise!Init /\ [][Promise!Next]_(Redirections(stack))
    BY DEF TwoStacks, Promise!Spec, Redirections
  <1> QED  BY <1>1, <1>2, <1>3, Invariance, PTL DEF Spec

=============================================================================
