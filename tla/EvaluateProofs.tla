---------------------------- MODULE EvaluateProofs ---------------------------
(***************************************************************************)
(* Values and evaluation, proved for any finite set of handles, any number  *)
(* of blocks, and any sessions and inputs: the objects that Values own;      *)
(* that an evaluation does to Values what ValuesSpec allows; what value its  *)
(* caller gets, and what is printed.                                        *)
(*                                                                         *)
(* The last two follow an input from its pieces to its value.  EndsIn(b, T,  *)
(* x) says that x is the last of b that is not in T; each transformer keeps  *)
(* what a body ends in, or makes of it the expression that hands its value   *)
(* over.  The length of the input and its other statements do not matter.   *)
(***************************************************************************)
EXTENDS Evaluate, SequenceLemmas

Slot == Handle \cup {resultV}

Kind == {"void", "builtin", "pointer", "invalid"}
ValueRec == [kind : Kind, type : Type \cup {"none"}, owns : BOOLEAN, block : Nat]
BlockRec ==
  [refs : Nat, type : Type, dtor : BOOLEAN, payload : {"canary", "object", "torn"},
   built : Nat, destroyed : Nat, freed : BOOLEAN]

(* The Values that own the block b, by the values v of a heap. *)
OwnersIn(v, b) == {x \in Slot : v[x].owns /\ v[x].block = b}

(* A block looks constructed when it is, unless it is misjudged. *)
ObjectOK(blk) ==
  /\ NeedsManagedAlloc(blk.type) /\ blk.dtor = TypeInfo(blk.type).asks
  /\ blk.payload = "canary" /\ blk.type # "quiet" => blk.built = 0
  /\ blk.payload = "object" => blk.built = TypeInfo(blk.type).elements
  /\ ~IsMisjudged(blk) =>
       blk.destroyed = IF blk.freed /\ TypeInfo(blk.type).dtor THEN blk.built ELSE 0

CountOK(blk, owners) == blk.refs = Cardinality(owners) /\ (blk.freed <=> owners = {})

(* What values v and blocks blks a heap may have. *)
Fits(v, blks) ==
  /\ v \in [Slot -> ValueRec] /\ blks \in Seq(BlockRec)
  /\ \A x \in Slot : v[x].owns => v[x].block \in DOMAIN blks
  /\ \A b \in DOMAIN blks : ObjectOK(blks[b]) /\ CountOK(blks[b], OwnersIn(v, b))

(* A heap in which no freed block was used. *)
HeapOf(v, blks, misused) == [values |-> v, blocks |-> blks, misused |-> misused]
Made(v, blks) == HeapOf(v, blks, FALSE)
HeapOK(h) == h = Made(h.values, h.blocks) /\ Fits(h.values, h.blocks)

(* All of this until a Value is assigned to itself. *)
IInv == selfAssigned \in BOOLEAN /\ (selfAssigned \/ HeapOK(heap))

(***************************************************************************)
(* Types and sets.                                                         *)
(***************************************************************************)

LEMMA TypeFacts ==
  ASSUME NEW ty \in Type
  PROVE  /\ TypeInfo(ty).elements \in Nat /\ TypeInfo(ty).dtor \in BOOLEAN /\ TypeInfo(ty).asks \in BOOLEAN
         /\ TypeKind(ty) \in Kind /\ NeedsManagedAlloc(ty) \in BOOLEAN
         /\ ty # "matrix" => TypeInfo(ty).asks = TypeInfo(ty).dtor
         /\ TypeInfo(ty).asks => TypeInfo(ty).dtor
  <1>1. TypeInfo(ty).elements \in {0, 1, 2, 4}
    BY DEF TypeInfo, Type
  <1>2. TypeInfo(ty).dtor \in BOOLEAN /\ TypeInfo(ty).asks \in BOOLEAN
    BY DEF TypeInfo, Type
  <1>3. TypeInfo(ty).kind \in {"void", "builtin", "pointer", "object", "invalid"}
    BY DEF TypeInfo, Type
  <1>4. ty # "matrix" => TypeInfo(ty).asks = TypeInfo(ty).dtor
    BY DEF TypeInfo, Type
  <1>5. TypeInfo(ty).asks => TypeInfo(ty).dtor
    BY DEF TypeInfo, Type
  <1>6. TypeKind(ty) \in Kind
    BY <1>3 DEF TypeKind, Kind
  <1>7. TypeInfo(ty).elements \in Nat
    BY <1>1
  <1> QED  BY <1>2, <1>4, <1>5, <1>6, <1>7 DEF NeedsManagedAlloc

LEMMA SlotFinite == IsFiniteSet(Slot)
  BY ValuesAssumption, FS_AddElement DEF Slot

LEMMA OwnersFinite ==
  ASSUME NEW v, NEW b
  PROVE  IsFiniteSet(OwnersIn(v, b)) /\ Cardinality(OwnersIn(v, b)) \in Nat
  BY SlotFinite, FS_Subset, FS_CardinalityType DEF OwnersIn

(* An owner more, and one less. *)
LEMMA OneMore ==
  ASSUME NEW S, IsFiniteSet(S), NEW x, x \notin S
  PROVE  /\ Cardinality(S \cup {x}) = Cardinality(S) + 1 /\ S \cup {x} # {}
         /\ Cardinality(S) \in Nat /\ (S = {} <=> Cardinality(S) = 0)
  BY FS_AddElement, FS_CardinalityType, FS_EmptySet

LEMMA OneLess ==
  ASSUME NEW S, IsFiniteSet(S), NEW x \in S
  PROVE  /\ Cardinality(S \ {x}) = Cardinality(S) - 1 /\ Cardinality(S) \in Nat
         /\ Cardinality(S) # 0 /\ (S \ {x} = {} <=> Cardinality(S) = 1)
  <1>1. IsFiniteSet(S \ {x}) /\ Cardinality(S \ {x}) = Cardinality(S) - 1
    BY FS_RemoveElement
  <1>2. Cardinality(S) \in Nat /\ Cardinality(S) # 0
    BY FS_CardinalityType, FS_EmptySet
  <1>3. S \ {x} = {} <=> Cardinality(S \ {x}) = 0
    BY <1>1, FS_EmptySet
  <1> QED  BY <1>1, <1>2, <1>3

(***************************************************************************)
(* Blocks.                                                                 *)
(***************************************************************************)

LEMMA ReleasedOK ==
  ASSUME NEW blk \in BlockRec, ObjectOK(blk), ~blk.freed, blk.refs # 0
  PROVE  /\ Released(blk) \in BlockRec /\ ObjectOK(Released(blk))
         /\ Released(blk).refs = blk.refs - 1 /\ (Released(blk).freed <=> blk.refs = 1)
  <1> DEFINE n == TypeInfo(blk.type).elements
             d == IF blk.refs = 1 /\ LooksBuilt(blk) THEN blk.destroyed + n ELSE blk.destroyed
  <1>1. /\ n \in Nat /\ TypeInfo(blk.type).dtor \in BOOLEAN
        /\ blk.type # "matrix" => TypeInfo(blk.type).asks = TypeInfo(blk.type).dtor
    BY TypeFacts DEF BlockRec
  <1>2. Released(blk) = [blk EXCEPT !.refs = blk.refs - 1, !.freed = (blk.freed \/ blk.refs = 1), !.destroyed = d]
    BY DEF Released
  <1>3. d \in Nat /\ blk.refs - 1 \in Nat /\ (blk.freed \/ blk.refs = 1) \in BOOLEAN
    BY <1>1 DEF BlockRec
  <1> HIDE DEF d
  <1>4. [blk EXCEPT !.refs = blk.refs - 1, !.freed = (blk.freed \/ blk.refs = 1), !.destroyed = d] \in BlockRec
    BY <1>3 DEF BlockRec
  <1>5. /\ Released(blk).refs = blk.refs - 1 /\ (Released(blk).freed <=> blk.refs = 1)
        /\ Released(blk).type = blk.type /\ Released(blk).dtor = blk.dtor
        /\ Released(blk).payload = blk.payload /\ Released(blk).built = blk.built
        /\ Released(blk).destroyed = d
    BY <1>2 DEF BlockRec
  <1>6. ObjectOK(Released(blk))
    <2>1. CASE IsMisjudged(blk)
      BY <1>5, <2>1 DEF ObjectOK, IsMisjudged
    <2>2. CASE ~IsMisjudged(blk)
      <3>1. blk.destroyed = 0 /\ blk.dtor = TypeInfo(blk.type).dtor /\ blk.payload \in {"canary", "object"}
        BY <1>1, <2>2 DEF ObjectOK, IsMisjudged, BlockRec
      <3>2. LooksBuilt(blk) => (TypeInfo(blk.type).dtor /\ blk.built = n)
        BY <3>1 DEF ObjectOK, LooksBuilt
      <3>3. (~LooksBuilt(blk) /\ TypeInfo(blk.type).dtor) => blk.built = 0
        BY <2>2, <3>1 DEF ObjectOK, LooksBuilt, IsMisjudged
      <3>4. d = IF blk.refs = 1 /\ TypeInfo(blk.type).dtor THEN blk.built ELSE 0
        BY <1>1, <3>1, <3>2, <3>3 DEF d
      <3> QED  BY <1>5, <2>2, <3>4 DEF ObjectOK, IsMisjudged
    <2> QED  BY <2>1, <2>2
  <1> QED  BY <1>2, <1>4, <1>5, <1>6

(***************************************************************************)
(* The blocks and the values of a heap, and what each operation makes them. *)
(***************************************************************************)

(* A block that a Value owns is there, and not freed. *)
LEMMA OwnedBlock ==
  ASSUME NEW v, NEW blks, Fits(v, blks), NEW x \in Slot, v[x].owns
  PROVE  LET b == v[x].block
         IN  /\ b \in DOMAIN blks /\ blks[b] \in BlockRec /\ ObjectOK(blks[b])
             /\ x \in OwnersIn(v, b) /\ blks[b].freed = FALSE /\ blks[b].refs # 0
             /\ blks[b].refs = Cardinality(OwnersIn(v, b))
  <1> DEFINE b == v[x].block
  <1>1. b \in DOMAIN blks /\ ObjectOK(blks[b]) /\ CountOK(blks[b], OwnersIn(v, b))
    BY DEF Fits
  <1>2. x \in OwnersIn(v, b)
    BY DEF OwnersIn
  <1>3. blks[b] \in BlockRec
    BY <1>1, ElementOfSeq DEF Fits
  <1>4. Cardinality(OwnersIn(v, b)) # 0
    BY <1>2, OwnersFinite, OneLess
  <1> QED  BY <1>1, <1>2, <1>3, <1>4 DEF CountOK, BlockRec

(* The blocks when a Value w lets go of its block, and when one more owns it. *)
Without(blks, w) == IF w.owns THEN [blks EXCEPT ![w.block] = Released(blks[w.block])] ELSE blks
With(blks, w) == IF w.owns THEN [blks EXCEPT ![w.block] = Retained(blks[w.block])] ELSE blks

(* A block is replaced. *)
LEMMA Replace ==
  ASSUME NEW blks \in Seq(BlockRec), NEW b \in DOMAIN blks, NEW blk \in BlockRec
  PROVE  LET s == [blks EXCEPT ![b] = blk]
         IN  /\ s \in Seq(BlockRec) /\ DOMAIN s = DOMAIN blks /\ s[b] = blk
             /\ \A c \in DOMAIN blks : c # b => s[c] = blks[c]
  BY ExceptSeq

(* A Value is replaced. *)
LEMMA Replaced ==
  ASSUME NEW v \in [Slot -> ValueRec], NEW x \in Slot, NEW w \in ValueRec
  PROVE  LET u == [v EXCEPT ![x] = w]
         IN  /\ u \in [Slot -> ValueRec] /\ u[x] = w /\ \A y \in Slot \ {x} : u[y] = v[y]
  OBVIOUS

LEMMA DropFits ==
  ASSUME NEW v, NEW blks, Fits(v, blks), NEW x \in Slot, NEW w \in ValueRec, ~w.owns
  PROVE  Fits([v EXCEPT ![x] = w], Without(blks, v[x]))
  <1> DEFINE u  == [v EXCEPT ![x] = w]
             bs == Without(blks, v[x])
             o  == v[x].block
  <1>0. v \in [Slot -> ValueRec]
    BY DEF Fits
  <1>1. u \in [Slot -> ValueRec] /\ u[x] = w /\ (\A y \in Slot \ {x} : u[y] = v[y])
    BY <1>0, Replaced
  <1> HIDE DEF u
  <1>4. ASSUME NEW b  PROVE OwnersIn(u, b) = OwnersIn(v, b) \ {x}
    BY <1>1 DEF OwnersIn
  <1>2. CASE ~v[x].owns
    <2>1. \A b : OwnersIn(u, b) = OwnersIn(v, b)
      BY <1>2, <1>4 DEF OwnersIn
    <2>2. bs = blks
      BY <1>2 DEF Without
    <2> QED  BY <1>1, <2>1, <2>2 DEF Fits
  <1>3. CASE v[x].owns
    <2>1. /\ o \in DOMAIN blks /\ blks[o] \in BlockRec /\ ObjectOK(blks[o])
          /\ x \in OwnersIn(v, o) /\ blks[o].freed = FALSE /\ blks[o].refs # 0
          /\ blks[o].refs = Cardinality(OwnersIn(v, o))
      BY <1>3, OwnedBlock
    <2>2. /\ Released(blks[o]) \in BlockRec /\ ObjectOK(Released(blks[o]))
          /\ Released(blks[o]).refs = blks[o].refs - 1 /\ (Released(blks[o]).freed <=> blks[o].refs = 1)
      BY <2>1, ReleasedOK
    <2>3. /\ bs \in Seq(BlockRec) /\ DOMAIN bs = DOMAIN blks /\ bs[o] = Released(blks[o])
          /\ \A c \in DOMAIN blks : c # o => bs[c] = blks[c]
      BY <1>3, <2>1, <2>2, Replace DEF Without, Fits
    <2> HIDE DEF bs
    <2>4. CountOK(bs[o], OwnersIn(u, o))
      BY <1>4, <2>1, <2>2, <2>3, OneLess, OwnersFinite DEF CountOK
    <2>5. ASSUME NEW c \in DOMAIN blks, c # o  PROVE ObjectOK(bs[c]) /\ CountOK(bs[c], OwnersIn(u, c))
      <3>1. OwnersIn(u, c) = OwnersIn(v, c)
        BY <1>4, <2>5 DEF OwnersIn
      <3> QED  BY <2>3, <2>5, <3>1 DEF Fits
    <2>6. \A b \in DOMAIN bs : ObjectOK(bs[b]) /\ CountOK(bs[b], OwnersIn(u, b))
      BY <2>2, <2>3, <2>4, <2>5
    <2>7. \A y \in Slot : u[y].owns => u[y].block \in DOMAIN bs
      BY <1>1, <2>3 DEF Fits
    <2> QED  BY <1>1, <2>3, <2>6, <2>7 DEF Fits, u, bs
  <1> QED  BY <1>2, <1>3 DEF u

LEMMA RetainedOK ==
  ASSUME NEW blk \in BlockRec, ObjectOK(blk)
  PROVE  /\ Retained(blk) \in BlockRec /\ ObjectOK(Retained(blk))
         /\ Retained(blk).refs = blk.refs + 1 /\ Retained(blk).freed = blk.freed
  <1>1. Retained(blk) \in BlockRec
    BY DEF Retained, BlockRec
  <1>2. /\ Retained(blk).refs = blk.refs + 1 /\ Retained(blk).freed = blk.freed
        /\ Retained(blk).type = blk.type /\ Retained(blk).dtor = blk.dtor
        /\ Retained(blk).payload = blk.payload /\ Retained(blk).built = blk.built
        /\ Retained(blk).destroyed = blk.destroyed
    BY DEF Retained, BlockRec
  <1> QED  BY <1>1, <1>2 DEF ObjectOK, IsMisjudged

LEMMA ShareFits ==
  ASSUME NEW v, NEW blks, Fits(v, blks), NEW x \in Slot, ~v[x].owns, NEW y \in Slot
  PROVE  Fits([v EXCEPT ![x] = v[y]], With(blks, v[y]))
  <1> DEFINE w  == v[y]
             u  == [v EXCEPT ![x] = w]
             bs == With(blks, w)
             o  == w.block
  <1>0. v \in [Slot -> ValueRec] /\ w \in ValueRec
    BY DEF Fits
  <1>1. u \in [Slot -> ValueRec] /\ u[x] = w /\ (\A z \in Slot \ {x} : u[z] = v[z])
    BY <1>0, Replaced
  <1>2. CASE ~w.owns
    <2>1. ASSUME NEW b  PROVE OwnersIn(u, b) = OwnersIn(v, b)
      BY <1>1, <1>2 DEF OwnersIn
    <2>2. bs = blks
      BY <1>2 DEF With
    <2> QED  BY <1>1, <1>2, <2>1, <2>2 DEF Fits
  <1>3. CASE w.owns
    <2>1. /\ o \in DOMAIN blks /\ blks[o] \in BlockRec /\ ObjectOK(blks[o])
          /\ y \in OwnersIn(v, o) /\ blks[o].freed = FALSE
          /\ blks[o].refs = Cardinality(OwnersIn(v, o))
      BY <1>3, OwnedBlock
    <2>2. /\ Retained(blks[o]) \in BlockRec /\ ObjectOK(Retained(blks[o]))
          /\ Retained(blks[o]).refs = blks[o].refs + 1 /\ Retained(blks[o]).freed = FALSE
      BY <2>1, RetainedOK
    <2>3. /\ bs \in Seq(BlockRec) /\ DOMAIN bs = DOMAIN blks /\ bs[o] = Retained(blks[o])
          /\ \A c \in DOMAIN blks : c # o => bs[c] = blks[c]
      BY <1>3, <2>1, <2>2, Replace DEF With, Fits
    <2> HIDE DEF bs, u
    <2>4. OwnersIn(u, o) = OwnersIn(v, o) \cup {x} /\ x \notin OwnersIn(v, o)
      BY <1>1, <1>3 DEF OwnersIn
    <2>5. CountOK(bs[o], OwnersIn(u, o))
      BY <2>1, <2>2, <2>3, <2>4, OneMore, OwnersFinite DEF CountOK
    <2>6. ASSUME NEW c \in DOMAIN blks, c # o  PROVE ObjectOK(bs[c]) /\ CountOK(bs[c], OwnersIn(u, c))
      <3>1. OwnersIn(u, c) = OwnersIn(v, c)
        BY <1>1, <2>6 DEF OwnersIn
      <3> QED  BY <2>3, <2>6, <3>1 DEF Fits
    <2>7. \A b \in DOMAIN bs : ObjectOK(bs[b]) /\ CountOK(bs[b], OwnersIn(u, b))
      BY <2>2, <2>3, <2>5, <2>6
    <2>8. \A z \in Slot : u[z].owns => u[z].block \in DOMAIN bs
      BY <1>1, <2>1, <2>3 DEF Fits
    <2> QED  BY <1>1, <2>3, <2>7, <2>8 DEF Fits, u, bs
  <1> QED  BY <1>2, <1>3

Disowned(w) == [w EXCEPT !.owns = FALSE, !.kind = "invalid"]

LEMMA DisownedIsValue ==
  ASSUME NEW w \in ValueRec
  PROVE  Disowned(w) \in ValueRec /\ Disowned(w).owns = FALSE
  BY DEF Disowned, ValueRec, Kind

LEMMA GiveFits ==
  ASSUME NEW v, NEW blks, Fits(v, blks), NEW x \in Slot, ~v[x].owns, NEW y \in Slot, x # y
  PROVE  Fits([[v EXCEPT ![x] = v[y]] EXCEPT ![y] = Disowned(v[y])], blks)
  <1> DEFINE w == v[y]
             u == [[v EXCEPT ![x] = w] EXCEPT ![y] = Disowned(w)]
  <1>0. v \in [Slot -> ValueRec] /\ w \in ValueRec /\ Disowned(w) \in ValueRec /\ ~Disowned(w).owns
    BY DisownedIsValue DEF Fits
  <1>1. /\ u \in [Slot -> ValueRec] /\ u[x] = w /\ u[y] = Disowned(w)
        /\ \A z \in Slot \ {x, y} : u[z] = v[z]
    BY <1>0
  <1> HIDE DEF u
  <1>2. ASSUME NEW b \in DOMAIN blks  PROVE CountOK(blks[b], OwnersIn(u, b))
    <2>1. CASE w.owns /\ w.block = b
      <3>1. /\ OwnersIn(u, b) = (OwnersIn(v, b) \ {y}) \cup {x}
            /\ y \in OwnersIn(v, b) /\ x \notin OwnersIn(v, b) \ {y}
        BY <1>0, <1>1, <2>1 DEF OwnersIn
      <3>2. /\ IsFiniteSet(OwnersIn(v, b)) /\ IsFiniteSet(OwnersIn(v, b) \ {y})
            /\ Cardinality(OwnersIn(v, b) \ {y}) = Cardinality(OwnersIn(v, b)) - 1
            /\ Cardinality(OwnersIn(v, b)) \in Nat
        BY <3>1, OwnersFinite, OneLess, FS_Subset
      <3>3. Cardinality(OwnersIn(u, b)) = Cardinality(OwnersIn(v, b)) /\ OwnersIn(u, b) # {}
        BY <3>1, <3>2, OneMore
      <3> QED  BY <3>1, <3>3 DEF Fits, CountOK
    <2>2. CASE ~(w.owns /\ w.block = b)
      <3>1. OwnersIn(u, b) = OwnersIn(v, b)
        BY <1>0, <1>1, <2>2 DEF OwnersIn
      <3> QED  BY <3>1 DEF Fits
    <2> QED  BY <2>1, <2>2
  <1>3. \A z \in Slot : u[z].owns => u[z].block \in DOMAIN blks
    BY <1>0, <1>1 DEF Fits
  <1> QED  BY <1>1, <1>2, <1>3 DEF Fits, u

LEMMA NewFits ==
  ASSUME NEW v, NEW blks, Fits(v, blks), NEW x \in Slot, ~v[x].owns,
         NEW blk \in BlockRec, ObjectOK(blk), blk.refs = 1, blk.freed = FALSE,
         NEW w \in ValueRec, w.owns, w.block = Len(blks) + 1
  PROVE  Fits([v EXCEPT ![x] = w], Append(blks, blk))
  <1> DEFINE u  == [v EXCEPT ![x] = w]
             bs == Append(blks, blk)
             n  == Len(blks) + 1
  <1>0. v \in [Slot -> ValueRec] /\ blks \in Seq(BlockRec)
    BY DEF Fits
  <1>1. u \in [Slot -> ValueRec] /\ u[x] = w /\ (\A z \in Slot \ {x} : u[z] = v[z])
    BY <1>0, Replaced
  <1>2. /\ bs \in Seq(BlockRec) /\ DOMAIN bs = DOMAIN blks \cup {n} /\ bs[n] = blk
        /\ n \notin DOMAIN blks /\ \A b \in DOMAIN blks : bs[b] = blks[b]
    <2>1. bs \in Seq(BlockRec) /\ Len(bs) = n /\ DOMAIN bs = 1 .. n /\ DOMAIN blks = 1 .. Len(blks)
      BY <1>0, AppendProperties, LenProperties
    <2>2. bs[n] = blk /\ \A b \in DOMAIN blks : bs[b] = blks[b]
      BY <1>0, <2>1, AppendProperties
    <2> QED  BY <1>0, <2>1, <2>2, LenProperties
  <1> HIDE DEF u, bs, n
  <1>3. CountOK(bs[n], OwnersIn(u, n))
    <2>1. OwnersIn(u, n) = {x}
      BY <1>1, <1>2 DEF OwnersIn, Fits, n
    <2> QED  BY <1>2, <2>1, FS_Singleton DEF CountOK
  <1>4. ASSUME NEW b \in DOMAIN blks  PROVE ObjectOK(bs[b]) /\ CountOK(bs[b], OwnersIn(u, b))
    <2>1. OwnersIn(u, b) = OwnersIn(v, b)
      BY <1>1, <1>2 DEF OwnersIn, n
    <2> QED  BY <1>2, <2>1 DEF Fits
  <1>5. \A b \in DOMAIN bs : ObjectOK(bs[b]) /\ CountOK(bs[b], OwnersIn(u, b))
    BY <1>2, <1>3, <1>4
  <1>6. \A z \in Slot : u[z].owns => u[z].block \in DOMAIN bs
    BY <1>1, <1>2 DEF Fits, n
  <1> QED  BY <1>1, <1>2, <1>5, <1>6 DEF Fits, u, bs

(* A block just made, and what its object's construction makes of it. *)
Fresh(blk) == blk.payload = "canary" /\ blk.built = 0 /\ blk.freed = FALSE

LEMMA ConstructedOK ==
  ASSUME NEW blk \in BlockRec, ObjectOK(blk), Fresh(blk), NEW outcome \in {"built", "torn"}
  PROVE  /\ Constructed(blk, outcome) \in BlockRec /\ ObjectOK(Constructed(blk, outcome))
         /\ Constructed(blk, outcome).refs = blk.refs /\ Constructed(blk, outcome).freed = FALSE
  <1> DEFINE n == TypeInfo(blk.type).elements
             p == IF blk.type = "quiet" THEN "canary" ELSE "object"
  <1>1. n \in Nat /\ p \in {"canary", "object", "torn"}
    BY TypeFacts DEF BlockRec
  <1>2. CASE outcome = "built"
    <2> HIDE DEF n, p
    <2>1. Constructed(blk, outcome) = [blk EXCEPT !.payload = p, !.built = n]
      BY <1>2 DEF Constructed, n, p
    <2>2. [blk EXCEPT !.payload = p, !.built = n] \in BlockRec
      BY <1>1 DEF BlockRec
    <2>3. /\ Constructed(blk, outcome).refs = blk.refs /\ Constructed(blk, outcome).freed = FALSE
          /\ Constructed(blk, outcome).type = blk.type /\ Constructed(blk, outcome).dtor = blk.dtor
          /\ Constructed(blk, outcome).payload = p /\ Constructed(blk, outcome).built = n
          /\ Constructed(blk, outcome).destroyed = blk.destroyed
      BY <2>1 DEF BlockRec, Fresh
    <2> QED  BY <2>1, <2>2, <2>3 DEF ObjectOK, IsMisjudged, Fresh, n, p
  <1>3. CASE outcome = "torn"
    <2>1. Constructed(blk, outcome) = [blk EXCEPT !.payload = "torn"]
      BY <1>3 DEF Constructed
    <2>2. [blk EXCEPT !.payload = "torn"] \in BlockRec
      BY DEF BlockRec
    <2>3. /\ Constructed(blk, outcome).refs = blk.refs /\ Constructed(blk, outcome).freed = FALSE
          /\ Constructed(blk, outcome).type = blk.type /\ Constructed(blk, outcome).dtor = blk.dtor
          /\ Constructed(blk, outcome).payload = "torn"
      BY <2>1 DEF BlockRec, Fresh
    <2> QED  BY <2>1, <2>2, <2>3 DEF ObjectOK, IsMisjudged
  <1> QED  BY <1>2, <1>3

LEMMA ConstructedFits ==
  ASSUME NEW v, NEW blks, Fits(v, blks), NEW b \in DOMAIN blks, Fresh(blks[b]), NEW outcome \in {"built", "torn"}
  PROVE  Fits(v, [blks EXCEPT ![b] = Constructed(blks[b], outcome)])
  <1> DEFINE bs == [blks EXCEPT ![b] = Constructed(blks[b], outcome)]
  <1>1. blks \in Seq(BlockRec) /\ blks[b] \in BlockRec /\ ObjectOK(blks[b]) /\ CountOK(blks[b], OwnersIn(v, b))
    BY ElementOfSeq DEF Fits
  <1>2. /\ Constructed(blks[b], outcome) \in BlockRec /\ ObjectOK(Constructed(blks[b], outcome))
        /\ Constructed(blks[b], outcome).refs = blks[b].refs /\ Constructed(blks[b], outcome).freed = FALSE
    BY <1>1, ConstructedOK
  <1>3. /\ bs \in Seq(BlockRec) /\ DOMAIN bs = DOMAIN blks /\ bs[b] = Constructed(blks[b], outcome)
        /\ \A c \in DOMAIN blks : c # b => bs[c] = blks[c]
    BY <1>1, <1>2, Replace
  <1> HIDE DEF bs
  <1>4. CountOK(bs[b], OwnersIn(v, b))
    BY <1>1, <1>2, <1>3 DEF CountOK, Fresh
  <1>5. \A c \in DOMAIN bs : ObjectOK(bs[c]) /\ CountOK(bs[c], OwnersIn(v, c))
    BY <1>2, <1>3, <1>4 DEF Fits
  <1> QED  BY <1>3, <1>5 DEF Fits, bs

(***************************************************************************)
(* The operations.                                                         *)
(***************************************************************************)

LEMMA MadeFields ==
  ASSUME NEW v, NEW blks
  PROVE  Made(v, blks).values = v /\ Made(v, blks).blocks = blks
  <1> DEFINE m == FALSE
  <1>1. Made(v, blks) = HeapOf(v, blks, m)
    BY DEF Made
  <1> HIDE DEF m
  <1> QED  BY <1>1 DEF HeapOf

LEMMA PutMakes ==
  ASSUME NEW v, NEW blks, NEW x, NEW w
  PROVE  Put(Made(v, blks), x, w) = Made([v EXCEPT ![x] = w], blks)
  <1> DEFINE m == FALSE
             h == Made(v, blks)
             v2 == [v EXCEPT ![x] = w]
  <1>1. h = HeapOf(v, blks, m) /\ Made(v2, blks) = HeapOf(v2, blks, m)
    BY DEF Made
  <1> HIDE DEF m, h
  <1>2. Put(h, x, w) = HeapOf(v2, blks, m)
    BY <1>1 DEF HeapOf, Put
  <1> QED  BY <1>1, <1>2 DEF h

LEMMA MadeOK ==
  ASSUME NEW v, NEW blks, Fits(v, blks)
  PROVE  HeapOK(Made(v, blks))
  BY MadeFields DEF HeapOK

(* A block is used that is not freed. *)
LEMMA UseMakes ==
  ASSUME NEW h, h = Made(h.values, h.blocks), NEW b, h.blocks[b].freed = FALSE, NEW blk
  PROVE  PutBlock(h, b, blk) = Made(h.values, [h.blocks EXCEPT ![b] = blk])
  <1> DEFINE m    == FALSE
             v    == h.values
             blks == h.blocks
             bs   == [blks EXCEPT ![b] = blk]
  <1>1. h = HeapOf(v, blks, m) /\ Made(v, bs) = HeapOf(v, bs, m) /\ blks[b].freed = m
    BY DEF Made
  <1>2. HeapOf(v, blks, m).misused = m
    BY DEF HeapOf
  <1>3. (h.misused \/ h.blocks[b].freed) = m
    BY <1>1, <1>2
  <1>4. PutBlock(h, b, blk) = [h EXCEPT !.blocks[b] = blk, !.misused = m]
    BY <1>3 DEF PutBlock
  <1> HIDE DEF m, v, blks
  <1>5. PutBlock(h, b, blk) = HeapOf(v, bs, m)
    BY <1>1, <1>4 DEF HeapOf
  <1> QED  BY <1>1, <1>5 DEF v, blks

LEMMA ReleaseMakes ==
  ASSUME NEW h, HeapOK(h), NEW x \in Slot
  PROVE  ReleaseOwned(h, h.values[x]) = Made(h.values, Without(h.blocks, h.values[x]))
  <1> DEFINE w == h.values[x]
             b == w.block
  <1>1. CASE ~w.owns
    BY <1>1 DEF HeapOK, ReleaseOwned, Without
  <1>2. CASE w.owns
    <2>1. h.blocks[b].freed = FALSE
      BY <1>2, OwnedBlock DEF HeapOK
    <2>2. PutBlock(h, b, Released(h.blocks[b])) = Made(h.values, [h.blocks EXCEPT ![b] = Released(h.blocks[b])])
      BY <2>1, UseMakes DEF HeapOK
    <2> QED  BY <1>2, <2>2 DEF ReleaseOwned, Release, Without
  <1> QED  BY <1>1, <1>2

LEMMA CopyMakes ==
  ASSUME NEW h, h = Made(h.values, h.blocks), NEW x, NEW y,
         h.values[y].owns => h.blocks[h.values[y].block].freed = FALSE
  PROVE  CopyConstruct(h, x, y) = Made([h.values EXCEPT ![x] = h.values[y]], With(h.blocks, h.values[y]))
  <1> DEFINE w    == h.values[y]
             b    == w.block
             kept == IF w.owns THEN Retain(h, b) ELSE h
             bs   == With(h.blocks, w)
  <1>1. CASE ~w.owns
    <2>1. kept = Made(h.values, bs)
      BY <1>1 DEF With
    <2> QED  BY <2>1, PutMakes DEF CopyConstruct
  <1>2. CASE w.owns
    <2>1. PutBlock(h, b, Retained(h.blocks[b])) = Made(h.values, [h.blocks EXCEPT ![b] = Retained(h.blocks[b])])
      BY <1>2, UseMakes
    <2>2. kept = Made(h.values, bs)
      BY <1>2, <2>1 DEF Retain, With
    <2> QED  BY <2>2, PutMakes DEF CopyConstruct
  <1> QED  BY <1>1, <1>2

(* A Value that owns nothing replaces what x was. *)
Unowning(w) == w \in ValueRec /\ ~w.owns

LEMMA DropOK ==
  ASSUME NEW h, HeapOK(h), NEW x \in Slot, NEW w, Unowning(w)
  PROVE  LET d == AssignTemporary(h, x, w)
         IN  /\ HeapOK(d) /\ d = Made([h.values EXCEPT ![x] = w], Without(h.blocks, h.values[x]))
             /\ d.values = [h.values EXCEPT ![x] = w]
  <1> DEFINE d  == AssignTemporary(h, x, w)
             u  == [h.values EXCEPT ![x] = w]
             bs == Without(h.blocks, h.values[x])
  <1>1. d = Made(u, bs)
    BY ReleaseMakes, PutMakes DEF AssignTemporary
  <1>2. Fits(u, bs)
    BY DropFits DEF HeapOK, Unowning
  <1> HIDE DEF d, u, bs
  <1>4. HeapOK(d) /\ d.values = u
    BY <1>1, <1>2, MadeOK, MadeFields
  <1> QED  BY <1>1, <1>4 DEF d, u, bs

LEMMA CopyOK ==
  ASSUME NEW h, HeapOK(h), NEW x \in Slot, ~h.values[x].owns, NEW y \in Slot
  PROVE  /\ HeapOK(CopyConstruct(h, x, y))
         /\ CopyConstruct(h, x, y) = Made([h.values EXCEPT ![x] = h.values[y]], With(h.blocks, h.values[y]))
  <1> DEFINE u  == [h.values EXCEPT ![x] = h.values[y]]
             bs == With(h.blocks, h.values[y])
  <1>1. CopyConstruct(h, x, y) = Made(u, bs)
    <2>1. h.values[y].owns => h.blocks[h.values[y].block].freed = FALSE
      BY OwnedBlock DEF HeapOK
    <2>2. h = Made(h.values, h.blocks)
      BY DEF HeapOK
    <2> QED  BY <2>1, <2>2, CopyMakes
  <1>2. Fits(u, bs)
    BY ShareFits DEF HeapOK
  <1> QED  BY <1>1, <1>2, MadeOK

LEMMA GiveOK ==
  ASSUME NEW h, HeapOK(h), NEW x \in Slot, ~h.values[x].owns, NEW y \in Slot, x # y
  PROVE  HeapOK(MoveConstruct(h, x, y))
  <1> DEFINE w == h.values[y]
             u == [h.values EXCEPT ![x] = w]
             t == [u EXCEPT ![y] = Disowned(w)]
  <1>1. Put(h, x, w) = Made(u, h.blocks)
    BY PutMakes DEF HeapOK
  <1>2. u[y] = w
    BY Replaced DEF HeapOK, Fits
  <1>3. Moved(Made(u, h.blocks), y) = Made(t, h.blocks)
    <2>1. Made(u, h.blocks).values[y] = w
      <3> HIDE DEF u
      <3>1. Made(u, h.blocks).values = u
        BY MadeFields
      <3> QED  BY <1>2, <3>1
    <2>2. Moved(Made(u, h.blocks), y) = Put(Made(u, h.blocks), y, Disowned(w))
      BY <2>1 DEF Moved, Disowned
    <2> HIDE DEF u
    <2> QED  BY <2>2, PutMakes
  <1>4. Fits(t, h.blocks)
    BY GiveFits DEF HeapOK
  <1> QED  BY <1>1, <1>3, <1>4, MadeOK DEF MoveConstruct

LEMMA AppendMakes ==
  ASSUME NEW h, HeapOK(h), NEW blk
  PROVE  [h EXCEPT !.blocks = Append(h.blocks, blk)] = Made(h.values, Append(h.blocks, blk))
  <1> DEFINE m    == FALSE
             v    == h.values
             blks == h.blocks
             bs   == Append(blks, blk)
  <1>1. h = HeapOf(v, blks, m) /\ Made(v, bs) = HeapOf(v, bs, m)
    BY DEF HeapOK, Made
  <1> HIDE DEF m, v, blks, bs
  <1>2. [h EXCEPT !.blocks = bs] = HeapOf(v, bs, m)
    BY <1>1 DEF HeapOf
  <1> QED  BY <1>1, <1>2 DEF v, blks, bs

LEMMA NewBlockOK ==
  ASSUME NEW ty \in Type, NeedsManagedAlloc(ty)
  PROVE  LET blk == NewBlock(ty, TypeInfo(ty).asks)
         IN  blk \in BlockRec /\ ObjectOK(blk) /\ Fresh(blk) /\ blk.refs = 1
  <1> DEFINE blk == NewBlock(ty, TypeInfo(ty).asks)
  <1>1. TypeInfo(ty).asks \in BOOLEAN
    BY TypeFacts
  <1>2. blk \in BlockRec
    BY <1>1 DEF NewBlock, BlockRec
  <1>3. /\ blk.type = ty /\ blk.dtor = TypeInfo(ty).asks /\ blk.payload = "canary" /\ blk.built = 0
        /\ blk.destroyed = 0 /\ blk.freed = FALSE /\ blk.refs = 1
    BY DEF NewBlock
  <1> HIDE DEF blk
  <1>4. ObjectOK(blk) /\ Fresh(blk)
    BY <1>3 DEF ObjectOK, Fresh
  <1> QED  BY <1>2, <1>3, <1>4 DEF blk

LEMMA NewOK ==
  ASSUME NEW h, HeapOK(h), NEW x \in Slot, ~h.values[x].owns, NEW ty \in Type
  PROVE  LET made == Allocate(h, x, ty)
             b    == made.values[x].block
         IN  /\ HeapOK(made)
             /\ NeedsManagedAlloc(ty) => (b \in DOMAIN made.blocks /\ Fresh(made.blocks[b]))
  <1> DEFINE made == Allocate(h, x, ty)
             n    == Len(h.blocks) + 1
             blk  == NewBlock(ty, TypeInfo(ty).asks)
             w    == [kind |-> TypeKind(ty), type |-> ty, owns |-> NeedsManagedAlloc(ty), block |-> n]
  <1>1. n \in Nat /\ h.values \in [Slot -> ValueRec] /\ h.blocks \in Seq(BlockRec)
    BY LenProperties DEF HeapOK, Fits
  <1>2. w \in ValueRec /\ [w EXCEPT !.block = 0] \in ValueRec /\ w.block = n
    BY <1>1, TypeFacts DEF ValueRec
  <1>3. CASE ~NeedsManagedAlloc(ty)
    <2> DEFINE w0 == [w EXCEPT !.block = 0]
    <2>1. made = AssignTemporary(h, x, w0)
      BY <1>3 DEF Allocate
    <2>2. ~w0.owns
      BY <1>3
    <2> HIDE DEF made, w0
    <2>3. HeapOK(made)
      BY <1>2, <2>1, <2>2, DropOK DEF w0, Unowning
    <2> QED  BY <1>3, <2>3 DEF made
  <1>4. CASE NeedsManagedAlloc(ty)
    <2> DEFINE u  == [h.values EXCEPT ![x] = w]
               bs == Append(h.blocks, blk)
               a  == Made(h.values, bs)
    <2>1. blk \in BlockRec /\ ObjectOK(blk) /\ Fresh(blk) /\ blk.refs = 1
      BY <1>4, NewBlockOK
    <2>2. made = AssignTemporary(a, x, w)
      BY <1>4, AppendMakes DEF Allocate
    <2>3. w.owns
      BY <1>4
    <2> HIDE DEF w, blk, n, made
    <2>4. Fits(u, bs)
      BY <1>2, <2>1, <2>3, NewFits DEF HeapOK, Fresh, n
    <2>5. bs[n] = blk /\ n \in DOMAIN bs
      BY <1>1, <2>1, AppendProperties DEF n
    <2>6. u[x] = w
      BY <1>1, <1>2, Replaced
    <2> HIDE DEF u, bs
    <2>7. a.values = h.values
      BY MadeFields
    <2>8. ReleaseOwned(a, a.values[x]) = a
      BY <2>7 DEF ReleaseOwned
    <2>9. made = Put(a, x, w)
      BY <2>2, <2>8 DEF AssignTemporary
    <2>10. Put(a, x, w) = Made(u, bs)
      BY PutMakes DEF u
    <2>11. HeapOK(Made(u, bs)) /\ Made(u, bs).values = u /\ Made(u, bs).blocks = bs
      BY <2>4, MadeOK, MadeFields
    <2>12. HeapOK(made) /\ made.values[x] = w /\ made.blocks = bs
      BY <2>6, <2>9, <2>10, <2>11
    <2> QED  BY <1>2, <2>1, <2>5, <2>12 DEF made
  <1> QED  BY <1>3, <1>4

LEMMA ConstructOK ==
  ASSUME NEW h, HeapOK(h), NEW b \in DOMAIN h.blocks, Fresh(h.blocks[b]), NEW outcome \in {"built", "torn"}
  PROVE  HeapOK(ConstructPayload(h, b, outcome))
  <1> DEFINE bs == [h.blocks EXCEPT ![b] = Constructed(h.blocks[b], outcome)]
  <1>1. ConstructPayload(h, b, outcome) = Made(h.values, bs)
    BY UseMakes DEF ConstructPayload, Fresh, HeapOK
  <1>2. Fits(h.values, bs)
    BY ConstructedFits DEF HeapOK
  <1> QED  BY <1>1, <1>2, MadeOK

LEMMA DestroyOK ==
  ASSUME NEW h, HeapOK(h), NEW x \in Slot
  PROVE  /\ Destroy(h, x) = AssignTemporary(h, x, Invalid) /\ HeapOK(Destroy(h, x))
         /\ ~Destroy(h, x).values[x].owns
  <1>1. Invalid \in ValueRec /\ ~Invalid.owns
    BY DEF Invalid, ValueRec, Kind
  <1>2. Destroy(h, x) = AssignTemporary(h, x, Invalid)
    BY DEF Destroy, AssignTemporary
  <1>3. /\ HeapOK(AssignTemporary(h, x, Invalid))
        /\ AssignTemporary(h, x, Invalid).values = [h.values EXCEPT ![x] = Invalid]
    <2>1. Unowning(Invalid)
      BY <1>1 DEF Unowning
    <2> QED  BY <2>1, DropOK
  <1>4. [h.values EXCEPT ![x] = Invalid][x] = Invalid
    BY DEF HeapOK, Fits
  <1> QED  BY <1>1, <1>2, <1>3, <1>4

(* An assignment is a destruction and a copy, and a move of another Value that and a move. *)
LEMMA AssignOK ==
  ASSUME NEW h, HeapOK(h), NEW x \in Slot, NEW y \in Slot, ~(x = y /\ h.values[x].owns)
  PROVE  HeapOK(Assign(h, x, y))
  <1>1. CASE x = y
    <2>1. Assign(h, x, y) = CopyConstruct(h, x, x)
      BY <1>1 DEF Assign, ReleaseOwned
    <2> QED  BY <1>1, <2>1, CopyOK
  <1>2. CASE x # y
    <2> DEFINE v  == h.values
               u  == [v EXCEPT ![x] = Invalid]
               bs == Without(h.blocks, v[x])
               r  == Made(v, bs)
               d  == Made(u, bs)
    <2>1. ReleaseOwned(h, h.values[x]) = r /\ Destroy(h, x) = d
      BY ReleaseMakes, PutMakes DEF Destroy
    <2>2. HeapOK(d) /\ ~d.values[x].owns
      BY <2>1, DestroyOK
    <2>3. v \in [Slot -> ValueRec]
      BY DEF HeapOK, Fits
    <2>4. u[y] = v[y] /\ [u EXCEPT ![x] = v[y]] = [v EXCEPT ![x] = v[y]]
      BY <1>2, <2>3
    <2> HIDE DEF v, u, bs
    <2>5. r.values = v /\ r.blocks = bs /\ d.values = u /\ d.blocks = bs
      BY MadeFields
    <2>6. Fits(u, bs)
      BY <2>2, <2>5 DEF HeapOK
    <2>7. v[y].owns => bs[v[y].block].freed = FALSE
      <3>1. u[y].owns => bs[u[y].block].freed = FALSE
        BY <2>6, OwnedBlock
      <3> QED  BY <2>4, <3>1
    <2>11. r = Made(r.values, r.blocks) /\ d = Made(d.values, d.blocks)
      BY <2>5
    <2> HIDE DEF r, d
    <2>8. CopyConstruct(r, x, y) = Made([v EXCEPT ![x] = v[y]], With(bs, v[y]))
      BY <2>5, <2>7, <2>11, CopyMakes
    <2>9. CopyConstruct(d, x, y) = Made([v EXCEPT ![x] = v[y]], With(bs, v[y]))
      <3>1. d.values[y].owns => d.blocks[d.values[y].block].freed = FALSE
        BY <2>4, <2>5, <2>7
      <3>2. CopyConstruct(d, x, y) = Made([d.values EXCEPT ![x] = d.values[y]], With(d.blocks, d.values[y]))
        BY <2>11, <3>1, CopyMakes
      <3> QED  BY <2>4, <2>5, <3>2
    <2>10. HeapOK(CopyConstruct(d, x, y))
      BY <2>2, CopyOK
    <2> QED  BY <2>1, <2>8, <2>9, <2>10 DEF Assign
  <1> QED  BY <1>1, <1>2

LEMMA MoveAssignOK ==
  ASSUME NEW h, HeapOK(h), NEW x \in Slot, NEW y \in Slot
  PROVE  HeapOK(MoveAssign(h, x, y))
  <1> DEFINE v  == h.values
             w  == v[y]
             bs == Without(h.blocks, v[x])
             u  == [v EXCEPT ![x] = w]
             t  == [u EXCEPT ![y] = Disowned(w)]
  <1>1. AssignTemporary(h, x, w) = Made(u, bs)
    BY ReleaseMakes, PutMakes DEF AssignTemporary
  <1>2. v \in [Slot -> ValueRec] /\ w \in ValueRec /\ Disowned(w) \in ValueRec /\ Disowned(w).owns = FALSE
    BY DisownedIsValue DEF HeapOK, Fits
  <1>3. u[y] = w
    BY <1>2
  <1>4. MoveAssign(h, x, y) = Made(t, bs)
    <2> HIDE DEF u, bs
    <2>1. Made(u, bs).values = u
      BY MadeFields
    <2>2. Moved(Made(u, bs), y) = Put(Made(u, bs), y, Disowned(w))
      BY <1>3, <2>1 DEF Moved, Disowned
    <2> QED  BY <1>1, <2>2, PutMakes DEF MoveAssign
  <1>5. Fits(t, bs)
    <2>1. CASE x = y
      <3>1. t = [v EXCEPT ![x] = Disowned(w)]
        BY <1>2, <2>1
      <3> QED  BY <1>2, <3>1, DropFits DEF HeapOK
    <2>2. CASE x # y
      <3> DEFINE n == [v EXCEPT ![x] = Invalid]
      <3>1. Fits(n, bs)
        BY DropFits DEF HeapOK, Invalid, ValueRec, Kind
      <3>2. n[y] = w /\ ~n[x].owns /\ t = [[n EXCEPT ![x] = n[y]] EXCEPT ![y] = Disowned(n[y])]
        BY <1>2, <2>2 DEF Invalid
      <3> HIDE DEF n, t
      <3> QED  BY <2>2, <3>1, <3>2, GiveFits
    <2> QED  BY <2>1, <2>2
  <1> QED  BY <1>4, <1>5, MadeOK

(***************************************************************************)
(* The steps.                                                              *)
(***************************************************************************)

LEMMA InitOK ==
  ASSUME ValuesInit
  PROVE  IInv
  <1> DEFINE v == [x \in Slot |-> Invalid]
             s == << >>
  <1>1. v \in [Slot -> ValueRec] /\ \A x \in Slot : ~v[x].owns
    BY DEF Invalid, ValueRec, Kind
  <1>2. s \in Seq(BlockRec) /\ DOMAIN s = {}
    BY EmptySeq
  <1>3. Fits(v, s)
    BY <1>1, <1>2 DEF Fits
  <1>4. heap = Made(v, s)
    BY DEF ValuesInit, Made, HeapOf, Slot
  <1> HIDE DEF v, s
  <1> QED  BY <1>3, <1>4, MadeOK DEF ValuesInit, IInv

LEMMA EvaluatedOK ==
  ASSUME HeapOK(heap), NEW x \in Slot, Evaluated(x)
  PROVE  HeapOK(heap')
  <1> DEFINE reset == AssignTemporary(heap, x, Invalid)
             end(h) == IF x = resultV THEN Destroy(h, x) ELSE h
             made(ty) == Allocate(reset, x, ty)
             b(ty) == made(ty).values[x].block
  <1>1. HeapOK(reset) /\ ~reset.values[x].owns
    BY DestroyOK
  <1>2. ASSUME NEW h, HeapOK(h)  PROVE HeapOK(end(h))
    BY <1>2, DestroyOK
  <1>3. ASSUME NEW ty \in Type
        PROVE  /\ HeapOK(made(ty))
               /\ NeedsManagedAlloc(ty) => (b(ty) \in DOMAIN made(ty).blocks /\ Fresh(made(ty).blocks[b(ty)]))
    BY <1>1, NewOK
  <1>4. \/ heap' = end(reset)
        \/ \E ty \in Type : heap' = end(made(ty))
        \/ \E ty \in Type : /\ NeedsManagedAlloc(ty)
                            /\ \E outcome \in {"built", "torn"} :
                                 heap' = end(ConstructPayload(made(ty), b(ty), outcome))
    BY DEF Evaluated
  <1> HIDE DEF reset, end, made, b
  <1>5. CASE heap' = end(reset)
    BY <1>1, <1>2, <1>5
  <1>6. ASSUME NEW ty \in Type, heap' = end(made(ty))  PROVE HeapOK(heap')
    BY <1>2, <1>3, <1>6
  <1>7. ASSUME NEW ty \in Type, NeedsManagedAlloc(ty), NEW outcome \in {"built", "torn"},
               heap' = end(ConstructPayload(made(ty), b(ty), outcome))
        PROVE  HeapOK(heap')
    <2>1. HeapOK(ConstructPayload(made(ty), b(ty), outcome))
      BY <1>3, <1>7, ConstructOK
    <2> QED  BY <1>2, <1>7, <2>1
  <1> QED  BY <1>4, <1>5, <1>6, <1>7

LEMMA NextOK ==
  ASSUME IInv, ValuesNext
  PROVE  IInv'
  <1>1. CASE selfAssigned
    BY <1>1 DEF IInv, ValuesNext, DropValue, AssignValue, MoveValue, Renew, RenewByMove, Evaluated
  <1>2. CASE ~selfAssigned
    <2>1. HeapOK(heap) /\ selfAssigned = FALSE
      BY <1>2 DEF IInv
    <2>2. CASE UNCHANGED <<heap, selfAssigned>>
      BY <2>1, <2>2 DEF IInv
    <2>3. ASSUME NEW x \in Handle, DropValue(x)  PROVE HeapOK(heap') /\ selfAssigned' = FALSE
      BY <2>1, <2>3, DestroyOK DEF DropValue, Slot
    <2>4. ASSUME NEW x \in Handle, NEW y \in Handle, AssignValue(x, y)
          PROVE  selfAssigned' = TRUE \/ (HeapOK(heap') /\ selfAssigned' = FALSE)
      <3>1. x \in Slot /\ y \in Slot
        BY DEF Slot
      <3>2. CASE x = y /\ heap.values[x].owns
        BY <2>4, <3>2 DEF AssignValue
      <3>3. CASE ~(x = y /\ heap.values[x].owns)
        <4>1. HeapOK(Assign(heap, x, y))
          BY <2>1, <3>1, <3>3, AssignOK
        <4> QED  BY <2>1, <2>4, <3>3, <4>1 DEF AssignValue
      <3> QED  BY <3>2, <3>3
    <2>5. ASSUME NEW x \in Handle, NEW y \in Handle, MoveValue(x, y)  PROVE HeapOK(heap') /\ selfAssigned' = FALSE
      BY <2>1, <2>5, MoveAssignOK DEF MoveValue, Slot
    <2>6. ASSUME NEW x \in Handle, NEW y \in Handle, Renew(x, y)  PROVE HeapOK(heap') /\ selfAssigned' = FALSE
      BY <2>1, <2>6, DestroyOK, CopyOK DEF Renew, Slot
    <2>7. ASSUME NEW x \in Handle, NEW y \in Handle, RenewByMove(x, y)
          PROVE  HeapOK(heap') /\ selfAssigned' = FALSE
      BY <2>1, <2>7, DestroyOK, GiveOK DEF RenewByMove, Slot
    <2>8. ASSUME NEW x \in Slot, Evaluated(x)  PROVE HeapOK(heap') /\ selfAssigned' = FALSE
      BY <2>1, <2>8, EvaluatedOK DEF Evaluated
    <2>9. (selfAssigned' = TRUE \/ (HeapOK(heap') /\ selfAssigned' = FALSE)) => IInv'
      BY DEF IInv
    <2> QED  BY <2>2, <2>3, <2>4, <2>5, <2>6, <2>7, <2>8, <2>9 DEF ValuesNext, Slot
  <1> QED  BY <1>1, <1>2

LEMMA IInvShows ==
  ASSUME IInv
  PROVE  OwnsItsObjects
  <1>1. CASE selfAssigned
    BY <1>1 DEF OwnsItsObjects, CountsOwners, DestroysOnce
  <1>2. CASE HeapOK(heap)
    <2>1. /\ heap.misused = FALSE
          /\ heap.values \in [Slot -> ValueRec] /\ DOMAIN heap.values = Slot
          /\ heap.blocks \in Seq(BlockRec) /\ 1 .. Len(heap.blocks) = DOMAIN heap.blocks
      <3> DEFINE m == FALSE
                 v == heap.values
                 bs == heap.blocks
      <3>1. heap = HeapOf(v, bs, m) /\ v \in [Slot -> ValueRec] /\ bs \in Seq(BlockRec)
        BY <1>2 DEF HeapOK, Made, Fits
      <3> HIDE DEF m, v, bs
      <3>2. heap.misused = m
        BY <3>1 DEF HeapOf
      <3> QED  BY <3>1, <3>2, LenProperties DEF m, v, bs
    <2>2. ASSUME NEW b \in 1 .. Len(heap.blocks)
          PROVE  LET blk == heap.blocks[b]
                 IN  blk \in BlockRec /\ ObjectOK(blk) /\ CountOK(blk, Owners(b))
      <3>1. Owners(b) = OwnersIn(heap.values, b)
        BY <2>1 DEF Owners, OwnersIn
      <3> QED  BY <1>2, <2>1, <3>1, ElementOfSeq DEF HeapOK, Fits
    <2>3. CountsOwners
      BY <2>1, <2>2 DEF CountsOwners, CountOK
    <2>4. DestroysOnce
      BY <2>2 DEF DestroysOnce, ObjectOK
    <2> QED  BY <2>3, <2>4 DEF OwnsItsObjects
  <1> QED  BY <1>1, <1>2 DEF IInv

(* Whatever the interpreter and its callers do with any number of Values, a block is counted *)
(* by the Values that own it, freed with the last, and has then destroyed what was built in  *)
(* it, once, unless a Value was assigned to itself.  Value.cpp.                              *)
THEOREM ValuesOwnTheirObjects == ValuesSpec => []OwnsItsObjects
  <1>1. IInv /\ [~heap.misused /\ ValuesNext]_<<heap, selfAssigned>> => IInv'
    <2> SUFFICES ASSUME IInv, [~heap.misused /\ ValuesNext]_<<heap, selfAssigned>>  PROVE IInv'
      OBVIOUS
    <2>1. CASE UNCHANGED <<heap, selfAssigned>>
      BY <2>1 DEF IInv
    <2> QED  BY <2>1, NextOK
  <1> QED  BY <1>1, InitOK, IInvShows, PTL DEF ValuesSpec

(* What holds of a heap whatever its callers do: they may have released a block too often. *)
LooseBlock ==
  [refs : Int, type : Type, dtor : BOOLEAN, payload : {"canary", "object", "torn"},
   built : Nat, destroyed : Nat, freed : BOOLEAN]
HeapTyped(h) ==
  /\ h \in [values : [Slot -> ValueRec], blocks : Seq(LooseBlock), misused : BOOLEAN]
  /\ \A x \in Slot : h.values[x].owns => h.values[x].block \in DOMAIN h.blocks

LEMMA PutBlockTyped ==
  ASSUME NEW h, HeapTyped(h), NEW b \in DOMAIN h.blocks, NEW blk \in LooseBlock
  PROVE  /\ HeapTyped(PutBlock(h, b, blk)) /\ PutBlock(h, b, blk).values = h.values
         /\ DOMAIN PutBlock(h, b, blk).blocks = DOMAIN h.blocks
  <1> DEFINE p == PutBlock(h, b, blk)
  <1>1. h.blocks[b] \in LooseBlock /\ h.values \in [Slot -> ValueRec] /\ h.blocks \in Seq(LooseBlock)
    BY ElementOfSeq DEF HeapTyped
  <1>2. (h.misused \/ h.blocks[b].freed) \in BOOLEAN
    BY <1>1 DEF LooseBlock, HeapTyped
  <1>3. p = [h EXCEPT !.blocks = [@ EXCEPT ![b] = blk], !.misused = @ \/ h.blocks[b].freed]
    BY DEF PutBlock
  <1>4. p.values = h.values /\ p.blocks = [h.blocks EXCEPT ![b] = blk] /\ p.misused = (h.misused \/ h.blocks[b].freed)
    BY <1>3 DEF HeapTyped
  <1>5. p \in [values : [Slot -> ValueRec], blocks : Seq(LooseBlock), misused : BOOLEAN]
    <2>1. [h.blocks EXCEPT ![b] = blk] \in Seq(LooseBlock)
      BY <1>1, ExceptSeq
    <2> QED  BY <1>2, <1>3, <2>1 DEF HeapTyped
  <1>6. DOMAIN p.blocks = DOMAIN h.blocks
    BY <1>4
  <1> QED  BY <1>4, <1>5, <1>6 DEF HeapTyped

LEMMA PutTyped ==
  ASSUME NEW h, HeapTyped(h), NEW x \in Slot, NEW w \in ValueRec, w.owns => w.block \in DOMAIN h.blocks
  PROVE  /\ HeapTyped(Put(h, x, w)) /\ Put(h, x, w).values = [h.values EXCEPT ![x] = w]
         /\ Put(h, x, w).blocks = h.blocks
  BY DEF HeapTyped, Put

LEMMA ReleaseTyped ==
  ASSUME NEW h, HeapTyped(h), NEW w \in ValueRec, w.owns => w.block \in DOMAIN h.blocks
  PROVE  /\ HeapTyped(ReleaseOwned(h, w)) /\ ReleaseOwned(h, w).values = h.values
         /\ DOMAIN ReleaseOwned(h, w).blocks = DOMAIN h.blocks
  <1>1. CASE ~w.owns
    BY <1>1 DEF ReleaseOwned
  <1>2. CASE w.owns
    <2> DEFINE blk == h.blocks[w.block]
    <2>1. blk \in LooseBlock
      BY <1>2, ElementOfSeq DEF HeapTyped
    <2>2. Released(blk) \in LooseBlock
      <3> HIDE DEF blk
      <3>1. blk.type \in Type /\ blk.refs \in Int /\ blk.destroyed \in Nat /\ blk.freed \in BOOLEAN
        BY <2>1 DEF LooseBlock
      <3>2. TypeInfo(blk.type).elements \in Nat
        BY <3>1, TypeFacts
      <3>3. (IF blk.refs = 1 /\ LooksBuilt(blk) THEN blk.destroyed + TypeInfo(blk.type).elements ELSE blk.destroyed) \in Nat
        BY <3>1, <3>2
      <3>4. Released(blk) = [blk EXCEPT !.refs = blk.refs - 1, !.freed = blk.freed \/ blk.refs = 1,
              !.destroyed = IF blk.refs = 1 /\ LooksBuilt(blk) THEN blk.destroyed + TypeInfo(blk.type).elements ELSE blk.destroyed]
        BY DEF Released
      <3> DEFINE f == blk.freed \/ blk.refs = 1
                 d == IF blk.refs = 1 /\ LooksBuilt(blk) THEN blk.destroyed + TypeInfo(blk.type).elements ELSE blk.destroyed
                 n == blk.refs - 1
      <3>5. f \in BOOLEAN /\ d \in Nat /\ n \in Int
        BY <3>1, <3>3
      <3>6. Released(blk) = [blk EXCEPT !.refs = n, !.freed = f, !.destroyed = d]
        BY <3>4
      <3> HIDE DEF f, d, n
      <3> QED  BY <2>1, <3>5, <3>6 DEF LooseBlock
    <2>3. ReleaseOwned(h, w) = PutBlock(h, w.block, Released(blk)) /\ w.block \in DOMAIN h.blocks
      BY <1>2 DEF ReleaseOwned, Release
    <2> HIDE DEF blk
    <2>4. PICK b \in DOMAIN h.blocks, r \in LooseBlock : ReleaseOwned(h, w) = PutBlock(h, b, r)
      BY <2>2, <2>3
    <2>5. /\ HeapTyped(PutBlock(h, b, r)) /\ PutBlock(h, b, r).values = h.values
          /\ DOMAIN PutBlock(h, b, r).blocks = DOMAIN h.blocks
      BY PutBlockTyped
    <2> QED  BY <2>4, <2>5
  <1> QED  BY <1>1, <1>2 DEF ValueRec

LEMMA AssignTyped ==
  ASSUME NEW h, HeapTyped(h), NEW x \in Slot, NEW w \in ValueRec, w.owns => w.block \in DOMAIN h.blocks
  PROVE  /\ HeapTyped(AssignTemporary(h, x, w)) /\ AssignTemporary(h, x, w).values = [h.values EXCEPT ![x] = w]
         /\ DOMAIN AssignTemporary(h, x, w).blocks = DOMAIN h.blocks
  <1> DEFINE r == ReleaseOwned(h, h.values[x])
  <1>1. h.values[x] \in ValueRec /\ (h.values[x].owns => h.values[x].block \in DOMAIN h.blocks)
    BY DEF HeapTyped
  <1>2. HeapTyped(r) /\ r.values = h.values /\ DOMAIN r.blocks = DOMAIN h.blocks
    BY <1>1, ReleaseTyped
  <1> HIDE DEF r
  <1>3. HeapTyped(Put(r, x, w)) /\ Put(r, x, w).values = [r.values EXCEPT ![x] = w] /\ Put(r, x, w).blocks = r.blocks
    BY <1>2, PutTyped
  <1> QED  BY <1>2, <1>3 DEF AssignTemporary, r

LEMMA InvalidIsValue == Invalid \in ValueRec /\ Invalid.owns = FALSE
  BY DEF Invalid, ValueRec, Kind

LEMMA ResetTyped ==
  ASSUME NEW h, HeapTyped(h), NEW x \in Slot
  PROVE  /\ HeapTyped(AssignTemporary(h, x, Invalid))
         /\ AssignTemporary(h, x, Invalid).values = [h.values EXCEPT ![x] = Invalid]
         /\ Destroy(h, x) = AssignTemporary(h, x, Invalid)
         /\ AssignTemporary(h, x, Invalid).values[x] = Invalid
  <1>1. Destroy(h, x) = AssignTemporary(h, x, Invalid)
    BY DEF Destroy, AssignTemporary
  <1>2. h.values \in [Slot -> ValueRec]
    BY DEF HeapTyped
  <1> QED  BY <1>1, <1>2, InvalidIsValue, AssignTyped

(* A Value that is copied or moved. *)
LEMMA CopyTyped ==
  ASSUME NEW h, HeapTyped(h), NEW x \in Slot, NEW y \in Slot
  PROVE  HeapTyped(CopyConstruct(h, x, y))
  <1> DEFINE v == h.values[y]
             kept == IF v.owns THEN Retain(h, v.block) ELSE h
  <1>1. v \in ValueRec /\ (v.owns => v.block \in DOMAIN h.blocks)
    BY DEF HeapTyped
  <1>2. HeapTyped(kept) /\ DOMAIN kept.blocks = DOMAIN h.blocks
    <2>1. CASE ~v.owns
      BY <2>1
    <2>2. CASE v.owns
      <3> DEFINE blk == h.blocks[v.block]
      <3>1. blk \in LooseBlock
        BY <1>1, <2>2, ElementOfSeq DEF HeapTyped
      <3>2. Retained(blk) \in LooseBlock
        <4> HIDE DEF blk
        <4> QED  BY <3>1 DEF Retained, LooseBlock
      <3>3. kept = PutBlock(h, v.block, Retained(blk)) /\ v.block \in DOMAIN h.blocks
        BY <1>1, <2>2 DEF Retain
      <3> HIDE DEF blk, kept
      <3>4. PICK b \in DOMAIN h.blocks, r \in LooseBlock : kept = PutBlock(h, b, r)
        BY <3>2, <3>3
      <3>5. HeapTyped(PutBlock(h, b, r)) /\ DOMAIN PutBlock(h, b, r).blocks = DOMAIN h.blocks
        BY PutBlockTyped
      <3> QED  BY <3>4, <3>5
    <2> QED  BY <1>1, <2>1, <2>2 DEF ValueRec
  <1>3. CopyConstruct(h, x, y) = Put(kept, x, v)
    BY DEF CopyConstruct
  <1>4. v.owns => v.block \in DOMAIN kept.blocks
    BY <1>1, <1>2
  <1> HIDE DEF v, kept
  <1>5. HeapTyped(Put(kept, x, v))
    BY <1>1, <1>2, <1>4, PutTyped
  <1> QED  BY <1>3, <1>5

LEMMA MovedTyped ==
  ASSUME NEW h, HeapTyped(h), NEW y \in Slot
  PROVE  HeapTyped(Moved(h, y))
  <1> DEFINE w == [h.values[y] EXCEPT !.owns = FALSE, !.kind = "invalid"]
  <1>1. h.values[y] \in ValueRec
    BY DEF HeapTyped
  <1>2. w \in ValueRec /\ w.owns = FALSE
    BY <1>1 DEF ValueRec, Kind
  <1> QED  BY <1>2, PutTyped DEF Moved

LEMMA UseTyped ==
  ASSUME HeapTyped(heap), NEW x \in Handle, NEW y \in Handle, UseValues(x, y)
  PROVE  HeapTyped(heap')
  <1>1. x \in Slot /\ y \in Slot /\ heap.values \in [Slot -> ValueRec]
    BY DEF Slot, HeapTyped
  <1>2. \A h : HeapTyped(h) => /\ h.values[y] \in ValueRec /\ (h.values[y].owns => h.values[y].block \in DOMAIN h.blocks)
                               /\ h.values[x] \in ValueRec /\ (h.values[x].owns => h.values[x].block \in DOMAIN h.blocks)
    BY <1>1 DEF HeapTyped
  <1>3. HeapTyped(Destroy(heap, x))
    <2>1. Destroy(heap, x) = AssignTemporary(heap, x, Invalid) /\ HeapTyped(AssignTemporary(heap, x, Invalid))
      BY <1>1, ResetTyped
    <2> QED  BY ONLY <2>1
  <1>4. CASE DropValue(x)
    BY <1>3, <1>4 DEF DropValue
  <1>5. CASE AssignValue(x, y)
    <2>1. HeapTyped(ReleaseOwned(heap, heap.values[x]))
      BY <1>2, ReleaseTyped
    <2> QED  BY <1>1, <1>5, <2>1, CopyTyped DEF AssignValue, Assign
  <1>6. CASE MoveValue(x, y)
    <2>1. HeapTyped(AssignTemporary(heap, x, heap.values[y]))
      BY <1>1, <1>2, AssignTyped
    <2> QED  BY <1>1, <1>6, <2>1, MovedTyped DEF MoveValue, MoveAssign
  <1>7. CASE Renew(x, y)
    BY <1>1, <1>3, <1>7, CopyTyped DEF Renew
  <1>8. CASE RenewByMove(x, y)
    <2> DEFINE d == Destroy(heap, x)
    <2>1. HeapTyped(Put(d, x, d.values[y]))
      <3> HIDE DEF d
      <3> QED  BY <1>1, <1>2, <1>3, PutTyped DEF d
    <2> QED  BY <1>1, <1>8, <2>1, MovedTyped DEF RenewByMove, MoveConstruct
  <1> QED  BY <1>4, <1>5, <1>6, <1>7, <1>8 DEF UseValues

LEMMA ConstructTyped ==
  ASSUME NEW h, HeapTyped(h), NEW b \in DOMAIN h.blocks, h.blocks[b].freed = FALSE,
         NEW outcome \in {"built", "raw", "torn"}
  PROVE  /\ HeapTyped(ConstructPayload(h, b, outcome)) /\ ConstructPayload(h, b, outcome).values = h.values
         /\ outcome = "raw" => ConstructPayload(h, b, outcome) = h
         /\ outcome # "built" => ConstructPayload(h, b, outcome).blocks[b].built = h.blocks[b].built
  <1> DEFINE blk == h.blocks[b]
             new == Constructed(blk, outcome)
  <1>1. blk \in LooseBlock
    BY ElementOfSeq DEF HeapTyped
  <1>2. new \in LooseBlock /\ (outcome = "raw" => new = blk) /\ (outcome # "built" => new.built = blk.built)
    <2> HIDE DEF blk
    <2>1. TypeInfo(blk.type).elements \in Nat
      BY <1>1, TypeFacts DEF LooseBlock
    <2>2. CASE outcome = "built"
      <3>1. new = [blk EXCEPT !.payload = IF blk.type = "quiet" THEN "canary" ELSE "object",
                              !.built = TypeInfo(blk.type).elements]
        BY <2>2 DEF Constructed
      <3> QED  BY <1>1, <2>1, <2>2, <3>1 DEF LooseBlock
    <2>3. CASE outcome = "torn"
      BY <1>1, <2>3 DEF Constructed, LooseBlock
    <2>4. CASE outcome = "raw"
      BY <1>1, <2>4 DEF Constructed
    <2> QED  BY <2>2, <2>3, <2>4
  <1>3. ConstructPayload(h, b, outcome) = PutBlock(h, b, new)
    BY DEF ConstructPayload
  <1>4. HeapTyped(PutBlock(h, b, new)) /\ PutBlock(h, b, new).values = h.values
    <2> HIDE DEF new
    <2> QED  BY <1>2, PutBlockTyped
  <1>5. outcome = "raw" => PutBlock(h, b, new) = h
    <2> SUFFICES ASSUME outcome = "raw"  PROVE PutBlock(h, b, h.blocks[b]) = h
      BY <1>2
    <2>1. PutBlock(h, b, h.blocks[b]) = [h EXCEPT !.blocks = [@ EXCEPT ![b] = h.blocks[b]], !.misused = @ \/ FALSE]
      BY DEF PutBlock
    <2>2. [h.blocks EXCEPT ![b] = h.blocks[b]] = h.blocks
      BY DEF HeapTyped
    <2>3. (h.misused \/ FALSE) = h.misused
      BY DEF HeapTyped
    <2>4. PutBlock(h, b, h.blocks[b]) = [h EXCEPT !.blocks = h.blocks, !.misused = h.misused]
      BY <2>1, <2>2, <2>3
    <2> QED  BY <2>4 DEF HeapTyped
  <1>6. PutBlock(h, b, new).blocks[b] = new
    <2>1. PutBlock(h, b, new).blocks = [h.blocks EXCEPT ![b] = new]
      BY DEF PutBlock, HeapTyped
    <2> QED  BY <2>1 DEF HeapTyped
  <1> QED  BY <1>2, <1>3, <1>4, <1>5, <1>6

(* A Value v of a heap h for the type ty; an object is not built yet. *)
IsMade(h, v, ty) ==
  /\ v.type = ty /\ v.kind = TypeKind(ty) /\ v.owns = NeedsManagedAlloc(ty)
  /\ NeedsManagedAlloc(ty) =>
       v.block \in DOMAIN h.blocks /\ h.blocks[v.block].freed = FALSE /\ h.blocks[v.block].built = 0

LEMMA NewTyped ==
  ASSUME NEW h, HeapTyped(h), NEW x \in Slot, h.values[x] = Invalid, NEW ty \in Type
  PROVE  HeapTyped(Allocate(h, x, ty)) /\ IsMade(Allocate(h, x, ty), Allocate(h, x, ty).values[x], ty)
  <1> DEFINE made == Allocate(h, x, ty)
             n    == Len(h.blocks) + 1
             blk  == NewBlock(ty, TypeInfo(ty).asks)
             w    == [kind |-> TypeKind(ty), type |-> ty, owns |-> NeedsManagedAlloc(ty), block |-> n]
             w0   == [w EXCEPT !.block = 0]
  <1>1. n \in Nat /\ h.values \in [Slot -> ValueRec] /\ h.blocks \in Seq(LooseBlock)
    BY LenProperties DEF HeapTyped
  <1>2. /\ w \in ValueRec /\ w0 \in ValueRec /\ w.block = n
        /\ w.type = ty /\ w.kind = TypeKind(ty) /\ w.owns = NeedsManagedAlloc(ty)
        /\ w0.type = ty /\ w0.kind = TypeKind(ty) /\ w0.owns = NeedsManagedAlloc(ty)
    BY <1>1, TypeFacts DEF ValueRec
  <1>3. CASE ~NeedsManagedAlloc(ty)
    <2>1. made = AssignTemporary(h, x, w0)
      BY <1>3 DEF Allocate
    <2>2. ~w0.owns
      BY <1>2, <1>3
    <2> HIDE DEF made, w0, w
    <2>3. HeapTyped(made) /\ made.values = [h.values EXCEPT ![x] = w0]
      BY <1>2, <2>1, <2>2, AssignTyped
    <2>4. made.values[x] = w0
      BY <1>1, <2>3
    <2> QED  BY <1>2, <1>3, <2>3, <2>4 DEF made, IsMade
  <1>4. CASE NeedsManagedAlloc(ty)
    <2> DEFINE bs == Append(h.blocks, blk)
               a  == [h EXCEPT !.blocks = bs]
    <2>1. blk \in BlockRec /\ blk.freed = FALSE /\ blk.built = 0
      BY <1>4, NewBlockOK DEF NewBlock
    <2>2. blk \in LooseBlock
      <3> HIDE DEF blk
      <3> QED  BY <2>1 DEF BlockRec, LooseBlock
    <2>3. made = AssignTemporary(a, x, w)
      BY <1>4 DEF Allocate
    <2> HIDE DEF w, w0, blk, made
    <2>4. bs \in Seq(LooseBlock) /\ bs[n] = blk /\ n \in DOMAIN bs /\ \A i \in DOMAIN h.blocks : i \in DOMAIN bs
      BY <1>1, <2>2, AppendProperties, LenProperties
    <2> HIDE DEF bs
    <2>5. HeapTyped(a) /\ a.values = h.values /\ a.blocks = bs
      BY <2>4 DEF HeapTyped
    <2> HIDE DEF a
    <2>6. a.values[x] = Invalid
      BY <2>5
    <2>7. ReleaseOwned(a, a.values[x]) = a
      BY <2>6, InvalidIsValue DEF ReleaseOwned
    <2>8. made = Put(a, x, w)
      BY <2>3, <2>7 DEF AssignTemporary
    <2>9. HeapTyped(made) /\ made.values = [h.values EXCEPT ![x] = w] /\ made.blocks = bs
      BY <1>2, <2>4, <2>5, <2>8, PutTyped
    <2>10. made.values[x] = w
      BY <1>1, <2>9
    <2> QED  BY <1>2, <2>1, <2>4, <2>9, <2>10 DEF made, IsMade
  <1> QED  BY <1>3, <1>4

(* How the value of a type reaches the caller, and what it is then. *)
Handed(ty) == IF ty = "function" THEN "pointer" ELSE ty
LEMMA TransportFacts ==
  ASSUME NEW ty \in ValueType, ty # "unknown"
  PROVE  /\ Handed(ty) \in Type
         /\ Transport(ty) = "setValueWithAlloc" => NeedsManagedAlloc(Handed(ty)) /\ TypeKind(Handed(ty)) # "invalid"
         /\ Transport(ty) = "setValueNoAlloc" => TypeKind(Handed(ty)) # "invalid" /\ ~NeedsManagedAlloc(Handed(ty))
         /\ Transport(ty) \in {"setValueWithAlloc", "setValueNoAlloc", "none"}
         /\ Transport(ty) # "none" => ValueOf("value", ty) = Handed(ty)
         /\ Transport(ty) = "none" => ValueOf("value", ty) = "none"
  BY DEF ValueType, Type, Handed, Transport, NeedsManagedAlloc, TypeKind, TypeInfo, ValueOf

LEMMA HandOverTyped ==
  ASSUME NEW h, HeapTyped(h), NEW x \in Slot, h.values[x] = Invalid, NEW ty \in ValueType, ty # "unknown",
         NEW outcome \in {"built", "raw", "torn"}
  PROVE  LET r == HandOver(h, x, ty, outcome)
             v == r.values[x]
         IN  /\ HeapTyped(r)
             /\ outcome = "built" /\ Transport(ty) # "none" => IsValid(v) /\ v.type = Handed(ty)
             /\ outcome = "built" /\ Transport(ty) = "none" => v = Invalid
             /\ outcome # "built" => (IsValid(v) => v.owns /\ r.blocks[v.block].built = 0)
  <1> DEFINE r == HandOver(h, x, ty, outcome)
             t == Handed(ty)
             made == Allocate(h, x, t)
             b == made.values[x].block
  <1>1. /\ t \in Type
        /\ Transport(ty) = "setValueWithAlloc" => NeedsManagedAlloc(t) /\ TypeKind(t) # "invalid"
        /\ Transport(ty) = "setValueNoAlloc" => TypeKind(t) # "invalid" /\ ~NeedsManagedAlloc(t)
        /\ Transport(ty) \in {"setValueWithAlloc", "setValueNoAlloc", "none"}
    BY TransportFacts
  <1> HIDE DEF t
  <1>2. /\ HeapTyped(made) /\ made.values[x].type = t /\ made.values[x].kind = TypeKind(t)
        /\ made.values[x].owns = NeedsManagedAlloc(t)
        /\ NeedsManagedAlloc(t) =>
             b \in DOMAIN made.blocks /\ made.blocks[b].freed = FALSE /\ made.blocks[b].built = 0
    <2>1. HeapTyped(made) /\ IsMade(made, made.values[x], t)
      BY <1>1, NewTyped
    <2> QED  BY <2>1 DEF IsMade
  <1>3. r = CASE Transport(ty) = "setValueWithAlloc" -> ConstructPayload(made, b, outcome)
             [] Transport(ty) = "setValueNoAlloc" /\ outcome = "built" -> made
             [] OTHER -> h
    BY DEF HandOver, t, Handed
  <1> HIDE DEF r, made
  <1>4. ~IsValid(Invalid)
    BY DEF IsValid, Invalid
  <1>5. CASE Transport(ty) = "setValueWithAlloc"
    <2>1. r = ConstructPayload(made, b, outcome) /\ b \in DOMAIN made.blocks
      BY <1>1, <1>2, <1>3, <1>5
    <2>2. /\ HeapTyped(r) /\ r.values = made.values
          /\ outcome # "built" => r.blocks[b].built = made.blocks[b].built
      BY <1>1, <1>2, <1>5, <2>1, ConstructTyped
    <2> QED  BY <1>1, <1>2, <1>5, <2>2 DEF IsValid, r, t
  <1>6. CASE Transport(ty) = "setValueNoAlloc" /\ outcome = "built"
    <2>1. r = made
      BY <1>3, <1>6
    <2> QED  BY <1>1, <1>2, <1>6, <2>1 DEF IsValid, r, t
  <1>7. CASE Transport(ty) = "setValueNoAlloc" /\ outcome # "built"
    <2>1. r = h
      BY <1>3, <1>7
    <2> QED  BY <1>4, <1>7, <2>1 DEF r
  <1>8. CASE Transport(ty) = "none"
    <2>1. r = h
      BY <1>3, <1>8
    <2> QED  BY <1>4, <1>8, <2>1 DEF r
  <1> QED  BY <1>1, <1>5, <1>6, <1>7, <1>8

(* What a wrapper does to the heap is an evaluation of ValuesSpec. *)
LEMMA RunEvaluates ==
  ASSUME HeapTyped(heap), NEW x \in Slot, UNCHANGED selfAssigned,
         NEW ty \in ValueType, ty # "unknown", NEW outcome \in {"built", "raw", "torn"},
         LET r == HandOver(AssignTemporary(heap, x, Invalid), x, ty, outcome)
         IN  heap' = IF x = resultV THEN Destroy(r, x) ELSE r
  PROVE  Evaluated(x)
  <1> DEFINE reset == AssignTemporary(heap, x, Invalid)
             t == Handed(ty)
             made(u) == Allocate(reset, x, u)
             b(u) == made(u).values[x].block
             end(h) == IF x = resultV THEN Destroy(h, x) ELSE h
             r == HandOver(reset, x, ty, outcome)
  <1>1. /\ t \in Type
        /\ Transport(ty) = "setValueWithAlloc" => NeedsManagedAlloc(t)
    BY TransportFacts
  <1>2. HeapTyped(reset) /\ reset.values[x] = Invalid
    BY ResetTyped
  <1>3. r = CASE Transport(ty) = "setValueWithAlloc" -> ConstructPayload(made(t), b(t), outcome)
             [] Transport(ty) = "setValueNoAlloc" /\ outcome = "built" -> made(t)
             [] OTHER -> reset
    BY DEF HandOver, Handed
  <1>4. /\ HeapTyped(made(t))
        /\ NeedsManagedAlloc(t) => b(t) \in DOMAIN made(t).blocks /\ made(t).blocks[b(t)].freed = FALSE
    <2> HIDE DEF t, reset
    <2>1. HeapTyped(made(t)) /\ IsMade(made(t), made(t).values[x], t)
      BY <1>1, <1>2, NewTyped
    <2> QED  BY <2>1 DEF IsMade
  <1>5. heap' = end(r)
    OBVIOUS
  <1>6. \/ heap' = end(reset)
        \/ heap' = end(made(t))
        \/ NeedsManagedAlloc(t) /\ \E o \in {"built", "torn"} : heap' = end(ConstructPayload(made(t), b(t), o))
    <2> HIDE DEF made, reset, end, r, t
    <2>1. CASE Transport(ty) = "setValueWithAlloc" /\ outcome = "raw"
      <3>1. ConstructPayload(made(t), b(t), outcome) = made(t)
        BY <1>1, <1>4, <2>1, ConstructTyped
      <3> QED  BY <1>3, <1>5, <2>1, <3>1
    <2>2. CASE Transport(ty) = "setValueWithAlloc" /\ outcome # "raw"
      BY <1>1, <1>3, <1>5, <2>2
    <2>3. CASE Transport(ty) # "setValueWithAlloc"
      BY <1>3, <1>5, <2>3
    <2> QED  BY <2>1, <2>2, <2>3
  <1> HIDE DEF t
  <1>7. \/ heap' = end(reset)
        \/ \E u \in Type : \/ heap' = end(made(u))
                           \/ NeedsManagedAlloc(u) /\ \E o \in {"built", "torn"} : heap' = end(ConstructPayload(made(u), b(u), o))
    <2> HIDE DEF made, reset, end, b
    <2> QED  BY <1>1, <1>6
  <1> QED  BY <1>7 DEF Evaluated

(***************************************************************************)
(* Sequences that are made from others.                                    *)
(***************************************************************************)

(* Where the elements of a subsequence come from, and what is behind them. *)
LEMMA SubsequenceFacts ==
  ASSUME NEW S, NEW s \in Seq(S), NEW P \in SUBSET (1 .. Len(s))
  PROVE  /\ Subsequence(s, P) \in Seq(S)
         /\ \A k \in DOMAIN Subsequence(s, P) : \E i \in P : Subsequence(s, P)[k] = s[i]
         /\ \A i \in P : \E k \in DOMAIN Subsequence(s, P) :
              /\ Subsequence(s, P)[k] = s[i]
              /\ \A m \in DOMAIN Subsequence(s, P) : m > k => \E l \in P : l > i /\ Subsequence(s, P)[m] = s[l]
  <1> DEFINE upto(i) == {j \in P : j <= i}
             c == Cardinality(P)
             nth(k) == CHOOSE i \in P : Cardinality(upto(i)) = k
             r == Subsequence(s, P)
  <1>0. PICK n \in Nat : n = Len(s) /\ P \in SUBSET (1 .. n) /\ DOMAIN s = 1 .. n
    BY LenProperties
  <1>1. /\ n = Len(s) /\ P \in SUBSET (1 .. n) /\ DOMAIN s = 1 .. n
        /\ \A i \in P : i \in Nat
    BY <1>0
  <1>2. IsFiniteSet(P) /\ c \in Nat
    <2>1. IsFiniteSet(1 .. n)
      BY FS_Interval
    <2> QED  BY <1>1, <2>1, FS_Subset, FS_CardinalityType
  <1>3. \A i \in P : IsFiniteSet(upto(i)) /\ Cardinality(upto(i)) \in Nat
    <2> TAKE i \in P
    <2>1. upto(i) \subseteq P
      OBVIOUS
    <2> QED  BY <1>2, <2>1, FS_Subset, FS_CardinalityType
  <1>4. \A i \in P, j \in P : i < j => Cardinality(upto(i)) < Cardinality(upto(j))
    <2> TAKE i \in P, j \in P
    <2> HAVE i < j
    <2>1. i \in Nat /\ j \in Nat
      BY <1>1
    <2>2. upto(i) \subseteq upto(j)
      <3> SUFFICES ASSUME NEW x \in P, x <= i  PROVE x <= j
        OBVIOUS
      <3>1. x \in Nat
        BY <1>1
      <3> QED  BY <2>1, <3>1
    <2>3. j \in upto(j) /\ j \notin upto(i)
      BY <2>1
    <2>4. upto(i) # upto(j)
      BY <2>3
    <2> QED  BY <1>3, <2>2, <2>4, FS_Subset
  <1>5. \A i \in P, j \in P : Cardinality(upto(i)) < Cardinality(upto(j)) => i < j
    <2> TAKE i \in P, j \in P
    <2> HAVE Cardinality(upto(i)) < Cardinality(upto(j))
    <2>1. i \in Nat /\ j \in Nat
      BY <1>1
    <2> HIDE DEF upto
    <2>2. ~(j < i) /\ i # j
      BY <1>3, <1>4
    <2> QED  BY <2>1, <2>2
  <1>6. \A i \in P : Cardinality(upto(i)) \in 1 .. c
    <2> TAKE i \in P
    <2>1. upto(i) \subseteq P /\ i \in upto(i)
      BY <1>1
    <2>2. Cardinality(upto(i)) <= c
      BY <1>2, <2>1, FS_Subset
    <2>3. Cardinality(upto(i)) # 0
      BY <1>3, <2>1, FS_EmptySet
    <2>4. Cardinality(upto(i)) \in Nat
      BY <1>3
    <2> HIDE DEF c, upto
    <2> QED  BY <1>2, <2>2, <2>3, <2>4
  <1>7. \A k \in 1 .. c : nth(k) \in P /\ Cardinality(upto(nth(k))) = k
    <2> TAKE k \in 1 .. c
    <2>1. \E i \in P : Cardinality(upto(i)) = k
      <3>1. k \in Nat /\ 1 <= k /\ k <= c
        BY <1>2
      <3> HIDE DEF c
      <3> QED  BY <1>1, <3>1, KthElement DEF c
    <2> QED  BY <2>1
  <1>8. r = [k \in 1 .. c |-> s[nth(k)]]
    BY DEF Subsequence
  <1> HIDE DEF upto, c, nth, r
  <1>9. DOMAIN r = 1 .. c /\ \A k \in 1 .. c : r[k] = s[nth(k)] /\ r[k] \in S
    <2>1. \A k \in 1 .. c : s[nth(k)] \in S
      BY <1>1, <1>7, ElementOfSeq
    <2> QED  BY <1>8, <2>1
  <1>10. r \in Seq(S)
    BY <1>2, <1>8, <1>9, IsASeq
  <1>11. \A i \in P : \E k \in DOMAIN r : r[k] = s[i] /\ \A m \in DOMAIN r : m > k => \E l \in P : l > i /\ r[m] = s[l]
    <2> TAKE i \in P
    <2> DEFINE k == Cardinality(upto(i))
    <2>1. k \in 1 .. c /\ k \in Nat /\ i \in Nat
      BY <1>1, <1>3, <1>6
    <2>2. nth(k) = i
      <3>1. nth(k) \in P /\ nth(k) \in Nat /\ Cardinality(upto(nth(k))) = k
        <4>1. nth(k) \in P /\ Cardinality(upto(nth(k))) = k
          <5> HIDE DEF k
          <5> QED  BY <1>7, <2>1
        <4> QED  BY <1>1, <4>1
      <3> HIDE DEF k
      <3>2. k = Cardinality(upto(i))
        BY DEF k
      <3>3. ~(nth(k) < i) /\ ~(i < nth(k))
        BY <1>3, <1>4, <3>1, <3>2
      <3> QED  BY <2>1, <3>1, <3>3
    <2>3. \A m \in DOMAIN r : m > k => nth(m) \in P /\ nth(m) > i /\ r[m] = s[nth(m)]
      <3> TAKE m \in DOMAIN r
      <3> HAVE m > k
      <3>1. m \in 1 .. c /\ nth(m) \in P /\ Cardinality(upto(nth(m))) = m /\ nth(m) \in Nat
        <4>1. m \in 1 .. c
          BY <1>9
        <4>2. nth(m) \in P /\ Cardinality(upto(nth(m))) = m
          BY <1>7, <4>1
        <4> QED  BY <1>1, <4>1, <4>2
      <3>2. i < nth(m)
        BY <1>5, <3>1
      <3> QED  BY <1>9, <2>1, <3>1, <3>2
    <2> HIDE DEF k
    <2> QED  BY <1>9, <2>1, <2>2, <2>3
  <1>12. \A k \in DOMAIN r : \E i \in P : r[k] = s[i]
    BY <1>7, <1>9
  <1> QED  BY <1>10, <1>11, <1>12 DEF r

(* f is the function that FlattenSeq(seqs) defines, for the first n sequences. *)
IsFlattening(seqs, n, f) ==
  f = [i \in 1 .. n |-> IF i = 1 THEN seqs[i] ELSE f[i - 1] \o seqs[i]]

LEMMA FlatteningExists ==
  ASSUME NEW seqs, NEW n \in Nat
  PROVE  \E f : IsFlattening(seqs, n, f)
  <1> DEFINE Bad == {k \in Nat : ~\E f : IsFlattening(seqs, k, f)}
  <1> SUFFICES ASSUME Bad # {}  PROVE FALSE
    OBVIOUS
  <1>1. PICK m \in Bad : \A k \in Bad : m <= k
    <2> HIDE DEF Bad
    <2>1. Bad \in SUBSET Nat
      BY DEF Bad
    <2> QED  BY <2>1, LeastNatural
  <1>2. m # 0
    <2>1. IsFlattening(seqs, 0, [k \in 1 .. 0 |-> <<>>])
      BY DEF IsFlattening
    <2> QED  BY <2>1
  <1>3. PICK f : IsFlattening(seqs, m - 1, f)
    BY <1>1, <1>2
  <1> DEFINE g == [k \in 1 .. m |-> IF k < m THEN f[k]
                                    ELSE IF m = 1 THEN seqs[m] ELSE f[m - 1] \o seqs[m]]
  <1>4. \A k \in 1 .. (m - 1) : f[k] = IF k = 1 THEN seqs[k] ELSE f[k - 1] \o seqs[k]
    BY <1>3 DEF IsFlattening
  <1>5. \A k \in 1 .. m : g[k] = IF k = 1 THEN seqs[k] ELSE g[k - 1] \o seqs[k]
    <2> TAKE k \in 1 .. m
    <2>1. k # 1 => k - 1 \in 1 .. (m - 1) /\ g[k - 1] = f[k - 1]
      OBVIOUS
    <2>2. k < m => k \in 1 .. (m - 1) /\ g[k] = f[k]
      OBVIOUS
    <2>3. ~(k < m) => k = m
      OBVIOUS
    <2>4. g[m] = IF m = 1 THEN seqs[m] ELSE f[m - 1] \o seqs[m]
      BY <1>2
    <2> HIDE DEF g
    <2> QED  BY <1>4, <2>1, <2>2, <2>3, <2>4
  <1>6. IsFlattening(seqs, m, g)
    <2> HIDE DEF g
    <2>1. g = [k \in 1 .. m |-> g[k]]
      BY DEF g
    <2> QED  BY <1>5, <2>1 DEF IsFlattening
  <1> QED  BY <1>6

(* r has the elements of the first n sequences, in their order. *)
IsFlat(seqs, n, r) ==
  /\ \A m \in DOMAIN r : \E i \in 1 .. n : \E j \in DOMAIN seqs[i] : r[m] = seqs[i][j]
  /\ \A i \in 1 .. n : \A j \in DOMAIN seqs[i] : \E k \in DOMAIN r :
       /\ r[k] = seqs[i][j]
       /\ \A m \in DOMAIN r : m > k =>
            \E l \in i .. n : \E q \in DOMAIN seqs[l] : r[m] = seqs[l][q] /\ (l = i => q > j)

LEMMA FlatAppends ==
  ASSUME NEW S, NEW seqs \in Seq(Seq(S)), NEW n \in Nat, n + 1 \in DOMAIN seqs,
         NEW r \in Seq(S), IsFlat(seqs, n, r)
  PROVE  r \o seqs[n + 1] \in Seq(S) /\ IsFlat(seqs, n + 1, r \o seqs[n + 1])
  <1>0. PICK t \in Seq(S) : t = seqs[n + 1]
    BY ElementOfSeq
  <1>1. PICK a \in Nat, b \in Nat : a = Len(r) /\ b = Len(t) /\ DOMAIN r = 1 .. a /\ DOMAIN t = 1 .. b
    BY LenProperties
  <1>2. PICK z \in Seq(S) : z = r \o t
    BY ConcatProperties
  <1>3. /\ DOMAIN z = 1 .. a + b
        /\ \A k \in 1 .. a : z[k] = r[k]
        /\ \A k \in a + 1 .. a + b : z[k] = t[k - a]
    <2>1. Len(z) = a + b /\ DOMAIN z = 1 .. Len(z)
      BY <1>1, <1>2, ConcatProperties, LenProperties
    <2>2. \A k \in 1 .. a + b : z[k] = IF k <= a THEN r[k] ELSE t[k - a]
      BY <1>1, <1>2, ConcatProperties
    <2>3. ASSUME NEW k \in 1 .. a  PROVE z[k] = r[k]
      <3>1. k \in 1 .. a + b /\ k <= a
        OBVIOUS
      <3> QED  BY <2>2, <3>1
    <2>4. ASSUME NEW k \in a + 1 .. a + b  PROVE z[k] = t[k - a]
      <3>1. k \in 1 .. a + b /\ ~(k <= a)
        OBVIOUS
      <3> QED  BY <2>2, <3>1
    <2> QED  BY <2>1, <2>3, <2>4
  <1>4. ASSUME NEW m \in DOMAIN z
        PROVE  \/ m \in DOMAIN r /\ z[m] = r[m] /\ m \in 1 .. a
               \/ m \in a + 1 .. a + b /\ m - a \in DOMAIN t /\ z[m] = t[m - a]
    <2>1. m \in 1 .. a + b
      BY <1>3
    <2>2. m \in 1 .. a \/ (m \in a + 1 .. a + b /\ m - a \in 1 .. b)
      BY <2>1
    <2> QED  BY <1>1, <1>3, <2>2
  <1>5. n + 1 \in 1 .. n + 1 /\ \A i \in 1 .. n : i \in 1 .. n + 1
    OBVIOUS
  <1>6. ASSUME NEW m \in DOMAIN z
        PROVE  \E i \in 1 .. n + 1 : \E j \in DOMAIN seqs[i] : z[m] = seqs[i][j]
    <2>1. CASE m \in DOMAIN r /\ z[m] = r[m]
      <3>1. PICK i \in 1 .. n : \E j \in DOMAIN seqs[i] : r[m] = seqs[i][j]
        BY <2>1 DEF IsFlat
      <3> QED  BY <1>5, <2>1, <3>1
    <2>2. CASE m - a \in DOMAIN t /\ z[m] = t[m - a]
      BY <1>0, <1>5, <2>2
    <2> QED  BY <1>4, <2>1, <2>2
  <1>7. ASSUME NEW i \in 1 .. n + 1, NEW j \in DOMAIN seqs[i]
        PROVE  \E k \in DOMAIN z :
                 /\ z[k] = seqs[i][j]
                 /\ \A m \in DOMAIN z : m > k =>
                      \E l \in i .. n + 1 : \E q \in DOMAIN seqs[l] : z[m] = seqs[l][q] /\ (l = i => q > j)
    <2>1. CASE i = n + 1
      <3>1. j \in 1 .. b
        BY <1>0, <1>1, <2>1
      <3>2. PICK k \in a + 1 .. a + b : k = a + j /\ k - a = j /\ k \in 1 .. a + b
        BY <3>1
      <3>3. k \in DOMAIN z /\ z[k] = seqs[i][j]
        BY <1>0, <1>3, <2>1, <3>2
      <3>4. ASSUME NEW m \in DOMAIN z, m > k
            PROVE  \E l \in i .. n + 1 : \E q \in DOMAIN seqs[l] : z[m] = seqs[l][q] /\ (l = i => q > j)
        <4>1. m \in 1 .. a + b
          BY <1>3
        <4>2. m \notin 1 .. a /\ m - a > j /\ n + 1 \in i .. n + 1
          BY <2>1, <3>1, <3>2, <3>4, <4>1
        <4>3. m - a \in DOMAIN t /\ z[m] = t[m - a]
          BY <1>4, <4>2
        <4> QED  BY <1>0, <4>2, <4>3
      <3> QED  BY <3>3, <3>4
    <2>2. CASE i # n + 1
      <3>1. i \in 1 .. n
        BY <2>2
      <3>2. PICK k \in DOMAIN r :
              /\ r[k] = seqs[i][j]
              /\ \A m \in DOMAIN r : m > k =>
                   \E l \in i .. n : \E q \in DOMAIN seqs[l] : r[m] = seqs[l][q] /\ (l = i => q > j)
        <4>1. \A x \in 1 .. n : \A y \in DOMAIN seqs[x] : \E k \in DOMAIN r :
                 /\ r[k] = seqs[x][y]
                 /\ \A m \in DOMAIN r : m > k =>
                      \E l \in x .. n : \E q \in DOMAIN seqs[l] : r[m] = seqs[l][q] /\ (l = x => q > y)
          BY Zenon DEF IsFlat
        <4> QED  BY ONLY <3>1, <4>1, Zenon
      <3>3. k \in DOMAIN z /\ z[k] = r[k]
        <4>1. k \in 1 .. a /\ k \in 1 .. a + b
          BY <1>1
        <4> QED  BY <1>3, <4>1
      <3>4. n + 1 \in i .. n + 1 /\ n + 1 # i /\ \A l \in i .. n : l \in i .. n + 1
        BY <3>1
      <3>5. ASSUME NEW m \in DOMAIN z, m > k
            PROVE  \E l \in i .. n + 1 : \E q \in DOMAIN seqs[l] : z[m] = seqs[l][q] /\ (l = i => q > j)
        <4>1. CASE m \in DOMAIN r /\ z[m] = r[m]
          <5>1. PICK l \in i .. n : \E q \in DOMAIN seqs[l] : r[m] = seqs[l][q] /\ (l = i => q > j)
            BY <3>2, <3>5, <4>1
          <5>2. l \in i .. n + 1
            BY <3>4
          <5> QED  BY <4>1, <5>1, <5>2
        <4>2. CASE m - a \in DOMAIN t /\ z[m] = t[m - a]
          BY <1>0, <3>4, <4>2
        <4> QED  BY <1>4, <4>1, <4>2
      <3> QED  BY <3>2, <3>3, <3>5
    <2> QED  BY <2>1, <2>2
  <1>8. IsFlat(seqs, n + 1, z)
    BY <1>6, <1>7 DEF IsFlat
  <1> QED  BY <1>0, <1>2, <1>8

LEMMA FlattenFacts ==
  ASSUME NEW S, NEW seqs \in Seq(Seq(S))
  PROVE  FlattenSeq(seqs) \in Seq(S) /\ IsFlat(seqs, Len(seqs), FlattenSeq(seqs))
  <1>1. PICK n \in Nat : n = Len(seqs) /\ DOMAIN seqs = 1 .. n
    BY LenProperties
  <1>2. CASE n = 0
    <2>1. FlattenSeq(seqs) = seqs /\ seqs = <<>>
      BY <1>1, <1>2, EmptySeq DEF FlattenSeq
    <2>2. <<>> \in Seq(S) /\ IsFlat(seqs, 0, <<>>)
      BY EmptySeq DEF IsFlat
    <2> QED  BY <1>1, <1>2, <2>1, <2>2
  <1>3. CASE n # 0
    <2> DEFINE f == CHOOSE f : IsFlattening(seqs, n, f)
    <2>1. IsFlattening(seqs, n, f)
      BY FlatteningExists
    <2>2. FlattenSeq(seqs) = f[n]
      BY <1>1, <1>3 DEF FlattenSeq, IsFlattening
    <2> HIDE DEF f
    <2>3. \A i \in 1 .. n : f[i] = IF i = 1 THEN seqs[i] ELSE f[i - 1] \o seqs[i]
      BY <2>1 DEF IsFlattening
    <2> DEFINE Good(k) == f[k] \in Seq(S) /\ IsFlat(seqs, k, f[k])
               Bad == {k \in Nat : 1 <= k /\ k <= n /\ ~Good(k)}
    <2>4. Bad = {}
      <3> SUFFICES ASSUME Bad # {}  PROVE FALSE
        OBVIOUS
      <3>1. PICK k \in Bad : \A j \in Bad : k <= j
        <4> HIDE DEF Bad
        <4>1. Bad \in SUBSET Nat
          BY DEF Bad
        <4> QED  BY <4>1, LeastNatural
      <3>2. Good(1)
        <4>1. f[1] = seqs[1] /\ seqs[1] \in Seq(S)
          BY <1>1, <1>3, <2>3, ElementOfSeq
        <4>2. DOMAIN seqs[1] = 1 .. Len(seqs[1]) /\ Len(seqs[1]) \in Nat
          BY <4>1, LenProperties
        <4>3. IsFlat(seqs, 1, seqs[1])
          <5>1. \A i \in 1 .. 1 : i = 1
            OBVIOUS
          <5>2. 1 \in 1 .. 1
            OBVIOUS
          <5> QED  BY <5>1, <5>2 DEF IsFlat
        <4> QED  BY <4>1, <4>3
      <3>3. k # 1
        <4> HIDE DEF Good
        <4> QED  BY <3>2
      <3>4. k \in 2 .. n /\ k - 1 \in Nat /\ k - 1 + 1 = k /\ k \in DOMAIN seqs /\ k \in 1 .. n
        BY <1>1, <3>3
      <3>5. Good(k - 1)
        <4> HIDE DEF Good
        <4>1. k - 1 \notin Bad
          BY <3>1, <3>4
        <4> QED  BY <3>4, <4>1
      <3>6. f[k] = f[k - 1] \o seqs[k]
        <4> HIDE DEF Bad, Good
        <4> QED  BY <2>3, <3>3, <3>4
      <3>7. Good(k)
        <4> DEFINE p == k - 1
        <4>1. p \in Nat /\ p + 1 = k /\ f[p] \in Seq(S) /\ IsFlat(seqs, p, f[p])
          BY <3>4, <3>5
        <4> HIDE DEF p, Good
        <4>2. f[p] \o seqs[p + 1] \in Seq(S) /\ IsFlat(seqs, p + 1, f[p] \o seqs[p + 1])
          BY <3>4, <4>1, FlatAppends
        <4> QED  BY <3>6, <4>1, <4>2 DEF p, Good
      <3> QED  BY <3>1, <3>7
    <2>5. Good(n)
      <3> HIDE DEF Good
      <3>1. n \notin Bad
        BY <2>4
      <3> QED  BY <1>3, <3>1
    <2> QED  BY <1>1, <2>2, <2>5
  <1> QED  BY <1>2, <1>3

LEMMA MinFacts ==
  ASSUME NEW P \in SUBSET Nat, P # {}
  PROVE  Min(P) \in P /\ \A i \in P : Min(P) <= i
  <1>1. \E i \in P : \A j \in P : i <= j
    BY LeastNatural
  <1> QED  BY <1>1 DEF Min

LEMMA MaxFacts ==
  ASSUME NEW n \in Nat, NEW P \in SUBSET (1 .. n), P # {}
  PROVE  Max(P) \in P /\ \A i \in P : i <= Max(P)
  <1> DEFINE Q == {k \in Nat : n - k \in P}
  <1>1. PICK i : i \in P
    OBVIOUS
  <1>2. Q # {}
    <2>1. n - i \in Nat /\ n - (n - i) = i
      BY <1>1
    <2> QED  BY <1>1, <2>1
  <1>3. PICK k \in Q : \A j \in Q : k <= j
    <2> HIDE DEF Q
    <2>1. Q \in SUBSET Nat
      BY DEF Q
    <2> QED  BY <1>2, <2>1, LeastNatural
  <1>4. ASSUME NEW j \in P  PROVE n - k >= j
    <2>1. n - j \in Nat /\ n - (n - j) = j
      OBVIOUS
    <2>2. n - j \in Q
      BY <2>1
    <2>3. k <= n - j /\ k \in Nat
      BY <1>3, <2>2
    <2>4. j \in Nat
      OBVIOUS
    <2> HIDE DEF Q
    <2> QED  BY <2>1, <2>3, <2>4
  <1>5. n - k \in P
    BY <1>3
  <1>6. \E m \in P : \A j \in P : m >= j
    BY <1>4, <1>5
  <1>7. Max(P) \in P /\ \A j \in P : Max(P) >= j
    BY <1>6 DEF Max
  <1> QED  BY <1>7

(***************************************************************************)
(* The last element of b that is not in T is x; all elements are in T.     *)
(***************************************************************************)
EndsIn(b, T, x) ==
  \E i \in DOMAIN b : b[i] = x /\ \A m \in DOMAIN b : m > i => b[m] \in T

AllIn(b, T) == \A i \in DOMAIN b : b[i] \in T

LEMMA EndsOrAll ==
  ASSUME NEW S, NEW b \in Seq(S), NEW T
  PROVE  AllIn(b, T) \/ \E x \in S \ T : EndsIn(b, T, x)
  <1>1. PICK n \in Nat : n = Len(b) /\ DOMAIN b = 1 .. n
    BY LenProperties
  <1> DEFINE P == {i \in 1 .. n : b[i] \notin T}
  <1>2. CASE P = {}
    BY <1>1, <1>2 DEF AllIn
  <1>3. CASE P # {}
    <2>1. PICK i \in P : \A j \in P : j <= i
      <3> HIDE DEF P
      <3>1. P \in SUBSET (1 .. n)
        BY DEF P
      <3> QED  BY <1>3, <3>1, MaxFacts
    <2>2. i \in DOMAIN b /\ b[i] \in S \ T
      BY <1>1, ElementOfSeq
    <2>3. \A m \in DOMAIN b : m > i => b[m] \in T
      <3> SUFFICES ASSUME NEW m \in DOMAIN b, m > i, m \in P  PROVE FALSE
        BY <1>1
      <3>1. m <= i /\ m \in Nat /\ i \in Nat
        BY <1>1, <2>1
      <3> QED  BY <3>1
    <2> QED  BY <2>2, <2>3 DEF EndsIn
  <1> QED  BY <1>2, <1>3

LEMMA EndIsOne ==
  ASSUME NEW S, NEW b \in Seq(S), NEW T, NEW x, NEW y, EndsIn(b, T, x), x \notin T
  PROVE  ~AllIn(b, T) /\ (EndsIn(b, T, y) /\ y \notin T => x = y)
  <1>1. PICK n \in Nat : n = Len(b) /\ DOMAIN b = 1 .. n
    BY LenProperties
  <1>2. PICK i \in 1 .. n : b[i] = x /\ \A m \in 1 .. n : m > i => b[m] \in T
    BY <1>1 DEF EndsIn
  <1>3. ~AllIn(b, T)
    BY <1>1, <1>2 DEF AllIn
  <1>4. ASSUME EndsIn(b, T, y), y \notin T  PROVE x = y
    <2>1. PICK j \in 1 .. n : b[j] = y /\ \A m \in 1 .. n : m > j => b[m] \in T
      BY <1>1, <1>4 DEF EndsIn
    <2>2. ~(j > i) /\ ~(i > j)
      BY <1>2, <1>4, <2>1
    <2>3. i = j
      BY <2>2
    <2> QED  BY <1>2, <2>1, <2>3
  <1> QED  BY <1>3, <1>4

LEMMA EndsMore ==
  ASSUME NEW b, NEW T, NEW U, NEW x, T \subseteq U
  PROVE  (EndsIn(b, T, x) => EndsIn(b, U, x)) /\ (AllIn(b, T) => AllIn(b, U))
  BY DEF EndsIn, AllIn

(* What is left of b without the elements of X. *)
LEMMA SubsequenceEnds ==
  ASSUME NEW S, NEW b \in Seq(S), NEW X, NEW r, r = Subsequence(b, {i \in 1 .. Len(b) : b[i] \notin X})
  PROVE  /\ r \in Seq(S) /\ AllIn(r, S \ X)
         /\ \A T : AllIn(b, T) => AllIn(r, T \ X)
         /\ \A T, x : EndsIn(b, T, x) /\ x \notin X => EndsIn(r, T \ X, x)
  <1>1. PICK n \in Nat : n = Len(b) /\ DOMAIN b = 1 .. n
    BY LenProperties
  <1>2. PICK P : P = {i \in 1 .. n : b[i] \notin X}
    OBVIOUS
  <1>3. P \in SUBSET (1 .. Len(b)) /\ r = Subsequence(b, P)
    BY <1>1, <1>2
  <1>4. /\ r \in Seq(S)
        /\ \A k \in DOMAIN r : \E i \in P : r[k] = b[i]
        /\ \A i \in P : \E k \in DOMAIN r :
             /\ r[k] = b[i]
             /\ \A m \in DOMAIN r : m > k => \E l \in P : l > i /\ r[m] = b[l]
    <2>1. /\ Subsequence(b, P) \in Seq(S)
          /\ \A k \in DOMAIN Subsequence(b, P) : \E i \in P : Subsequence(b, P)[k] = b[i]
          /\ \A i \in P : \E k \in DOMAIN Subsequence(b, P) :
               /\ Subsequence(b, P)[k] = b[i]
               /\ \A m \in DOMAIN Subsequence(b, P) : m > k => \E l \in P : l > i /\ Subsequence(b, P)[m] = b[l]
      BY <1>3, SubsequenceFacts
    <2> QED  BY ONLY <1>3, <2>1
  <1>5. \A i \in P : i \in DOMAIN b /\ b[i] \in S \ X
    BY <1>1, <1>2, ElementOfSeq
  <1>6. AllIn(r, S \ X)
    BY <1>4, <1>5 DEF AllIn
  <1>7. ASSUME NEW T, AllIn(b, T)  PROVE AllIn(r, T \ X)
    BY <1>4, <1>5, <1>7 DEF AllIn
  <1>8. ASSUME NEW T, NEW x, EndsIn(b, T, x), x \notin X  PROVE EndsIn(r, T \ X, x)
    <2>1. PICK i \in DOMAIN b : b[i] = x /\ \A m \in DOMAIN b : m > i => b[m] \in T
      BY <1>8 DEF EndsIn
    <2>2. i \in P
      BY <1>1, <1>2, <1>8, <2>1
    <2>3. PICK k \in DOMAIN r : r[k] = b[i] /\ \A m \in DOMAIN r : m > k => \E l \in P : l > i /\ r[m] = b[l]
      BY <1>4, <2>2
    <2>4. ASSUME NEW m \in DOMAIN r, m > k  PROVE r[m] \in T \ X
      <3>1. PICK l \in P : l > i /\ r[m] = b[l]
        BY <2>3, <2>4
      <3> QED  BY <1>5, <2>1, <3>1
    <2> QED  BY <2>1, <2>3, <2>4 DEF EndsIn
  <1> QED  BY <1>4, <1>6, <1>7, <1>8

LEMMA LastOfEnds ==
  ASSUME NEW S, NEW b \in Seq(S)
  PROVE  /\ \A x : EndsIn(b, {}, x) => b # <<>> /\ Last(b) = x
         /\ AllIn(b, {}) => b = <<>>
         /\ b # <<>> => EndsIn(b, {}, Last(b)) /\ Last(b) \in S
  <1>1. PICK n \in Nat : n = Len(b) /\ DOMAIN b = 1 .. n
    BY LenProperties
  <1>2. Last(b) = b[n]
    BY <1>1 DEF Last
  <1>3. ASSUME NEW x, EndsIn(b, {}, x)  PROVE b # <<>> /\ Last(b) = x
    <2>1. PICK i \in 1 .. n : b[i] = x /\ \A m \in 1 .. n : ~(m > i)
      BY <1>1, <1>3 DEF EndsIn
    <2>2. i = n /\ n # 0
      <3>1. n \in 1 .. n
        BY <2>1
      <3> QED  BY <2>1, <3>1
    <2>3. b # <<>>
      BY <1>1, <2>2, EmptySeq
    <2> QED  BY <1>2, <2>1, <2>2, <2>3
  <1>4. ASSUME AllIn(b, {})  PROVE b = <<>>
    <2>1. \A i \in 1 .. n : FALSE
      BY <1>1, <1>4 DEF AllIn
    <2>2. n = 0
      <3>1. n # 0 => n \in 1 .. n
        OBVIOUS
      <3> QED  BY <2>1, <3>1
    <2> QED  BY <1>1, <2>2, EmptySeq
  <1>5. ASSUME b # <<>>  PROVE EndsIn(b, {}, Last(b)) /\ Last(b) \in S
    <2>1. n # 0
      BY <1>1, <1>5, EmptySeq
    <2>2. n \in 1 .. n /\ \A m \in 1 .. n : ~(m > n)
      BY <2>1
    <2> QED  BY <1>1, <1>2, <2>2, ElementOfSeq DEF EndsIn
  <1> QED  BY <1>3, <1>4, <1>5

(* What is left of b behind its first k elements. *)
RestOf(b, k) == SubSeq(b, k + 1, Len(b))

LEMMA SuffixEnds ==
  ASSUME NEW S, NEW b \in Seq(S), NEW k \in 0 .. Len(b), NEW r, r = RestOf(b, k)
  PROVE  /\ r \in Seq(S)
         /\ \A T, x : EndsIn(r, T, x) => EndsIn(b, T, x)
         /\ \A T, x : AllIn(r, T) /\ EndsIn(b, T, x) /\ x \notin T => \E i \in 1 .. k : b[i] = x
         /\ \A i \in DOMAIN r : \E j \in DOMAIN b : r[i] = b[j]
         /\ r # <<>> => b # <<>> /\ Last(r) = Last(b)
  <1>1. PICK n \in Nat : n = Len(b) /\ DOMAIN b = 1 .. n
    BY LenProperties
  <1>2. k \in Nat /\ k <= n
    BY <1>1
  <1>3. r \in Seq(S) /\ DOMAIN r = 1 .. n - k /\ Len(r) = n - k /\ \A i \in 1 .. n - k : r[i] = b[i + k]
    <2>1. k + 1 \in Int /\ n \in Int /\ k + 1 <= n + 1 /\ n - (k + 1) + 1 = n - k /\ n - k \in Nat
      BY <1>2
    <2>2. \A i \in k + 1 .. n : b[i] \in S
      <3>1. \A i \in k + 1 .. n : i \in DOMAIN b
        BY <1>1, <1>2
      <3> QED  BY <3>1, ElementOfSeq
    <2>3. /\ SubSeq(b, k + 1, n) \in Seq(S) /\ Len(SubSeq(b, k + 1, n)) = n - (k + 1) + 1
          /\ \A i \in 1 .. (n - (k + 1) + 1) : SubSeq(b, k + 1, n)[i] = b[k + 1 + i - 1]
      BY ONLY <2>1, <2>2, SliceFacts
    <2>4. \A i \in 1 .. n - k : k + 1 + i - 1 = i + k
      BY <1>2
    <2>5. r \in Seq(S) /\ Len(r) = n - k /\ \A i \in 1 .. n - k : r[i] = b[i + k]
      BY <1>1, <2>1, <2>3, <2>4 DEF RestOf
    <2> QED  BY <2>1, <2>5, LenProperties
  <1>4. ASSUME NEW T, NEW x, EndsIn(r, T, x)  PROVE EndsIn(b, T, x)
    <2>1. PICK i \in 1 .. n - k : r[i] = x /\ \A m \in 1 .. n - k : m > i => r[m] \in T
      BY <1>3, <1>4 DEF EndsIn
    <2>2. i + k \in 1 .. n /\ b[i + k] = x
      BY <1>2, <1>3, <2>1
    <2>3. ASSUME NEW m \in 1 .. n, m > i + k  PROVE b[m] \in T
      <3>1. m - k \in 1 .. n - k /\ m - k > i /\ m - k + k = m
        BY <1>2, <2>3
      <3> QED  BY <1>3, <2>1, <3>1
    <2> QED  BY <1>1, <2>2, <2>3 DEF EndsIn
  <1>5. ASSUME NEW T, NEW x, AllIn(r, T), EndsIn(b, T, x), x \notin T  PROVE \E i \in 1 .. k : b[i] = x
    <2>1. PICK i \in 1 .. n : b[i] = x
      BY <1>1, <1>5 DEF EndsIn
    <2>2. CASE i <= k
      BY <1>2, <2>1, <2>2
    <2>3. CASE ~(i <= k)
      <3>1. i - k \in 1 .. n - k /\ i - k + k = i
        BY <1>2, <2>3
      <3>2. r[i - k] = x /\ r[i - k] \in T
        BY <1>3, <1>5, <2>1, <3>1 DEF AllIn
      <3> QED  BY <1>5, <3>2
    <2> QED  BY <2>2, <2>3
  <1>6. \A i \in DOMAIN r : \E j \in DOMAIN b : r[i] = b[j]
    <2> TAKE i \in DOMAIN r
    <2>1. i \in 1 .. n - k
      BY <1>3
    <2>2. i + k \in DOMAIN b /\ r[i] = b[i + k]
      BY <1>1, <1>2, <1>3, <2>1
    <2> QED  BY <2>2
  <1>7. ASSUME r # <<>>  PROVE b # <<>> /\ Last(r) = Last(b)
    <2>1. n - k # 0
      BY <1>3, <1>7, EmptySeq
    <2>2. n - k \in 1 .. n - k /\ n - k + k = n /\ n # 0
      BY <1>2, <2>1
    <2>3. r[n - k] = b[n]
      BY <1>3, <2>2
    <2>4. b # <<>>
      BY <1>1, <2>2, EmptySeq
    <2> QED  BY <1>1, <1>3, <2>3, <2>4 DEF Last
  <1> QED  BY <1>3, <1>4, <1>5, <1>6, <1>7

(***************************************************************************)
(* The bodies of wrappers.  R has the types that the input returns.        *)
(***************************************************************************)
StmtSet(R) ==
  {s \in [kind : {"expr", "auto", "decl", "return", "cond", "null", "using", "type"},
          type : ValueType \cup {"none"}, returns : SUBSET R, valued : BOOLEAN] :
     /\ s.kind \in {"expr", "auto", "decl"} => s.type # "none"
     /\ s.kind \in {"return", "cond"} <=> s.returns # {}
     /\ ~s.valued}
Of(R, K) == {s \in StmtSet(R) : s.kind \in K}

(* What AutoSynthesizer and GetOrCreateLastExpr make of a statement at the end. *)
Declared(s) == IF s.kind = "auto" THEN Stmt("expr", LValueOf(s.type), {}) ELSE s
AsExpr(s) == IF s.kind = "decl" THEN Stmt("expr", LValueOf(s.type), {}) ELSE s

LEMMA LValueFacts ==
  ASSUME NEW ty \in ValueType
  PROVE  LValueOf(ty) \in ValueType
  BY DEF LValueOf, ValueType, Type

LEMMA StmtFacts ==
  ASSUME NEW R
  PROVE  /\ \A ty \in ValueType : Stmt("expr", ty, {}) \in StmtSet(R) /\ Stmt("decl", ty, {}) \in StmtSet(R)
         /\ Null \in Of(R, {"null"})
         /\ \A s \in StmtSet(R) : AsExpr(s) \in StmtSet(R) /\ Declared(s) \in StmtSet(R)
         /\ \A s \in StmtSet(R) : AsExpr(s).kind # "decl" /\ (s.kind # "decl" => AsExpr(s) = s)
         /\ \A s \in StmtSet(R) : s.kind # "null" => AsExpr(s).kind # "null" /\ Declared(s).kind # "null"
  <1>1. \A ty \in ValueType : Stmt("expr", ty, {}) \in StmtSet(R) /\ Stmt("decl", ty, {}) \in StmtSet(R)
    <2>1. "none" \notin ValueType
      BY DEF ValueType, Type
    <2> QED  BY <2>1 DEF Stmt, StmtSet
  <1>2. Null \in Of(R, {"null"})
    BY DEF Null, Stmt, StmtSet, Of
  <1>3. \A s \in StmtSet(R) : s.kind \in {"auto", "decl"} => s.type \in ValueType
    BY DEF StmtSet
  <1>4. \A ty : Stmt("expr", ty, {}).kind = "expr"
    BY DEF Stmt
  <1>5. \A s \in StmtSet(R) : s.kind \in {"auto", "decl"} => Stmt("expr", LValueOf(s.type), {}) \in StmtSet(R)
    BY <1>1, <1>3, LValueFacts
  <1> QED  BY <1>1, <1>2, <1>4, <1>5 DEF AsExpr, Declared

LEMMA LastStmtFacts ==
  ASSUME NEW R, NEW b \in Seq(StmtSet(R))
  PROVE  /\ AllIn(b, Of(R, {"null"})) => LastStmt(b) = 0
         /\ \A s \in StmtSet(R) : EndsIn(b, Of(R, {"null"}), s) /\ s.kind # "null" =>
              /\ LastStmt(b) \in DOMAIN b /\ LastStmt(b) # 0 /\ b[LastStmt(b)] = s
              /\ \A m \in DOMAIN b : m > LastStmt(b) => b[m] \in Of(R, {"null"})
  <1>1. PICK n \in Nat : n = Len(b) /\ DOMAIN b = 1 .. n
    BY LenProperties
  <1>2. \A i \in 1 .. n : b[i] \in StmtSet(R)
    BY <1>1, ElementOfSeq
  <1>3. PICK C : C = {i \in 1 .. n : b[i].kind # "null"}
    OBVIOUS
  <1>4. LastStmt(b) = IF C = {} THEN 0 ELSE Max(C)
    BY <1>1, <1>3 DEF LastStmt
  <1>5. ASSUME AllIn(b, Of(R, {"null"}))  PROVE LastStmt(b) = 0
    <2>1. \A i \in 1 .. n : b[i].kind = "null"
      BY <1>1, <1>5 DEF AllIn, Of
    <2> QED  BY <1>3, <1>4, <2>1
  <1>6. ASSUME NEW s \in StmtSet(R), EndsIn(b, Of(R, {"null"}), s), s.kind # "null"
        PROVE  /\ LastStmt(b) \in DOMAIN b /\ LastStmt(b) # 0 /\ b[LastStmt(b)] = s
               /\ \A m \in DOMAIN b : m > LastStmt(b) => b[m] \in Of(R, {"null"})
    <2>1. PICK i \in 1 .. n : b[i] = s /\ \A m \in 1 .. n : m > i => b[m] \in Of(R, {"null"})
      BY <1>1, <1>6 DEF EndsIn
    <2>2. i \in C
      BY <1>3, <1>6, <2>1
    <2>3. PICK k : k = LastStmt(b) /\ k = Max(C) /\ k \in C /\ \A j \in C : j <= k
      BY <1>3, <1>4, <2>2, MaxFacts
    <2>4. k \in 1 .. n /\ i <= k
      BY <1>3, <2>2, <2>3
    <2>5. ~(k > i)
      <3>1. b[k].kind # "null"
        BY <1>3, <2>3
      <3> QED  BY <2>1, <2>4, <3>1 DEF Of
    <2>6. k = i
      BY <2>4, <2>5
    <2> QED  BY <1>1, <2>1, <2>3, <2>6
  <1> QED  BY <1>5, <1>6

LEMMA InsertIs ==
  ASSUME NEW b, NEW k, NEW x
  PROVE  InsertAt(b, k, x) = SubSeq(b, 1, k - 1) \o <<x>> \o SubSeq(b, k, Len(b))
  BY DEF InsertAt

LEMMA InsertFacts ==
  ASSUME NEW S, NEW b \in Seq(S), NEW i \in 0 .. Len(b), NEW x \in S
  PROVE  /\ InsertAt(b, i + 1, x) \in Seq(S) /\ Len(InsertAt(b, i + 1, x)) = Len(b) + 1
         /\ InsertAt(b, i + 1, x)[i + 1] = x
         /\ \A m \in 1 .. i : InsertAt(b, i + 1, x)[m] = b[m]
         /\ \A m \in i + 1 .. Len(b) : InsertAt(b, i + 1, x)[m + 1] = b[m]
  <1>1. PICK n \in Nat : n = Len(b) /\ DOMAIN b = 1 .. n
    BY LenProperties
  <1>2. i \in Nat /\ i <= n /\ i + 1 - 1 = i
    BY <1>1
  <1>3. \A m \in 1 .. n : b[m] \in S
    BY <1>1, ElementOfSeq
  <1>4. PICK l : l = SubSeq(b, 1, i)
    OBVIOUS
  <1>5. PICK r : r = SubSeq(b, i + 1, n)
    OBVIOUS
  <1>6. l \in Seq(S) /\ Len(l) = i /\ \A m \in 1 .. i : l[m] = b[m]
    <2>1. 1 \in Int /\ i \in Int /\ 1 <= i + 1 /\ i - 1 + 1 = i /\ \A m \in 1 .. i : m \in 1 .. n /\ 1 + m - 1 = m
      BY <1>2
    <2>2. \A m \in 1 .. i : b[m] \in S
      BY <1>3, <2>1
    <2>3. /\ SubSeq(b, 1, i) \in Seq(S) /\ Len(SubSeq(b, 1, i)) = i - 1 + 1
          /\ \A m \in 1 .. (i - 1 + 1) : SubSeq(b, 1, i)[m] = b[1 + m - 1]
      BY ONLY <2>1, <2>2, SliceFacts
    <2> QED  BY <1>4, <2>1, <2>3
  <1>7. r \in Seq(S) /\ Len(r) = n - i /\ \A m \in 1 .. n - i : r[m] = b[m + i]
    <2>1. i + 1 \in Int /\ n \in Int /\ i + 1 <= n + 1 /\ n - (i + 1) + 1 = n - i
          /\ (\A m \in i + 1 .. n : m \in 1 .. n) /\ \A m \in 1 .. n - i : i + 1 + m - 1 = m + i
      BY <1>2
    <2>2. \A m \in i + 1 .. n : b[m] \in S
      BY <1>3, <2>1
    <2>3. /\ SubSeq(b, i + 1, n) \in Seq(S) /\ Len(SubSeq(b, i + 1, n)) = n - (i + 1) + 1
          /\ \A m \in 1 .. (n - (i + 1) + 1) : SubSeq(b, i + 1, n)[m] = b[i + 1 + m - 1]
      BY ONLY <2>1, <2>2, SliceFacts
    <2> QED  BY <1>5, <2>1, <2>3
  <1>8. PICK e : e = <<x>> /\ e \in Seq(S) /\ Len(e) = 1 /\ e[1] = x
    <2>1. <<x>> \in Seq(S) /\ Len(<<x>>) = 1 /\ <<x>>[1] = x
      OBVIOUS
    <2> QED  BY <2>1
  <1>9. PICK c : c = l \o e
    OBVIOUS
  <1>10. c \in Seq(S) /\ Len(c) = i + 1 /\ \A m \in 1 .. i + 1 : c[m] = IF m <= i THEN l[m] ELSE e[m - i]
    BY <1>6, <1>8, <1>9, ConcatProperties
  <1>11. PICK w : w = c \o r
    OBVIOUS
  <1>12. /\ w \in Seq(S) /\ Len(w) = i + 1 + (n - i)
         /\ \A m \in 1 .. i + 1 + (n - i) : w[m] = IF m <= i + 1 THEN c[m] ELSE r[m - (i + 1)]
    <2>1. /\ c \o r \in Seq(S) /\ Len(c \o r) = Len(c) + Len(r)
          /\ \A m \in 1 .. Len(c) + Len(r) : (c \o r)[m] = IF m <= Len(c) THEN c[m] ELSE r[m - Len(c)]
      BY <1>7, <1>10, ConcatProperties
    <2> QED  BY ONLY <1>7, <1>10, <1>11, <2>1
  <1>13. w = InsertAt(b, i + 1, x)
    <2>1. PICK k : k = i + 1 /\ k - 1 = i
      BY <1>2
    <2>2. InsertAt(b, k, x) = SubSeq(b, 1, k - 1) \o <<x>> \o SubSeq(b, k, Len(b))
      BY InsertIs
    <2>3. InsertAt(b, k, x) = SubSeq(b, 1, i) \o <<x>> \o SubSeq(b, k, n)
      BY ONLY <1>1, <2>1, <2>2, Zenon
    <2>4. l = SubSeq(b, 1, i) /\ r = SubSeq(b, k, n)
      BY ONLY <1>4, <1>5, <2>1, Zenon
    <2>5. InsertAt(b, k, x) = w
      BY ONLY <1>8, <1>9, <1>11, <2>3, <2>4, Zenon
    <2> QED  BY <2>1, <2>5
  <1>14. Len(w) = n + 1
    BY <1>2, <1>12
  <1>15. w[i + 1] = x
    <2>1. i + 1 \in 1 .. i + 1 + (n - i) /\ i + 1 <= i + 1 /\ i + 1 \in 1 .. i + 1 /\ ~(i + 1 <= i) /\ i + 1 - i = 1
      BY <1>2
    <2> QED  BY <1>8, <1>10, <1>12, <2>1
  <1>16. ASSUME NEW m \in 1 .. i  PROVE w[m] = b[m]
    <2>1. m \in 1 .. i + 1 + (n - i) /\ m <= i + 1 /\ m \in 1 .. i + 1 /\ m <= i
      BY <1>2
    <2> QED  BY <1>6, <1>10, <1>12, <2>1
  <1>17. ASSUME NEW m \in i + 1 .. n  PROVE w[m + 1] = b[m]
    <2>1. /\ m + 1 \in 1 .. i + 1 + (n - i) /\ ~(m + 1 <= i + 1) /\ m + 1 - (i + 1) = m - i
          /\ m - i \in 1 .. n - i /\ m - i + i = m
      BY <1>2
    <2> QED  BY <1>7, <1>12, <2>1
  <1> QED  BY <1>1, <1>12, <1>13, <1>14, <1>15, <1>16, <1>17

LEMMA WithLastExprFacts ==
  ASSUME NEW R, NEW b \in Seq(StmtSet(R))
  PROVE  /\ WithLastExpr(b) \in Seq(StmtSet(R))
         /\ AllIn(b, Of(R, {"null"})) => WithLastExpr(b) = b
         /\ \A s \in StmtSet(R) : EndsIn(b, Of(R, {"null"}), s) /\ s.kind # "null" =>
              /\ EndsIn(WithLastExpr(b), Of(R, {"null"}), AsExpr(s))
              /\ s.kind # "decl" => WithLastExpr(b) = b
              /\ EndsIn(b, {}, Null) => EndsIn(WithLastExpr(b), {}, Null)
              /\ EndsIn(b, {}, s) => EndsIn(WithLastExpr(b), {}, AsExpr(s))
  <1>1. PICK n \in Nat : n = Len(b) /\ DOMAIN b = 1 .. n
    BY LenProperties
  <1>2. PICK i : i = LastStmt(b)
    OBVIOUS
  <1>3. PICK N : N = Of(R, {"null"})
    OBVIOUS
  <1>4. PICK w : w = WithLastExpr(b)
    OBVIOUS
  <1>5. CASE AllIn(b, N)
    <2>1. w = b
      BY <1>3, <1>4, <1>5, LastStmtFacts DEF WithLastExpr
    <2>2. \A s : EndsIn(b, N, s) => s \in N
      BY <1>5, EndIsOne
    <2> QED  BY <1>3, <1>4, <2>1, <2>2 DEF Of
  <1>6. ASSUME NEW s \in StmtSet(R), EndsIn(b, N, s), s.kind # "null"
        PROVE  /\ w \in Seq(StmtSet(R))
               /\ EndsIn(w, N, AsExpr(s))
               /\ s.kind # "decl" => w = b
               /\ EndsIn(b, {}, Null) => EndsIn(w, {}, Null)
               /\ EndsIn(b, {}, s) => EndsIn(w, {}, AsExpr(s))
    <2>1. i \in 1 .. n /\ i # 0 /\ b[i] = s /\ \A m \in 1 .. n : m > i => b[m] \in N
      BY <1>1, <1>2, <1>3, <1>6, LastStmtFacts
    <2>2. CASE s.kind # "decl"
      BY <1>2, <1>4, <1>6, <2>1, <2>2 DEF WithLastExpr, AsExpr
    <2>3. CASE s.kind = "decl"
      <3>1. PICK x \in StmtSet(R) : x = AsExpr(s) /\ x = Stmt("expr", LValueOf(s.type), {})
        BY <2>3, StmtFacts DEF AsExpr
      <3>2. w = InsertAt(b, i + 1, x)
        BY <1>2, <1>4, <2>1, <2>3, <3>1 DEF WithLastExpr
      <3>3. /\ w \in Seq(StmtSet(R)) /\ Len(w) = n + 1 /\ w[i + 1] = x
            /\ \A m \in i + 1 .. n : w[m + 1] = b[m]
        <4>1. i \in 0 .. Len(b)
          BY <1>1, <2>1
        <4>2. /\ InsertAt(b, i + 1, x) \in Seq(StmtSet(R)) /\ Len(InsertAt(b, i + 1, x)) = Len(b) + 1
              /\ InsertAt(b, i + 1, x)[i + 1] = x
              /\ \A m \in i + 1 .. Len(b) : InsertAt(b, i + 1, x)[m + 1] = b[m]
          BY <4>1, InsertFacts
        <4> QED  BY ONLY <1>1, <3>2, <4>2
      <3>4. DOMAIN w = 1 .. n + 1 /\ i + 1 \in 1 .. n + 1
        BY <2>1, <3>3, LenProperties
      <3>5. ASSUME NEW m \in 1 .. n + 1, m > i + 1  PROVE w[m] \in N
        <4>1. m - 1 \in i + 1 .. n /\ m - 1 + 1 = m /\ m - 1 \in 1 .. n /\ m - 1 > i
          BY <2>1, <3>5
        <4> QED  BY <2>1, <3>3, <4>1
      <3>6. EndsIn(w, N, x)
        BY <3>3, <3>4, <3>5 DEF EndsIn
      <3>7. ASSUME EndsIn(b, {}, Null)  PROVE EndsIn(w, {}, Null)
        <4>1. PICK k \in 1 .. n : b[k] = Null /\ \A m \in 1 .. n : ~(m > k)
          BY <1>1, <3>7 DEF EndsIn
        <4>2. k = n /\ n \in 1 .. n
          <5>1. n \in 1 .. n
            BY <4>1
          <5> QED  BY <4>1, <5>1
        <4>3. n # i
          BY <1>6, <2>1, <4>1, <4>2, StmtFacts DEF Of
        <4>4. n \in i + 1 .. n /\ n + 1 \in 1 .. n + 1 /\ \A m \in 1 .. n + 1 : ~(m > n + 1)
          BY <2>1, <4>2, <4>3
        <4>5. w[n + 1] = Null
          BY <3>3, <4>1, <4>2, <4>4
        <4> QED  BY <3>4, <4>4, <4>5 DEF EndsIn
      <3>8. ASSUME EndsIn(b, {}, s)  PROVE EndsIn(w, {}, x)
        <4>1. PICK k \in 1 .. n : b[k] = s /\ \A m \in 1 .. n : ~(m > k)
          BY <1>1, <3>8 DEF EndsIn
        <4>2. k = n /\ n \in 1 .. n
          <5>1. n \in 1 .. n
            BY <4>1
          <5> QED  BY <4>1, <5>1
        <4>3. ~(n > i)
          BY <1>3, <1>6, <2>1, <4>1, <4>2 DEF Of
        <4>4. i = n /\ \A m \in 1 .. n + 1 : ~(m > i + 1)
          BY <2>1, <4>2, <4>3
        <4> QED  BY <3>3, <3>4, <4>4 DEF EndsIn
      <3> QED  BY <2>3, <3>1, <3>3, <3>6, <3>7, <3>8
    <2> QED  BY <2>2, <2>3
  <1>7. AllIn(b, N) \/ \E s \in StmtSet(R) : EndsIn(b, N, s) /\ s.kind # "null"
    <2>1. AllIn(b, N) \/ \E s \in StmtSet(R) \ N : EndsIn(b, N, s)
      BY EndsOrAll
    <2>2. \A s \in StmtSet(R) \ N : s.kind # "null"
      BY <1>3 DEF Of
    <2> QED  BY <2>1, <2>2
  <1> QED  BY <1>3, <1>4, <1>5, <1>6, <1>7

(* AutoFixer: what is last stays last, as an expression if it was a declaration with auto. *)
LEMMA DeclareAutoFacts ==
  ASSUME NEW R, NEW b \in Seq(StmtSet(R)), NEW T \in SUBSET StmtSet(R), \A s \in T : s.kind # "auto"
  PROVE  /\ DeclareAuto(b) \in Seq(StmtSet(R))
         /\ AllIn(b, T) => AllIn(DeclareAuto(b), T)
         /\ \A s \in StmtSet(R) : EndsIn(b, T, s) => EndsIn(DeclareAuto(b), T, Declared(s))
  <1> DEFINE Seqs == [i \in 1 .. Len(b) |->
                IF b[i].kind = "auto"
                THEN <<Stmt("decl", b[i].type, {}), Stmt("expr", LValueOf(b[i].type), {})>>
                ELSE <<b[i]>>]
  <1>1. PICK n \in Nat : n = Len(b) /\ DOMAIN b = 1 .. n
    BY LenProperties
  <1>2. PICK seqs : seqs = Seqs
    OBVIOUS
  <1>3. DeclareAuto(b) = FlattenSeq(seqs)
    BY <1>2 DEF DeclareAuto
  <1>4. ASSUME NEW i \in 1 .. n
        PROVE  /\ b[i] \in StmtSet(R)
               /\ b[i].kind # "auto" => seqs[i] = <<b[i]>>
               /\ b[i].kind = "auto" =>
                    \E s, t \in StmtSet(R) : seqs[i] = <<s, t>> /\ t = Declared(b[i])
    <2>1. b[i] \in StmtSet(R)
      BY <1>1, ElementOfSeq
    <2>2. seqs[i] = IF b[i].kind = "auto"
                    THEN <<Stmt("decl", b[i].type, {}), Stmt("expr", LValueOf(b[i].type), {})>>
                    ELSE <<b[i]>>
      BY <1>1, <1>2
    <2>3. CASE b[i].kind # "auto"
      BY <2>1, <2>2, <2>3
    <2>4. CASE b[i].kind = "auto"
      <3>1. b[i].type \in ValueType
        BY <2>1, <2>4 DEF StmtSet
      <3>2. PICK s : s = Stmt("decl", b[i].type, {}) /\ s \in StmtSet(R)
        BY <3>1, StmtFacts
      <3>3. PICK t : t = Stmt("expr", LValueOf(b[i].type), {}) /\ t \in StmtSet(R)
        BY <3>1, StmtFacts, LValueFacts
      <3>4. t = Declared(b[i])
        BY <2>4, <3>3 DEF Declared
      <3> QED  BY <2>1, <2>2, <2>4, <3>2, <3>3, <3>4
    <2> QED  BY <2>3, <2>4
  <1>5. ASSUME NEW i \in 1 .. n
        PROVE  /\ seqs[i] \in Seq(StmtSet(R))
               /\ b[i].kind # "auto" => DOMAIN seqs[i] = {1} /\ seqs[i][1] = b[i]
               /\ b[i].kind = "auto" => DOMAIN seqs[i] = {1, 2} /\ seqs[i][2] = Declared(b[i])
    <2>1. CASE b[i].kind # "auto"
      <3>1. PICK x \in StmtSet(R) : x = b[i] /\ seqs[i] = <<x>>
        BY <1>4, <2>1
      <3>2. <<x>> \in Seq(StmtSet(R)) /\ DOMAIN <<x>> = {1} /\ <<x>>[1] = x
        OBVIOUS
      <3> QED  BY <2>1, <3>1, <3>2
    <2>2. CASE b[i].kind = "auto"
      <3>1. PICK s \in StmtSet(R), t \in StmtSet(R) : seqs[i] = <<s, t>> /\ t = Declared(b[i])
        BY <1>4, <2>2
      <3>2. <<s, t>> \in Seq(StmtSet(R)) /\ DOMAIN <<s, t>> = {1, 2} /\ <<s, t>>[2] = t
        OBVIOUS
      <3> QED  BY <2>2, <3>1, <3>2
    <2> QED  BY <2>1, <2>2
  <1>6. seqs \in Seq(Seq(StmtSet(R))) /\ Len(seqs) = n /\ DOMAIN seqs = 1 .. n
    <2>1. DOMAIN seqs = 1 .. n /\ seqs = [i \in 1 .. n |-> seqs[i]]
      BY <1>1, <1>2
    <2>2. seqs \in Seq(Seq(StmtSet(R)))
      BY <1>5, <2>1, IsASeq
    <2> QED  BY <2>1, <2>2, LenProperties
  <1> HIDE DEF Seqs
  <1>7. PICK r : r = FlattenSeq(seqs)
    OBVIOUS
  <1>8. r \in Seq(StmtSet(R)) /\ IsFlat(seqs, n, r)
    <2>1. FlattenSeq(seqs) \in Seq(StmtSet(R)) /\ IsFlat(seqs, Len(seqs), FlattenSeq(seqs))
      BY <1>6, FlattenFacts
    <2> QED  BY <1>6, <1>7, <2>1
  <1>9. ASSUME NEW i \in 1 .. n, b[i] \in T, NEW j \in DOMAIN seqs[i]  PROVE seqs[i][j] \in T
    <2>1. b[i].kind # "auto"
      BY <1>9
    <2> QED  BY <1>5, <1>9, <2>1
  <1>10. ASSUME AllIn(b, T)  PROVE AllIn(r, T)
    <2> SUFFICES ASSUME NEW m \in DOMAIN r  PROVE r[m] \in T
      BY DEF AllIn
    <2>1. PICK i \in 1 .. n : \E j \in DOMAIN seqs[i] : r[m] = seqs[i][j]
      BY <1>8 DEF IsFlat
    <2>2. b[i] \in T
      BY <1>1, <1>10 DEF AllIn
    <2> QED  BY <1>9, <2>1, <2>2
  <1>11. ASSUME NEW s \in StmtSet(R), EndsIn(b, T, s)  PROVE EndsIn(r, T, Declared(s))
    <2>1. PICK i \in 1 .. n : b[i] = s /\ \A m \in 1 .. n : m > i => b[m] \in T
      BY <1>1, <1>11 DEF EndsIn
    <2>2. PICK j \in DOMAIN seqs[i] : seqs[i][j] = Declared(s) /\ \A q \in DOMAIN seqs[i] : ~(q > j)
      <3>1. CASE s.kind = "auto"
        <4>1. DOMAIN seqs[i] = {1, 2} /\ seqs[i][2] = Declared(s)
          BY <1>5, <2>1, <3>1
        <4>2. \A q \in {1, 2} : ~(q > 2)
          OBVIOUS
        <4> QED  BY <4>1, <4>2
      <3>2. CASE s.kind # "auto"
        <4>1. DOMAIN seqs[i] = {1} /\ seqs[i][1] = Declared(s)
          BY <1>5, <2>1, <3>2 DEF Declared
        <4>2. \A q \in {1} : ~(q > 1)
          OBVIOUS
        <4> QED  BY <4>1, <4>2
      <3> QED  BY <3>1, <3>2
    <2>3. PICK k \in DOMAIN r :
            /\ r[k] = seqs[i][j]
            /\ \A m \in DOMAIN r : m > k =>
                 \E l \in i .. n : \E q \in DOMAIN seqs[l] : r[m] = seqs[l][q] /\ (l = i => q > j)
      <3>1. \A x \in 1 .. n : \A y \in DOMAIN seqs[x] : \E k \in DOMAIN r :
               /\ r[k] = seqs[x][y]
               /\ \A m \in DOMAIN r : m > k =>
                    \E l \in x .. n : \E q \in DOMAIN seqs[l] : r[m] = seqs[l][q] /\ (l = x => q > y)
        BY <1>8, Zenon DEF IsFlat
      <3> QED  BY ONLY <3>1, Zenon
    <2>4. ASSUME NEW m \in DOMAIN r, m > k  PROVE r[m] \in T
      <3>1. PICK l \in i .. n : \E q \in DOMAIN seqs[l] : r[m] = seqs[l][q] /\ (l = i => q > j)
        BY <2>3, <2>4
      <3>2. PICK q \in DOMAIN seqs[l] : r[m] = seqs[l][q] /\ (l = i => q > j)
        BY <3>1
      <3>3. l # i
        BY <2>2, <3>2
      <3>4. l \in 1 .. n /\ l > i
        BY <3>3
      <3> QED  BY <1>9, <2>1, <3>2, <3>4
    <2> QED  BY <2>2, <2>3, <2>4 DEF EndsIn
  <1> QED  BY <1>3, <1>7, <1>8, <1>10, <1>11

OptionSet == [printing : {"auto", "enabled", "disabled"}, result : BOOLEAN, extraction : BOOLEAN]

(* ValuePrinterSynthesizer: the last statement is printed when it is an expression with nothing behind it. *)
LEMMA AttachPrinterFacts ==
  ASSUME NEW R, NEW b \in Seq(StmtSet(R)), NEW co \in OptionSet, NEW p, p = AttachPrinter(b, co)
  PROVE  /\ p.body \in Seq(StmtSet(R)) /\ p.co \in OptionSet
         /\ p.co.result = co.result /\ p.co.extraction = co.extraction
         /\ co.printing = "disabled" => p.body = b /\ p.co.printing = "disabled"
         /\ AllIn(b, Of(R, {"null"})) => p.body = b /\ p.co.printing = "disabled"
         /\ \A s \in StmtSet(R) : EndsIn(b, Of(R, {"null"}), s) /\ s.kind # "null" /\ co.printing # "disabled" =>
              /\ AsExpr(s).kind # "expr" => p.body = b /\ p.co.printing = "disabled"
              /\ AsExpr(s).kind = "expr" => EndsIn(p.body, Of(R, {"null"}), AsExpr(s))
              /\ EndsIn(b, {}, Null) /\ co.printing = "auto" => p.co.printing = "disabled"
              /\ EndsIn(b, {}, s) /\ AsExpr(s).kind = "expr" => p.co.printing = "enabled"
  <1>1. PICK N : N = Of(R, {"null"})
    OBVIOUS
  <1>2. PICK w : w = WithLastExpr(b) /\ w \in Seq(StmtSet(R))
    BY WithLastExprFacts
  <1>3. PICK i : i = LastStmt(w)
    OBVIOUS
  <1>4. PICK c : c = Cleared(w)
    OBVIOUS
  <1>5. PICK hidden : hidden = (co.printing = "auto" /\ i < Len(w) /\ w[i + 1].kind = "null")
    OBVIOUS
  <1>6. p = IF co.printing = "disabled" THEN [body |-> b, co |-> co]
            ELSE IF i = 0 \/ w[i].kind # "expr" THEN [body |-> b, co |-> [co EXCEPT !.printing = "disabled"]]
            ELSE IF hidden THEN [body |-> w, co |-> [co EXCEPT !.printing = "disabled"]]
            ELSE [body |-> IF c = <<>> THEN w ELSE c, co |-> [co EXCEPT !.printing = "enabled"]]
    BY <1>2, <1>3, <1>4, <1>5 DEF AttachPrinter
  <1>7. PICK n \in Nat : n = Len(w) /\ DOMAIN w = 1 .. n
    BY <1>2, LenProperties
  <1>8. /\ c \in Seq(StmtSet(R))
        /\ \A s : EndsIn(w, N, s) /\ s \notin N => EndsIn(c, N \ N, s)
    <2>1. c = Subsequence(w, {k \in 1 .. Len(w) : w[k] \notin N})
      <3>1. \A k \in 1 .. Len(w) : w[k] \in StmtSet(R)
        BY <1>2, <1>7, ElementOfSeq
      <3>2. {k \in 1 .. Len(w) : w[k].kind # "null"} = {k \in 1 .. Len(w) : w[k] \notin N}
        BY <1>1, <3>1 DEF Of
      <3> QED  BY <1>4, <3>2 DEF Cleared
    <2> QED  BY <1>2, <2>1, SubsequenceEnds
  <1>9. /\ co.printing = "disabled" => p.body = b /\ p.co = co
        /\ co.printing # "disabled" /\ (i = 0 \/ w[i].kind # "expr") => p.body = b /\ p.co = [co EXCEPT !.printing = "disabled"]
        /\ co.printing # "disabled" /\ ~(i = 0 \/ w[i].kind # "expr") /\ hidden =>
             p.body = w /\ p.co = [co EXCEPT !.printing = "disabled"]
        /\ co.printing # "disabled" /\ ~(i = 0 \/ w[i].kind # "expr") /\ ~hidden =>
             p.body \in {w, c} /\ p.co = [co EXCEPT !.printing = "enabled"]
    <2> DEFINE off == [co EXCEPT !.printing = "disabled"]
               on == [co EXCEPT !.printing = "enabled"]
    <2>1. p = IF co.printing = "disabled" THEN [body |-> b, co |-> co]
              ELSE IF i = 0 \/ w[i].kind # "expr" THEN [body |-> b, co |-> off]
              ELSE IF hidden THEN [body |-> w, co |-> off]
              ELSE [body |-> IF c = <<>> THEN w ELSE c, co |-> on]
      BY <1>6
    <2> HIDE DEF off, on
    <2>2. CASE co.printing = "disabled"
      <3>1. p = [body |-> b, co |-> co]
        BY <2>1, <2>2
      <3>2. p.body = b /\ p.co = co
        BY <3>1
      <3> QED  BY <2>2, <3>2, Zenon
    <2>3. CASE co.printing # "disabled" /\ (i = 0 \/ w[i].kind # "expr")
      <3>1. p = [body |-> b, co |-> off]
        BY <2>1, <2>3
      <3>2. p.body = b /\ p.co = off
        BY <3>1
      <3> QED  BY <2>3, <3>2, Zenon DEF off
    <2>4. CASE co.printing # "disabled" /\ ~(i = 0 \/ w[i].kind # "expr") /\ hidden
      BY <2>1, <2>4 DEF off
    <2>5. CASE co.printing # "disabled" /\ ~(i = 0 \/ w[i].kind # "expr") /\ ~hidden
      <3>1. p = [body |-> IF c = <<>> THEN w ELSE c, co |-> on]
        BY <2>1, <2>5
      <3>2. p.body \in {w, c} /\ p.co = on
        BY <3>1
      <3> QED  BY <2>5, <3>2 DEF on
    <2> QED  BY <2>2, <2>3, <2>4, <2>5
  <1>10. /\ [co EXCEPT !.printing = "disabled"] \in OptionSet /\ [co EXCEPT !.printing = "enabled"] \in OptionSet
         /\ [co EXCEPT !.printing = "disabled"].printing = "disabled" /\ [co EXCEPT !.printing = "enabled"].printing = "enabled"
         /\ [co EXCEPT !.printing = "disabled"].result = co.result /\ [co EXCEPT !.printing = "enabled"].result = co.result
         /\ [co EXCEPT !.printing = "disabled"].extraction = co.extraction
         /\ [co EXCEPT !.printing = "enabled"].extraction = co.extraction
    BY DEF OptionSet
  <1>11. /\ p.body \in Seq(StmtSet(R)) /\ p.co \in OptionSet
         /\ p.co.result = co.result /\ p.co.extraction = co.extraction
         /\ co.printing = "disabled" => p.body = b /\ p.co.printing = "disabled"
    <2> HIDE DEF OptionSet
    <2> QED  BY <1>2, <1>8, <1>9, <1>10
  <1>12. ASSUME AllIn(b, N)  PROVE p.body = b /\ p.co.printing = "disabled"
    <2>1. i = 0
      BY <1>1, <1>2, <1>3, <1>12, WithLastExprFacts, LastStmtFacts
    <2> QED  BY <1>9, <1>10, <2>1
  <1>13. ASSUME NEW s \in StmtSet(R), EndsIn(b, N, s), s.kind # "null", co.printing # "disabled"
         PROVE  /\ AsExpr(s).kind # "expr" => p.body = b /\ p.co.printing = "disabled"
                /\ AsExpr(s).kind = "expr" => EndsIn(p.body, N, AsExpr(s))
                /\ EndsIn(b, {}, Null) /\ co.printing = "auto" => p.co.printing = "disabled"
                /\ EndsIn(b, {}, s) /\ AsExpr(s).kind = "expr" => p.co.printing = "enabled"
    <2>1. PICK x \in StmtSet(R) : x = AsExpr(s) /\ x.kind # "null"
      BY <1>13, StmtFacts
    <2>2. /\ EndsIn(w, N, x)
          /\ EndsIn(b, {}, Null) => EndsIn(w, {}, Null)
          /\ EndsIn(b, {}, s) => EndsIn(w, {}, x)
      BY <1>1, <1>2, <1>13, <2>1, WithLastExprFacts
    <2>3. i \in 1 .. n /\ i # 0 /\ w[i] = x /\ \A m \in 1 .. n : m > i => w[m] \in N
      BY <1>1, <1>2, <1>3, <1>7, <2>1, <2>2, LastStmtFacts
    <2>4. ASSUME x.kind # "expr"  PROVE p.body = b /\ p.co.printing = "disabled"
      BY <1>9, <1>10, <1>13, <2>3, <2>4
    <2>5. ASSUME x.kind = "expr"  PROVE EndsIn(p.body, N, x)
      <3>1. x \notin N
        BY <1>1, <2>5 DEF Of
      <3>2. EndsIn(c, {}, x)
        BY <1>8, <2>2, <3>1
      <3>3. EndsIn(c, N, x)
        BY <3>2, EndsMore
      <3>4. p.body \in {w, c}
        BY <1>9, <1>13, <2>3, <2>5
      <3> QED  BY <2>2, <3>3, <3>4
    <2>6. ASSUME EndsIn(b, {}, Null), co.printing = "auto"  PROVE p.co.printing = "disabled"
      <3>1. PICK k \in 1 .. n : w[k] = Null /\ \A m \in 1 .. n : ~(m > k)
        BY <1>7, <2>2, <2>6 DEF EndsIn
      <3>2. Null.kind = "null"
        BY DEF Null, Stmt
      <3>3. k # i
        BY <2>1, <2>3, <3>1, <3>2
      <3>4. i < n /\ i + 1 \in 1 .. n /\ i + 1 > i
        BY <2>3, <3>1, <3>3
      <3>5. w[i + 1].kind = "null"
        BY <1>1, <2>3, <3>4 DEF Of
      <3>6. hidden
        BY <1>5, <1>7, <2>6, <3>4, <3>5
      <3> QED  BY <1>9, <1>10, <1>13, <3>6
    <2>7. ASSUME EndsIn(b, {}, s), x.kind = "expr"  PROVE p.co.printing = "enabled"
      <3>1. PICK k \in 1 .. n : w[k] = x /\ \A m \in 1 .. n : ~(m > k)
        BY <1>7, <2>2, <2>7 DEF EndsIn
      <3>2. x \notin N
        BY <1>1, <2>1 DEF Of
      <3>3. ~(k > i) /\ ~(i > k)
        BY <2>3, <3>1, <3>2
      <3>4. ~(i < n)
        <4>1. i = k /\ n \in 1 .. n
          BY <2>3, <3>3
        <4> QED  BY <3>1, <4>1
      <3>5. ~hidden
        BY <1>5, <1>7, <3>4
      <3> QED  BY <1>9, <1>10, <1>13, <2>3, <2>7, <3>5
    <2> QED  BY <2>1, <2>4, <2>5, <2>6, <2>7
  <1> QED  BY <1>1, <1>11, <1>12, <1>13

(* DeclExtractor: what is last and no declaration stays last; behind a declaration nothing is left. *)
LEMMA ExtractDeclsFacts ==
  ASSUME NEW R, NEW b \in Seq(StmtSet(R)), NEW co, co.extraction = TRUE, NEW r, r = ExtractDecls(b, co)
  PROVE  /\ r \in Seq(StmtSet(R))
         /\ AllIn(b, Of(R, {"null", "using"})) => AllIn(r, Of(R, {"null"}))
         /\ \A s \in StmtSet(R) : EndsIn(b, Of(R, {"null", "using"}), s) /\ s.kind \notin {"null", "using"} =>
              IF s.kind \in {"decl", "type"} THEN AllIn(r, Of(R, {"null"}))
              ELSE EndsIn(r, Of(R, {"null"}), s)
  <1>1. PICK n \in Nat : n = Len(b) /\ DOMAIN b = 1 .. n
    BY LenProperties
  <1>2. \A i \in 1 .. n : b[i] \in StmtSet(R)
    BY <1>1, ElementOfSeq
  <1>3. PICK D : D = {i \in 1 .. n : b[i].kind \in {"decl", "type"}}
    OBVIOUS
  <1>4. PICK a : a = (IF D = {} THEN 1 ELSE Max(D) + 1)
    OBVIOUS
  <1>5. a \in Nat /\ a # 0 /\ (\A i \in D : i < a) /\ (a # 1 => a - 1 \in D)
    <2>1. CASE D = {}
      BY <1>4, <2>1
    <2>2. CASE D # {}
      <3>1. D \in SUBSET (1 .. n)
        BY <1>3
      <3>2. PICK m : m = Max(D) /\ m \in D /\ \A i \in D : i <= m
        BY <2>2, <3>1, MaxFacts
      <3>3. m \in 1 .. n /\ a = m + 1
        BY <1>3, <1>4, <2>2, <3>2
      <3> QED  BY <3>1, <3>2, <3>3
    <2> QED  BY <2>1, <2>2
  <1>6. PICK P : P = {i \in a .. n : b[i].kind # "using"}
    OBVIOUS
  <1>7. r = Subsequence(b, P) /\ P \in SUBSET (1 .. Len(b))
    <2>1. r = Subsequence(b, {i \in a .. n : b[i].kind # "using"})
      BY <1>1, <1>3, <1>4 DEF ExtractDecls
    <2>2. P \in SUBSET (1 .. Len(b))
      BY <1>1, <1>5, <1>6
    <2> QED  BY <1>6, <2>1, <2>2
  <1>8. /\ r \in Seq(StmtSet(R))
        /\ \A k \in DOMAIN r : \E i \in P : r[k] = b[i]
        /\ \A i \in P : \E k \in DOMAIN r :
             /\ r[k] = b[i]
             /\ \A m \in DOMAIN r : m > k => \E l \in P : l > i /\ r[m] = b[l]
    <2>1. /\ Subsequence(b, P) \in Seq(StmtSet(R))
          /\ \A k \in DOMAIN Subsequence(b, P) : \E i \in P : Subsequence(b, P)[k] = b[i]
          /\ \A i \in P : \E k \in DOMAIN Subsequence(b, P) :
               /\ Subsequence(b, P)[k] = b[i]
               /\ \A m \in DOMAIN Subsequence(b, P) : m > k => \E l \in P : l > i /\ Subsequence(b, P)[m] = b[l]
      BY <1>7, SubsequenceFacts
    <2> QED  BY ONLY <1>7, <2>1
  <1>9. PICK U, N : U = Of(R, {"null", "using"}) /\ N = Of(R, {"null"})
    OBVIOUS
  <1>10. \A i \in P : i \in 1 .. n /\ i >= a /\ (b[i] \in U => b[i] \in N)
    <2>1. \A i \in P : i \in 1 .. n /\ i >= a /\ b[i].kind # "using"
      BY <1>5, <1>6
    <2> QED  BY <1>9, <2>1 DEF Of
  <1>11. ASSUME AllIn(b, U)  PROVE AllIn(r, N)
    BY <1>1, <1>8, <1>10, <1>11 DEF AllIn
  <1>12. ASSUME NEW s \in StmtSet(R), EndsIn(b, U, s), s.kind \notin {"null", "using"}
         PROVE  IF s.kind \in {"decl", "type"} THEN AllIn(r, N) ELSE EndsIn(r, N, s)
    <2>1. PICK i \in 1 .. n : b[i] = s /\ \A m \in 1 .. n : m > i => b[m] \in U
      BY <1>1, <1>12 DEF EndsIn
    <2>2. CASE s.kind \in {"decl", "type"}
      <3>1. i \in D
        BY <1>3, <2>1, <2>2
      <3>2. \A l \in P : l > i
        <4>1. i < a /\ i \in Nat /\ a \in Nat
          BY <1>5, <3>1
        <4>2. \A l \in P : l \in Nat /\ l >= a
          BY <1>10
        <4> QED  BY <4>1, <4>2
      <3>3. \A l \in P : b[l] \in N
        BY <1>10, <2>1, <3>2
      <3> QED  BY <1>8, <2>2, <3>3 DEF AllIn
    <2>3. CASE s.kind \notin {"decl", "type"}
      <3>1. \A j \in D : ~(j >= i)
        <4> SUFFICES ASSUME NEW j \in D, j >= i  PROVE FALSE
          OBVIOUS
        <4>1. j \in 1 .. n /\ b[j].kind \in {"decl", "type"}
          BY <1>3
        <4>2. j # i
          BY <2>1, <2>3, <4>1
        <4>3. b[j] \in U
          BY <2>1, <4>1, <4>2
        <4> QED  BY <1>9, <4>1, <4>3 DEF Of
      <3>2. a <= i
        <4>1. CASE a = 1
          BY <4>1
        <4>2. CASE a # 1
          <5>1. ~(a - 1 >= i)
            BY <1>5, <3>1, <4>2
          <5> QED  BY <1>5, <5>1
        <4> QED  BY <4>1, <4>2
      <3>3. i \in P
        BY <1>5, <1>6, <1>12, <2>1, <3>2
      <3>4. PICK k \in DOMAIN r : r[k] = b[i] /\ \A m \in DOMAIN r : m > k => \E l \in P : l > i /\ r[m] = b[l]
        BY <1>8, <3>3
      <3>5. \A m \in DOMAIN r : m > k => r[m] \in N
        BY <1>10, <2>1, <3>4
      <3> QED  BY <2>1, <2>3, <3>4, <3>5 DEF EndsIn
    <2> QED  BY <2>2, <2>3
  <1> QED  BY <1>8, <1>9, <1>11, <1>12

(* The body as it runs: no value is handed over; or t is its last statement.  The value *)
(* that t has, and what is returned, is handed over.                                     *)
Silent(f) == DOMAIN f = 1 .. Len(f) /\ Len(f) \in Nat /\ \A j \in DOMAIN f : ~f[j].valued
ValueEnds(f, R, t) ==
  /\ DOMAIN f = 1 .. Len(f) /\ Len(f) \in Nat
  /\ \A j \in DOMAIN f : f[j].returns \in SUBSET R /\ (f[j].kind \in {"return", "cond"} <=> f[j].returns # {})
  /\ \E i \in DOMAIN f :
       /\ f[i].kind = t.kind /\ f[i].type = t.type
       /\ \A j \in DOMAIN f :
            f[j].valued <=> f[j].returns # {} \/ (j = i /\ t.kind = "expr" /\ Transport(t.type) # "none")

LEMMA ExtractValueFacts ==
  ASSUME NEW R, NEW b \in Seq(StmtSet(R)), NEW co \in OptionSet, NEW f, f = ExtractValue(b, co)
  PROVE  /\ AllIn(b, Of(R, {"null"})) \/ (co.printing = "disabled" /\ ~co.result) => f = b /\ Silent(f)
         /\ \A s \in StmtSet(R) : EndsIn(b, Of(R, {"null"}), s) /\ s.kind # "null"
                                    /\ (co.printing # "disabled" \/ co.result) => ValueEnds(f, R, AsExpr(s))
  <1>1. PICK w : w = WithLastExpr(b) /\ w \in Seq(StmtSet(R))
    BY WithLastExprFacts
  <1>2. PICK n \in Nat : n = Len(w) /\ DOMAIN w = 1 .. n
    BY <1>1, LenProperties
  <1>3. PICK i : i = LastStmt(w)
    OBVIOUS
  <1>4. f = IF (co.printing = "disabled" /\ ~co.result) \/ i = 0 THEN b
            ELSE [j \in 1 .. n |-> [w[j] EXCEPT !.valued = w[j].returns # {}
                     \/ (j = i /\ w[j].kind = "expr" /\ Transport(w[j].type) # "none")]]
    BY <1>1, <1>2, <1>3 DEF ExtractValue
  <1>5. Silent(b)
    <2>1. \A j \in DOMAIN b : b[j] \in StmtSet(R)
      BY ElementOfSeq
    <2> QED  BY <2>1, LenProperties DEF Silent, StmtSet
  <1>6. ASSUME AllIn(b, Of(R, {"null"})) \/ (co.printing = "disabled" /\ ~co.result)  PROVE f = b
    <2>1. AllIn(b, Of(R, {"null"})) => i = 0
      BY <1>1, <1>3, WithLastExprFacts, LastStmtFacts
    <2> QED  BY <1>4, <1>6, <2>1
  <1>7. ASSUME NEW s \in StmtSet(R), EndsIn(b, Of(R, {"null"}), s), s.kind # "null",
               co.printing # "disabled" \/ co.result
        PROVE  ValueEnds(f, R, AsExpr(s))
    <2>1. PICK t \in StmtSet(R) : t = AsExpr(s) /\ t.kind # "null"
      BY <1>7, StmtFacts
    <2>2. EndsIn(w, Of(R, {"null"}), t)
      BY <1>1, <1>7, <2>1, WithLastExprFacts
    <2>3. i \in 1 .. n /\ i # 0 /\ w[i] = t
      BY <1>1, <1>2, <1>3, <2>1, <2>2, LastStmtFacts
    <2> DEFINE val(j) == w[j].returns # {} \/ (j = i /\ w[j].kind = "expr" /\ Transport(w[j].type) # "none")
    <2>4. f = [j \in 1 .. n |-> [w[j] EXCEPT !.valued = val(j)]]
      BY <1>4, <1>7, <2>3
    <2>5. \A j \in 1 .. n : w[j] \in StmtSet(R)
      BY <1>1, <1>2, ElementOfSeq
    <2> HIDE DEF val
    <2>6. ASSUME NEW j \in 1 .. n
          PROVE  /\ f[j].kind = w[j].kind /\ f[j].type = w[j].type /\ f[j].returns = w[j].returns
                 /\ f[j].valued = val(j)
      <3>1. f[j] = [w[j] EXCEPT !.valued = val(j)]
        BY <2>4
      <3>2. w[j] \in [kind : {"expr", "auto", "decl", "return", "cond", "null", "using", "type"},
                      type : ValueType \cup {"none"}, returns : SUBSET R, valued : BOOLEAN]
        BY <2>5 DEF StmtSet
      <3> QED  BY <3>1, <3>2
    <2>7. DOMAIN f = 1 .. n /\ Len(f) = n
      <3>1. DOMAIN f = 1 .. n
        BY <2>4
      <3>2. PICK S : S = {f[j] : j \in 1 .. n}
        OBVIOUS
      <3>3. f = [j \in 1 .. n |-> f[j]] /\ \A j \in 1 .. n : f[j] \in S
        BY <2>4, <3>2
      <3>4. f \in Seq(S)
        BY <1>2, <3>3, IsASeq
      <3> QED  BY <1>2, <3>1, <3>4, LenProperties
    <2>8. \A j \in DOMAIN f : f[j].returns \in SUBSET R /\ (f[j].kind \in {"return", "cond"} <=> f[j].returns # {})
      BY <2>5, <2>6, <2>7 DEF StmtSet
    <2>9. \A j \in DOMAIN f :
            f[j].valued <=> f[j].returns # {} \/ (j = i /\ t.kind = "expr" /\ Transport(t.type) # "none")
      BY <2>3, <2>6, <2>7 DEF val
    <2>10. i \in DOMAIN f /\ f[i].kind = t.kind /\ f[i].type = t.type
      BY <2>3, <2>6, <2>7
    <2>11. DOMAIN f = 1 .. Len(f) /\ Len(f) \in Nat
      BY <1>2, <2>7
    <2>12. \E k \in DOMAIN f :
             /\ f[k].kind = t.kind /\ f[k].type = t.type
             /\ \A j \in DOMAIN f :
                  f[j].valued <=> f[j].returns # {} \/ (j = k /\ t.kind = "expr" /\ Transport(t.type) # "none")
      BY ONLY <2>9, <2>10, Zenon
    <2>13. ValueEnds(f, R, t)
      BY ONLY <2>8, <2>11, <2>12, Zenon DEF ValueEnds
    <2> QED  BY <2>1, <2>13
  <1> QED  BY <1>5, <1>6, <1>7

LEMMA HandingFacts ==
  ASSUME NEW R, NEW f, NEW taken \in BOOLEAN, NEW j, j = Handing(f, taken)
  PROVE  /\ Silent(f) => j = 0
         /\ \A t : ValueEnds(f, R, t) =>
              /\ j # 0 => /\ HandedTypes(f[j]) # {}
                          /\ \A ty \in HandedTypes(f[j]) :
                               /\ ty \in R \/ (t.kind = "expr" /\ Transport(t.type) # "none" /\ ty = t.type)
                               /\ ~Diagnosed(f) => ty # "unknown"
              /\ t.kind = "expr" /\ Transport(t.type) # "none" => j # 0
  <1>1. PICK L : L = Leaves(f, taken)
    OBVIOUS
  <1>2. PICK stop : stop = IF L = {} THEN Len(f) ELSE Min(L)
    OBVIOUS
  <1>3. PICK js : js = {k \in 1 .. stop : f[k].valued /\ (f[k].kind = "cond" => taken)}
    OBVIOUS
  <1>4. j = IF js = {} THEN 0 ELSE Max(js)
    BY <1>1, <1>2, <1>3 DEF Handing
  <1>5. ASSUME NEW n \in Nat, n = Len(f)
        PROVE  /\ stop \in 0 .. n /\ (j # 0 => j \in 1 .. n /\ j \in js)
               /\ L # {} => stop \in L /\ stop \in 1 .. n
               /\ js # {} => j # 0
    <2>1. L \in SUBSET (1 .. n)
      BY <1>1, <1>5 DEF Leaves
    <2>2. stop \in 0 .. n /\ (L # {} => stop \in L /\ stop \in 1 .. n)
      <3>1. CASE L = {}
        BY <1>2, <1>5, <3>1
      <3>2. CASE L # {}
        <4>1. L \in SUBSET Nat
          BY <2>1
        <4>2. stop \in L
          BY <1>2, <3>2, <4>1, MinFacts
        <4> QED  BY <2>1, <4>2
      <3> QED  BY <3>1, <3>2
    <2>3. js \in SUBSET (1 .. n)
      BY <1>3, <2>2
    <2>4. js # {} => j \in js
      BY <1>4, <2>3, MaxFacts
    <2> QED  BY <1>4, <2>2, <2>3, <2>4
  <1>6. ASSUME Silent(f)  PROVE j = 0
    <2>1. PICK n \in Nat : n = Len(f) /\ DOMAIN f = 1 .. n /\ \A k \in 1 .. n : ~f[k].valued
      BY <1>6 DEF Silent
    <2> QED  BY <1>3, <1>5, <2>1
  <1>7. ASSUME NEW t, ValueEnds(f, R, t)
        PROVE  /\ j # 0 => /\ HandedTypes(f[j]) # {}
                           /\ \A ty \in HandedTypes(f[j]) :
                                /\ ty \in R \/ (t.kind = "expr" /\ Transport(t.type) # "none" /\ ty = t.type)
                                /\ ~Diagnosed(f) => ty # "unknown"
               /\ t.kind = "expr" /\ Transport(t.type) # "none" => j # 0
    <2>1. PICK n \in Nat : n = Len(f) /\ DOMAIN f = 1 .. n
      BY <1>7 DEF ValueEnds
    <2>2. \A k \in 1 .. n : f[k].returns \in SUBSET R /\ (f[k].kind \in {"return", "cond"} <=> f[k].returns # {})
      BY <1>7, <2>1 DEF ValueEnds
    <2>3. PICK i \in DOMAIN f :
            /\ f[i].kind = t.kind /\ f[i].type = t.type
            /\ \A k \in DOMAIN f :
                 f[k].valued <=> f[k].returns # {} \/ (k = i /\ t.kind = "expr" /\ Transport(t.type) # "none")
      BY ONLY <1>7, Zenon DEF ValueEnds
    <2>4. ASSUME j # 0
          PROVE  /\ HandedTypes(f[j]) # {}
                 /\ \A ty \in HandedTypes(f[j]) :
                      /\ ty \in R \/ (t.kind = "expr" /\ Transport(t.type) # "none" /\ ty = t.type)
                      /\ ~Diagnosed(f) => ty # "unknown"
      <3>1. j \in 1 .. n /\ f[j].valued
        BY <1>3, <1>5, <2>1, <2>4
      <3>2. \A ty : ty \in {f[j].type} \cup f[j].returns /\ ~Diagnosed(f) => ty # "unknown"
        BY <2>1, <3>1 DEF Diagnosed
      <3>3. CASE f[j].returns # {}
        <4>1. f[j].kind # "expr" /\ f[j].returns \in SUBSET R
          BY <2>2, <3>1, <3>3
        <4>2. HandedTypes(f[j]) = f[j].returns
          BY <4>1 DEF HandedTypes
        <4> QED  BY <3>2, <3>3, <4>1, <4>2
      <3>4. CASE f[j].returns = {}
        <4>1. j = i /\ t.kind = "expr" /\ Transport(t.type) # "none"
          BY <2>1, <2>3, <3>1, <3>4
        <4>2. HandedTypes(f[j]) = {t.type} /\ f[j].type = t.type
          BY <2>3, <4>1 DEF HandedTypes
        <4> QED  BY <3>2, <4>1, <4>2
      <3> QED  BY <3>3, <3>4
    <2>5. ASSUME t.kind = "expr", Transport(t.type) # "none"  PROVE j # 0
      <3>1. CASE L = {}
        <4>1. stop = n /\ f[i].valued /\ f[i].kind # "cond"
          BY <1>2, <2>1, <2>3, <2>5, <3>1
        <4>2. i \in js
          BY <1>3, <2>1, <4>1
        <4> QED  BY <1>5, <2>1, <4>2
      <3>2. CASE L # {}
        <4>1. stop \in L /\ stop \in 1 .. n
          BY <1>5, <2>1, <3>2
        <4>2. f[stop].kind = "return" \/ (f[stop].kind = "cond" /\ taken)
          BY <1>1, <4>1 DEF Leaves
        <4>3. f[stop].valued
          BY <2>1, <2>2, <2>3, <4>1, <4>2
        <4>4. stop \in 1 .. stop
          BY <4>1
        <4>5. stop \in js
          BY <1>3, <4>2, <4>3, <4>4
        <4> QED  BY <1>5, <2>1, <4>5
      <3> QED  BY <3>1, <3>2
    <2> QED  BY <2>4, <2>5
  <1> QED  BY <1>6, <1>7

(* What the transformers make of a body whose last statement outside of K is s: without a   *)
(* wrapper's extraction, or with it (using-declarations go), and unless s is a declaration  *)
(* that is extracted.                                                                       *)
LastsAsValue(b, R, co, s) ==
  \/ s.kind \in {"expr", "auto"}
  \/ s.kind = "decl" /\ (~co.extraction \/ (co.printing # "disabled" /\ EndsIn(b, Of(R, {"null"}), s)))

LEMMA TransformedFacts ==
  ASSUME NEW R, NEW b \in Seq(StmtSet(R)), NEW co \in OptionSet, NEW made, made = Transformed(b, co),
         NEW K, K = IF co.extraction THEN {"null", "using"} ELSE {"null"}
  PROVE  /\ AllIn(b, Of(R, K)) => Silent(made.body)
         /\ \A s \in StmtSet(R) : EndsIn(b, Of(R, K), s) /\ s.kind \notin K =>
              /\ Silent(made.body) \/ ValueEnds(made.body, R, AsExpr(Declared(s)))
              /\ LastsAsValue(b, R, co, s) /\ (co.result \/ made.co.printing # "disabled") =>
                   ValueEnds(made.body, R, AsExpr(Declared(s)))
  <1>1. PICK N, U : N = Of(R, {"null"}) /\ U = Of(R, K)
    OBVIOUS
  <1>2. /\ N \subseteq U /\ U \in SUBSET StmtSet(R) /\ N \in SUBSET StmtSet(R)
        /\ \A s \in U : s.kind # "auto" /\ s.kind \in K
        /\ \A s \in N : s.kind # "auto"
        /\ \A s \in StmtSet(R) : s.kind \in K => s \in U
    BY <1>1 DEF Of
  <1>3. PICK d : d = DeclareAuto(b)
    OBVIOUS
  <1>4. /\ d \in Seq(StmtSet(R))
        /\ AllIn(b, U) => AllIn(d, U)
        /\ \A s \in StmtSet(R) : EndsIn(b, U, s) => EndsIn(d, U, Declared(s))
        /\ \A s \in StmtSet(R) : EndsIn(b, N, s) => EndsIn(d, N, Declared(s))
    BY <1>2, <1>3, DeclareAutoFacts
  <1>5. PICK p : p = AttachPrinter(d, co)
    OBVIOUS
  <1>6. /\ p.body \in Seq(StmtSet(R)) /\ p.co \in OptionSet
        /\ p.co.result = co.result /\ p.co.extraction = co.extraction
        /\ co.printing = "disabled" => p.body = d
        /\ AllIn(d, N) => p.body = d
        /\ \A s \in StmtSet(R) : EndsIn(d, N, s) /\ s.kind # "null" /\ co.printing # "disabled" =>
             /\ AsExpr(s).kind # "expr" => p.body = d
             /\ AsExpr(s).kind = "expr" => EndsIn(p.body, N, AsExpr(s))
    BY <1>1, <1>4, <1>5, AttachPrinterFacts
  <1>7. PICK e : e = ExtractDecls(p.body, p.co)
    OBVIOUS
  <1>8. made.body = ExtractValue(e, p.co) /\ made.co = p.co
    BY <1>3, <1>5, <1>7 DEF Transformed
  <1>9. co.extraction \in BOOLEAN /\ co.printing \in {"auto", "enabled", "disabled"}
    BY DEF OptionSet
  (* The printer does not change what is last. *)
  <1>10. AllIn(d, U) => p.body = d
    <2> SUFFICES ASSUME AllIn(d, U), ~AllIn(d, N), co.printing # "disabled"  PROVE p.body = d
      BY <1>6
    <2>1. PICK v \in StmtSet(R) \ N : EndsIn(d, N, v)
      BY <1>4, EndsOrAll
    <2>2. v \in U
      BY <2>1 DEF AllIn, EndsIn
    <2>3. v.kind \in {"null", "using"} /\ v.kind # "null"
      <3>1. v.kind \in K
        BY <1>2, <2>2
      <3>2. v.kind # "null"
        BY <1>1, <2>1 DEF Of
      <3> QED  BY <3>1, <3>2
    <2>4. AsExpr(v).kind # "expr"
      BY <2>3 DEF AsExpr
    <2> QED  BY <1>6, <2>1, <2>3, <2>4
  <1>11. ASSUME NEW x \in StmtSet(R), EndsIn(d, U, x), x.kind \notin K
         PROVE  \E z \in {x, AsExpr(x)} :
                  /\ EndsIn(p.body, U, z)
                  /\ co.printing # "disabled" /\ EndsIn(d, N, x) => AsExpr(x).kind # "expr" \/ z = AsExpr(x)
    <2>0. x.kind # "null" /\ x \notin U /\ x \notin N
      BY <1>2, <1>11
    <2>1. CASE co.printing = "disabled"
      BY <1>6, <1>11, <2>1
    <2>2. CASE co.printing # "disabled" /\ EndsIn(d, N, x)
      <3>1. CASE AsExpr(x).kind = "expr"
        <4>1. EndsIn(p.body, N, AsExpr(x))
          BY <1>6, <2>0, <2>2, <3>1
        <4>2. EndsIn(p.body, U, AsExpr(x))
          BY <1>2, <4>1, EndsMore
        <4> QED  BY <4>2
      <3>2. CASE AsExpr(x).kind # "expr"
        <4>1. p.body = d
          BY <1>6, <2>0, <2>2, <3>2
        <4> QED  BY <1>11, <3>2, <4>1
      <3> QED  BY <3>1, <3>2
    <2>3. CASE co.printing # "disabled" /\ ~EndsIn(d, N, x)
      <3>1. p.body = d
        <4>1. CASE AllIn(d, N)
          BY <1>6, <4>1
        <4>2. CASE ~AllIn(d, N)
          <5>1. PICK v \in StmtSet(R) \ N : EndsIn(d, N, v)
            BY <1>4, <4>2, EndsOrAll
          <5>2. EndsIn(d, U, v) /\ v # x
            BY <1>2, <2>3, <5>1, EndsMore
          <5>3. v \in U
            BY <1>4, <1>11, <2>0, <5>2, EndIsOne
          <5>4. v.kind = "using"
            <6>1. v.kind \in K /\ v.kind # "null"
              BY <1>1, <1>2, <5>1, <5>3 DEF Of
            <6> QED  BY <6>1
          <5>5. AsExpr(v).kind # "expr"
            BY <5>4 DEF AsExpr
          <5> QED  BY <1>6, <2>3, <5>1, <5>4, <5>5
        <4> QED  BY <4>1, <4>2
      <3> QED  BY <1>11, <2>3, <3>1
    <2> QED  BY <2>1, <2>2, <2>3
  <1>12. AllIn(p.body, U) => AllIn(e, N)
    <2>1. CASE co.extraction
      BY <1>1, <1>6, <1>7, <2>1, ExtractDeclsFacts
    <2>2. CASE ~co.extraction
      BY <1>1, <1>6, <1>7, <2>2 DEF ExtractDecls
    <2> QED  BY <1>9, <2>1, <2>2
  <1>13. ASSUME NEW z \in StmtSet(R), EndsIn(p.body, U, z), z.kind \notin K
         PROVE  IF co.extraction /\ z.kind \in {"decl", "type"} THEN AllIn(e, N) ELSE EndsIn(e, N, z)
    <2>1. CASE co.extraction
      BY <1>1, <1>6, <1>7, <1>13, <2>1, ExtractDeclsFacts
    <2>2. CASE ~co.extraction
      BY <1>1, <1>6, <1>7, <1>13, <2>2 DEF ExtractDecls
    <2> QED  BY <1>9, <2>1, <2>2
  <1>14. e \in Seq(StmtSet(R))
    <2>1. CASE co.extraction
      BY <1>6, <1>7, <2>1, ExtractDeclsFacts
    <2>2. CASE ~co.extraction
      BY <1>6, <1>7, <2>2 DEF ExtractDecls
    <2> QED  BY <1>9, <2>1, <2>2
  <1>15. /\ AllIn(e, N) \/ (p.co.printing = "disabled" /\ ~p.co.result) => Silent(made.body)
         /\ \A z \in StmtSet(R) : EndsIn(e, N, z) /\ z.kind # "null" /\ (p.co.printing # "disabled" \/ p.co.result) =>
              ValueEnds(made.body, R, AsExpr(z))
    BY <1>1, <1>6, <1>8, <1>14, ExtractValueFacts
  <1>16. ASSUME AllIn(b, U)  PROVE Silent(made.body)
    BY <1>4, <1>10, <1>12, <1>15, <1>16
  <1>17. ASSUME NEW s \in StmtSet(R), EndsIn(b, U, s), s.kind \notin K
         PROVE  /\ Silent(made.body) \/ ValueEnds(made.body, R, AsExpr(Declared(s)))
                /\ LastsAsValue(b, R, co, s) /\ (co.result \/ made.co.printing # "disabled") =>
                     ValueEnds(made.body, R, AsExpr(Declared(s)))
    <2>0. s.kind # "null" /\ s \notin U
      BY <1>2, <1>17
    <2>1. PICK x \in StmtSet(R) : x = Declared(s) /\ x.kind # "null"
      BY <2>0, StmtFacts
    <2>2. /\ x.kind \notin K
          /\ s.kind \in {"expr", "auto"} => x.kind = "expr"
          /\ s.kind = "decl" => x = s
      <3>1. CASE s.kind = "auto"
        <4>1. x.kind = "expr"
          BY <2>1, <3>1 DEF Declared, Stmt
        <4> QED  BY <3>1, <4>1
      <3>2. CASE s.kind # "auto"
        BY <1>17, <2>1, <3>2 DEF Declared
      <3> QED  BY <3>1, <3>2
    <2>3. EndsIn(d, U, x)
      BY <1>4, <1>17, <2>1
    <2>4. PICK y \in StmtSet(R) : y = AsExpr(x) /\ y.kind # "null" /\ y.kind # "decl" /\ AsExpr(y) = y
      BY <2>1, StmtFacts
    <2>5. PICK z \in {x, y} :
            /\ EndsIn(p.body, U, z)
            /\ co.printing # "disabled" /\ EndsIn(d, N, x) => y.kind # "expr" \/ z = y
      BY <1>11, <2>2, <2>3, <2>4
    <2>6. z \in StmtSet(R) /\ z.kind # "null" /\ AsExpr(z) = y /\ z.kind \notin K
      <3>1. y = x \/ y.kind = "expr"
        BY <2>4 DEF AsExpr, Stmt
      <3>2. y.kind \notin K
        BY <2>2, <3>1
      <3> QED  BY <2>1, <2>2, <2>4, <2>5, <3>2
    <2>7. IF co.extraction /\ z.kind \in {"decl", "type"} THEN AllIn(e, N) ELSE EndsIn(e, N, z)
      BY <1>13, <2>5, <2>6
    <2>8. Silent(made.body) \/ ValueEnds(made.body, R, y)
      BY <1>15, <2>6, <2>7
    <2>9. ASSUME LastsAsValue(b, R, co, s), co.result \/ made.co.printing # "disabled"
          PROVE  ValueEnds(made.body, R, y)
      <3>1. ~co.extraction \/ z.kind \notin {"decl", "type"}
        <4>1. CASE s.kind \in {"expr", "auto"}
          <5>1. x.kind = "expr" /\ y = x
            <6>1. x.kind = "expr"
              BY <2>2, <4>1
            <6> QED  BY <2>4, <6>1 DEF AsExpr
          <5> QED  BY <2>5, <5>1
        <4>2. CASE s.kind = "decl" /\ co.printing # "disabled" /\ EndsIn(b, N, s)
          <5>1. EndsIn(d, N, x)
            BY <1>4, <2>1, <4>2
          <5>2. y.kind = "expr"
            <6>1. x.kind = "decl"
              BY <2>2, <4>2
            <6> QED  BY <2>4, <6>1 DEF AsExpr, Stmt
          <5> QED  BY <2>5, <4>2, <5>1, <5>2
        <4> QED  BY <1>1, <2>9, <4>1, <4>2 DEF LastsAsValue
      <3>2. EndsIn(e, N, z)
        BY <2>7, <3>1
      <3> QED  BY <1>6, <1>8, <1>15, <2>6, <2>9, <3>2
    <2> QED  BY <2>1, <2>4, <2>8, <2>9
  <1> QED  BY <1>1, <1>16, <1>17

(* What is printed: the value of the last statement, when nothing is behind it. *)
LEMMA PrintingFacts ==
  ASSUME NEW R, NEW b \in Seq(StmtSet(R)), NEW co \in OptionSet, co.printing = "auto"
  PROVE  /\ AllIn(b, Of(R, {"null"})) => Transformed(b, co).co.printing = "disabled"
         /\ EndsIn(b, {}, Null) => Transformed(b, co).co.printing = "disabled"
         /\ \A s \in StmtSet(R) : EndsIn(b, Of(R, {"null"}), s) /\ s.kind # "null" =>
              /\ s.kind \notin {"expr", "auto", "decl"} => Transformed(b, co).co.printing = "disabled"
              /\ EndsIn(b, {}, s) /\ s.kind \in {"expr", "auto", "decl"} => Transformed(b, co).co.printing = "enabled"
  <1>1. PICK N : N = Of(R, {"null"}) /\ N \in SUBSET StmtSet(R) /\ (\A s \in N : s.kind # "auto") /\ Null \in N
    <2>1. Of(R, {"null"}) \in SUBSET StmtSet(R) /\ \A s \in Of(R, {"null"}) : s.kind # "auto"
      BY DEF Of
    <2> QED  BY <2>1, StmtFacts
  <1>2. PICK d : d = DeclareAuto(b)
    OBVIOUS
  <1>3. /\ d \in Seq(StmtSet(R))
        /\ AllIn(b, N) => AllIn(d, N)
        /\ \A s \in StmtSet(R) : EndsIn(b, N, s) => EndsIn(d, N, Declared(s))
        /\ \A s \in StmtSet(R) : EndsIn(b, {}, s) => EndsIn(d, {}, Declared(s))
    BY <1>1, <1>2, DeclareAutoFacts
  <1>4. PICK p : p = AttachPrinter(d, co) /\ Transformed(b, co).co = p.co
    BY <1>2 DEF Transformed
  <1>5. /\ AllIn(d, N) => p.co.printing = "disabled"
        /\ \A s \in StmtSet(R) : EndsIn(d, N, s) /\ s.kind # "null" =>
             /\ AsExpr(s).kind # "expr" => p.co.printing = "disabled"
             /\ EndsIn(d, {}, Null) => p.co.printing = "disabled"
             /\ EndsIn(d, {}, s) /\ AsExpr(s).kind = "expr" => p.co.printing = "enabled"
    BY <1>1, <1>3, <1>4, AttachPrinterFacts
  <1>6. ASSUME EndsIn(b, {}, Null)  PROVE p.co.printing = "disabled"
    <2>1. Declared(Null) = Null
      BY DEF Declared, Null, Stmt
    <2>2. EndsIn(d, {}, Null)
      BY <1>1, <1>3, <1>6, <2>1
    <2>3. CASE AllIn(d, N)
      BY <1>5, <2>3
    <2>4. CASE ~AllIn(d, N)
      <3>1. PICK s \in StmtSet(R) \ N : EndsIn(d, N, s)
        BY <1>3, <2>4, EndsOrAll
      <3>2. s.kind # "null"
        BY <1>1, <3>1 DEF Of
      <3> QED  BY <1>5, <2>2, <3>1, <3>2
    <2> QED  BY <2>3, <2>4
  <1>7. ASSUME NEW s \in StmtSet(R), EndsIn(b, N, s), s.kind # "null"
        PROVE  /\ s.kind \notin {"expr", "auto", "decl"} => p.co.printing = "disabled"
               /\ EndsIn(b, {}, s) /\ s.kind \in {"expr", "auto", "decl"} => p.co.printing = "enabled"
    <2>1. PICK x \in StmtSet(R) : x = Declared(s) /\ x.kind # "null"
      BY <1>7, StmtFacts
    <2>2. AsExpr(x).kind = "expr" <=> s.kind \in {"expr", "auto", "decl"}
      BY <2>1 DEF Declared, AsExpr, Stmt
    <2>3. EndsIn(d, N, x) /\ (EndsIn(b, {}, s) => EndsIn(d, {}, x))
      BY <1>3, <1>7, <2>1
    <2> QED  BY <1>5, <2>1, <2>2, <2>3
  <1> QED  BY <1>1, <1>3, <1>4, <1>5, <1>6, <1>7

(* The pieces of an input that returns values of the types R. *)
PieceSet(R) == {q \in Piece : q.returns \subseteq R}
Sorted(R, K) == {q \in PieceSet(R) : q.sort \in K}

(* The expression that stands for a piece. *)
ExprOf(q) == AsExpr(Declared(StmtOf(q)))
TypeOf(q) == IF q.sort = "value" THEN q.type ELSE LValueOf(q.type)

LEMMA StmtOfFacts ==
  ASSUME NEW R, NEW q \in PieceSet(R)
  PROVE  /\ StmtOf(q) \in StmtSet(R)
         /\ StmtOf(q).kind = "null" <=> q.sort = "null"
         /\ StmtOf(q).kind = "using" <=> q.sort = "using"
         /\ StmtOf(q).kind \in {"expr", "auto", "decl"} <=> q.sort \in ValueSort
         /\ StmtOf(q).kind = "decl" <=> q.sort = "variable"
         /\ q.sort = "null" => StmtOf(q) = Null
         /\ ExprOf(q).kind = "expr" <=> q.sort \in ValueSort
         /\ q.sort \in ValueSort => ExprOf(q).type = TypeOf(q) /\ TypeOf(q) \in ValueType
  <1>1. /\ q.sort \in AtTop \cup InBody /\ q.type \in ValueType \cup {"none"} /\ q.returns \in SUBSET R
        /\ q.sort \in ValueSort => q.type \in ValueType
        /\ q.sort \in {"return", "cond"} <=> q.returns # {}
    BY DEF PieceSet, Piece
  <1>2. CASE q.sort = "value"
    <2>1. StmtOf(q) = Stmt("expr", q.type, {}) /\ q.type \in ValueType
      BY <1>1, <1>2 DEF StmtOf, ValueSort
    <2>2. ExprOf(q) = Stmt("expr", q.type, {})
      BY <2>1 DEF ExprOf, Declared, AsExpr, Stmt
    <2>3. StmtOf(q) \in StmtSet(R)
      BY <2>1, StmtFacts
    <2>4. StmtOf(q).kind = "expr" /\ ExprOf(q).kind = "expr" /\ ExprOf(q).type = q.type
      BY <2>1, <2>2 DEF Stmt
    <2> QED  BY <1>2, <2>1, <2>3, <2>4 DEF ValueSort, TypeOf
  <1>3. CASE q.sort = "auto"
    <2>1. StmtOf(q) = Stmt("auto", q.type, {}) /\ q.type \in ValueType /\ q.type # "none"
      BY <1>1, <1>3 DEF StmtOf, ValueSort, ValueType, Type
    <2>2. ExprOf(q) = Stmt("expr", LValueOf(q.type), {}) /\ LValueOf(q.type) \in ValueType
      BY <2>1, LValueFacts DEF ExprOf, Declared, AsExpr, Stmt
    <2> QED  BY <1>3, <2>1, <2>2 DEF Stmt, ValueSort, TypeOf, StmtSet
  <1>4. CASE q.sort = "variable"
    <2>1. StmtOf(q) = Stmt("decl", q.type, {}) /\ q.type \in ValueType
      BY <1>1, <1>4 DEF StmtOf, ValueSort
    <2>2. ExprOf(q) = Stmt("expr", LValueOf(q.type), {}) /\ LValueOf(q.type) \in ValueType
      BY <2>1, LValueFacts DEF ExprOf, Declared, AsExpr, Stmt
    <2>3. StmtOf(q) \in StmtSet(R)
      BY <2>1, StmtFacts
    <2>4. StmtOf(q).kind = "decl" /\ ExprOf(q).kind = "expr" /\ ExprOf(q).type = LValueOf(q.type)
      BY <2>1, <2>2 DEF Stmt
    <2> QED  BY <1>4, <2>1, <2>2, <2>3, <2>4 DEF ValueSort, TypeOf
  <1>5. CASE q.sort \in {"return", "cond"}
    <2>1. StmtOf(q) = Stmt(q.sort, "none", q.returns) /\ q.returns # {}
      BY <1>1, <1>5 DEF StmtOf
    <2>2. ExprOf(q) = StmtOf(q)
      BY <1>5, <2>1 DEF ExprOf, Declared, AsExpr, Stmt
    <2> QED  BY <1>1, <1>5, <2>1, <2>2 DEF Stmt, ValueSort, StmtSet
  <1>6. CASE q.sort = "null"
    <2>1. StmtOf(q) = Null
      BY <1>6 DEF StmtOf
    <2> QED  BY <1>6, <2>1, StmtFacts DEF Stmt, Null, ValueSort, ExprOf, Declared, AsExpr, Of
  <1>7. CASE q.sort = "using"
    <2>1. StmtOf(q) = Stmt("using", "none", {})
      BY <1>7 DEF StmtOf
    <2> QED  BY <1>7, <2>1 DEF Stmt, ValueSort, ExprOf, Declared, AsExpr, StmtSet
  <1>8. CASE q.sort \notin ValueSort \cup {"return", "cond", "null", "using"}
    <2>1. StmtOf(q) = Stmt("type", "none", {})
      BY <1>8 DEF StmtOf, ValueSort
    <2> QED  BY <1>8, <2>1 DEF Stmt, ValueSort, ExprOf, Declared, AsExpr, StmtSet
  <1> QED  BY <1>2, <1>3, <1>4, <1>5, <1>6, <1>7, <1>8 DEF ValueSort

LEMMA WrapperFacts ==
  ASSUME NEW R, NEW ps \in Seq(PieceSet(R)), NEW V \in SUBSET {"using"}
  PROVE  /\ WrapperBody(ps) \in Seq(StmtSet(R))
         /\ AllIn(ps, Sorted(R, {"directive", "null"} \cup V)) => AllIn(WrapperBody(ps), Of(R, {"null"} \cup V))
         /\ \A q \in PieceSet(R) :
              EndsIn(ps, Sorted(R, {"directive", "null"} \cup V), q) /\ q.sort # "directive" =>
                EndsIn(WrapperBody(ps), Of(R, {"null"} \cup V), StmtOf(q))
         /\ ParsesInBody(ps) /\ ps # <<>> =>
              IF IsComplete(Last(ps)) THEN EndsIn(WrapperBody(ps), {}, Null)
              ELSE EndsIn(WrapperBody(ps), {}, StmtOf(Last(ps)))
  <1>1. PICK n \in Nat : n = Len(ps) /\ DOMAIN ps = 1 .. n /\ \A i \in 1 .. n : ps[i] \in PieceSet(R)
    <2>1. \A i \in DOMAIN ps : ps[i] \in PieceSet(R)
      BY ElementOfSeq
    <2> QED  BY <2>1, LenProperties
  <1>2. PICK code : code = Subsequence(ps, {i \in 1 .. Len(ps) : ps[i].sort # "directive"})
    OBVIOUS
  <1>3. PICK X, T, U : X = Sorted(R, {"directive"}) /\ T = Sorted(R, {"directive", "null"} \cup V) /\ U = Of(R, {"null"} \cup V)
    OBVIOUS
  <1>4. /\ code \in Seq(PieceSet(R)) /\ AllIn(code, PieceSet(R) \ X)
        /\ AllIn(ps, T) => AllIn(code, T \ X)
        /\ \A q : EndsIn(ps, T, q) /\ q \notin X => EndsIn(code, T \ X, q)
        /\ \A q : EndsIn(ps, {}, q) /\ q \notin X => EndsIn(code, {}, q)
    <2>1. code = Subsequence(ps, {i \in 1 .. Len(ps) : ps[i] \notin X})
      <3>1. {i \in 1 .. Len(ps) : ps[i].sort # "directive"} = {i \in 1 .. Len(ps) : ps[i] \notin X}
        BY <1>1, <1>3 DEF Sorted
      <3> QED  BY <1>2, <3>1
    <2>2. /\ code \in Seq(PieceSet(R)) /\ AllIn(code, PieceSet(R) \ X)
          /\ \A Z : AllIn(ps, Z) => AllIn(code, Z \ X)
          /\ \A Z, q : EndsIn(ps, Z, q) /\ q \notin X => EndsIn(code, Z \ X, q)
      BY <2>1, SubsequenceEnds
    <2>3. {} \ X = {}
      OBVIOUS
    <2> QED  BY <2>2, <2>3
  <1>5. PICK m \in Nat : m = Len(code) /\ DOMAIN code = 1 .. m /\ \A i \in 1 .. m : code[i] \in PieceSet(R)
    <2>1. \A i \in DOMAIN code : code[i] \in PieceSet(R)
      BY <1>4, ElementOfSeq
    <2> QED  BY <1>4, <2>1, LenProperties
  <1>6. PICK stmts : stmts = [i \in 1 .. m |-> StmtOf(code[i])]
    OBVIOUS
  <1>7. stmts \in Seq(StmtSet(R)) /\ DOMAIN stmts = 1 .. m /\ Len(stmts) = m
    <2>1. \A i \in 1 .. m : StmtOf(code[i]) \in StmtSet(R)
      BY <1>5, StmtOfFacts
    <2>2. stmts \in Seq(StmtSet(R))
      BY <1>6, <2>1, IsASeq
    <2>3. DOMAIN stmts = 1 .. m
      BY <1>6
    <2> QED  BY <2>2, <2>3, LenProperties
  <1>8. PICK w : w = WrapperBody(ps)
    OBVIOUS
  <1>9. w = IF code = <<>> \/ IsComplete(Last(code)) THEN Append(stmts, Null) ELSE stmts
    BY <1>2, <1>5, <1>6, <1>8 DEF WrapperBody
  <1>10. /\ w \in Seq(StmtSet(R)) /\ w \in {stmts, Append(stmts, Null)}
         /\ \A i \in 1 .. m : w[i] = StmtOf(code[i])
         /\ DOMAIN w = 1 .. m \/ (DOMAIN w = 1 .. m + 1 /\ w[m + 1] = Null)
         /\ w = Append(stmts, Null) => DOMAIN w = 1 .. m + 1 /\ w[m + 1] = Null
    <2>1. Null \in StmtSet(R)
      BY StmtFacts DEF Of
    <2>2. /\ Append(stmts, Null) \in Seq(StmtSet(R)) /\ Len(Append(stmts, Null)) = m + 1
          /\ \A i \in 1 .. m : Append(stmts, Null)[i] = stmts[i]
          /\ Append(stmts, Null)[m + 1] = Null
      BY <1>7, <2>1, AppendProperties
    <2>3. DOMAIN Append(stmts, Null) = 1 .. m + 1
      BY <2>2, LenProperties
    <2>4. \A i \in 1 .. m : stmts[i] = StmtOf(code[i])
      BY <1>6
    <2> QED  BY <1>7, <1>9, <2>2, <2>3, <2>4
  <1>11. \A q \in T \ X : StmtOf(q) \in U
    <2>1. \A q \in T \ X : q \in PieceSet(R) /\ q.sort \in {"null"} \cup V
      BY <1>3 DEF Sorted
    <2> QED  BY <1>3, <2>1, StmtOfFacts DEF Of
  <1>12. Null \in U
    BY <1>3, StmtFacts DEF Of
  <1>13. ASSUME AllIn(ps, T)  PROVE AllIn(w, U)
    <2>1. \A i \in 1 .. m : code[i] \in T \ X
      BY <1>4, <1>5, <1>13 DEF AllIn
    <2>2. \A i \in 1 .. m : w[i] \in U
      BY <1>10, <1>11, <2>1
    <2>3. \A i \in 1 .. m + 1 : i \in 1 .. m \/ i = m + 1
      OBVIOUS
    <2> QED  BY <1>10, <1>12, <2>2, <2>3 DEF AllIn
  <1>14. ASSUME NEW q \in PieceSet(R), EndsIn(ps, T, q), q.sort # "directive"
         PROVE  EndsIn(w, U, StmtOf(q))
    <2>1. q \notin X
      BY <1>3, <1>14 DEF Sorted
    <2>2. EndsIn(code, T \ X, q)
      BY <1>4, <1>14, <2>1
    <2>3. PICK i \in 1 .. m : code[i] = q /\ \A k \in 1 .. m : k > i => code[k] \in T \ X
      BY <1>5, <2>2 DEF EndsIn
    <2>4. \A k \in 1 .. m : k > i => w[k] \in U
      BY <1>10, <1>11, <2>3
    <2>5. w[i] = StmtOf(q) /\ i \in DOMAIN w /\ \A k \in DOMAIN w : k \in 1 .. m \/ w[k] = Null
      <3>1. i \in 1 .. m + 1 /\ \A k \in 1 .. m + 1 : k \in 1 .. m \/ k = m + 1
        OBVIOUS
      <3> QED  BY <1>10, <2>3, <3>1
    <2> QED  BY <1>12, <2>4, <2>5 DEF EndsIn
  <1>15. ASSUME ParsesInBody(ps), ps # <<>>
         PROVE  IF IsComplete(Last(ps)) THEN EndsIn(w, {}, Null) ELSE EndsIn(w, {}, StmtOf(Last(ps)))
    <2>1. EndsIn(ps, {}, Last(ps)) /\ Last(ps) \in PieceSet(R) /\ Last(ps) = ps[n] /\ n \in 1 .. n
      <3>1. EndsIn(ps, {}, Last(ps)) /\ Last(ps) \in PieceSet(R)
        BY <1>15, LastOfEnds
      <3>2. Last(ps) = ps[n]
        BY <1>1 DEF Last
      <3>3. n # 0
        BY <1>1, <1>15, EmptySeq
      <3>4. n \in 1 .. n
        BY <3>3
      <3> QED  BY <3>1, <3>2, <3>4
    <2>2. \A i \in 1 .. n : i < n => IsComplete(ps[i])
      BY <1>1, <1>15 DEF ParsesInBody
    <2>3. Last(ps).sort = "directive" => IsComplete(Last(ps))
      BY DEF IsComplete
    <2>4. \A b : b \in Seq(StmtSet(R)) /\ DOMAIN b = 1 .. m + 1 /\ b[m + 1] = Null => EndsIn(b, {}, Null)
      <3>1. m + 1 \in 1 .. m + 1 /\ \A k \in 1 .. m + 1 : ~(k > m + 1)
        OBVIOUS
      <3> QED  BY <3>1 DEF EndsIn
    <2>5. CASE Last(ps).sort # "directive"
      <3>1. Last(ps) \notin X
        BY <1>3, <2>5 DEF Sorted
      <3>2. EndsIn(code, {}, Last(ps))
        BY <1>4, <2>1, <3>1
      <3>3. code # <<>> /\ Last(code) = Last(ps)
        BY <1>4, <3>2, LastOfEnds
      <3>4. CASE IsComplete(Last(ps))
        <4>1. w = Append(stmts, Null)
          BY <1>9, <3>3, <3>4
        <4> QED  BY <1>10, <2>4, <3>4, <4>1
      <3>5. CASE ~IsComplete(Last(ps))
        <4>1. w = stmts
          BY <1>9, <3>3, <3>5
        <4>2. m \in 1 .. m /\ code[m] = Last(ps)
          <5>1. m # 0
            BY <1>4, <1>5, <3>3, EmptySeq
          <5>2. m \in 1 .. m
            BY <5>1
          <5> QED  BY <1>5, <3>3, <5>2 DEF Last
        <4>3. w[m] = StmtOf(Last(ps)) /\ \A k \in 1 .. m : ~(k > m)
          BY <1>10, <4>2
        <4> QED  BY <1>7, <3>5, <4>1, <4>2, <4>3 DEF EndsIn
      <3> QED  BY <3>4, <3>5
    <2>6. CASE Last(ps).sort = "directive"
      <3>1. code = <<>> \/ IsComplete(Last(code))
        <4> SUFFICES ASSUME code # <<>>  PROVE IsComplete(Last(code))
          OBVIOUS
        <4>1. m # 0
          BY <1>4, <1>5, EmptySeq
        <4>2. m \in 1 .. m
          BY <4>1
        <4>3. Last(code) = code[m] /\ code[m] \notin X
          BY <1>4, <1>5, <4>2 DEF Last, AllIn
        <4>4. PICK i \in 1 .. n : code[m] = ps[i]
          <5>1. \A k \in DOMAIN code : \E i \in {i \in 1 .. Len(ps) : ps[i].sort # "directive"} : code[k] = ps[i]
            <6>1. {i \in 1 .. Len(ps) : ps[i].sort # "directive"} \in SUBSET (1 .. Len(ps))
              OBVIOUS
            <6> QED  BY <1>2, <6>1, SubsequenceFacts
          <5> QED  BY <1>1, <1>5, <4>2, <5>1
        <4>5. i # n
          <5>1. ps[n] \in X
            BY <1>1, <1>3, <2>1, <2>6 DEF Sorted
          <5> QED  BY <4>3, <4>4, <5>1
        <4>6. i < n
          BY <4>5
        <4> QED  BY <2>2, <4>3, <4>4, <4>6
      <3>2. w = Append(stmts, Null)
        BY <1>9, <3>1
      <3> QED  BY <1>10, <2>3, <2>4, <2>6, <3>2
    <2> QED  BY <2>5, <2>6
  <1> QED  BY <1>3, <1>8, <1>10, <1>13, <1>14, <1>15

(***************************************************************************)
(* The pieces of an input, and those in its wrapper.                       *)
(***************************************************************************)

(* The types that an input returns. *)
Returned(ps) == UNION {ps[i].returns : i \in DOMAIN ps}

LEMMA PiecesReturn ==
  ASSUME NEW ps \in Seq(Piece)
  PROVE  /\ ps \in Seq(PieceSet(Returned(ps))) /\ Returned(ps) \in SUBSET ValueType
         /\ \A ty \in Returned(ps) : \E i \in 1 .. Len(ps) : ty \in ps[i].returns
  <1>1. PICK n \in Nat : n = Len(ps) /\ DOMAIN ps = 1 .. n /\ ps = [i \in 1 .. n |-> ps[i]]
    BY LenProperties
  <1>2. \A i \in 1 .. n : ps[i] \in Piece /\ ps[i].returns \in SUBSET ValueType
    <2>1. \A i \in 1 .. n : ps[i] \in Piece
      BY <1>1, ElementOfSeq
    <2> QED  BY <2>1 DEF Piece
  <1>3. \A i \in 1 .. n : ps[i] \in PieceSet(Returned(ps))
    BY <1>1, <1>2 DEF PieceSet, Returned
  <1>4. [i \in 1 .. n |-> ps[i]] \in Seq(PieceSet(Returned(ps)))
    BY <1>3, IsASeq
  <1>5. \A ty \in Returned(ps) : \E i \in 1 .. n : ty \in ps[i].returns
    BY <1>1 DEF Returned
  <1>6. Returned(ps) \in SUBSET ValueType
    BY <1>2, <1>5
  <1> QED  BY <1>1, <1>4, <1>5, <1>6

(* What is last among the pieces of an input that have code. *)
LEMMA EndingIs ==
  ASSUME NEW R, NEW in, NEW ps \in Seq(PieceSet(R)), in.pieces = ps, NEW S, NEW K, K = {"directive", "null"} \cup S
  PROVE  /\ AllIn(ps, Sorted(R, K)) => LastOf(CodeWithout(in, S)) = [sort |-> "none"]
         /\ \A q : EndsIn(ps, Sorted(R, K), q) /\ q \notin Sorted(R, K) => LastOf(CodeWithout(in, S)) = q
  <1>0. PICK X : X = Sorted(R, K)
    OBVIOUS
  <1>1. PICK r : r = CodeWithout(in, S)
    OBVIOUS
  <1>2. r = Subsequence(ps, {i \in 1 .. Len(ps) : ps[i] \notin X})
    <2>1. \A i \in 1 .. Len(ps) : ps[i] \in PieceSet(R)
      BY LenProperties, ElementOfSeq
    <2>2. {i \in 1 .. Len(ps) : ps[i].sort \notin {"directive", "null"} \cup S} = {i \in 1 .. Len(ps) : ps[i] \notin X}
      BY <1>0, <2>1 DEF Sorted
    <2> QED  BY <1>1, <2>2 DEF CodeWithout
  <1>3. r \in Seq(PieceSet(R)) /\ (AllIn(ps, X) => AllIn(r, X \ X))
        /\ \A q : EndsIn(ps, X, q) /\ q \notin X => EndsIn(r, X \ X, q)
    BY <1>2, SubsequenceEnds
  <1>4. X \ X = {}
    OBVIOUS
  <1>5. (AllIn(r, {}) => r = <<>>) /\ \A q : EndsIn(r, {}, q) => r # <<>> /\ Last(r) = q
    BY <1>3, LastOfEnds
  <1> QED  BY <1>0, <1>1, <1>3, <1>4, <1>5 DEF LastOf

(* No piece in front of the wrapper has a value. *)
Valueless(ps, k) == k \in 0 .. Len(ps) /\ \A i \in 1 .. k : ps[i].sort \notin ValueSort

(* What is last in the wrapper is last in the input, and all that has a value is in the wrapper. *)
EndIs(rest, ps, R, K, e) ==
  /\ rest \in Seq(PieceSet(R))
  /\ AllIn(rest, Sorted(R, K)) => e.sort \notin ValueSort
  /\ \A q : EndsIn(rest, Sorted(R, K), q) /\ q \notin Sorted(R, K) => e = q
  /\ e.sort \in ValueSort => e \in PieceSet(R) /\ EndsIn(rest, Sorted(R, K), e) /\ e \notin Sorted(R, K)
  /\ rest # <<>> => ps # <<>> /\ Last(rest) = Last(ps)

LEMMA RestEnds ==
  ASSUME NEW R, NEW in, NEW ps \in Seq(PieceSet(R)), in.pieces = ps, NEW k, Valueless(ps, k),
         NEW S \in SUBSET {"using"}, NEW K, K = {"directive", "null"} \cup S
  PROVE  EndIs(RestOf(ps, k), ps, R, K, LastOf(CodeWithout(in, S)))
  <1>0. PICK X, e, rest : X = Sorted(R, K) /\ e = LastOf(CodeWithout(in, S)) /\ rest = RestOf(ps, k)
    OBVIOUS
  <1>1. k \in 0 .. Len(ps) /\ \A i \in 1 .. k : ps[i].sort \notin ValueSort
    BY DEF Valueless
  <1>2. /\ rest \in Seq(PieceSet(R))
        /\ \A q : EndsIn(rest, X, q) => EndsIn(ps, X, q)
        /\ \A q : AllIn(rest, X) /\ EndsIn(ps, X, q) /\ q \notin X => \E i \in 1 .. k : ps[i] = q
        /\ rest # <<>> => ps # <<>> /\ Last(rest) = Last(ps)
    BY <1>0, <1>1, SuffixEnds
  <1>3. /\ AllIn(ps, X) => e = [sort |-> "none"]
        /\ \A q : EndsIn(ps, X, q) /\ q \notin X => e = q
    <2>1. /\ AllIn(ps, Sorted(R, K)) => LastOf(CodeWithout(in, S)) = [sort |-> "none"]
          /\ \A q : EndsIn(ps, Sorted(R, K), q) /\ q \notin Sorted(R, K) => LastOf(CodeWithout(in, S)) = q
      BY ONLY ps \in Seq(PieceSet(R)), in.pieces = ps, K = {"directive", "null"} \cup S, EndingIs
    <2> QED  BY <1>0, <2>1
  <1>4. ASSUME e.sort \in ValueSort
        PROVE  e \in PieceSet(R) /\ EndsIn(ps, X, e) /\ e \notin X
    <2>1. e # [sort |-> "none"]
      BY <1>4 DEF ValueSort
    <2>2. PICK q \in PieceSet(R) \ X : EndsIn(ps, X, q)
      BY <1>3, <2>1, EndsOrAll
    <2> QED  BY <1>3, <2>2
  <1>5. ASSUME AllIn(rest, X), e.sort \in ValueSort  PROVE FALSE
    BY <1>1, <1>2, <1>4, <1>5
  <1>6. ASSUME e.sort \in ValueSort  PROVE EndsIn(rest, X, e)
    <2>1. PICK q \in PieceSet(R) \ X : EndsIn(rest, X, q)
      BY <1>2, <1>5, <1>6, EndsOrAll
    <2>2. e = q
      BY <1>2, <1>3, <2>1
    <2> QED  BY <2>1, <2>2
  <1> QED  BY <1>0, <1>2, <1>3, <1>4, <1>5, <1>6 DEF EndIs

(* Where an input is cut. *)
LEMMA CutFacts ==
  ASSUME NEW in, in.pieces \in Seq(Piece), NEW wrap,
         \/ wrap = AllWrapped
         \/ wrap.how = "wrap" => \A k \in Before(in.pieces, wrap.at) : \A i \in 1 .. k : in.pieces[i].sort # "variable",
         Cuts(in, wrap) # {}, NEW k, k = Min(Cuts(in, wrap)), NEW a, ParsesAtTop(SubSeq(in.pieces, 1, k), a)
  PROVE  /\ k \in 0 .. Len(in.pieces)
         /\ wrap.how = "wrap" => Valueless(in.pieces, k)
         /\ wrap.how # "wrap" => k = Len(in.pieces)
  <1>0. PICK ps : ps = in.pieces
    OBVIOUS
  <1>1. PICK n \in Nat : ps = in.pieces /\ ps \in Seq(Piece) /\ n = Len(ps) /\ DOMAIN ps = 1 .. n
    BY <1>0, LenProperties
  <1>2. Cuts(in, wrap) \in SUBSET (0 .. n)
    BY <1>1 DEF Cuts, Before
  <1>3. k \in Cuts(in, wrap) /\ k \in 0 .. n /\ \A i \in Cuts(in, wrap) : k <= i
    <2>1. Cuts(in, wrap) \in SUBSET Nat
      BY <1>2
    <2>2. k \in Cuts(in, wrap) /\ \A i \in Cuts(in, wrap) : k <= i
      BY ONLY <2>1, MinFacts, k = Min(Cuts(in, wrap)), Cuts(in, wrap) # {}
    <2> QED  BY <1>2, <2>2
  <1>4. wrap.how # "wrap" => k = n
    BY <1>1, <1>3 DEF Cuts
  <1>5. \A i \in 1 .. k : ps[i].sort \in AtTop
    <2>1. Len(SubSeq(ps, 1, k)) = k /\ \A i \in 1 .. k : SubSeq(ps, 1, k)[i] = ps[i]
      <3>1. 1 \in Int /\ k \in Int /\ 1 <= k + 1 /\ k - 1 + 1 = k
        BY <1>3
      <3>2. \A i \in 1 .. k : ps[i] \in Piece
        <4>1. \A i \in 1 .. k : i \in DOMAIN ps
          BY <1>1, <1>3
        <4> QED  BY <1>1, <4>1, ElementOfSeq
      <3>3. /\ Len(SubSeq(ps, 1, k)) = k - 1 + 1
            /\ \A i \in 1 .. (k - 1 + 1) : SubSeq(ps, 1, k)[i] = ps[1 + i - 1]
        BY ONLY <3>1, <3>2, SliceFacts
      <3>4. \A i \in 1 .. k : 1 + i - 1 = i
        OBVIOUS
      <3> QED  BY <3>1, <3>3, <3>4
    <2> QED  BY <1>1, <2>1 DEF ParsesAtTop
  <1>6. ASSUME wrap = AllWrapped  PROVE k = 0
    <2>1. wrap.how = "wrap" /\ wrap.at = 1
      BY <1>6 DEF AllWrapped
    <2>2. EndOf(ps, 0) = 0
      <3>1. SubSeq(ps, 1, 0) = <<>>
        BY <1>1, SubSeqEmpty
      <3>2. [i \in 1 .. Len(<<>>) |-> <<>>[i].toks] = <<>>
        OBVIOUS
      <3>3. <<>> \in Seq(Seq(STRING)) /\ Len(<<>>) = 0
        OBVIOUS
      <3>4. PICK flat : flat = FlattenSeq(<<>>)
        OBVIOUS
      <3>5. flat \in Seq(STRING) /\ IsFlat(<<>>, 0, flat)
        BY <3>3, <3>4, FlattenFacts
      <3>6. DOMAIN flat = {}
        <4>1. \A m \in DOMAIN flat : \E i \in 1 .. 0 : \E j \in DOMAIN <<>>[i] : flat[m] = <<>>[i][j]
          BY <3>5 DEF IsFlat
        <4>2. 1 .. 0 = {}
          OBVIOUS
        <4> QED  BY <4>1, <4>2
      <3>7. Len(flat) = 0
        <4>1. Len(flat) \in Nat /\ DOMAIN flat = 1 .. Len(flat)
          BY <3>5, LenProperties
        <4>2. Len(flat) # 0 => 1 \in 1 .. Len(flat)
          BY <4>1
        <4> QED  BY <3>6, <4>1, <4>2
      <3> QED  BY <3>1, <3>2, <3>4, <3>7 DEF EndOf, Tokens
    <2>3. 0 \in Cuts(in, wrap)
      <3>1. 0 \in 0 .. Len(in.pieces) /\ EndOf(in.pieces, 0) + 1 = wrap.at
        BY <1>1, <2>1, <2>2
      <3> QED  BY <2>1, <3>1 DEF Cuts, Before
    <2>4. k <= 0
      BY <1>3, <2>3
    <2> QED  BY <1>3, <2>4
  <1>7. ASSUME wrap.how = "wrap"  PROVE \A i \in 1 .. k : ps[i].sort \notin ValueSort
    <2>1. CASE wrap = AllWrapped
      <3>1. 1 .. k = {}
        BY <1>6, <2>1
      <3> QED  BY <3>1
    <2>2. CASE wrap # AllWrapped
      <3>1. \A i \in 1 .. k : ps[i].sort # "variable"
        BY <1>1, <1>3, <1>7, <2>2 DEF Cuts
      <3> QED  BY <1>5, <3>1 DEF AtTop, ValueSort
    <2> QED  BY <2>1, <2>2
  <1> QED  BY <1>1, <1>3, <1>4, <1>7 DEF Valueless

(***************************************************************************)
(* What the transformers make of an input.                                 *)
(***************************************************************************)

(* The statement that stands for a piece that is not left out. *)
LEMMA StmtOfLast ==
  ASSUME NEW R, NEW V \in SUBSET {"using"}, NEW q \in PieceSet(R), q \notin Sorted(R, {"directive", "null"} \cup V)
  PROVE  /\ q.sort \notin {"directive", "null"} \cup V
         /\ StmtOf(q) \in StmtSet(R) /\ StmtOf(q).kind \notin {"null"} \cup V
         /\ ExprOf(q) = AsExpr(Declared(StmtOf(q)))
  <1>1. q.sort \notin {"directive", "null"} \cup V
    BY DEF Sorted
  <1>2. /\ StmtOf(q) \in StmtSet(R)
        /\ StmtOf(q).kind = "null" <=> q.sort = "null"
        /\ StmtOf(q).kind = "using" <=> q.sort = "using"
    BY StmtOfFacts
  <1> QED  BY <1>1, <1>2 DEF ExprOf

(* The body ends with what stands for the piece e. *)
EndsWith(body, R, e) == e \in PieceSet(R) /\ ValueEnds(body, R, ExprOf(e))

(* A wrapper hands nothing over; or the last statement is the one that its text gives it. *)
LEMMA MadeFacts ==
  ASSUME NEW R, NEW in, NEW ps \in Seq(PieceSet(R)), in.pieces = ps, NEW k, Valueless(ps, k),
         NEW rest, rest = RestOf(ps, k), NEW report, report.in = in,
         NEW co \in OptionSet, co.extraction = (report.call \in {"process", Quiet}),
         NEW made, made = Transformed(WrapperBody(rest), co)
  PROVE  /\ Silent(made.body) \/ EndsWith(made.body, R, Ending(report))
         /\ /\ EndsInValue(report) /\ ~IsLost(report)
            /\ co.result \/ made.co.printing # "disabled"
            /\ report.call = "process" => co.printing # "disabled"
            => EndsWith(made.body, R, Ending(report))
  <1>0. PICK e : e = Ending(report)
    OBVIOUS
  <1>1. PICK V \in SUBSET {"using"} : V = IF report.call \in {"process", Quiet} THEN {"using"} ELSE {}
    OBVIOUS
  <1>2. PICK K : K = {"null"} \cup V
    OBVIOUS
  <1>3. PICK X : X = Sorted(R, {"directive", "null"} \cup V)
    OBVIOUS
  <1>4. e = LastOf(CodeWithout(in, V))
    BY <1>0, <1>1 DEF Ending
  <1>5. /\ rest \in Seq(PieceSet(R))
        /\ \A q : EndsIn(rest, X, q) /\ q \notin X => e = q
        /\ e.sort \in ValueSort => e \in PieceSet(R) /\ EndsIn(rest, X, e) /\ e \notin X
    <2>1. PICK Z : Z = {"directive", "null"} \cup V
      OBVIOUS
    <2>2. EndIs(RestOf(ps, k), ps, R, Z, LastOf(CodeWithout(in, V)))
      BY <2>1, RestEnds
    <2> QED  BY <1>3, <1>4, <2>1, <2>2 DEF EndIs
  <1>6. PICK b : b = WrapperBody(rest)
    OBVIOUS
  <1>7. /\ b \in Seq(StmtSet(R))
        /\ AllIn(rest, X) => AllIn(b, Of(R, K))
        /\ \A q \in PieceSet(R) : EndsIn(rest, X, q) /\ q.sort # "directive" => EndsIn(b, Of(R, K), StmtOf(q))
    BY <1>2, <1>3, <1>5, <1>6, WrapperFacts
  <1>8. K = IF co.extraction THEN {"null", "using"} ELSE {"null"}
    BY <1>1, <1>2
  <1>9. /\ AllIn(b, Of(R, K)) => Silent(made.body)
        /\ \A s \in StmtSet(R) : EndsIn(b, Of(R, K), s) /\ s.kind \notin K =>
             /\ Silent(made.body) \/ ValueEnds(made.body, R, AsExpr(Declared(s)))
             /\ LastsAsValue(b, R, co, s) /\ (co.result \/ made.co.printing # "disabled") =>
                  ValueEnds(made.body, R, AsExpr(Declared(s)))
    BY <1>6, <1>7, <1>8, TransformedFacts
  <1>10. ASSUME NEW q \in PieceSet(R), q \notin X, EndsIn(rest, X, q)
         PROVE  /\ EndsIn(b, Of(R, K), StmtOf(q)) /\ StmtOf(q) \in StmtSet(R) /\ StmtOf(q).kind \notin K
                /\ ExprOf(q) = AsExpr(Declared(StmtOf(q)))
    <2>1. /\ q.sort # "directive" /\ StmtOf(q) \in StmtSet(R) /\ StmtOf(q).kind \notin K
          /\ ExprOf(q) = AsExpr(Declared(StmtOf(q)))
      BY <1>2, <1>3, <1>10, StmtOfLast
    <2> QED  BY <1>7, <1>10, <2>1
  <1>11. Silent(made.body) \/ (e \in PieceSet(R) /\ ValueEnds(made.body, R, ExprOf(e)))
    <2>1. CASE AllIn(rest, X)
      BY <1>7, <1>9, <2>1
    <2>2. CASE ~AllIn(rest, X)
      <3>1. PICK q \in PieceSet(R) : q \notin X /\ EndsIn(rest, X, q)
        BY <1>5, <2>2, EndsOrAll
      <3>2. e = q
        BY <1>5, <3>1
      <3> QED  BY <1>9, <1>10, <3>1, <3>2
    <2> QED  BY <2>1, <2>2
  <1>12. ASSUME EndsInValue(report), ~IsLost(report), co.result \/ made.co.printing # "disabled",
                report.call = "process" => co.printing # "disabled"
         PROVE  e \in PieceSet(R) /\ ValueEnds(made.body, R, ExprOf(e))
    <2>1. e.sort \in ValueSort /\ e \in PieceSet(R) /\ EndsIn(rest, X, e) /\ e \notin X
      BY <1>0, <1>5, <1>12 DEF EndsInValue
    <2>2. PICK s \in StmtSet(R) : s = StmtOf(e) /\ EndsIn(b, Of(R, K), s) /\ s.kind \notin K /\ ExprOf(e) = AsExpr(Declared(s))
      BY <1>10, <2>1
    <2>3. s.kind \in {"expr", "auto", "decl"} /\ (s.kind = "decl" <=> e.sort = "variable")
      BY <2>1, <2>2, StmtOfFacts
    <2>4. ASSUME s.kind = "decl", co.extraction
          PROVE  co.printing # "disabled" /\ EndsIn(b, Of(R, {"null"}), s)
      <3>1. report.call = "process" /\ LastOf(CodeWithout(in, {})) = e
        <4>1. ~(report.call = Quiet) /\ LastOf(Code(in)) = e
          BY <1>0, <1>12, <2>3, <2>4 DEF IsLost
        <4> QED  BY <2>4, <4>1 DEF Code
      <3>2. PICK W \in SUBSET {"using"} : W = {} /\ {"null"} \cup W = {"null"}
        <4>1. {} \in SUBSET {"using"} /\ {"null"} \cup {} = {"null"}
          OBVIOUS
        <4> QED  BY <4>1
      <3>3. PICK Y : Y = Sorted(R, {"directive", "null"} \cup W)
        OBVIOUS
      <3>4. EndsIn(rest, Y, e) /\ e \notin Y
        <4>1. e = LastOf(CodeWithout(in, W))
          BY <3>1, <3>2
        <4>2. PICK Z : Z = {"directive", "null"} \cup W
          OBVIOUS
        <4>3. EndIs(RestOf(ps, k), ps, R, Z, LastOf(CodeWithout(in, W)))
          BY <4>2, RestEnds
        <4> QED  BY <2>1, <3>3, <4>1, <4>2, <4>3 DEF EndIs
      <3>5. e.sort # "directive"
        BY <2>1 DEF ValueSort
      <3>6. EndsIn(b, Of(R, {"null"} \cup W), StmtOf(e))
        BY <1>5, <1>6, <2>1, <3>3, <3>4, <3>5, WrapperFacts
      <3> QED  BY <1>12, <2>2, <3>1, <3>2, <3>6
    <2>5. LastsAsValue(b, R, co, s)
      BY <2>3, <2>4 DEF LastsAsValue
    <2> QED  BY <1>9, <1>12, <2>1, <2>2, <2>5
  <1> QED  BY <1>0, <1>11, <1>12 DEF EndsWith

(* What process() prints is the value of what is last, if no ';' is behind it. *)
PrintsLast(in, R, report, made) ==
  LET c == LastOf(Code(in))
  IN  /\ c.sort \notin ValueSort \/ IsHidden(in) => made.co.printing = "disabled"
      /\ c.sort \in ValueSort /\ ~IsHidden(in) =>
           /\ made.co.printing = "enabled" /\ Ending(report) = c /\ c \in PieceSet(R)
           /\ ValueEnds(made.body, R, ExprOf(c)) /\ ~IsEmptyWrapper(made.body)

LEMMA PrintFacts ==
  ASSUME NEW R, NEW in, NEW ps \in Seq(PieceSet(R)), in.pieces = ps, NEW k, Valueless(ps, k),
         NEW rest, rest = RestOf(ps, k), ParsesInBody(rest), NEW report, report.in = in, report.call = "process",
         NEW co \in OptionSet, co.extraction = TRUE, co.printing = "auto",
         NEW made, made = Transformed(WrapperBody(rest), co)
  PROVE  PrintsLast(in, R, report, made)
  <1>0. PICK c : c = LastOf(Code(in))
    OBVIOUS
  <1>1. PICK V \in SUBSET {"using"} : V = {} /\ {"null"} \cup V = {"null"}
    <2>1. {} \in SUBSET {"using"} /\ {"null"} \cup {} = {"null"}
      OBVIOUS
    <2> QED  BY <2>1
  <1>2. PICK X, N : X = Sorted(R, {"directive", "null"} \cup V) /\ N = Of(R, {"null"})
    OBVIOUS
  <1>3. /\ rest \in Seq(PieceSet(R))
        /\ \A q : EndsIn(rest, X, q) /\ q \notin X => c = q
        /\ c.sort \in ValueSort => c \in PieceSet(R) /\ EndsIn(rest, X, c) /\ c \notin X
        /\ rest # <<>> => ps # <<>> /\ Last(rest) = Last(ps)
    <2>1. c = LastOf(CodeWithout(in, V))
      BY <1>0, <1>1 DEF Code
    <2>2. PICK Z : Z = {"directive", "null"} \cup V
      OBVIOUS
    <2>3. EndIs(RestOf(ps, k), ps, R, Z, LastOf(CodeWithout(in, V)))
      BY <2>2, RestEnds
    <2> QED  BY <1>2, <2>1, <2>2, <2>3 DEF EndIs
  <1>4. PICK b : b = WrapperBody(rest)
    OBVIOUS
  <1>5. /\ b \in Seq(StmtSet(R))
        /\ AllIn(rest, X) => AllIn(b, N)
        /\ \A q \in PieceSet(R) : EndsIn(rest, X, q) /\ q.sort # "directive" => EndsIn(b, N, StmtOf(q))
        /\ rest # <<>> => IF IsComplete(Last(rest)) THEN EndsIn(b, {}, Null)
                          ELSE EndsIn(b, {}, StmtOf(Last(rest)))
    BY <1>1, <1>2, <1>3, <1>4, WrapperFacts
  <1>6. /\ AllIn(b, N) => made.co.printing = "disabled"
        /\ EndsIn(b, {}, Null) => made.co.printing = "disabled"
        /\ \A s \in StmtSet(R) : EndsIn(b, N, s) /\ s.kind # "null" =>
             /\ s.kind \notin {"expr", "auto", "decl"} => made.co.printing = "disabled"
             /\ EndsIn(b, {}, s) /\ s.kind \in {"expr", "auto", "decl"} => made.co.printing = "enabled"
    BY <1>2, <1>4, <1>5, PrintingFacts
  <1>7. ASSUME NEW q \in PieceSet(R), q \notin X, EndsIn(rest, X, q)
        PROVE  /\ EndsIn(b, N, StmtOf(q)) /\ StmtOf(q) \in StmtSet(R) /\ StmtOf(q).kind # "null"
               /\ StmtOf(q).kind \in {"expr", "auto", "decl"} <=> q.sort \in ValueSort
    <2>1. q.sort # "directive" /\ StmtOf(q) \in StmtSet(R) /\ StmtOf(q).kind # "null"
      BY <1>1, <1>2, <1>7, StmtOfLast
    <2>2. StmtOf(q).kind \in {"expr", "auto", "decl"} <=> q.sort \in ValueSort
      BY StmtOfFacts
    <2> QED  BY <1>5, <1>7, <2>1, <2>2
  <1>8. rest = <<>> => AllIn(b, N)
    <2>1. rest = <<>> => AllIn(rest, X)
      BY DEF AllIn
    <2> QED  BY <1>5, <2>1
  <1>9. ASSUME c.sort \notin ValueSort  PROVE made.co.printing = "disabled"
    <2>1. CASE AllIn(rest, X)
      BY <1>5, <1>6, <2>1
    <2>2. CASE ~AllIn(rest, X)
      <3>1. PICK q \in PieceSet(R) : q \notin X /\ EndsIn(rest, X, q) /\ c = q
        BY <1>3, <2>2, EndsOrAll
      <3> QED  BY <1>6, <1>7, <1>9, <3>1
    <2> QED  BY <2>1, <2>2
  <1>10. ASSUME IsHidden(in)  PROVE made.co.printing = "disabled"
    <2>1. rest # <<>> => IsComplete(Last(rest))
      BY <1>3, <1>10 DEF IsHidden
    <2> QED  BY <1>5, <1>6, <1>8, <2>1
  <1>11. ASSUME c.sort \in ValueSort, ~IsHidden(in)
         PROVE  /\ made.co.printing = "enabled" /\ Ending(report) = c /\ c \in PieceSet(R)
                /\ ValueEnds(made.body, R, ExprOf(c)) /\ ~IsEmptyWrapper(made.body)
    <2>1. c \in PieceSet(R) /\ EndsIn(rest, X, c) /\ c \notin X
      BY <1>3, <1>11
    <2>2. rest # <<>> /\ ~IsComplete(Last(rest))
      <3>1. rest # <<>>
        BY <2>1 DEF EndsIn
      <3> QED  BY <1>3, <1>11, <3>1 DEF IsHidden
    <2>3. Last(rest) = c
      <3>1. PICK z \in PieceSet(R) : z = Last(rest) /\ EndsIn(rest, {}, z)
        BY <1>3, <2>2, LastOfEnds
      <3>2. z.sort \notin {"directive", "null"}
        <4>1. z.sort = "null" => IsComplete(z)
          BY DEF PieceSet, Piece
        <4>2. z.sort = "directive" => IsComplete(z)
          BY DEF IsComplete
        <4> QED  BY <2>2, <3>1, <4>1, <4>2
      <3>3. z \notin X
        BY <1>1, <1>2, <3>2 DEF Sorted
      <3>4. EndsIn(rest, X, z)
        BY <3>1, EndsMore
      <3> QED  BY <1>3, <3>1, <3>3, <3>4
    <2>4. EndsIn(b, {}, StmtOf(c))
      BY <1>5, <2>2, <2>3
    <2>5. /\ EndsIn(b, N, StmtOf(c)) /\ StmtOf(c) \in StmtSet(R) /\ StmtOf(c).kind # "null"
          /\ StmtOf(c).kind \in {"expr", "auto", "decl"}
      BY <1>7, <1>11, <2>1
    <2>6. made.co.printing = "enabled"
      BY <1>6, <2>4, <2>5
    <2>7. Ending(report) = c
      <3>1. PICK W \in SUBSET {"using"} : W = {"using"}
        OBVIOUS
      <3>2. PICK Y : Y = Sorted(R, {"directive", "null"} \cup W)
        OBVIOUS
      <3>3. c \notin Y /\ EndsIn(rest, Y, c)
        <4>1. X \subseteq Y /\ c \notin Y
          BY <1>1, <1>2, <1>11, <3>1, <3>2 DEF Sorted, ValueSort
        <4> QED  BY <2>1, <4>1, EndsMore
      <3>4. LastOf(CodeWithout(in, W)) = c
        <4>1. PICK Z : Z = {"directive", "null"} \cup W
          OBVIOUS
        <4>2. EndIs(RestOf(ps, k), ps, R, Z, LastOf(CodeWithout(in, W)))
          BY <4>1, RestEnds
        <4> QED  BY <3>2, <3>3, <4>1, <4>2 DEF EndIs
      <3> QED  BY <3>1, <3>4 DEF Ending
    <2>8. c \in PieceSet(R) /\ ValueEnds(made.body, R, ExprOf(c))
      <3>1. EndsInValue(report)
        BY <1>11, <2>7 DEF EndsInValue
      <3>2. ~IsLost(report)
        BY <1>0, <2>7 DEF IsLost, Quiet
      <3>3. co.extraction = (report.call \in {"process", Quiet})
        OBVIOUS
      <3>4. co.printing # "disabled" /\ made.co.printing # "disabled"
        BY <2>6
      <3>5. EndsWith(made.body, R, Ending(report))
        BY <3>1, <3>2, <3>3, <3>4, MadeFacts
      <3> QED  BY <2>7, <3>5 DEF EndsWith
    <2>9. ~IsEmptyWrapper(made.body)
      <3>1. ExprOf(c).kind = "expr"
        BY <1>11, <2>1, StmtOfFacts
      <3>2. PICK f : f = made.body
        OBVIOUS
      <3>3. DOMAIN f = 1 .. Len(f) /\ \E i \in DOMAIN f : f[i].kind = "expr"
        BY <2>8, <3>1, <3>2 DEF ValueEnds
      <3>4. f # <<>>
        BY <3>3
      <3>5. Len(f) = 1 => f[1].kind = "expr"
        BY <3>3
      <3> QED  BY <3>2, <3>4, <3>5 DEF IsEmptyWrapper
    <2> QED  BY <2>6, <2>7, <2>8, <2>9
  <1> QED  BY <1>0, <1>9, <1>10, <1>11 DEF PrintsLast

(***************************************************************************)
(* The steps.                                                              *)
(***************************************************************************)

(* FreshValue and PrintsIffAsked of a report r and a heap h. *)
FreshOf(r, h) ==
  r.call # "none" /\ r.target # NoValue =>
    LET v == h.values[r.target]
    IN  /\ r.way = "declared" => v = r.before
        /\ r.way \in {"empty", "no wrapper"} => v \in {r.before, Invalid}
        /\ r.way = "compiled" => ~IsValid(v)
        /\ r.answer = "thrown" => (IsValid(v) => v.owns /\ h.blocks[v.block].built = 0)
        /\ r.way = "run" /\ r.answer = "success" =>
             IF IsValid(v) THEN IsValueOf(r, v.type) ELSE HasValue(r) => IsLost(r)
PrintsOf(r) ==
  r.call = "process" /\ r.way # "declared" /\ r.answer = "success" =>
    IF LastOf(Code(r.in)).sort \notin ValueSort \/ IsHidden(r.in) THEN r.printed = <<>>
    ELSE \E ty \in {"none", "void"} \cup {r.printed[i] : i \in 1 .. Len(r.printed)} :
           /\ IsValueOf(r, ty)
           /\ r.printed = IF ty \in {"none", "void"} THEN <<>> ELSE <<ty>>

(* What a step keeps. *)
StepOK ==
  /\ HeapTyped(heap') /\ ValuesNext
  /\ FreshOf(last', heap') /\ PrintsOf(last')

LEMMA ReportFields ==
  ASSUME NEW call, NEW in, NEW way, NEW answer, NEW target, NEW printed, NEW r,
         r = Report(call, in, way, answer, target, printed)
  PROVE  /\ r.call = call /\ r.in = in /\ r.way = way /\ r.answer = answer /\ r.target = target
         /\ r.printed = printed
         /\ target # NoValue => r.before = heap.values[target]
  BY DEF Report

LEMMA TargetFacts ==
  ASSUME NEW target \in Targets
  PROVE  /\ target # NoValue => target \in Handle /\ target \in Slot /\ target # resultV
         /\ resultV \in Slot /\ resultV # NoValue
  BY EvaluateAssumption DEF Targets, Slot, EvaluateAssumption, resultV, NoValue

(* No statement hands a value over that has one. *)
HasNone(t) == ~(t.kind = "expr" /\ Transport(t.type) # "none")

(* The ways in which a wrapper may run: it hands nothing over, a value, or throws. *)
RunsSilently(call, in, target, body, e) ==
  /\ last' = Report(call, in, "run", "success", target, <<>>)
  /\ target # NoValue => heap'.values[target] = Invalid
  /\ \A R : ValueEnds(body, R, ExprOf(e)) => HasNone(ExprOf(e))
RunsGiving(call, in, target, co, R, e) ==
  \E ty \in ValueType \ {"unknown"} :
    /\ ty \in R \/ (ty = ExprOf(e).type /\ e.sort \in ValueSort /\ Transport(ty) # "none")
    /\ last' = Report(call, in, "run", "success", target,
                 IF co.printing = "disabled" \/ Transport(ty) = "none" \/ ty = "void" THEN <<>> ELSE <<Handed(ty)>>)
    /\ target # NoValue => LET v == heap'.values[target]
                           IN  IF Transport(ty) = "none" THEN v = Invalid ELSE IsValid(v) /\ v.type = Handed(ty)
RunsThrowing(call, in, target) ==
  /\ last' = Report(call, in, "run", "thrown", target, <<>>)
  /\ target # NoValue => LET v == heap'.values[target]
                         IN  IsValid(v) => v.owns /\ heap'.blocks[v.block].built = 0

LEMMA RunFacts ==
  ASSUME HeapTyped(heap), UNCHANGED selfAssigned, NEW call, NEW in, NEW target \in Targets, NEW body, NEW co,
         NEW R \in SUBSET ValueType, NEW e, Silent(body) \/ EndsWith(body, R, e), ~Diagnosed(body),
         RunWrapper(call, in, target, body, co)
  PROVE  /\ HeapTyped(heap') /\ \E x \in Slot : Evaluated(x)
         /\ \/ RunsSilently(call, in, target, body, e)
            \/ EndsWith(body, R, e) /\ RunsGiving(call, in, target, co, R, e)
            \/ RunsThrowing(call, in, target)
  <1>1. PICK x \in Slot : /\ x = IF target = NoValue THEN resultV ELSE target
                          /\ x # NoValue /\ (x = resultV <=> target = NoValue)
    BY TargetFacts
  <1>2. PICK h : h = AssignTemporary(heap, x, Invalid)
    OBVIOUS
  <1>3. HeapTyped(h) /\ h.values[x] = Invalid
    BY <1>2, ResetTyped
  <1>4. Reset(heap, x) = h
    BY <1>1, <1>2 DEF Reset
  <1>5. \A r : LeaveScope(r, target) = IF x = resultV THEN Destroy(r, x) ELSE r
    BY <1>1 DEF LeaveScope
  <1>6. PICK taken \in BOOLEAN :
          IF Handing(body, taken) = 0
          THEN /\ heap' = LeaveScope(h, target)
               /\ last' = Report(call, in, "run", "success", target, <<>>)
          ELSE \E ty \in HandedTypes(body[Handing(body, taken)]), outcome \in {"built", "raw", "torn"} :
                 LET r == HandOver(h, x, ty, outcome)
                 IN  /\ heap' = LeaveScope(r, target)
                     /\ last' = IF outcome = "built"
                                THEN Report(call, in, "run", "success", target, Printed(r, x, ty, co))
                                ELSE Report(call, in, "run", "thrown", target, <<>>)
    BY <1>1, <1>4 DEF RunWrapper
  <1>7. PICK j : j = Handing(body, taken)
    OBVIOUS
  <1>8. /\ Silent(body) => j = 0
        /\ \A Q, t : ValueEnds(body, Q, t) =>
             /\ j # 0 => \A ty \in HandedTypes(body[j]) :
                           /\ ty \in Q \/ (t.kind = "expr" /\ Transport(t.type) # "none" /\ ty = t.type)
                           /\ ty # "unknown"
             /\ t.kind = "expr" /\ Transport(t.type) # "none" => j # 0
    BY <1>7, HandingFacts
  <1>9. \A r : HeapTyped(r) => HeapTyped(LeaveScope(r, target))
    <2> TAKE r
    <2> SUFFICES ASSUME HeapTyped(r)  PROVE HeapTyped(LeaveScope(r, target))
      OBVIOUS
    <2>1. HeapTyped(AssignTemporary(r, x, Invalid)) /\ Destroy(r, x) = AssignTemporary(r, x, Invalid)
      BY ResetTyped
    <2> QED  BY <1>5, <2>1
  <1>10. CASE j = 0
    <2>1. heap' = LeaveScope(h, target) /\ last' = Report(call, in, "run", "success", target, <<>>)
      BY <1>6, <1>7, <1>10
    <2>2. HeapTyped(heap')
      BY <1>3, <1>9, <2>1
    <2>3. Evaluated(x)
      BY <1>2, <1>5, <2>1 DEF Evaluated
    <2>4. target # NoValue => heap'.values[target] = Invalid
      BY <1>1, <1>3, <2>1 DEF LeaveScope
    <2>5. \A Q : ValueEnds(body, Q, ExprOf(e)) => HasNone(ExprOf(e))
      BY <1>8, <1>10 DEF HasNone
    <2> QED  BY <2>1, <2>2, <2>3, <2>4, <2>5 DEF RunsSilently
  <1>11. CASE j # 0
    <2>1. PICK ty \in HandedTypes(body[j]), outcome \in {"built", "raw", "torn"} :
             LET r == HandOver(h, x, ty, outcome)
             IN  /\ heap' = LeaveScope(r, target)
                 /\ last' = IF outcome = "built"
                            THEN Report(call, in, "run", "success", target, Printed(r, x, ty, co))
                            ELSE Report(call, in, "run", "thrown", target, <<>>)
      BY <1>6, <1>7, <1>11
    <2>2. PICK r : r = HandOver(h, x, ty, outcome)
      OBVIOUS
    <2>3. e \in PieceSet(R) /\ ValueEnds(body, R, ExprOf(e)) /\ EndsWith(body, R, e)
      BY <1>8, <1>11 DEF EndsWith
    <2>4. /\ ty \in R \/ (ExprOf(e).kind = "expr" /\ Transport(ExprOf(e).type) # "none" /\ ty = ExprOf(e).type)
          /\ ty # "unknown"
      BY <1>8, <1>11, <2>1, <2>3
    <2>5. /\ ty \in ValueType \ {"unknown"}
          /\ ty \in R \/ (ty = ExprOf(e).type /\ e.sort \in ValueSort /\ Transport(ty) # "none")
      <3>1. /\ ExprOf(e).kind = "expr" <=> e.sort \in ValueSort
            /\ e.sort \in ValueSort => ExprOf(e).type \in ValueType
        BY <2>3, StmtOfFacts
      <3> QED  BY <2>4, <3>1
    <2>6. /\ HeapTyped(r)
          /\ outcome = "built" /\ Transport(ty) # "none" => IsValid(r.values[x]) /\ r.values[x].type = Handed(ty)
          /\ outcome = "built" /\ Transport(ty) = "none" => r.values[x] = Invalid
          /\ outcome # "built" =>
               (IsValid(r.values[x]) => r.values[x].owns /\ r.blocks[r.values[x].block].built = 0)
      BY <1>3, <2>2, <2>5, HandOverTyped
    <2>7. heap' = LeaveScope(r, target) /\ HeapTyped(heap')
      BY <1>9, <2>1, <2>2, <2>6
    <2>8. Evaluated(x)
      <3>1. heap' = IF x = resultV THEN Destroy(r, x) ELSE r
        BY <1>5, <2>7
      <3>2. r = HandOver(AssignTemporary(heap, x, Invalid), x, ty, outcome)
        BY <1>2, <2>2
      <3> QED  BY <2>5, <3>1, <3>2, RunEvaluates
    <2>9. target # NoValue => heap' = r /\ x = target
      BY <1>1, <2>7 DEF LeaveScope
    <2>10. CASE outcome = "built"
      <3>1. last' = Report(call, in, "run", "success", target, Printed(r, x, ty, co))
        BY <2>1, <2>2, <2>10
      <3>2. Printed(r, x, ty, co) =
              IF co.printing = "disabled" \/ Transport(ty) = "none" \/ ty = "void" THEN <<>> ELSE <<Handed(ty)>>
        BY <2>6, <2>10 DEF Printed
      <3>3. target # NoValue => LET v == heap'.values[target]
                                IN  IF Transport(ty) = "none" THEN v = Invalid ELSE IsValid(v) /\ v.type = Handed(ty)
        BY <2>6, <2>9, <2>10
      <3>4. RunsGiving(call, in, target, co, R, e)
        BY <2>5, <3>1, <3>2, <3>3 DEF RunsGiving
      <3> QED  BY <2>3, <2>7, <2>8, <3>4
    <2>11. CASE outcome # "built"
      <3>1. last' = Report(call, in, "run", "thrown", target, <<>>)
        BY <2>1, <2>2, <2>11
      <3>2. RunsThrowing(call, in, target)
        BY <2>6, <2>9, <2>11, <3>1 DEF RunsThrowing
      <3> QED  BY <2>7, <2>8, <3>2
    <2> QED  BY <2>10, <2>11
  <1> QED  BY <1>10, <1>11

(* What a wrapper gives is a value of the input's text. *)
LEMMA GivenIs ==
  ASSUME NEW in, NEW ps \in Seq(Piece), in.pieces = ps, NEW R, R = Returned(ps), NEW r, r.in = in,
         NEW ty \in ValueType \ {"unknown"},
         \/ ty \in R
         \/ ty = ExprOf(Ending(r)).type /\ Ending(r) \in PieceSet(R) /\ Ending(r).sort \in ValueSort
  PROVE  /\ Transport(ty) # "none" => IsValueOf(r, Handed(ty))
         /\ Transport(ty) = "none" => IsValueOf(r, "none")
  <1>1. IsValueOf(r, ValueOf("value", ty))
    <2>1. CASE ty \in R
      <3>1. PICK i \in 1 .. Len(ps) : ty \in ps[i].returns
        BY <2>1, PiecesReturn
      <3> QED  BY <3>1 DEF IsValueOf, ReturnsValue
    <2>2. CASE ty = ExprOf(Ending(r)).type /\ Ending(r) \in PieceSet(R) /\ Ending(r).sort \in ValueSort
      <3>1. PICK e \in PieceSet(R) : e = Ending(r)
        BY <2>2
      <3>2. ty = TypeOf(e)
        BY <2>2, <3>1, StmtOfFacts
      <3>3. ValueOf(e.sort, e.type) = ValueOf("value", ty)
        BY <3>2 DEF ValueOf, TypeOf
      <3> QED  BY <2>2, <3>1, <3>3 DEF IsValueOf, EndsInValue
    <2> QED  BY <2>1, <2>2
  <1>2. /\ Transport(ty) # "none" => ValueOf("value", ty) = Handed(ty)
        /\ Transport(ty) = "none" => ValueOf("value", ty) = "none"
    BY TransportFacts
  <1> QED  BY <1>1, <1>2

(* An input that has a value ends in a statement that has one. *)
LEMMA HasOne ==
  ASSUME NEW R, NEW r, HasValue(r), Ending(r) \in PieceSet(R)
  PROVE  ~HasNone(ExprOf(Ending(r)))
  <1>1. PICK e \in PieceSet(R) : e = Ending(r) /\ e.sort \in ValueSort
    BY DEF HasValue, EndsInValue
  <1>2. ExprOf(e).kind = "expr" /\ ExprOf(e).type = TypeOf(e)
    BY <1>1, StmtOfFacts
  <1>3. ValueOf(e.sort, e.type) = ValueOf("value", TypeOf(e))
    BY DEF ValueOf, TypeOf
  <1>4. ValueOf(e.sort, e.type) # "none"
    BY <1>1 DEF HasValue, IsValueOf, EndsInValue
  <1>5. Transport(TypeOf(e)) # "none"
    BY <1>3, <1>4 DEF ValueOf, Transport
  <1> QED  BY <1>1, <1>2, <1>5 DEF HasNone

LEMMA RunFields ==
  ASSUME NEW call, NEW in, NEW target, NEW body, NEW co, NEW R, NEW e,
         \/ RunsSilently(call, in, target, body, e)
         \/ EndsWith(body, R, e) /\ RunsGiving(call, in, target, co, R, e)
         \/ RunsThrowing(call, in, target)
  PROVE  last'.call = call /\ last'.in = in /\ last'.target = target /\ last'.way = "run"
  <1>1. \E answer, printed : last' = Report(call, in, "run", answer, target, printed)
    BY DEF RunsSilently, RunsGiving, RunsThrowing
  <1> QED  BY <1>1, ReportFields

(* The caller's Value after a run. *)
LEMMA FreshRun ==
  ASSUME NEW in, NEW ps \in Seq(Piece), in.pieces = ps, NEW k, Valueless(ps, k), NEW rest, rest = RestOf(ps, k),
         NEW call, NEW target \in Targets, NEW co \in OptionSet,
         co.extraction = (call \in {"process", Quiet}), co.result = (target # NoValue),
         call = "process" => co.printing # "disabled",
         NEW made, made = Transformed(WrapperBody(rest), co), ~Diagnosed(made.body),
         HeapTyped(heap), UNCHANGED selfAssigned, RunWrapper(call, in, target, made.body, made.co)
  PROVE  HeapTyped(heap') /\ (\E x \in Slot : Evaluated(x)) /\ FreshOf(last', heap')
  <1>1. PICK R \in SUBSET ValueType : R = Returned(ps) /\ ps \in Seq(PieceSet(R))
    BY PiecesReturn
  <1>2. PICK rep : rep = Report(call, in, "run", "success", NoValue, <<>>) /\ rep.call = call /\ rep.in = in
    BY ReportFields
  <1>3. PICK e : e = Ending(rep)
    OBVIOUS
  <1>4. Silent(made.body) \/ EndsWith(made.body, R, e)
    <2>1. co.extraction = (rep.call \in {"process", Quiet})
      BY <1>2
    <2> QED  BY <1>1, <1>2, <1>3, <2>1, MadeFacts
  <1>5. /\ HeapTyped(heap') /\ \E x \in Slot : Evaluated(x)
        /\ \/ RunsSilently(call, in, target, made.body, e)
           \/ EndsWith(made.body, R, e) /\ RunsGiving(call, in, target, made.co, R, e)
           \/ RunsThrowing(call, in, target)
    BY <1>4, RunFacts
  <1>6. PICK r : r = last'
    OBVIOUS
  <1>7. r.call = call /\ r.in = in /\ r.target = target /\ r.way = "run"
    BY <1>5, <1>6, RunFields
  <1>8. Ending(r) = e
    BY <1>2, <1>3, <1>7 DEF Ending
  <1> SUFFICES ASSUME target # NoValue  PROVE FreshOf(r, heap')
    BY <1>5, <1>6, <1>7 DEF FreshOf
  <1>9. PICK v : v = heap'.values[target]
    OBVIOUS
  <1>10. ~IsValid(Invalid)
    BY DEF IsValid, Invalid
  <1>11. ASSUME HasValue(r), ~IsLost(r)
         PROVE  EndsWith(made.body, R, e) /\ ~HasNone(ExprOf(e))
    <2>1. /\ co.extraction = (r.call \in {"process", Quiet}) /\ co.result = TRUE
          /\ r.call = "process" => co.printing # "disabled"
          /\ EndsInValue(r)
      BY <1>7, <1>11 DEF HasValue
    <2>2. EndsWith(made.body, R, Ending(r))
      BY <1>1, <1>7, <1>11, <2>1, MadeFacts
    <2>3. ~HasNone(ExprOf(Ending(r)))
      BY <1>11, <2>2, HasOne DEF EndsWith
    <2> QED  BY <1>8, <2>2, <2>3
  <1>12. CASE RunsSilently(call, in, target, made.body, e)
    <2>1. r.answer = "success" /\ v = Invalid
      BY <1>6, <1>9, <1>12, ReportFields DEF RunsSilently
    <2>2. HasValue(r) => IsLost(r)
      BY <1>11, <1>12 DEF RunsSilently, EndsWith
    <2> QED  BY <1>7, <1>9, <1>10, <2>1, <2>2 DEF FreshOf
  <1>13. CASE EndsWith(made.body, R, e) /\ RunsGiving(call, in, target, made.co, R, e)
    <2>1. PICK ty \in ValueType \ {"unknown"} :
            /\ ty \in R \/ (ty = ExprOf(e).type /\ e.sort \in ValueSort /\ Transport(ty) # "none")
            /\ r.answer = "success"
            /\ IF Transport(ty) = "none" THEN v = Invalid ELSE IsValid(v) /\ v.type = Handed(ty)
      BY <1>6, <1>9, <1>13, ReportFields DEF RunsGiving
    <2>2. /\ Transport(ty) # "none" => IsValueOf(r, Handed(ty))
          /\ Transport(ty) = "none" => IsValueOf(r, "none")
      BY <1>1, <1>7, <1>8, <1>13, <2>1, GivenIs DEF EndsWith
    <2>3. IF IsValid(v) THEN IsValueOf(r, v.type) ELSE ~HasValue(r)
      BY <1>10, <2>1, <2>2 DEF HasValue
    <2> QED  BY <1>7, <1>9, <2>1, <2>3 DEF FreshOf
  <1>14. CASE RunsThrowing(call, in, target)
    <2>1. r.answer = "thrown" /\ (IsValid(v) => v.owns /\ heap'.blocks[v.block].built = 0)
      BY <1>6, <1>9, <1>14, ReportFields DEF RunsThrowing
    <2> QED  BY <1>7, <1>9, <2>1 DEF FreshOf
  <1> QED  BY <1>5, <1>12, <1>13, <1>14

(* What process() prints in a run. *)
LEMMA PrintsRun ==
  ASSUME NEW in, NEW ps \in Seq(Piece), in.pieces = ps, NEW k, Valueless(ps, k), NEW rest, rest = RestOf(ps, k),
         ParsesInBody(rest), NEW target \in Targets, NEW co \in OptionSet, co.extraction = TRUE, co.printing = "auto",
         NEW made, made = Transformed(WrapperBody(rest), co), ~Diagnosed(made.body),
         HeapTyped(heap), UNCHANGED selfAssigned, RunWrapper("process", in, target, made.body, made.co)
  PROVE  PrintsOf(last')
  <1>1. PICK R \in SUBSET ValueType : R = Returned(ps) /\ ps \in Seq(PieceSet(R))
    BY PiecesReturn
  <1>2. PICK rep : rep = Report("process", in, "run", "success", NoValue, <<>>) /\ rep.call = "process" /\ rep.in = in
    BY ReportFields
  <1>3. PICK e : e = Ending(rep)
    OBVIOUS
  <1>4. Silent(made.body) \/ EndsWith(made.body, R, e)
    <2>1. co.extraction = (rep.call \in {"process", Quiet})
      BY <1>2
    <2> QED  BY <1>1, <1>2, <1>3, <2>1, MadeFacts
  <1>5. \/ RunsSilently("process", in, target, made.body, e)
        \/ EndsWith(made.body, R, e) /\ RunsGiving("process", in, target, made.co, R, e)
        \/ RunsThrowing("process", in, target)
    BY <1>4, RunFacts
  <1>6. PICK r : r = last'
    OBVIOUS
  <1>7. r.call = "process" /\ r.in = in
    BY <1>5, <1>6, RunFields
  <1>8. Ending(r) = e
    BY <1>2, <1>3, <1>7 DEF Ending
  <1>9. PICK c : c = LastOf(Code(in))
    OBVIOUS
  <1>10. /\ c.sort \notin ValueSort \/ IsHidden(in) => made.co.printing = "disabled"
         /\ c.sort \in ValueSort /\ ~IsHidden(in) =>
              /\ made.co.printing = "enabled" /\ Ending(r) = c /\ c \in PieceSet(R)
              /\ ValueEnds(made.body, R, ExprOf(c)) /\ ~IsEmptyWrapper(made.body)
    <2>1. PrintsLast(in, R, r, made)
      BY <1>1, <1>7, PrintFacts
    <2> QED  BY <1>9, <2>1 DEF PrintsLast
  <1> SUFFICES ASSUME r.answer = "success"
               PROVE  IF c.sort \notin ValueSort \/ IsHidden(in) THEN r.printed = <<>>
                      ELSE \E ty \in {"none", "void"} \cup {r.printed[i] : i \in 1 .. Len(r.printed)} :
                             IsValueOf(r, ty) /\ r.printed = IF ty \in {"none", "void"} THEN <<>> ELSE <<ty>>
    BY <1>6, <1>7, <1>9 DEF PrintsOf
  <1>11. CASE RunsSilently("process", in, target, made.body, e)
    <2>1. r.printed = <<>>
      BY <1>6, <1>11, ReportFields DEF RunsSilently
    <2>2. ASSUME c.sort \in ValueSort, ~IsHidden(in)  PROVE IsValueOf(r, "none")
      <3>1. c = e /\ c \in PieceSet(R) /\ HasNone(ExprOf(c))
        BY <1>8, <1>10, <1>11, <2>2 DEF RunsSilently
      <3>2. EndsInValue(r) /\ ~HasValue(r)
        BY <1>8, <2>2, <3>1, HasOne DEF EndsInValue
      <3> QED  BY <3>2 DEF HasValue
    <2> QED  BY <2>1, <2>2
  <1>12. CASE EndsWith(made.body, R, e) /\ RunsGiving("process", in, target, made.co, R, e)
    <2>1. PICK ty \in ValueType \ {"unknown"} :
            /\ ty \in R \/ (ty = ExprOf(e).type /\ e.sort \in ValueSort /\ Transport(ty) # "none")
            /\ r.printed = IF made.co.printing = "disabled" \/ Transport(ty) = "none" \/ ty = "void" THEN <<>>
                           ELSE <<Handed(ty)>>
      BY <1>6, <1>12, ReportFields DEF RunsGiving
    <2>2. ASSUME c.sort \in ValueSort, ~IsHidden(in)
          PROVE  \E t \in {"none", "void"} \cup {r.printed[i] : i \in 1 .. Len(r.printed)} :
                   IsValueOf(r, t) /\ r.printed = IF t \in {"none", "void"} THEN <<>> ELSE <<t>>
      <3>1. made.co.printing = "enabled"
        BY <1>10, <2>2
      <3>2. /\ Transport(ty) # "none" => IsValueOf(r, Handed(ty))
            /\ Transport(ty) = "none" => IsValueOf(r, "none")
        BY <1>1, <1>7, <1>8, <1>12, <2>1, GivenIs DEF EndsWith
      <3>3. CASE Transport(ty) = "none"
        <4>1. r.printed = <<>>
          BY <2>1, <3>3
        <4> QED  BY <3>2, <3>3, <4>1
      <3>4. CASE ty = "void"
        <4>1. r.printed = <<>> /\ Handed(ty) = "void" /\ Transport(ty) # "none"
          BY <2>1, <3>4 DEF Handed, Transport
        <4> QED  BY <3>2, <4>1
      <3>5. CASE Transport(ty) # "none" /\ ty # "void"
        <4>1. PICK t : t = Handed(ty)
          OBVIOUS
        <4>2. t \in Type /\ t \notin {"none", "void"}
          <5>1. t \in Type
            BY <4>1, TransportFacts
          <5>2. t # "void"
            BY <3>5, <4>1 DEF Handed
          <5> QED  BY <5>1, <5>2 DEF Type
        <4>3. r.printed = <<t>>
          BY <2>1, <3>1, <3>5, <4>1
        <4>4. t \in {r.printed[i] : i \in 1 .. Len(r.printed)}
          <5>0. Len(<<t>>) = 1 /\ <<t>>[1] = t
            OBVIOUS
          <5>1. PICK p : p = <<t>> /\ Len(p) = 1 /\ p[1] = t
            BY <5>0
          <5>2. 1 \in 1 .. Len(p)
            BY <5>1
          <5>3. t \in {p[i] : i \in 1 .. Len(p)}
            BY <5>1, <5>2
          <5> QED  BY <4>3, <5>1, <5>3
        <4> QED  BY <3>2, <3>5, <4>1, <4>2, <4>3, <4>4
      <3> QED  BY <3>3, <3>4, <3>5
    <2>3. c.sort \notin ValueSort \/ IsHidden(in) => r.printed = <<>>
      BY <1>10, <2>1
    <2> QED  BY <2>2, <2>3
  <1>13. CASE RunsThrowing("process", in, target)
    <2>1. r.answer = "thrown"
      BY <1>6, <1>13, ReportFields DEF RunsThrowing
    <2> QED  BY <2>1
  <1> QED  BY <1>5, <1>11, <1>12, <1>13

LEMMA EvaluatedNext ==
  ASSUME NEW x \in Slot, Evaluated(x)
  PROVE  ValuesNext
  BY DEF ValuesNext, Slot

LEMMA ResetOK ==
  ASSUME HeapTyped(heap), UNCHANGED selfAssigned, NEW target \in Targets, heap' = Reset(heap, target)
  PROVE  HeapTyped(heap') /\ ValuesNext /\ (target # NoValue => heap'.values[target] = Invalid)
  <1>1. CASE target = NoValue
    <2>1. heap' = heap
      BY <1>1 DEF Reset
    <2> QED  BY <1>1, <2>1 DEF ValuesNext
  <1>2. CASE target # NoValue
    <2>1. target \in Slot /\ target # resultV /\ heap' = AssignTemporary(heap, target, Invalid)
      BY <1>2, TargetFacts DEF Reset
    <2>2. HeapTyped(heap') /\ heap'.values[target] = Invalid
      <3>1. PICK h : h = AssignTemporary(heap, target, Invalid)
        OBVIOUS
      <3>2. HeapTyped(h) /\ h.values[target] = Invalid
        BY <2>1, <3>1, ResetTyped
      <3> QED  BY <2>1, <3>1, <3>2
    <2>3. Evaluated(target)
      BY <2>1 DEF Evaluated
    <2> QED  BY <2>1, <2>2, <2>3, EvaluatedNext
  <1> QED  BY <1>1, <1>2

(* An input without a wrapper ends where a piece ends, or with a class. *)
LEMMA NoWrapperHides ==
  ASSUME NEW in, NEW ps \in Seq(Piece), in.pieces = ps, NEW a, ParsesAtTop(ps, a)
  PROVE  LastOf(Code(in)).sort \notin ValueSort \/ IsHidden(in)
  <1> SUFFICES ASSUME ~IsHidden(in)  PROVE LastOf(Code(in)).sort \notin ValueSort
    OBVIOUS
  <1>1. PICK R : ps \in Seq(PieceSet(R))
    BY PiecesReturn
  <1>2. PICK K : K = {"directive", "null"} \cup {}
    OBVIOUS
  <1>3. PICK X : X = Sorted(R, K)
    OBVIOUS
  <1>4. /\ AllIn(ps, X) => LastOf(Code(in)) = [sort |-> "none"]
        /\ \A q : EndsIn(ps, X, q) /\ q \notin X => LastOf(Code(in)) = q
    <2>1. /\ AllIn(ps, Sorted(R, K)) => LastOf(CodeWithout(in, {})) = [sort |-> "none"]
          /\ \A q : EndsIn(ps, Sorted(R, K), q) /\ q \notin Sorted(R, K) => LastOf(CodeWithout(in, {})) = q
      BY ONLY <1>1, <1>2, in.pieces = ps, EndingIs
    <2> QED  BY <1>3, <2>1 DEF Code
  <1>5. CASE ps = <<>>
    <2>1. AllIn(ps, X)
      BY <1>5 DEF AllIn
    <2> QED  BY <1>4, <2>1 DEF ValueSort
  <1>6. CASE ps # <<>>
    <2>1. PICK z : z = Last(ps) /\ EndsIn(ps, {}, z)
      BY <1>1, <1>6, LastOfEnds
    <2>2. PICK i \in 1 .. Len(ps) : ps[i] = z
      <3>1. DOMAIN ps = 1 .. Len(ps)
        BY LenProperties
      <3> QED  BY <2>1, <3>1 DEF EndsIn
    <2>3. IsComplete(z) \/ z.sort = "class"
      BY <2>2 DEF ParsesAtTop
    <2>4. z.sort = "class"
      BY <2>1, <2>3 DEF IsHidden
    <2>5. z \notin X
      BY <1>2, <1>3, <2>4 DEF Sorted
    <2>6. EndsIn(ps, X, z)
      BY <2>1, EndsMore
    <2>7. LastOf(Code(in)) = z
      BY <1>4, <2>5, <2>6
    <2> QED  BY <2>4, <2>7 DEF ValueSort
  <1> QED  BY <1>5, <1>6

LEMMA DeclaredOK ==
  ASSUME HeapTyped(heap), UNCHANGED selfAssigned, NEW call, NEW in, NEW target \in Targets,
         DeclareInternal(call, in, target)
  PROVE  StepOK
  <1>1. PICK r : /\ r = last' /\ r.call = call /\ r.way = "declared" /\ r.target = target
                 /\ r.answer = Answer(ParsesAtTop(in.pieces, 0))
                 /\ target # NoValue => r.before = heap.values[target]
    BY ReportFields DEF DeclareInternal
  <1>2. heap' = heap
    BY DEF DeclareInternal
  <1>3. ValuesNext
    BY <1>2 DEF ValuesNext
  <1>4. r.answer # "thrown"
    BY <1>1 DEF Answer
  <1>5. FreshOf(r, heap')
    BY <1>1, <1>2, <1>4 DEF FreshOf
  <1>6. PrintsOf(r)
    BY <1>1 DEF PrintsOf
  <1> QED  BY <1>1, <1>2, <1>3, <1>5, <1>6 DEF StepOK

(* The ways that have no wrapper. *)
LEMMA NotRunOK ==
  ASSUME HeapTyped(heap), UNCHANGED selfAssigned, NEW call, NEW in, NEW target \in Targets,
         NEW way, NEW answer,
         last' = Report(call, in, way, answer, target, <<>>),
         \/ way = "compiled" /\ answer = "failure" /\ heap' = Reset(heap, target)
         \/ way = "empty" /\ answer = "success" /\ heap' = Reset(heap, target)
         \/ way = "no wrapper" /\ answer = "success" /\ UNCHANGED heap,
         call = "process" /\ answer = "success" => LastOf(Code(in)).sort \notin ValueSort \/ IsHidden(in)
  PROVE  StepOK
  <1>1. PICK r : /\ r = last' /\ r.call = call /\ r.way = way /\ r.target = target /\ r.in = in
                 /\ r.answer = answer /\ r.printed = <<>>
                 /\ target # NoValue => r.before = heap.values[target]
    <2>1. PICK r, none : none = <<>> /\ r = last' /\ r = Report(call, in, way, answer, target, none)
      OBVIOUS
    <2>2. /\ r.call = call /\ r.in = in /\ r.way = way /\ r.answer = answer /\ r.target = target
          /\ r.printed = none /\ (target # NoValue => r.before = heap.values[target])
      BY ONLY <2>1, ReportFields
    <2> QED  BY <2>1, <2>2
  <1>2. PrintsOf(r)
    BY <1>1 DEF PrintsOf
  <1>3. HeapTyped(heap') /\ ValuesNext
    <2>1. CASE heap' = Reset(heap, target)
      BY <2>1, ResetOK
    <2>2. CASE UNCHANGED heap
      BY <2>2 DEF ValuesNext
    <2> QED  BY <2>1, <2>2
  <1>4. FreshOf(r, heap')
    <2> SUFFICES ASSUME target # NoValue  PROVE FreshOf(r, heap')
      BY <1>1 DEF FreshOf
    <2>1. heap' = Reset(heap, target) => heap'.values[target] = Invalid
      BY ResetOK
    <2>2. ~IsValid(Invalid)
      BY DEF IsValid, Invalid
    <2> QED  BY <1>1, <2>1, <2>2 DEF FreshOf
  <1> QED  BY <1>1, <1>2, <1>3, <1>4 DEF StepOK

LEMMA EvaluatedInputOK ==
  ASSUME HeapTyped(heap), UNCHANGED selfAssigned, NEW call, NEW in, in.pieces \in Seq(Piece), NEW wrap,
         \/ wrap = AllWrapped
         \/ wrap.how = "wrap" => \A k \in Before(in.pieces, wrap.at) : \A i \in 1 .. k : in.pieces[i].sort # "variable",
         NEW target \in Targets, NEW options \in OptionSet,
         options.extraction = (call \in {"process", Quiet}), options.result = (target # NoValue),
         call = "process" => options.printing = "auto",
         EvaluateInternal(call, in, wrap, options, target)
  PROVE  StepOK
  <1>1. PICK ps \in Seq(Piece) : ps = in.pieces
    OBVIOUS
  <1>2. PICK k, top, rest : k = Min(Cuts(in, wrap)) /\ top = SubSeq(ps, 1, k) /\ rest = RestOf(ps, k)
    OBVIOUS
  <1>3. PICK made : made = Transformed(WrapperBody(rest), options)
    OBVIOUS
  <1>4. \/ /\ heap' = Reset(heap, target)
           /\ last' = Report(call, in, "compiled", "failure", target, <<>>)
        \/ /\ Cuts(in, wrap) # {}
           /\ ParsesAtTop(top, IF wrap.how = "semi" THEN wrap.at ELSE 0)
           /\ ParsesInBody(rest)
           /\ ~Diagnosed(made.body)
           /\ FinishTransaction(call, in, target, wrap.how # "wrap" \/ IsEmptyWrapper(made.body),
                                HasContents(top, rest, options.extraction), made)
    BY <1>1, <1>2, <1>3 DEF EvaluateInternal, Compile, RestOf
  <1>5. CASE /\ heap' = Reset(heap, target)
             /\ last' = Report(call, in, "compiled", "failure", target, <<>>)
    BY <1>5, NotRunOK
  <1>6. CASE /\ Cuts(in, wrap) # {}
             /\ ParsesAtTop(top, IF wrap.how = "semi" THEN wrap.at ELSE 0)
             /\ ParsesInBody(rest)
             /\ ~Diagnosed(made.body)
             /\ FinishTransaction(call, in, target, wrap.how # "wrap" \/ IsEmptyWrapper(made.body),
                                  HasContents(top, rest, options.extraction), made)
    <2>1. PICK a : ParsesAtTop(top, a)
      BY <1>6
    <2>2. /\ k \in 0 .. Len(ps)
          /\ wrap.how = "wrap" => Valueless(ps, k)
          /\ wrap.how # "wrap" => k = Len(ps)
      BY <1>1, <1>2, <1>6, <2>1, CutFacts
    <2>3. ASSUME call = "process", wrap.how # "wrap" \/ IsEmptyWrapper(made.body)
          PROVE  LastOf(Code(in)).sort \notin ValueSort \/ IsHidden(in)
      <3>1. CASE wrap.how # "wrap"
        <4>1. top = ps
          BY <1>2, <2>2, <3>1, SubSeqFull
        <4> QED  BY <1>1, <2>1, <4>1, NoWrapperHides
      <3>2. CASE wrap.how = "wrap" /\ IsEmptyWrapper(made.body)
        <4>1. PICK R : ps \in Seq(PieceSet(R))
          BY PiecesReturn
        <4>2. PICK rep : rep.in = in /\ rep.call = "process"
          <5>1. PICK rep : rep = Report("process", in, "run", "success", NoValue, <<>>)
            OBVIOUS
          <5> QED  BY <5>1, ReportFields
        <4>3. options.extraction = TRUE /\ options.printing = "auto"
          BY <2>3
        <4>4. PrintsLast(in, R, rep, made)
          BY <1>1, <1>2, <1>3, <1>6, <2>2, <3>2, <4>1, <4>2, <4>3, PrintFacts
        <4> QED  BY <3>2, <4>4 DEF PrintsLast
      <3> QED  BY <2>3, <3>1, <3>2
    <2>4. CASE wrap.how # "wrap" \/ IsEmptyWrapper(made.body)
      <3>1. \/ /\ heap' = Reset(heap, target)
               /\ last' = Report(call, in, "empty", "success", target, <<>>)
            \/ /\ UNCHANGED heap
               /\ last' = Report(call, in, "no wrapper", "success", target, <<>>)
        BY <1>6, <2>4 DEF FinishTransaction
      <3> QED  BY <2>3, <2>4, <3>1, NotRunOK
    <2>5. CASE wrap.how = "wrap" /\ ~IsEmptyWrapper(made.body)
      <3>1. RunWrapper(call, in, target, made.body, made.co)
        BY <1>6, <2>5 DEF FinishTransaction
      <3>2. call = "process" => options.printing # "disabled"
        OBVIOUS
      <3>3. HeapTyped(heap') /\ (\E x \in Slot : Evaluated(x)) /\ FreshOf(last', heap')
        BY <1>1, <1>2, <1>3, <1>6, <2>2, <2>5, <3>1, <3>2, FreshRun
      <3>4. PrintsOf(last')
        <4>1. CASE call = "process"
          <5>1. options.extraction = TRUE /\ options.printing = "auto"
            BY <4>1
          <5>2. RunWrapper("process", in, target, made.body, made.co)
            BY <3>1, <4>1
          <5> QED  BY <1>1, <1>2, <1>3, <1>6, <2>2, <2>5, <5>1, <5>2, PrintsRun
        <4>2. CASE call # "process"
          <5>1. last'.call = call
            <6>1. \E answer, printed : last' = Report(call, in, "run", answer, target, printed)
              BY <3>1 DEF RunWrapper
            <6> QED  BY <6>1, ReportFields
          <5> QED  BY <4>2, <5>1 DEF PrintsOf
        <4> QED  BY <4>1, <4>2
      <3> QED  BY <3>3, <3>4, EvaluatedNext DEF StepOK
    <2> QED  BY <2>4, <2>5
  <1> QED  BY <1>4, <1>5, <1>6

(* The inductive invariant: FreshValue and PrintsIffAsked hold of each step by itself. *)
EvaluateInv == session \in Session /\ HeapTyped(heap) /\ FreshValue /\ PrintsIffAsked

LEMMA EvaluateInit ==
  ASSUME Init
  PROVE  EvaluateInv /\ ValuesInit
  <1>1. session \in Session /\ ValuesInit /\ last = NoReport
    BY DEF Init
  <1>2. HeapTyped(heap)
    <2>1. PICK v, bs : v = [x \in Slot |-> Invalid] /\ bs = <<>>
      OBVIOUS
    <2>2. v \in [Slot -> ValueRec] /\ \A x \in Slot : v[x].owns = FALSE
      BY <2>1, InvalidIsValue
    <2>3. bs \in Seq(LooseBlock)
      BY <2>1
    <2>4. heap = [values |-> v, blocks |-> bs, misused |-> FALSE]
      BY <1>1, <2>1 DEF ValuesInit, Slot
    <2> QED  BY <2>2, <2>3, <2>4 DEF HeapTyped
  <1>3. FreshValue /\ PrintsIffAsked
    BY <1>1 DEF FreshValue, PrintsIffAsked, NoReport
  <1> QED  BY <1>1, <1>2, <1>3 DEF EvaluateInv

(* A session passes on pieces as the parser gives them. *)
LEMMA InputFacts ==
  ASSUME NEW s \in Session, NEW in \in Inputs(s), NEW wrap, wrap = WrapPointOf(Source(in)) \/ wrap.how # "wrap"
  PROVE  /\ in.pieces \in Seq(Piece)
         /\ wrap.how = "wrap" => \A k \in Before(in.pieces, wrap.at) : \A i \in 1 .. k : in.pieces[i].sort # "variable"
  BY EvaluateAssumption DEF EvaluateAssumption

LEMMA OptionFacts ==
  ASSUME NEW p \in {"auto", "enabled", "disabled"}, NEW r \in BOOLEAN, NEW x \in BOOLEAN
  PROVE  /\ Options(p, r, x) \in OptionSet
         /\ Options(p, r, x).printing = p /\ Options(p, r, x).result = r /\ Options(p, r, x).extraction = x
  BY DEF Options, OptionSet

LEMMA ProcessOK ==
  ASSUME HeapTyped(heap), session \in Session, NEW in \in Inputs(session), NEW target \in Targets,
         NEW disabled \in BOOLEAN, Process(in, target, disabled)
  PROVE  StepOK
  <1>1. UNCHANGED selfAssigned
    BY DEF Process, Takes
  <1>2. PICK wrap : /\ wrap = IF raw THEN NotWrapped ELSE WrapPointOf(Source(in))
                    /\ ProcessAt(in, wrap, target, disabled)
    BY DEF Process
  <1>3. CASE wrap.how = "npos"
    <2>1. DeclareInternal("process", in, target)
      BY <1>2, <1>3 DEF ProcessAt
    <2> QED  BY <1>1, <2>1, DeclaredOK
  <1>4. CASE wrap.how # "npos"
    <2>0. PICK result \in BOOLEAN : result = (target # NoValue)
      OBVIOUS
    <2>1. PICK call, printing, options :
            /\ call = IF disabled THEN Quiet ELSE "process"
            /\ printing = IF disabled THEN "disabled" ELSE "auto"
            /\ options = Options(printing, result, TRUE)
      OBVIOUS
    <2>2. EvaluateInternal(call, in, wrap, options, target)
      BY <1>2, <1>4, <2>0, <2>1 DEF ProcessAt
    <2>3. /\ options \in OptionSet /\ options.extraction = TRUE /\ options.result = (target # NoValue)
          /\ options.printing = printing
      BY <2>0, <2>1, OptionFacts
    <2>4. options.extraction = (call \in {"process", Quiet})
      BY <2>1, <2>3
    <2>5. call = "process" => options.printing = "auto"
      BY <2>1, <2>3 DEF Quiet
    <2>6. wrap = WrapPointOf(Source(in)) \/ wrap.how # "wrap"
      BY <1>2, <1>4 DEF NotWrapped
    <2>7. /\ in.pieces \in Seq(Piece)
          /\ wrap.how = "wrap" => \A k \in Before(in.pieces, wrap.at) : \A i \in 1 .. k : in.pieces[i].sort # "variable"
      BY <2>6, InputFacts
    <2> QED  BY <1>1, <2>2, <2>3, <2>4, <2>5, <2>7, EvaluatedInputOK
  <1> QED  BY <1>3, <1>4

(* evaluate(), echo() and execute() wrap all of the text. *)
LEMMA WrappedOK ==
  ASSUME HeapTyped(heap), session \in Session, NEW in \in Inputs(session), NEW target \in Targets,
         UNCHANGED selfAssigned, NEW call, call \notin {"process", Quiet},
         NEW printing \in {"auto", "enabled", "disabled"}, NEW result \in BOOLEAN, result = (target # NoValue),
         EvaluateInternal(call, in, AllWrapped, Options(printing, result, FALSE), target)
  PROVE  StepOK
  <1>1. PICK options : options = Options(printing, result, FALSE)
    OBVIOUS
  <1>2. options \in OptionSet /\ options.extraction = FALSE /\ options.result = result
    BY <1>1, OptionFacts
  <1>3. in.pieces \in Seq(Piece)
    BY EvaluateAssumption DEF EvaluateAssumption
  <1>4. PICK wrap : wrap = AllWrapped /\ EvaluateInternal(call, in, wrap, options, target)
    BY <1>1
  <1>5. options.extraction = (call \in {"process", Quiet}) /\ options.result = (target # NoValue)
    <2>1. (call \in {"process", Quiet}) = FALSE
      OBVIOUS
    <2> QED  BY <1>2, <2>1
  <1> QED  BY <1>2, <1>3, <1>4, <1>5, EvaluatedInputOK

LEMMA InputOK ==
  ASSUME HeapTyped(heap), session \in Session, InputStep
  PROVE  StepOK /\ session' \in Session
  <1>1. PICK in \in Inputs(session) :
          \/ \E target \in Targets :
               \/ \E disabled \in BOOLEAN : Process(in, target, disabled)
               \/ EvaluateInput(in, target)
               \/ Echo(in, target)
          \/ Execute(in)
          \/ Declare(in)
    BY DEF InputStep
  <1>2. NoValue \in Targets
    BY DEF Targets
  <1>3. CASE \E target \in Targets : \E disabled \in BOOLEAN : Process(in, target, disabled)
    BY <1>3, ProcessOK DEF Process, Takes
  <1>4. CASE \E target \in Targets : EvaluateInput(in, target)
    <2>1. PICK target \in Targets : EvaluateInput(in, target)
      BY <1>4
    <2>2. /\ UNCHANGED <<session, selfAssigned>> /\ TRUE = (target # NoValue)
          /\ EvaluateInternal("evaluate", in, AllWrapped, Options("disabled", TRUE, FALSE), target)
      BY <2>1 DEF EvaluateInput, Takes
    <2> QED  BY <2>2, WrappedOK DEF Quiet
  <1>5. CASE \E target \in Targets : Echo(in, target)
    <2>1. PICK target \in Targets : Echo(in, target)
      BY <1>5
    <2>2. PICK result \in BOOLEAN : result = (target # NoValue)
      OBVIOUS
    <2>3. /\ UNCHANGED <<session, selfAssigned>>
          /\ EvaluateInternal("echo", in, AllWrapped, Options("enabled", result, FALSE), target)
      BY <2>1, <2>2 DEF Echo, Takes
    <2> QED  BY <2>2, <2>3, WrappedOK DEF Quiet
  <1>6. CASE Execute(in)
    <2>1. /\ UNCHANGED <<session, selfAssigned>> /\ FALSE = (NoValue # NoValue)
          /\ EvaluateInternal("execute", in, AllWrapped, Options("disabled", FALSE, FALSE), NoValue)
      BY <1>6 DEF Execute, Takes
    <2> QED  BY <1>2, <2>1, WrappedOK DEF Quiet
  <1>7. CASE Declare(in)
    <2>1. UNCHANGED <<session, selfAssigned>> /\ DeclareInternal("declare", in, NoValue)
      BY <1>7 DEF Declare, Takes
    <2> QED  BY <1>2, <2>1, DeclaredOK
  <1> QED  BY <1>1, <1>3, <1>4, <1>5, <1>6, <1>7

LEMMA EvaluateNext ==
  ASSUME EvaluateInv, Next
  PROVE  EvaluateInv' /\ ValuesNext
  <1>1. session \in Session /\ HeapTyped(heap)
    BY DEF EvaluateInv
  <1>2. ASSUME StepOK, session' \in Session  PROVE EvaluateInv' /\ ValuesNext
    <2>1. HeapTyped(heap)' /\ ValuesNext /\ FreshOf(last', heap') /\ PrintsOf(last')
      BY <1>2 DEF StepOK, HeapTyped
    <2>2. FreshValue'
      BY <2>1 DEF FreshValue, FreshOf
    <2>3. PrintsIffAsked'
      BY <2>1 DEF PrintsIffAsked, PrintsOf
    <2> QED  BY <1>2, <2>1, <2>2, <2>3 DEF EvaluateInv
  <1>3. ASSUME last' = NoReport  PROVE FreshOf(last', heap') /\ PrintsOf(last')
    BY <1>3 DEF FreshOf, PrintsOf, NoReport
  <1>4. CASE InputStep
    BY <1>1, <1>2, <1>4, InputOK
  <1>5. CASE ToggleRawInput
    <2>1. heap' = heap /\ session' \in Session /\ last' = NoReport /\ ValuesNext
      BY <1>1, <1>5 DEF ToggleRawInput, ValuesNext
    <2>2. HeapTyped(heap')
      BY <1>1, <2>1
    <2> QED  BY <1>2, <1>3, <2>1, <2>2 DEF StepOK
  <1>6. CASE \E x, y \in Handle : UseValues(x, y)
    <2>1. PICK x \in Handle, y \in Handle : UseValues(x, y)
      BY <1>6
    <2>2. HeapTyped(heap')
      BY <1>1, <2>1, UseTyped
    <2>3. session' \in Session /\ last' = NoReport
      BY <1>1, <2>1 DEF UseValues
    <2>4. ValuesNext
      BY <2>1 DEF UseValues, ValuesNext
    <2> QED  BY <1>2, <1>3, <2>2, <2>3, <2>4 DEF StepOK
  <1> QED  BY <1>4, <1>5, <1>6 DEF Next

LEMMA EvaluateStep ==
  ASSUME EvaluateInv, [~heap.misused /\ Next]_vars
  PROVE  EvaluateInv' /\ [~heap.misused /\ ValuesNext]_<<heap, selfAssigned>>
  <1>1. CASE UNCHANGED vars
    BY <1>1 DEF vars, EvaluateInv, HeapTyped, FreshValue, PrintsIffAsked
  <1> QED  BY <1>1, EvaluateNext

(* Whatever the inputs are, a caller's Value has a value of this input or none: none of an    *)
(* earlier input after a failure to compile; the type of a statement that returns, or of the  *)
(* last one, after a run.  EvaluateInternal, Interpreter.cpp:1376.                            *)
THEOREM ValueIsFresh == Spec => []FreshValue
  <1>1. EvaluateInv => FreshValue
    BY DEF EvaluateInv
  <1> QED  BY <1>1, EvaluateInit, EvaluateStep, PTL DEF Spec

(* Whatever the inputs are, process() prints the value of a last statement that has no ';',   *)
(* and nothing else.  tryAttachVP, ValuePrinterSynthesizer.cpp:54.                            *)
THEOREM PrintsAsAsked == Spec => []PrintsIffAsked
  <1>1. EvaluateInv => PrintsIffAsked
    BY DEF EvaluateInv
  <1> QED  BY <1>1, EvaluateInit, EvaluateStep, PTL DEF Spec

(* Evaluation implements the specification of Values: each of its steps resets Values, gives  *)
(* one a new value, or is one of the callers' own.  Interpreter.cpp, Value.cpp.               *)
THEOREM EvaluationUsesValues == Spec => ValuesSpec
  <1>1. Spec => []EvaluateInv
    BY EvaluateInit, EvaluateStep, PTL DEF Spec
  <1> QED  BY <1>1, EvaluateInit, EvaluateStep, PTL DEF Spec, ValuesSpec

(* So what is proved of Values holds of evaluation: objects are kept as long as they are      *)
(* needed, and destroyed then.  Value.cpp:36.                                                 *)
THEOREM EvaluationOwnsItsObjects == Spec => []OwnsItsObjects
  BY EvaluationUsesValues, ValuesOwnTheirObjects, PTL

=============================================================================
