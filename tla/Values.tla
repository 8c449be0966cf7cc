------------------------------- MODULE Values -------------------------------
(***************************************************************************)
(* The values of the interpreter (Value.cpp, Value.h).  A Value is a handle; *)
(* an object it has to keep lives in a block that its handles count.  The   *)
(* block is filled with a canary, and takes an object for constructed as    *)
(* soon as the canary has changed.  A block is never used again under its   *)
(* name.  The operators say what becomes of a heap h; the actions are what  *)
(* an interpreter and its callers do with Values, by ValuesSpec.            *)
(***************************************************************************)
EXTENDS Integers, Sequences, FiniteSets

CONSTANT Handle  \* the Values of the callers

ASSUME ValuesAssumption == IsFiniteSet(Handle)

VARIABLES
  heap,         \* the Values, the blocks, and whether a freed one was used
  selfAssigned  \* a Value was assigned to itself

(* The Value of EvaluateInternal for a caller that gives none. *)
resultV == "resultV"

(* What a type is to a Value: its kind, the objects it stands for, the ones  *)
(* GetNumberOfElements counts, whether their destructor does something, and  *)
(* whether ManagedAllocate asks for it: behind one level of array only.      *)
TypeInfo(ty) ==
  LET t(kind, n, dtor, asks) == [kind |-> kind, elements |-> n, dtor |-> dtor, asks |-> asks]
  IN  CASE ty = "void" -> t("void", 0, FALSE, FALSE)
        [] ty \in {"int", "float"} -> t("builtin", 0, FALSE, FALSE)
        [] ty \in {"pointer", "reference"} -> t("pointer", 0, FALSE, FALSE)
        [] ty \in {"plain", "member"} -> t("object", 1, FALSE, FALSE)
        [] ty \in {"record", "quiet"} -> t("object", 1, TRUE, TRUE)
        [] ty = "array" -> t("object", 2, TRUE, TRUE)
        [] ty = "matrix" -> t("object", 4, TRUE, FALSE)
        [] OTHER -> t("invalid", 0, FALSE, FALSE)

Type ==
  {"void", "int", "float", "pointer", "reference", "plain", "member", "record", "quiet", "array", "matrix",
   "nocopy", "dependent"}

(* getCorrespondingTypeKind *)
TypeKind(ty) ==
  LET k == TypeInfo(ty).kind IN IF k = "object" THEN "pointer" ELSE k

NeedsManagedAlloc(ty) == TypeInfo(ty).kind = "object"

(* Value(): no type.  The storage is only looked at by its owner. *)
Invalid == [kind |-> "invalid", type |-> "none", owns |-> FALSE, block |-> 0]

IsValid(v) == v.kind # "invalid"

(* CreatePayload: one reference, the canary for an object; dtor is what the block will call. *)
NewBlock(ty, dtor) ==
  [refs |-> 1, type |-> ty, dtor |-> dtor, payload |-> "canary", built |-> 0, destroyed |-> 0, freed |-> FALSE]

(* A block is used, and changed by that. *)
PutBlock(h, b, blk) == [h EXCEPT !.blocks[b] = blk, !.misused = @ \/ h.blocks[b].freed]

(* AllocatedValue::Release: the last one destroys the elements, if they look constructed. *)
LooksBuilt(blk) == blk.dtor /\ blk.payload # "canary"
Released(blk) ==
  [blk EXCEPT !.refs = @ - 1, !.freed = @ \/ blk.refs = 1,
              !.destroyed = IF blk.refs = 1 /\ LooksBuilt(blk) THEN @ + TypeInfo(blk.type).elements ELSE @]
Release(h, b) == PutBlock(h, b, Released(h.blocks[b]))

Retained(blk) == [blk EXCEPT !.refs = @ + 1]
Retain(h, b) == PutBlock(h, b, Retained(h.blocks[b]))

(* Value x takes type, kind, storage and ownership of v. *)
Put(h, x, v) == [h EXCEPT !.values[x] = v]

ReleaseOwned(h, v) == IF v.owns THEN Release(h, v.block) ELSE h

(* Mutant: a copy does not retain. *)
CopyConstructUnretained(h, x, y) == Put(h, x, h.values[y])

(* Value(const Value&) *)
CopyConstruct(h, x, y) ==
  LET v    == h.values[y]
      kept == IF v.owns THEN Retain(h, v.block) ELSE h
  IN  Put(kept, x, v)

(* Value(Value&&): the other one keeps its storage, and does not own it any more. *)
Moved(h, y) == Put(h, y, [h.values[y] EXCEPT !.owns = FALSE, !.kind = "invalid"])
MoveConstruct(h, x, y) == Moved(Put(h, x, h.values[y]), y)

(* operator=(const Value&): the old object goes first, also when it is the new one. *)
Assign(h, x, y) ==
  CopyConstruct(ReleaseOwned(h, h.values[x]), x, y)

(* operator=(Value&&) of a temporary, which then has nothing to release. *)
AssignTemporary(h, x, v) == Put(ReleaseOwned(h, h.values[x]), x, v)

(* operator=(Value&&) of another Value. *)
MoveAssign(h, x, y) ==
  Moved(AssignTemporary(h, x, h.values[y]), y)

(* ~Value() *)
Destroy(h, x) == Put(ReleaseOwned(h, h.values[x]), x, Invalid)

(* Value(QualType, Interpreter&), ManagedAllocate(): the destructor's wrapper is compiled on *)
(* the first use of the class; here it is the fact that there is one to call.                *)
Allocate(h, x, ty) ==
  LET b == Len(h.blocks) + 1
      v == [kind |-> TypeKind(ty), type |-> ty, owns |-> NeedsManagedAlloc(ty), block |-> b]
  IN  IF NeedsManagedAlloc(ty)
      THEN AssignTemporary([h EXCEPT !.blocks = Append(@, NewBlock(ty, TypeInfo(ty).asks))], x, v)
      ELSE AssignTemporary(h, x, [v EXCEPT !.block = 0])

(* The placement new of the wrapper, or copyArray(): how far the construction came, and what *)
(* it left of the canary.  The object of a "quiet" class writes nothing.                     *)
Constructed(blk, outcome) ==
  CASE outcome = "built" ->
         [blk EXCEPT !.payload = IF blk.type = "quiet" THEN "canary" ELSE "object",
                     !.built = TypeInfo(blk.type).elements]
    [] outcome = "torn" -> [blk EXCEPT !.payload = "torn"]
    [] OTHER -> blk
ConstructPayload(h, b, outcome) == PutBlock(h, b, Constructed(h.blocks[b], outcome))

-----------------------------------------------------------------------------
(* The callers' own use of their Values. *)
AssignValue(x, y) ==
  /\ heap' = Assign(heap, x, y)
  /\ selfAssigned' = (selfAssigned \/ (x = y /\ heap.values[x].owns))
MoveValue(x, y) == heap' = MoveAssign(heap, x, y) /\ UNCHANGED selfAssigned
DropValue(x) == heap' = Destroy(heap, x) /\ UNCHANGED selfAssigned
Renew(x, y) ==
  x # y /\ heap' = CopyConstruct(Destroy(heap, x), x, y) /\ UNCHANGED selfAssigned
RenewByMove(x, y) ==
  x # y /\ heap' = MoveConstruct(Destroy(heap, x), x, y) /\ UNCHANGED selfAssigned

(* The interpreter's: a Value is reset, and may get a value, whose object may not be built.   *)
(* resultV goes at the end.                                                                  *)
Evaluated(x) ==
  LET reset   == AssignTemporary(heap, x, Invalid)
      done(h) == heap' = IF x = resultV THEN Destroy(h, x) ELSE h
      into(ty) ==
        LET made == Allocate(reset, x, ty)
        IN  \/ done(made)
            \/ /\ NeedsManagedAlloc(ty)
               /\ \E outcome \in {"built", "torn"} : done(ConstructPayload(made, made.values[x].block, outcome))
  IN  (done(reset) \/ \E ty \in Type : into(ty)) /\ UNCHANGED selfAssigned

ValuesInit ==
  /\ heap = [values |-> [x \in Handle \cup {resultV} |-> Invalid], blocks |-> <<>>, misused |-> FALSE]
  /\ selfAssigned = FALSE

ValuesNext ==
  \/ UNCHANGED <<heap, selfAssigned>>  \* an input is only declared
  \/ \E x \in Handle : DropValue(x)
  \/ \E x, y \in Handle : AssignValue(x, y) \/ MoveValue(x, y) \/ Renew(x, y) \/ RenewByMove(x, y)
  \/ \E x \in Handle \cup {resultV} : Evaluated(x)

(* What evaluation and its callers do to Values is this, and nothing else.  After a freed     *)
(* block has been used anything may happen.  Interpreter::EvaluateInternal, Value.cpp.        *)
ValuesSpec == ValuesInit /\ [][~heap.misused /\ ValuesNext]_<<heap, selfAssigned>>

-----------------------------------------------------------------------------
(* A block is referred to as often as Values own it, and is freed with the last of them; only  *)
(* a Value that is assigned to itself breaks this.  AllocatedValue, Value.cpp:36.             *)
Owners(b) == {x \in DOMAIN heap.values : heap.values[x].owns /\ heap.values[x].block = b}
CountsOwners ==
  selfAssigned \/
    /\ ~heap.misused
    /\ \A b \in 1 .. Len(heap.blocks) :
         heap.blocks[b].refs = Cardinality(Owners(b)) /\ (heap.blocks[b].freed <=> Owners(b) = {})

(* A freed block has destroyed each object that was constructed in it, once.  Not so after a   *)
(* Value has been assigned to itself, when the object leaves the canary as it is, when it is in *)
(* an array of arrays, or when its constructor has thrown after it changed the canary.         *)
(* Release, Value.cpp:116.                                                                    *)
IsMisjudged(blk) == blk.type \in {"quiet", "matrix"} \/ blk.payload = "torn"
DestroysOnce ==
  selfAssigned \/ \A b \in 1 .. Len(heap.blocks) :
    LET blk == heap.blocks[b]
    IN  blk.destroyed = IF blk.freed /\ TypeInfo(blk.type).dtor /\ ~IsMisjudged(blk) THEN blk.built
                        ELSE IF IsMisjudged(blk) THEN blk.destroyed ELSE 0

(* What a Value keeps is kept as long as it is needed, and destroyed then (Value.cpp).         *)
OwnsItsObjects == CountsOwners /\ DestroysOnce

=============================================================================
