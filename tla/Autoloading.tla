----------------------------- MODULE Autoloading -----------------------------
(***************************************************************************)
(* Autoloading maps.  `.T header file` writes the forward declarations of  *)
(* a header (Interpreter::GenerateAutoLoadingMap).  When such a file has   *)
(* been included, AutoloadCallback remembers which headers its             *)
(* declarations come from; when one of those is about to be included, it   *)
(* takes the default arguments away from the forward declarations, for the *)
(* header will bring them again.                                           *)
(***************************************************************************)
EXTENDS ForwardDeclPrinter

CONSTANT
  Sessions   \* [p: what the headers declare, nested: what each header
             \* includes first, reachable: headers that can be included by
             \* name, tops: those that are asked for, forward: the templates
             \* that the user declares, max: a bound on the steps]

VARIABLES
  session,   \* the session
  files,     \* Seq of lines of the maps written so far, by header
  decls,     \* the interpreter's redeclarations, in order
  map,       \* m_Map: declarations by header
  included,  \* headers whose guard is defined
  log,       \* [decls, included] before each transaction that can be undone
  steps,     \* how many steps there were
  clashes    \* history: default arguments that were declared twice

autoVars == <<session, files, decls, map, included, log, steps, clashes>>

-----------------------------------------------------------------------------
(* A header's own program: only what was read by including it.                *)
ProgramOf(s, h) ==
  [d \in DOMAIN s.p |-> IF h \in ToSet(s.p[d].chain) THEN s.p[d]
                        ELSE [s.p[d] EXCEPT !.kind = "absent", !.listed = FALSE]]

Tracked == {"template", "function template", "record"}
None_ == [k |-> "none"]

(* A redeclaration in the interpreter: own and inherited default arguments    *)
(* (of the constructor, for a class that is defined), its annotations, and    *)
(* whether it has or inherits one.                                            *)
Redecl(d, own, def, notes) ==
  [d |-> d, own |-> own, inherited |-> [i \in DOMAIN own |-> FALSE], def |-> def,
   notes |-> notes, attr |-> notes # <<>>, tracked |-> FALSE, live |-> TRUE]

Entity(s, a, i) == s.p[a[i].d].first
Chain(s, a, d) == {i \in DOMAIN a : a[i].live /\ Entity(s, a, i) = s.p[d].first}
Defined(s, a, d) == \E i \in Chain(s, a, d) : a[i].def
HasDefault(e, i) == e.own[i] \/ e.inherited[i]

(* Sema links the redeclaration: it inherits the annotation and the default   *)
(* arguments, which must not be given twice - but by an annotated one of what *)
(* is defined already.                                                        *)
Redefines(s, a, e) ==
  LET chain == Chain(s, a, e.d)
  IN /\ chain # {} /\ s.p[e.d].kind # "record"
     /\ \E i \in DOMAIN e.own : e.own[i] /\ HasDefault(a[Max(chain)], i)
     /\ ~(e.notes # <<>> /\ Defined(s, a, e.d))
Link(s, a, e) ==
  LET chain == Chain(s, a, e.d)
      prev == a[Max(chain)]
  IN IF chain = {} THEN e
     ELSE [e EXCEPT !.attr = @ \/ prev.attr,
                    !.inherited = [i \in DOMAIN e.own |->
                       s.p[e.d].kind # "record" /\ ~e.own[i] /\ HasDefault(prev, i)]]

-----------------------------------------------------------------------------
(* AutoLoadingVisitor.  Defaults go from an annotated declaration, and those  *)
(* it has passed on go from the ones after it; a definition is left alone,    *)
(* and so is a template that has one.                                         *)
Visits(s, a, i) ==
  /\ ~a[i].def /\ a[i].attr
  /\ s.p[a[i].d].kind = "template" /\ ~Defined(s, a, a[i].d)
WithoutDefaults(s, a, i) ==
  LET none == [j \in DOMAIN a[i].own |-> FALSE]
  IN IF ~Visits(s, a, i) THEN a[i]
     ELSE IF a[i].notes # <<>> THEN [a[i] EXCEPT !.own = none] ELSE [a[i] EXCEPT !.inherited = none]
RemoveDefaultArgsOf(s, a, d) ==
  [i \in DOMAIN a |-> IF i >= d /\ i \in Chain(s, a, a[d].d) THEN WithoutDefaults(s, a, i) ELSE a[i]]

(* Mutant: a header that is included again is not told. *)
InclusionOfNew(s, st, f) ==
  IF f \notin DOMAIN st.map \/ f \in st.in THEN [st EXCEPT !.fired = @ \cup {f}]
  ELSE [st EXCEPT !.fired = @ \cup {f}, !.map = [g \in DOMAIN @ \ {f} |-> @[g]]]

InclusionDirective(s, st, f) ==
  LET cleaned == FoldLeft(LAMBDA a, d : RemoveDefaultArgsOf(s, a, d), st.a, st.map[f])
      fired == [st EXCEPT !.fired = @ \cup {f}]
  IN IF f \notin DOMAIN st.map THEN fired
     ELSE [fired EXCEPT !.a = cleaned, !.map = [g \in DOMAIN @ \ {f} |-> @[g]]]

(* What happens while a header is read: st is [a: declarations, map, in:       *)
(* guards, fired: the inclusions so far, bad: the redefinitions].              *)
Parse(s, st, e) ==
  [st EXCEPT !.a = Append(@, Link(s, @, e)),
             !.bad = IF Redefines(s, st.a, e) THEN @ \cup {e.d} ELSE @]

Declared(s, f) == SelectSeq([d \in DOMAIN s.p |-> d],
                    LAMBDA d : s.p[d].kind \in Tracked /\ s.p[d].chain[1] = f)
FromHeader(s, d) == Redecl(d, [i \in DOMAIN s.p[d].defaults |-> Own(s.p, d, i)], s.p[d].def, <<>>)

RECURSIVE Read(_, _, _)
Read(s, st, f) ==
  LET told == InclusionDirective(s, st, f)
      nested == FoldLeft(LAMBDA x, g : Read(s, x, g), [told EXCEPT !.in = @ \cup {f}], s.nested[f])
  IN IF f \in told.in THEN told
     ELSE FoldLeft(LAMBDA x, d : Parse(s, x, FromHeader(s, d)), nested, Declared(s, f))

(* A line of a map, as a redeclaration.                                       *)
FromMap(s, line) ==
  LET d == IF line.of # None THEN line.of ELSE line.d
      defaults == Defaults(s.p, d)
  IN Redecl(d, [i \in DOMAIN defaults |-> line.of # None /\ PrintsDefault(defaults[i])], FALSE,
            prettyPrintAttributes(s.p[line.d].chain, s.reachable))
MapLines(s, lines) ==
  SelectSeq(lines, LAMBDA l : s.p[IF l.of # None THEN l.of ELSE l.d].kind \in Tracked)

(* TransactionCommitted: an annotated declaration of a map is remembered with  *)
(* each of its headers that is found.                                          *)
InsertIntoAutoLoadingState(s, m, a, i) ==
  LET found == ToSet(a[i].notes) \cap s.reachable
      at(f) == IF f \in DOMAIN m THEN m[f] ELSE <<>>
  IN [f \in found |-> Append(at(f), i)] @@ m

-----------------------------------------------------------------------------
Start == [a |-> decls, map |-> map, in |-> included, fired |-> {}, bad |-> {}]
Entered(st) == IF st.bad = {} THEN st.a
               ELSE [i \in DOMAIN st.a |-> IF i \in DOMAIN decls THEN st.a[i]
                                           ELSE [st.a[i] EXCEPT !.live = FALSE]]
Committed(st, undoable) ==
  /\ decls' = Entered(st)
  /\ included' = IF st.bad = {} THEN st.in ELSE included
  /\ log' = IF st.bad = {} THEN Append(log, [decls |-> Len(decls), in |-> included, undoable |-> undoable])
            ELSE log

AutoInit ==
  /\ session \in Sessions
  /\ files = <<>> /\ decls = <<>> /\ map = <<>> /\ included = {} /\ log = <<>> /\ steps = 0
  /\ clashes = {}

Tick == steps < session.max /\ steps' = steps + 1 /\ UNCHANGED session

(* .T: a fresh interpreter includes the header and prints.                    *)
GenerateAutoLoadingMap(h) ==
  /\ Tick
  /\ h \notin DOMAIN files
  /\ files' = (h :> ForwardDeclare(ProgramOf(session, h))) @@ files
  /\ UNCHANGED <<decls, map, included, log, clashes>>

(* Includes a map; the transaction begins with the marker that the map begins *)
(* with, unless something else was declared in front of it.                    *)
IncludeMap(h, alone) ==
  LET st == FoldLeft(LAMBDA x, l : Parse(session, x, FromMap(session, l)), Start,
                     MapLines(session, files[h]))
      new == SelectSeq([i \in DOMAIN st.a |-> i], LAMBDA i : i > Len(decls) /\ st.a[i].notes # <<>>)
      tracked == [i \in DOMAIN st.a |->
                    IF i \in ToSet(new) THEN [st.a[i] EXCEPT !.tracked = ToSet(st.a[i].notes) \cap session.reachable # {}]
                    ELSE st.a[i]]
      marked == alone /\ st.bad = {}
  IN /\ Tick
     /\ h \in DOMAIN files
     /\ Committed([st EXCEPT !.a = IF marked THEN tracked ELSE @], FALSE)
     /\ map' = IF marked THEN FoldLeft(LAMBDA m, i : InsertIntoAutoLoadingState(session, m, st.a, i), map, new)
               ELSE map
     /\ UNCHANGED <<files, clashes>>

(* A clash that the callback could have known of: the forward declaration is   *)
(* remembered, and one of its headers has been included by now.                *)
Foreseen(s, st, d) ==
  /\ s.p[d].kind = "template"
  /\ \A i \in Chain(s, decls, d) :
       decls[i].notes # <<>> => decls[i].tracked /\ ToSet(decls[i].notes) \cap st.fired # {}

IncludeHeader(h) ==
  LET st == Read(session, Start, h)
  IN /\ Tick
     /\ Committed(st, TRUE)
     /\ map' = st.map
     /\ clashes' = clashes \cup {d \in st.bad : Foreseen(session, st, d)}
     /\ UNCHANGED files

(* The user declares a template, without default arguments.                    *)
DeclareTemplate(d) ==
  LET e == Redecl(d, [i \in DOMAIN session.p[d].defaults |-> FALSE], FALSE, <<>>)
  IN /\ Tick
     /\ Committed(Parse(session, Start, e), TRUE)
     /\ UNCHANGED <<files, map, clashes>>

(* .undo; maps stay.                                                           *)
Undo ==
  /\ Tick
  /\ log # <<>> /\ Last(log).undoable
  /\ decls' = [i \in DOMAIN decls |-> IF i <= Last(log).decls THEN decls[i]
                                       ELSE [decls[i] EXCEPT !.live = FALSE]]
  /\ included' = Last(log).in
  /\ log' = Front(log)
  /\ UNCHANGED <<files, map, clashes>>

AutoNext ==
  \/ \E h \in session.tops : GenerateAutoLoadingMap(h) \/ IncludeHeader(h)
  \/ \E h \in session.tops, alone \in BOOLEAN : IncludeMap(h, alone)
  \/ \E d \in session.forward : DeclareTemplate(d)
  \/ Undo

-----------------------------------------------------------------------------
(* The maps (ForwardDeclPrinter.cpp) compile on their own, so that including   *)
(* one is never worse than including the header.                               *)
MapsCompile == \A h \in DOMAIN files : WellFormed(ProgramOf(session, h), files[h])

(* They leave out only what cannot be declared ahead (m_SkipFlag does not leak *)
(* into what follows a skipped declaration).                                   *)
MapsAreExact == \A h \in DOMAIN files : Exact(ProgramOf(session, h), files[h])

(* A map that is printed says all that can be said, and compiles             *)
(* (ForwardDeclPrinter.cpp).                                                 *)
MapsHold == MapsCompile /\ MapsAreExact

(* A header never redefines a default argument of a forward declaration that   *)
(* names it (InclusionDirective).                                              *)
IncludesCleanly == clashes = {}

(* Default arguments are inherited from a declaration that still has them, and *)
(* no header's declaration loses its own (ROOT-7037, ROOT-8443).               *)
KeepsDefaults ==
  \A i \in {x \in DOMAIN decls : decls[x].live} : \A j \in DOMAIN decls[i].own :
    /\ decls[i].inherited[j] => \E k \in Chain(session, decls, decls[i].d) : k < i /\ decls[k].own[j]
    /\ decls[i].def => decls[i].own[j] = Own(session.p, decls[i].d, j)

(* However maps, headers and undoing follow one another, each default         *)
(* argument is there, once (AutoLoadingVisitor, InclusionDirective).          *)
DefaultsGivenOnce == IncludesCleanly /\ KeepsDefaults

=============================================================================
