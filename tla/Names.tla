------------------------------- MODULE Names -------------------------------
(***************************************************************************)
(* The stages of the front end before types: unrolling, identifiers and    *)
(* labels. Each rewrites the tree or refuses it.                           *)
(***************************************************************************)
EXTENDS CTree

CONSTANT MaxIterations   \* of a loop that is unrolled: 256 in the code

----------------------------------------------------------------------------
(* Loops with `#pragma c6502 loop unroll(enable)`                          *)
(* (optimization_ast/unroll.py): before names are resolved, such a loop    *)
(* becomes as many copies of its body as it has rounds, the induction      *)
(* variable replaced by its value in each.  A loop of another shape is an  *)
(* error.                                                                  *)

(* The values of the constant arrays at file scope, filled up with zeros. *)
IsConstArray(d) ==
  /\ d.k = "var" /\ d.sc = "static" /\ d.t = "const char[4]" /\ d.init # NoExp
  /\ \A x \in ToSet(d.init.e) : x.k = "const"
AsConstArray(d) == [n |-> d.n, vs |-> [k \in 1..4 |-> IF k > Len(d.init.e) THEN 0 ELSE d.init.e[k].v]]
ConstArrays(prog) ==
  FoldLeft(LAMBDA as, d : IF IsConstArray(d) THEN {a \in as : a.n # d.n} \cup {AsConstArray(d)} ELSE as,
           {}, prog)

TheOne(S) == CHOOSE v \in S : TRUE
(* The values an expression has as an integer bound: at most one. *)
RECURSIVE IntValues(_, _), Stripped(_)
Stripped(x) == IF x.k = "cast" THEN Stripped(x.e[1]) ELSE x
IntValues(y, arrays) ==
  LET x == Stripped(y) IN
  CASE x.k = "const" -> {x.v}
    [] x.k = "index" -> {a.vs[j + 1] : a \in {b \in arrays : Stripped(x.e[1]) = CVar(b.n)},
                                       j \in IntValues(x.e[2], arrays) \cap 0..3}
    [] OTHER -> {}

Directions == {"lt", "le", "gt", "ge"}
HasIv(f) ==
  /\ Len(f.d) = 1 /\ f.d[1].sc \in {"", "register"} /\ f.d[1].t \in IntTypes
HasBound(f, iv, arrays) ==
  /\ f.e[2].k = "binary" /\ f.e[2].o \in Directions
  /\ f.e[2].e[1] = CVar(iv) /\ IntValues(f.e[2].e[2], arrays) # {}
(* How far a round moves the variable: at most one value. *)
Steps(post, iv, arrays) ==
  IF post.k \notin {"postfix", "prefix", "opassign"} \/ post.e = <<>> \/ post.e[1] # CVar(iv) THEN {}
  ELSE LET by == IF post.k = "opassign" THEN {k \in IntValues(post.e[2], arrays) : k > 0} ELSE {1}
       IN {IF post.o = "add" THEN k ELSE -k : k \in {b \in by : post.o \in {"add", "sub"}}}

(* What stands in the way of copying a body. *)
Changes(x, iv) ==
  x.k \in {"assign", "opassign", "postfix", "prefix", "addrof"} /\ x.e[1] = CVar(iv)
CanCopy(body, iv) ==
  /\ \A s \in SubStms(body) : s.k \notin {"break", "continue", "goto", "label"}
  /\ \A x \in ExpsIn(body) : ~Changes(x, iv)
  /\ \A d \in DeclsIn(body) : d.k = "var" => d.n # iv

(* The values the variable runs through, if integers had no width; none    *)
(* at all if the loop does not end in time.                                *)
Rounds(i, o, bound, step) == {n \in 0..MaxIterations : ~Holds(o, i + n * step, bound)}
Values(i, step, rounds) == [k \in 1..Min(rounds) |-> i + (k - 1) * step]

ConstTypeOf(t) == IF t = "char" THEN "uchar" ELSE t
RECURSIVE Replaced(_, _, _), Substitute(_, _, _)
Replaced(x, iv, c) == IF x = CVar(iv) THEN c ELSE [x EXCEPT !.e = Map(LAMBDA y : Replaced(y, iv, c), @)]
Substitute(st, iv, c) ==
  [st EXCEPT !.e = Map(LAMBDA x : Replaced(x, iv, c), @),
             !.d = Map(LAMBDA d : [d EXCEPT !.init = Replaced(@, iv, c)], @),
             !.b = Map(LAMBDA b : Substitute(b, iv, c), @)]
AsBlock(st) == IF st.k = "block" THEN st ELSE SBlock(<<st>>)

(* The loops of a copy are unrolled in their turn. *)
RECURSIVE UnrollStm(_, _)
Copies(f, iv, values, arrays) ==
  Map(LAMBDA v : AsBlock(UnrollStm(Substitute(f.b[1], iv, CConst(ConstTypeOf(f.d[1].t), v)), arrays)),
      values)
UnrollFor(f, arrays) ==
  IF ~HasIv(f) THEN SError
  ELSE LET iv    == f.d[1].n
           first == IntValues(f.d[1].init, arrays)
           steps == Steps(f.e[3], iv, arrays)
       IN IF first = {} \/ ~HasBound(f, iv, arrays) \/ steps = {} \/ ~CanCopy(f.b[1], iv) THEN SError
          ELSE LET i == TheOne(first)  step == TheOne(steps)
                   rounds == Rounds(i, f.e[2].o, TheOne(IntValues(f.e[2].e[2], arrays)), step)
               IN IF rounds = {} THEN SError ELSE SBlock(Copies(f, iv, Values(i, step, rounds), arrays))
UnrollStm(st, arrays) ==
  IF st.k = "for" /\ st.u THEN UnrollFor(st, arrays)
  ELSE [st EXCEPT !.b = Map(LAMBDA b : UnrollStm(b, arrays), @)]

UnrollDecl(d, arrays) == [d EXCEPT !.body = Map(LAMBDA st : UnrollStm(st, arrays), @)]
UnrollProgram(prog) == LET arrays == ConstArrays(prog) IN Map(LAMBDA d : UnrollDecl(d, arrays), prog)

----------------------------------------------------------------------------
(* Identifier resolution (identifier_resolution.py): every object without  *)
(* linkage gets a name of its own, <<"@", number, name>>.                  *)
(*                                                                         *)
(* A scope gives a name what it stands for: the name that replaces it      *)
(* (as), whether it was declared in the innermost block (inner) and its    *)
(* linkage.  A resolution in progress is a record of the scope, the next   *)
(* number, whether something was refused (bad), and what it has rewritten  *)
(* so far (out).                                                           *)

Internal == "internal"
External == "external"
NoLinkage == "none"
Entry3(as, inner, linkage) == [as |-> as, inner |-> inner, linkage |-> linkage]
NoScope == [n \in {} |-> Entry3(<<>>, FALSE, NoLinkage)]
Nested(scope) == [n \in DOMAIN scope |-> [scope[n] EXCEPT !.inner = FALSE]]
(* Mutant: the number is not used. *)
FreshInName(k, n) == <<"@", 0, n[1]>>
Fresh(k, n) == <<"@", k, n[1]>>

(* extern, and a function without static, continue the linkage there is.   *)
Inherited(scope, n) ==
  IF n \in DOMAIN scope /\ scope[n].linkage # NoLinkage THEN scope[n].linkage ELSE External
FileLinkage(scope, d) ==
  IF d.sc = "static" THEN Internal
  ELSE IF d.sc = "extern" \/ d.k = "fun" THEN Inherited(scope, d.n) ELSE External
BlockLinkage(scope, d) ==
  IF d.sc = "extern" \/ d.k = "fun" THEN Inherited(scope, d.n) ELSE NoLinkage

----------------------------------------------------------------------------
(* Expressions: every name must be in scope, every target an lvalue. *)
RECURSIVE Renamed(_, _)
Renamed(x, scope) ==
  [x EXCEPT !.n = IF x.k \in {"var", "call"} /\ @ \in DOMAIN scope THEN scope[@].as ELSE @,
            !.e = Map(LAMBDA y : Renamed(y, scope), @)]
IsLvalue(x) == x.k \in {"var", "deref", "index"}
Modifiers   == {"assign", "opassign", "postfix", "prefix", "addrof"}
BadExp(x, scope) ==
  \E y \in SubExps(x) : \/ y.k \in {"var", "call"} /\ y.n \notin DOMAIN scope
                        \/ y.k \in Modifiers /\ ~IsLvalue(y.e[1])

(* A second declaration in one block is only accepted of what has linkage, *)
(* the same one.                                                           *)
Declared(r, n, as, linkage) ==
  IF n \in DOMAIN r.scope /\ r.scope[n].inner
    THEN [r EXCEPT !.bad = @ \/ linkage = NoLinkage \/ r.scope[n].linkage # linkage]
    ELSE [r EXCEPT !.scope = (n :> Entry3(as, TRUE, linkage)) @@ @]

(* Parameters have a scope of their own and cannot be repeated. *)
ParamStep(r, p) ==
  [Declared(r, p.n, Fresh(r.next, p.n), NoLinkage) EXCEPT
     !.next = @ + 1, !.out = Append(@, [p EXCEPT !.n = Fresh(r.next, p.n)])]
Params(d, next) ==
  FoldLeft(ParamStep, [scope |-> NoScope, next |-> next, bad |-> FALSE, out |-> <<>>], d.params)

(* An object is in scope in its own initializer. *)
DeclareVar(r, d) ==
  LET linkage == BlockLinkage(r.scope, d)
      as == IF linkage = NoLinkage THEN Fresh(r.next, d.n) ELSE d.n
      In(q) == [q EXCEPT !.next = IF linkage = NoLinkage THEN @ + 1 ELSE @,
                         !.bad = @ \/ (d.init # NoExp /\ BadExp(d.init, q.scope)),
                         !.out = Append(@, [d EXCEPT !.n = as, !.init = Renamed(@, q.scope)])]
  IN In(Declared(r, d.n, as, linkage))
DeclareFun(r, d) ==
  LET With(p) == [Declared(r, d.n, d.n, BlockLinkage(r.scope, d)) EXCEPT
                    !.next = p.next, !.bad = @ \/ p.bad \/ d.sc = "static",
                    !.out = Append(@, [d EXCEPT !.params = p.out])]
  IN With(Params(d, r.next))
Declare(r, d) == IF d.k = "var" THEN DeclareVar(r, d) ELSE DeclareFun(r, d)

----------------------------------------------------------------------------
(* Statements.  A block is a scope; so is a for, whose declarations its    *)
(* body, unless it is a block itself, shares.                              *)
RECURSIVE Resolve(_, _, _, _)
Resolving(scope, next, bad) == [scope |-> scope, next |-> next, bad |-> bad, out |-> <<>>]
ItemStep(r, st) ==
  IF st.k = "decl"
    THEN LET Then(q) == [q EXCEPT !.out = Append(r.out, [st EXCEPT !.d = q.out])]
         IN Then(Declare([r EXCEPT !.out = <<>>], st.d[1]))
    ELSE LET Then(q) == [r EXCEPT !.next = q.next, !.bad = q.bad, !.out = Append(@, q.st)]
         IN Then(Resolve(st, r.scope, r.next, r.bad))
Items(r, items) == FoldLeft(ItemStep, r, items)

ForInit(st, scope, next, bad) ==
  FoldLeft(DeclareVar,
           Resolving(Nested(scope), next, bad \/ \E d \in ToSet(st.d) : d.sc \in {"static", "extern"}),
           st.d)
(* st in scope, its own declarations being resolved to ds. *)
WithParts(st, ds, r) ==
  [st |-> [st EXCEPT !.e = Map(LAMBDA x : Renamed(x, r.scope), @), !.d = ds, !.b = r.out],
   next |-> r.next,
   bad |-> r.bad \/ \E x \in ToSet(st.e) : BadExp(x, r.scope)]
Resolve(st, scope, next, bad) ==
  CASE st.k = "block" -> WithParts(st, <<>>, Items(Resolving(Nested(scope), next, bad), st.b))
    [] st.k = "for" ->
         LET Then(r) == WithParts(st, r.out, Items([r EXCEPT !.out = <<>>], st.b))
         IN Then(ForInit(st, scope, next, bad))
    [] OTHER -> WithParts(st, <<>>, Items(Resolving(scope, next, bad), st.b))

----------------------------------------------------------------------------
(* The file: first the linkage of every name in it, then each declaration  *)
(* in the scope of those that came before it.                              *)
Register(r, d) ==
  LET linkage == FileLinkage(r.scope, d)
  IN [r EXCEPT !.bad = @ \/ (d.n \in DOMAIN r.scope /\ r.scope[d.n].linkage # linkage),
               !.scope = (d.n :> Entry3(d.n, FALSE, linkage)) @@ @]
FileScope(prog) == FoldLeft(Register, Resolving(NoScope, 0, FALSE), prog)
Seen(prog, k)   == {prog[j].n : j \in 1..k}
Seed(prog, k)   == LET all == FileScope(prog).scope IN [n \in Seen(prog, k) |-> all[n]]

(* The body of a function shares the scope of its parameters. *)
DefineFun(r, d, seed) ==
  LET Body(p)    == Items(Resolving(p.scope @@ seed, p.next, r.bad \/ p.bad), d.body)
      Then(p, q) == [r EXCEPT !.next = q.next, !.bad = q.bad,
                              !.out = Append(@, [d EXCEPT !.params = p.out, !.body = q.out])]
      With(p)    == Then(p, Body(p))
  IN With(Params(d, r.next))
FileDecl(r, d, seed) ==
  IF d.k = "fun" THEN DefineFun(r, d, seed)
  ELSE [r EXCEPT !.bad = @ \/ (d.init # NoExp /\ BadExp(d.init, seed)),
                 !.out = Append(@, [d EXCEPT !.init = Renamed(@, seed)])]
ResolveProgram(prog) ==
  FoldLeft(LAMBDA r, k : FileDecl(r, prog[k], Seed(prog, k)),
           Resolving(NoScope, 0, FileScope(prog).bad), [k \in DOMAIN prog |-> k])
-----------------------------------------------------------------------------
(* Labels.  Where the jumps of a function go: label_resolution.py gives    *)
(* the labels of goto names that no other function uses, loop_labeling.py  *)
(* numbers the loops and switches and tells every break, continue, case    *)
(* and default which of them it belongs to.                                *)

(* Labels share one name space in a function, whatever their block. *)
RECURSIVE LabelsOf(_), Mangle(_, _)
LabelsOf(st) ==
  (IF st.k = "label" THEN <<st.l>> ELSE <<>>) \o FlattenSeq(Map(LabelsOf, st.b))
GotosIn(st) == {s.l : s \in {b \in SubStms(st) : b.k = "goto"}}
(* Mutant: the label does not carry the function's name. *)
MangleBare(st, f) ==
  [st EXCEPT !.b = Map(LAMBDA b : Mangle(b, <<>>), @)]
Mangle(st, f) ==
  [st EXCEPT !.l = IF st.k \in {"goto", "label"} THEN <<".">> \o f \o @ ELSE @,
             !.b = Map(LAMBDA b : Mangle(b, f), @)]
LabelsFit(d) ==
  /\ IsInjective(LabelsOf(BodyOf(d)))
  /\ GotosIn(BodyOf(d)) \subseteq ToSet(LabelsOf(BodyOf(d)))
ResolveLabels(prog) ==
  Map(LAMBDA d : [d EXCEPT !.body = IF LabelsFit(d) THEN Map(LAMBDA st : Mangle(st, d.n), @)
                                    ELSE <<SError>>], prog)

----------------------------------------------------------------------------
(* What a statement is inside of: the loop a continue means, the loop or   *)
(* switch a break means, and whether there is a switch around it.          *)
Outside == [loop |-> <<>>, brk |-> <<>>, switch |-> FALSE]
InLoop(ctx, l)   == [ctx EXCEPT !.loop = l, !.brk = l]
InSwitch(ctx, l) == [ctx EXCEPT !.brk = l, !.switch = TRUE]
LoopKinds == {"while", "do", "for"}
NextLabel(prefix, r) == <<prefix, r.next>>

(* The labelling of a file in progress: the next number, whether something *)
(* was refused, the cases and the default of the innermost switch so far,  *)
(* and the statements labelled.                                            *)
RECURSIVE LabelStm(_, _, _)
LabelAll(items, ctx, r) ==
  FoldLeft(LAMBDA q, st : LabelStm(q, st, ctx), [r EXCEPT !.out = <<>>], items)
(* st as st2, with the body that was labelled in q. *)
Close(r, q, st2) == [q EXCEPT !.out = Append(r.out, [st2 EXCEPT !.b = q.out])]
LabelSwitch(r, st, ctx) ==
  LET l == NextLabel(".switch", r)
      q == LabelAll(st.b, InSwitch(ctx, l), [r EXCEPT !.next = @ + 1, !.cases = <<>>, !.dflt = <<>>])
  IN Close(r, [q EXCEPT !.cases = r.cases, !.dflt = r.dflt],
           [st EXCEPT !.l = l, !.cases = q.cases, !.dflt = q.dflt])
LabelCase(r, st, ctx) ==
  LET l == NextLabel(".case", r)
  IN Close(r, LabelAll(st.b, ctx, [r EXCEPT !.next = @ + 1, !.bad = @ \/ ~ctx.switch,
                                            !.cases = Append(@, CaseOf(st.e[1], l))]),
           [st EXCEPT !.l = l])
LabelDefault(r, st, ctx) ==
  LET l == NextLabel(".default", r)
  IN Close(r, LabelAll(st.b, ctx, [r EXCEPT !.next = @ + 1, !.dflt = l,
                                            !.bad = @ \/ ~ctx.switch \/ r.dflt # <<>>]),
           [st EXCEPT !.l = l])
LabelLoop(r, st, ctx) ==
  LET l == NextLabel(".loop", r)
  IN Close(r, LabelAll(st.b, InLoop(ctx, l), [r EXCEPT !.next = @ + 1]), [st EXCEPT !.l = l])
LabelJump(r, st, target) ==
  [r EXCEPT !.bad = @ \/ target = <<>>, !.out = Append(@, [st EXCEPT !.l = target])]
LabelStm(r, st, ctx) ==
  CASE st.k = "break"    -> LabelJump(r, st, ctx.brk)
    [] st.k = "continue" -> LabelJump(r, st, ctx.loop)
    [] st.k \in LoopKinds -> LabelLoop(r, st, ctx)
    [] st.k = "switch"   -> LabelSwitch(r, st, ctx)
    [] st.k = "case"     -> LabelCase(r, st, ctx)
    [] st.k = "default"  -> LabelDefault(r, st, ctx)
    [] OTHER             -> Close(r, LabelAll(st.b, ctx, r), st)

LabelFunction(r, d) ==
  LET q == LabelAll(d.body, Outside, [r EXCEPT !.cases = <<>>, !.dflt = <<>>])
  IN [q EXCEPT !.out = Append(r.out, [d EXCEPT !.body = q.out])]
LabelProgram(prog) ==
  FoldLeft(LabelFunction, [next |-> 0, bad |-> FALSE, cases |-> <<>>, dflt |-> <<>>, out |-> <<>>], prog)
=============================================================================
