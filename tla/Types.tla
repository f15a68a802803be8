------------------------------- MODULE Types -------------------------------
(***************************************************************************)
(* Type checking (type_checking.py): the table of the symbols, the type of *)
(* every expression, and a cast wherever C converts a value implicitly.    *)
(***************************************************************************)
EXTENDS CTree

(* What the table says of a name: a local, one in a register, a static    *)
(* object or a function.                                                   *)
(* A static object is initialized explicitly, tentatively (to zero), or    *)
(* only declared.                                                          *)
Explicit(x) == [how |-> "initial", exp |-> x]
Tentative   == [how |-> "tentative", exp |-> NoExp]
NoInitializer == [how |-> "none", exp |-> NoExp]
Strength    == [none |-> 0, tentative |-> 1, initial |-> 2]
Symbol(kind, t) ==
  [kind |-> kind, t |-> t, init |-> NoInitializer, global |-> FALSE, params |-> <<>>, defined |-> FALSE]

(* Mutant: the last declaration decides. *)
MergeLast(old, new) == new
MergeInitial(old, new) == IF Strength[new.how] >= Strength[old.how] THEN new ELSE old
AddStatic(r, n, t, init, global) ==
  LET fresh == [Symbol("static", t) EXCEPT !.init = init, !.global = global] IN
  IF n \notin DOMAIN r.tab THEN [r EXCEPT !.tab = (n :> fresh) @@ @]
  ELSE LET old == r.tab[n] IN
       [r EXCEPT !.bad = \/ @ \/ old.kind # "static" \/ old.t # t \/ old.global # global
                         \/ old.init.how = "initial" /\ init.how = "initial",
                 !.tab[n] = [fresh EXCEPT !.init = MergeInitial(old.init, init)]]
AddFunction(r, d, global) ==
  LET fresh == [Symbol("fun", d.t) EXCEPT !.global = global, !.defined = d.defined,
                                          !.params = Map(LAMBDA p : p.t, d.params)] IN
  IF d.n \notin DOMAIN r.tab THEN [r EXCEPT !.tab = (d.n :> fresh) @@ @]
  ELSE LET old == r.tab[d.n] IN
       [r EXCEPT !.bad = \/ @ \/ old.kind # "fun" \/ old.t # d.t \/ old.params # fresh.params
                         \/ old.global # global \/ (old.defined /\ d.defined),
                 !.tab[d.n] = [fresh EXCEPT !.defined = @ \/ old.defined]]
AddLocal(r, d) ==
  [r EXCEPT !.bad = @ \/ (d.sc = "register" /\ d.t \notin CharTypes),
            !.tab = (d.n :> Symbol(IF d.sc = "register" THEN "register" ELSE "local", d.t)) @@ @]

(* extern, and a function without static, have the linkage of the last     *)
(* declaration, if there is one.                                           *)
PriorGlobal(r, n, kind) == n \in DOMAIN r.tab /\ r.tab[n].kind = kind => r.tab[n].global
FunctionGlobal(r, d) == d.sc # "static" /\ PriorGlobal(r, d.n, "fun")
AddFileVar(r, d) ==
  AddStatic(r, d.n, d.t,
            IF d.init # NoExp THEN Explicit(d.init) ELSE IF d.sc = "extern" THEN NoInitializer ELSE Tentative,
            CASE d.sc = "static" -> FALSE
              [] d.sc = "extern" -> PriorGlobal(r, d.n, "static")
              [] OTHER -> TRUE)
AddBlockVar(r, d) ==
  CASE d.sc = "extern" -> [AddStatic(r, d.n, d.t, NoInitializer, PriorGlobal(r, d.n, "static"))
                             EXCEPT !.bad = @ \/ d.init # NoExp]
    [] d.sc = "static" -> [r EXCEPT !.tab = (d.n :> [Symbol("static", d.t) EXCEPT
                                                       !.init = Explicit(d.init)]) @@ @]
    [] OTHER -> AddLocal(r, d)

(* The declarations of a function, in the order they are met. *)
RECURSIVE BlockDecls(_)
BlockDecls(st) == st.d \o FlattenSeq(Map(BlockDecls, st.b))
AddBlockDecl(r, d) == IF d.k = "fun" THEN AddFunction(r, d, FunctionGlobal(r, d)) ELSE AddBlockVar(r, d)
AddDecl(r, d) ==
  IF d.k = "var" THEN AddFileVar(r, d)
  ELSE LET q == AddFunction(r, d, FunctionGlobal(r, d)) IN
       IF d.defined THEN FoldLeft(AddBlockDecl, FoldLeft(AddLocal, q, d.params), BlockDecls(BodyOf(d)))
       ELSE q
SymbolTable(prog) == FoldLeft(AddDecl, [tab |-> [n \in {} |-> <<>>], bad |-> FALSE], prog)

----------------------------------------------------------------------------
(* Conversions.  What is wrong gets the type "error". *)
Ill(x) == [x EXCEPT !.t = "error"]
Typed(x, t, operands) == [x EXCEPT !.t = t, !.e = operands]
IsObject(t)  == t \in IntTypes \/ IsPointer(t)

PromoteInteger(t) == IF t \in CharTypes THEN "int" ELSE t
CommonType(a, b) ==
  IF ~{a, b} \subseteq IntTypes THEN "error"
  ELSE IF a = b THEN a
  ELSE IF IsSignedType(a) = IsSignedType(b) THEN IF BytesOf(a) >= BytesOf(b) THEN a ELSE b
  ELSE LET signed == IF IsSignedType(a) THEN a ELSE b  unsigned == IF IsSignedType(a) THEN b ELSE a
       IN IF BytesOf(unsigned) >= BytesOf(signed) THEN unsigned ELSE signed

RECURSIVE IsNull(_)
IsNull(x) == IF x.k = "cast" THEN IsNull(x.e[1]) ELSE x.k = "const" /\ x.v = 0
(* Mutant: the value is taken as it is. *)
ConvertToNothing(x, t) == [x EXCEPT !.t = t]
ConvertTo(x, t) ==
  IF x.t = t \/ x.t = "error" THEN x
  ELSE IF \/ "void" \in {x.t, t} \/ t = "error"
          \/ IsPointer(t) /\ x.t \in IntTypes /\ ~IsNull(x)
          \/ IsPointer(t) /\ x.t \notin IntTypes
          \/ t \in IntTypes /\ IsPointer(x.t) THEN Ill(x)
  ELSE [CCast(t, x) EXCEPT !.t = t]
Promote(x) == ConvertTo(x, PromoteInteger(x.t))
DecayIfArray(x) ==
  IF IsArray(x.t) THEN [CAddr(x) EXCEPT !.t = PointerTo(ElementOf[x.t])] ELSE x

----------------------------------------------------------------------------
(* Expressions, their operands l and r already checked and decayed. *)
LogicalOps  == {"land", "lor"}
ShiftOps    == {"shl", "shr"}
Equalities  == {"eq", "ne"}

(* Pointers are compared for equality with their like, or with null. *)
PointerEquality(x, l, r) ==
  LET common == IF IsPointer(l.t) THEN l.t ELSE r.t
  IN Typed(x, "int", <<ConvertTo(l, common), ConvertTo(r, common)>>)
PointerAddition(x, l, r) ==
  CASE IsPointer(l.t) /\ IsPointer(r.t) ->
         IF x.o = "sub" /\ l.t = r.t THEN Typed(x, "int", <<l, r>>) ELSE Ill(Typed(x, "", <<l, r>>))
    [] IsPointer(l.t) -> Typed(x, l.t, <<l, ConvertTo(r, "int")>>)
    [] OTHER -> Typed(x, IF x.o = "add" THEN r.t ELSE "error", <<ConvertTo(l, "int"), r>>)
PointerBinary(x, l, r) ==
  CASE x.o \in Equalities -> PointerEquality(x, l, r)
    [] x.o \in Comparisons \ Equalities -> Typed(x, IF l.t = r.t THEN "int" ELSE "error", <<l, r>>)
    [] x.o \in {"add", "sub"} -> PointerAddition(x, l, r)
    [] OTHER -> Ill(Typed(x, "", <<l, r>>))
(* The usual arithmetic conversions; a shift has the type of its left side. *)
Arithmetic(x, l, r) ==
  LET common == CommonType(l.t, r.t) IN
  IF x.o \in ShiftOps THEN Typed(x, l.t, <<l, r>>)
  ELSE Typed(x, IF x.o \in Comparisons THEN "int" ELSE common, <<ConvertTo(l, common), ConvertTo(r, common)>>)
CheckBinary(x, l, r) ==
  CASE ~IsObject(l.t) \/ ~IsObject(r.t) -> Ill(Typed(x, "", <<l, r>>))
    [] x.o \in LogicalOps -> Typed(x, "int", <<l, r>>)
    [] x.o \notin LogicalOps /\ (IsPointer(l.t) \/ IsPointer(r.t)) -> PointerBinary(x, l, r)
    [] OTHER -> Arithmetic(x, Promote(l), Promote(r))

(* it is the type a compound assignment computes in. *)
CheckOpAssign(x, l, r) ==
  LET common == CommonType(PromoteInteger(l.t), PromoteInteger(r.t)) IN
  CASE ~IsObject(l.t) \/ ~IsObject(r.t) -> Ill(Typed(x, "", <<l, r>>))
    [] x.o \in {"add", "sub"} /\ IsPointer(l.t) -> [Typed(x, l.t, <<l, ConvertTo(r, "int")>>) EXCEPT !.it = l.t]
    [] x.o \in ShiftOps -> [Typed(x, IF IsPointer(l.t) \/ IsPointer(r.t) THEN "error" ELSE l.t,
                                  <<l, Promote(r)>>) EXCEPT !.it = PromoteInteger(l.t)]
    [] OTHER -> [Typed(x, l.t, <<l, ConvertTo(r, common)>>) EXCEPT !.it = common]

CheckConditional(x, c, l, r) ==
  CASE ~IsObject(c.t) /\ ~IsArray(c.t) -> Ill(Typed(x, "", <<c, l, r>>))
    [] l.t = "void" /\ r.t = "void" -> Typed(x, "void", <<c, l, r>>)
    [] ~IsObject(l.t) \/ ~IsObject(r.t) -> Ill(Typed(x, "", <<c, l, r>>))
    [] IsPointer(l.t) \/ IsPointer(r.t) ->
         LET common == IF IsPointer(l.t) THEN l.t ELSE r.t
         IN Typed(x, common, <<c, ConvertTo(l, common), ConvertTo(r, common)>>)
    [] OTHER ->
         LET a == Promote(l)  b == Promote(r)  common == CommonType(a.t, b.t)
         IN Typed(x, common, <<c, ConvertTo(a, common), ConvertTo(b, common)>>)

(* An index may stand on either side of the brackets. *)
CheckIndex(x, a, i) ==
  IF IsPointer(a.t) /\ i.t \in IntTypes THEN Typed(x, PointeeOf[a.t], <<a, ConvertTo(i, "int")>>)
  ELSE IF IsPointer(i.t) /\ a.t \in IntTypes THEN Typed(x, PointeeOf[i.t], <<i, ConvertTo(a, "int")>>)
  ELSE Ill(Typed(x, "", <<a, i>>))
CheckUnary(x, y) ==
  CASE ~IsObject(y.t) -> Ill(Typed(x, "", <<y>>))
    [] x.o = "lnot"   -> Typed(x, "int", <<y>>)
    [] OTHER          -> Typed(x, IF IsPointer(y.t) THEN "error" ELSE PromoteInteger(y.t), <<Promote(y)>>)
CheckCast(x, y) ==
  Typed(x, IF x.o = "void" \/ IsObject(y.t) THEN x.o ELSE "error", <<y>>)
CheckCall(x, args, f) ==
  IF f.kind # "fun" \/ Len(args) # Len(f.params) THEN Ill(Typed(x, "", args))
  ELSE Typed(x, f.t, [k \in DOMAIN args |-> ConvertTo(args[k], f.params[k])])

HasAddress(l, tab) == IsObject(l.t) /\ (l.k = "var" => tab[l.n].kind # "register")
CheckAddress(x, l, tab) == Typed(x, IF HasAddress(l, tab) THEN PointerTo(l.t) ELSE "error", <<l>>)
CheckDeref(x, p)     == Typed(x, IF IsPointer(p.t) THEN PointeeOf[p.t] ELSE "error", <<p>>)
CheckComma(x, l, r)  == Typed(x, r.t, <<l, r>>)
CheckAssign(x, l, r) == Typed(x, IF IsArray(l.t) THEN "error" ELSE l.t, <<l, ConvertTo(r, l.t)>>)
CheckStep(x, l)      == Typed(x, IF IsObject(l.t) THEN l.t ELSE "error", <<l>>)

RECURSIVE Check(_, _)
Operand(x, k, tab) == DecayIfArray(Check(x.e[k], tab))
(* What is changed must not be an element of a constant array. *)
IsConstElement(l) == l.k = "index" /\ l.e[1].k = "addrof" /\ l.e[1].e[1].t = "const char[4]"
Changeable(l) == IF IsConstElement(l) THEN Ill(l) ELSE l
Target(x, tab) == Changeable(Check(x.e[1], tab))
Check(x, tab) ==
  CASE x.k = "none"    -> x
    [] x.k = "const"   -> [x EXCEPT !.t = x.o]
    [] x.k = "var"     -> [x EXCEPT !.t = IF tab[x.n].kind = "fun" THEN "error" ELSE tab[x.n].t]
    [] x.k = "cast"    -> CheckCast(x, Operand(x, 1, tab))
    [] x.k = "unary"   -> CheckUnary(x, Operand(x, 1, tab))
    [] x.k = "binary"  -> CheckBinary(x, Operand(x, 1, tab), Operand(x, 2, tab))
    [] x.k = "opassign" -> CheckOpAssign(x, Target(x, tab), Operand(x, 2, tab))
    [] x.k = "assign"  -> CheckAssign(x, Target(x, tab), Operand(x, 2, tab))
    [] x.k \in {"postfix", "prefix"} -> CheckStep(x, Target(x, tab))
    [] x.k = "cond"    -> CheckConditional(x, Check(x.e[1], tab), Operand(x, 2, tab), Operand(x, 3, tab))
    [] x.k = "comma"   -> CheckComma(x, Check(x.e[1], tab), Operand(x, 2, tab))
    [] x.k = "call"    -> CheckCall(x, [k \in DOMAIN x.e |-> Operand(x, k, tab)], tab[x.n])
    [] x.k = "deref"   -> CheckDeref(x, Operand(x, 1, tab))
    [] x.k = "index"   -> CheckIndex(x, Operand(x, 1, tab), Operand(x, 2, tab))
    [] x.k = "addrof"  -> CheckAddress(x, Check(x.e[1], tab), tab)
    [] x.k = "list"    -> Ill(x)

----------------------------------------------------------------------------
(* Initializers. *)
CheckInit(d, tab) ==
  IF d.init = NoExp THEN NoExp
  ELSE IF IsArray(d.t) # (d.init.k = "list") THEN Ill(d.init)
  ELSE IF IsArray(d.t)
    THEN IF Len(d.init.e) > 4 THEN Ill(d.init) ELSE
         Typed(d.init, d.t, [k \in DOMAIN d.init.e |->
                                 ConvertTo(Operand(d.init, k, tab), ElementOf[d.t])])
  ELSE ConvertTo(DecayIfArray(Check(d.init, tab)), d.t)
(* The value of a static object's initializer: at most one, with no width. *)
RECURSIVE ConstInit(_), IntConstant(_)
ConstInit(x) == CASE x.k = "const" -> {x.v} [] x.k = "cast" -> ConstInit(x.e[1]) [] OTHER -> {}
HasConstInit(x) ==
  IF x.k = "list" THEN \A y \in ToSet(x.e) : ConstInit(y) # {} ELSE x = NoExp \/ ConstInit(x) # {}
CheckDeclInit(d, tab) == [d EXCEPT !.init = CheckInit(d, tab)]

(* The value of a case: at most one.  A cast counts an int as one byte.    *)
SignedIn(v, bits, signed) == LET w == v % 2^bits IN IF signed /\ 2 * w >= 2^bits THEN w - 2^bits ELSE w
IntConstant(x) ==
  CASE x.k = "const" /\ x.o \in WordTypes -> {x.v}
    [] x.k = "cast" /\ x.o \in WordTypes -> {SignedIn(v, ByteBits, x.o = "int") : v \in IntConstant(x.e[1])}
    [] OTHER -> {}
CaseValue(c, t) == {SignedIn(v, ByteBits * BytesOf(t), IsSignedType(t)) : v \in IntConstant(c.v)}
(* Mutant: two cases may have the same value. *)
CasesRepeat(cases, t) == \A k \in DOMAIN cases : CaseValue(cases[k], t) # {}
CasesDiffer(cases, t) ==
  /\ \A k \in DOMAIN cases : CaseValue(cases[k], t) # {}
  /\ \A j, k \in DOMAIN cases : CaseValue(cases[j], t) = CaseValue(cases[k], t) => j = k
(* Of an int or a char _const_for_value keeps one byte of it. *)
TypedCase(c, t) ==
  [c EXCEPT !.v = [CConst(t, (CHOOSE v \in CaseValue(c, t) : TRUE) % ByteSize) EXCEPT !.t = t]]

----------------------------------------------------------------------------
(* Statements, in a function that returns ret. *)
RECURSIVE CheckStm(_, _, _)
CheckSwitch(st, control) ==
  LET t == PromoteInteger(control.t) IN
  IF control.t \notin IntTypes \/ ~CasesDiffer(st.cases, t) THEN SError
  ELSE [st EXCEPT !.e = <<ConvertTo(control, t)>>, !.cases = Map(LAMBDA c : TypedCase(c, t), @)]
CheckReturn(st, tab, ret) ==
  IF (st.e[1] = NoExp) # (ret = "void") THEN SError
  ELSE IF ret = "void" THEN st
  ELSE [st EXCEPT !.e = <<ConvertTo(Operand(st, 1, tab), ret)>>]
CheckOwn(st, tab, ret) ==
  CASE st.k = "return" -> CheckReturn(st, tab, ret)
    [] st.k = "switch" -> CheckSwitch(st, Check(st.e[1], tab))
    [] OTHER -> [st EXCEPT !.e = Map(LAMBDA x : Check(x, tab), @)]
CheckStm(st, tab, ret) ==
  [CheckOwn(st, tab, ret) EXCEPT !.d = Map(LAMBDA d : IF d.k = "var" THEN CheckDeclInit(d, tab) ELSE d, @),
                                 !.b = Map(LAMBDA b : CheckStm(b, tab, ret), @)]

(* A condition has a value; what a static object starts with is known. *)
Controlling(st) == CASE st.k \in {"if", "while", "do"} -> {st.e[1]} [] st.k = "for" -> {st.e[2]} \ {NoExp} [] OTHER -> {}
BadStm(st) ==
  \/ \E x \in Controlling(st) : ~IsObject(x.t) /\ ~IsArray(x.t)
  \/ \E d \in ToSet(st.d) : d.sc = "static" /\ ~HasConstInit(d.init)
BadBody(d) ==
  \/ \E x \in ExpsIn(BodyOf(d)) : x.t = "error"
  \/ \E st \in SubStms(BodyOf(d)) : BadStm(st)
Accepted(d) == IF BadBody(d) THEN [d EXCEPT !.body = <<SError>>] ELSE d
CheckFunction(d, tab) == Accepted([d EXCEPT !.body = Map(LAMBDA st : CheckStm(st, tab, d.t), @)])
CheckFileDecl(d, tab) ==
  IF d.k = "fun" THEN CheckFunction(d, tab) ELSE CheckDeclInit(d, tab)
BadFileVar(d) ==
  d.k = "var" /\ (~HasConstInit(d.init) \/ (d.init # NoExp /\ \E x \in SubExps(d.init) : x.t = "error"))
(* The program, its symbols, and whether it was refused. *)
CheckProgram(prog) ==
  LET Checked(table) == Map(LAMBDA d : CheckFileDecl(d, table.tab), prog)
      Result(typed, bad) ==
        [out |-> typed, tab |-> SymbolTable(typed).tab,
         bad |-> bad \/ Rejected(typed) \/ \E d \in ToSet(typed) : BadFileVar(d)]
      With(table) == Result(Checked(table), table.bad)
  IN With(SymbolTable(prog))
=============================================================================
