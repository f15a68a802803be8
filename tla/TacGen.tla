------------------------------- MODULE TacGen -------------------------------
(***************************************************************************)
(* From the checked tree to three-address code (c99_to_tac.py).            *)
(*                                                                         *)
(* A translation in progress is the code emitted so far, the next numbers  *)
(* for temporaries and labels, and the operand that holds the value of the *)
(* expression last translated.                                             *)
(***************************************************************************)
EXTENDS Types

Translation == [code |-> <<>>, temp |-> 0, label |-> 0, v |-> NoVal]
Emit(g, instrs) == [g EXCEPT !.code = @ \o instrs]
Holding(g, v)   == [g EXCEPT !.v = v]
TempOf(g, t)    == Var(Raw(t), <<"%", g.temp>>)
Mint(g, t)      == [g EXCEPT !.temp = @ + 1, !.v = TempOf(g, t)]
LabelOf(g, prefix) == <<prefix, g.label>>
(* A new temporary of type t that Make(temporary) sets. *)
Into(g, t, Make(_)) == [Mint(g, t) EXCEPT !.code = Append(@, Make(TempOf(g, t)))]
TypedConst(t, v) ==
  Const(IF t = "char" THEN "uchar" ELSE IF IsPointer(t) THEN "uint" ELSE t, v)
ObjectOf(x)  == Var(Raw(x.t), x.n)
Addressed(x) == Var(IF IsArray(x.t) THEN ElementOf[x.t] ELSE Raw(x.t), x.n)

----------------------------------------------------------------------------
(* Conversions.  Between types of one width nothing is emitted, though a   *)
(* cast uses up a temporary.                                               *)
Conversion(t, u, signed) ==
  IF BytesOf(t) > BytesOf(u) THEN "trunc" ELSE IF t \in signed THEN "sext" ELSE "zext"
CastFrom(g, t, u) ==
  IF u = "void" THEN Holding(g, NoVal)
  ELSE IF t = u THEN g
  ELSE IF BytesOf(t) = BytesOf(u) THEN Holding(Mint(g, u), g.v)
  ELSE Into(g, u, LAMBDA d : TConvert(Conversion(t, u, {"int", "schar"}), g.v, d))
WidenOrNarrow(g, v, t, u) ==
  IF BytesOf(t) = BytesOf(u) THEN Holding(g, v)
  ELSE Into(g, u, LAMBDA d : TConvert(Conversion(t, u, {"int"}), v, d))

(* a OP b, one of them at least a pointer, which counts in elements. *)
Scale(g, i, size) ==
  IF size = 1 THEN Holding(g, i)
  ELSE Into(g, "int", LAMBDA d : TBinary("mul", i, Const("int", size), d))
Unscale(g, size) ==
  IF size = 1 THEN g ELSE Into(g, "int", LAMBDA d : TBinary("div", g.v, Const("int", size), d))
Offset(g, o, p, t) == Into(g, t, LAMBDA d : TBinary(o, p, g.v, d))
(* Mutant: the integer is added as it is. *)
PointerArithmeticUnscaled(g, o, a, b, lt, rt) ==
  IF IsPointer(lt) /\ IsPointer(rt)
    THEN Unscale(Into(g, "int", LAMBDA d : TBinary("sub", a, b, d)), BytesOf(PointeeOf[lt]))
  ELSE IF IsPointer(lt) THEN Offset(Scale(g, b, 1), o, a, lt)
  ELSE Offset(Scale(g, a, 1), o, b, rt)
PointerArithmetic(g, o, a, b, lt, rt) ==
  IF IsPointer(lt) /\ IsPointer(rt)
    THEN Unscale(Into(g, "int", LAMBDA d : TBinary("sub", a, b, d)), BytesOf(PointeeOf[lt]))
  ELSE IF IsPointer(lt) THEN Offset(Scale(g, b, BytesOf(PointeeOf[lt])), o, a, lt)
  ELSE Offset(Scale(g, a, BytesOf(PointeeOf[rt])), o, b, rt)

----------------------------------------------------------------------------
(* Expressions. *)
RECURSIVE Translate(_, _, _)
(* Both operands, one after the other: left is the first one's value. *)
SecondOperand(x, g, tab) == [left |-> g.v, g |-> Translate(x.e[2], g, tab)]
BothOperands(x, g, tab) == SecondOperand(x, Translate(x.e[1], g, tab), tab)
SumOf(x, both) == PointerArithmetic(both.g, x.o, both.left, both.g.v, x.e[1].t, x.e[2].t)
SubscriptAddress(x, g, tab) == SumOf([x EXCEPT !.o = "add"], BothOperands(x, g, tab))
LvalueAddress(x, g, tab) == IF x.k = "deref" THEN Translate(x.e[1], g, tab) ELSE SubscriptAddress(x, g, tab)

(* An element of a static array of at most 256 bytes is reached with an    *)
(* index register.                                                         *)
ByIndex(x, tab) ==
  /\ x.k = "index" /\ x.e[1].k = "addrof" /\ x.e[1].e[1].k = "var"
  /\ LET object == tab[x.e[1].e[1].n] IN object.kind = "static" /\ IsArray(object.t) /\ BytesOf(object.t) <= ByteSize
ByteIndex(x, g, tab) ==
  LET Narrowed(i) == Into(i, "uchar", LAMBDA d : TConvert("trunc", i.v, d))
      Times(b)    == IF BytesOf(x.t) = 1 THEN b
                     ELSE Into(b, "uchar", LAMBDA d : TBinary("mul", b.v, Const("uchar", BytesOf(x.t)), d))
  IN Times(Narrowed(Translate(x.e[2], g, tab)))
BaseOf(x) == x.e[1].e[1].n
Loaded(a, t) == Into(a, t, LAMBDA d : TLoad(a.v, d))
TranslateIndex(x, g, tab) ==
  LET IndexedLoad(i) == Into(i, x.t, LAMBDA d : TIndexedLoad(BaseOf(x), i.v, d))
  IN IF ByIndex(x, tab) THEN IndexedLoad(ByteIndex(x, g, tab)) ELSE Loaded(SubscriptAddress(x, g, tab), x.t)

(* The value is translated before the place it goes to. *)
StoreInto(x, g, tab) ==
  LET IndexedStore(i) == Emit(i, <<TIndexedStore(BaseOf(x), i.v, g.v)>>)
      StoreAt(a)      == Emit(a, <<TStore(g.v, a.v)>>)
  IN Holding(IF ByIndex(x, tab) THEN IndexedStore(ByteIndex(x, g, tab)) ELSE StoreAt(LvalueAddress(x, g, tab)), g.v)
TranslateAssignment(x, g, tab) ==
  LET l == x.e[1]
      CopyInto(r) == Holding(Emit(r, <<TCopy(r.v, ObjectOf(l))>>), ObjectOf(l))
  IN IF l.k = "var" THEN CopyInto(Translate(x.e[2], g, tab))
     ELSE StoreInto(l, Translate(x.e[2], g, tab), tab)

(* x OP= y and x++: the object's value is taken as it is (a variable) or   *)
(* loaded from its address, the new one, in New(g, old), stored back.      *)
IncStep(g, old, x) ==
  IF IsPointer(x.t) THEN PointerArithmetic(g, x.o, old, Const("int", 1), x.t, "int")
  ELSE Into(g, x.t, LAMBDA d : TBinary(x.o, old, TypedConst(x.t, 1), d))
CompoundAt(g, old, x, r) ==
  LET Computed(w) == Into(w, x.it, LAMBDA d : TBinary(x.o, w.v, r, d))
      Back(b)     == WidenOrNarrow(b, b.v, x.it, x.t)
  IN Back(Computed(WidenOrNarrow(g, old, x.t, x.it)))
CompoundStep(g, old, x, tab) ==
  LET With(r) == IF x.o \in {"add", "sub"} /\ IsPointer(x.t)
                   THEN PointerArithmetic(r, x.o, old, r.v, x.t, x.e[2].t)
                   ELSE CompoundAt(r, old, x, r.v)
  IN With(Translate(x.e[2], g, tab))
NewValue(g, old, x, tab) == IF x.k = "opassign" THEN CompoundStep(g, old, x, tab) ELSE IncStep(g, old, x)
(* What an update is worth: the new value, or the old one. *)
Worth(x, g, old) == IF x.k = "postfix" THEN Holding(g, old) ELSE g
CopyTo(g, dst) == Emit(g, <<TCopy(g.v, dst)>>)
UpdateFrom(x, g, object, tab) == Worth(x, CopyTo(NewValue(g, object, x, tab), object), g.v)
UpdateVariable(x, g, tab) ==
  LET object == ObjectOf(x.e[1])
  IN UpdateFrom(x, IF x.k = "postfix" THEN Into(g, x.t, LAMBDA d : TCopy(object, d)) ELSE g, object, tab)
StoreTo(g, address) == Emit(g, <<TStore(g.v, address)>>)
UpdateLoaded(x, g, address, tab) == Worth(x, StoreTo(NewValue(g, g.v, x, tab), address), g.v)
UpdateAt(x, a, tab)     == UpdateLoaded(x, Loaded(a, x.t), a.v, tab)
UpdateMemory(x, g, tab) == UpdateAt(x, LvalueAddress(x.e[1], g, tab), tab)

(* && and ||: both operands jump to one label.  The labels and the result  *)
(* are numbered before the operands are translated.                        *)
ShortCircuit(x, g, tab) ==
  LET or     == x.o = "lor"
      skip   == LabelOf(g, IF or THEN ".or_true" ELSE ".and_false")
      end    == <<IF or THEN ".or_end" ELSE ".and_end", g.label + 1>>
      dst    == TempOf(g, "int")
      Jumping(h) == Emit(h, <<IF or THEN TJumpIfTrue(h.v, skip) ELSE TJumpIfFalse(h.v, skip)>>)
      Result     == <<TCopy(Const("int", IF or THEN 0 ELSE 1), dst), TJump(end), TLabel(skip),
                      TCopy(Const("int", IF or THEN 1 ELSE 0), dst), TLabel(end)>>
  IN Holding(Emit(Jumping(Translate(x.e[2],
                                    Jumping(Translate(x.e[1], [Mint(g, "int") EXCEPT !.label = @ + 2], tab)),
                                    tab)), Result), dst)

TranslateArm(y, g, dst, tab) ==
  IF y.t = "void" THEN Translate(y, g, tab) ELSE CopyTo(Translate(y, g, tab), dst)
(* Both arms, g being the state behind the condition. *)
TranslateArms(x, g, tab) ==
  LET else == LabelOf(g, ".cond_else")
      end  == <<".cond_end", g.label + 1>>
      dst  == IF x.t = "void" THEN NoVal ELSE TempOf(g, x.t)
      Minted == [(IF x.t = "void" THEN g ELSE Mint(g, x.t)) EXCEPT !.label = @ + 2]
      Else(h) == Emit(h, <<TJump(end), TLabel(else)>>)
  IN Holding(Emit(TranslateArm(x.e[3],
                               Else(TranslateArm(x.e[2], Emit(Minted, <<TJumpIfFalse(g.v, else)>>), dst, tab)),
                               dst, tab), <<TLabel(end)>>), dst)
TranslateConditional(x, g, tab) == TranslateArms(x, Translate(x.e[1], g, tab), tab)

WithArgument(q, g) == [g |-> g, vs |-> Append(q.vs, g.v)]
Arguments(xs, g, tab) ==
  FoldLeft(LAMBDA q, a : WithArgument(q, Translate(a, q.g, tab)), [g |-> g, vs |-> <<>>], xs)
TranslateCall(x, g, tab) ==
  LET CallWith(q) == IF x.t = "void" THEN Holding(Emit(q.g, <<TCall(x.n, q.vs, NoVal)>>), NoVal)
                     ELSE Into(q.g, x.t, LAMBDA d : TCall(x.n, q.vs, d))
  IN CallWith(Arguments(x.e, g, tab))
TranslateBinary(x, g, tab) ==
  LET Of(both) == IF x.o \in {"add", "sub"} /\ (IsPointer(x.e[1].t) \/ IsPointer(x.e[2].t)) THEN SumOf(x, both)
                  ELSE Into(both.g, x.t, LAMBDA d : TBinary(x.o, both.left, both.g.v, d))
  IN Of(BothOperands(x, g, tab))
TranslateAddress(x, g, tab) ==
  IF x.e[1].k = "var" THEN Into(g, x.t, LAMBDA d : TGetAddress(Addressed(x.e[1]), d))
  ELSE LvalueAddress(x.e[1], g, tab)

Translate(x, g, tab) ==
  CASE x.k = "const"   -> Holding(g, Const(x.o, x.v))
    [] x.k = "var"     -> Holding(g, ObjectOf(x))
    [] x.k = "cast"    -> CastFrom(Translate(x.e[1], g, tab), x.e[1].t, x.o)
    [] x.k = "unary"   -> LET Of(y) == Into(y, x.t, LAMBDA d : TUnary(x.o, y.v, d))
                          IN Of(Translate(x.e[1], g, tab))
    [] x.k = "binary" /\ x.o \in LogicalOps -> ShortCircuit(x, g, tab)
    [] x.k = "binary" /\ x.o \notin LogicalOps -> TranslateBinary(x, g, tab)
    [] x.k = "assign"  -> TranslateAssignment(x, g, tab)
    [] x.k \in {"opassign", "postfix", "prefix"} ->
         IF x.e[1].k = "var" THEN UpdateVariable(x, g, tab) ELSE UpdateMemory(x, g, tab)
    [] x.k = "cond"    -> TranslateConditional(x, g, tab)
    [] x.k = "comma"   -> Translate(x.e[2], Translate(x.e[1], g, tab), tab)
    [] x.k = "call"    -> TranslateCall(x, g, tab)
    [] x.k = "deref"   -> Loaded(Translate(x.e[1], g, tab), x.t)
    [] x.k = "index"   -> TranslateIndex(x, g, tab)
    [] x.k = "addrof"  -> TranslateAddress(x, g, tab)

----------------------------------------------------------------------------
(* Declarations: an automatic object is set where it is declared; what an  *)
(* array's initializer leaves out is zero.                                 *)
ItemOf(d, k, g, tab) ==
  IF k < Len(d.init.e) THEN Translate(d.init.e[k + 1], g, tab)
  ELSE Holding(g, TypedConst(ElementOf[d.t], 0))
StoreItem(d, k, base, g, tab) ==
  LET size == BytesOf(ElementOf[d.t])
      Placed(item) == IF k = 0 THEN Holding(item, base)
                  ELSE Into(item, "int*", LAMBDA p : TBinary("add", base, Const("int", k * size), p))
      StoreAt(a, item) == Emit(a, <<TStore(item.v, a.v)>>)
      Stored(item)     == StoreAt(Placed(item), item)
  IN Stored(ItemOf(d, k, g, tab))
InitArray(d, g, tab) ==
  LET From(b) == FoldLeft(LAMBDA q, k : StoreItem(d, k, b.v, q, tab), b, <<0, 1, 2, 3>>)
  IN From(Into(g, "int*", LAMBDA p : TGetAddress(Var(ElementOf[d.t], d.n), p)))
InitScalar(d, g, tab) ==
  LET CopyInto(r) == Emit(r, <<TCopy(r.v, Var(Raw(d.t), d.n))>>) IN CopyInto(Translate(d.init, g, tab))
Declaration(g, d, tab) ==
  IF d.k = "fun" \/ d.sc \in {"static", "extern"} \/ d.init = NoExp THEN g
  ELSE IF IsArray(d.t) THEN InitArray(d, g, tab) ELSE InitScalar(d, g, tab)

(* Statements.  A loop's labels are its own with a suffix. *)
StartOf(st)    == Append(st.l, "_start")
ContinueOf(l)  == Append(l, "_continue")
BreakOf(l)     == Append(l, "_break")
RECURSIVE Statement(_, _, _)
Statements(g, items, tab) == FoldLeft(LAMBDA q, st : Statement(q, st, tab), g, items)
(* What follows the condition: the labels are numbered behind it. *)
TranslateBranches(g, st, tab) ==
  LET end  == LabelOf(g, ".if_end")
      else == <<".if_else", g.label + 1>>
      Skip(k, to) == Emit([g EXCEPT !.label = @ + k], <<TJumpIfFalse(g.v, to)>>)
      Else(h)     == Emit(h, <<TJump(end), TLabel(else)>>)
      End(h)      == Emit(h, <<TLabel(end)>>)
  IN IF Len(st.b) = 1 THEN End(Statement(Skip(1, end), st.b[1], tab))
     ELSE End(Statement(Else(Statement(Skip(2, else), st.b[1], tab)), st.b[2], tab))
TranslateIf(g, st, tab) == TranslateBranches(Translate(st.e[1], g, tab), st, tab)
BreakUnless(g, st) == Emit(g, <<TJumpIfFalse(g.v, BreakOf(st.l))>>)
TranslateWhile(g, st, tab) ==
  Emit(Statement(BreakUnless(Translate(st.e[1], Emit(g, <<TLabel(ContinueOf(st.l))>>), tab), st), st.b[1], tab),
       <<TJump(ContinueOf(st.l)), TLabel(BreakOf(st.l))>>)
TranslateDo(g, st, tab) ==
  LET Back(c) == Emit(c, <<TJumpIfTrue(c.v, StartOf(st)), TLabel(BreakOf(st.l))>>)
  IN Back(Translate(st.e[1],
                    Emit(Statement(Emit(g, <<TLabel(StartOf(st))>>), st.b[1], tab), <<TLabel(ContinueOf(st.l))>>),
                    tab))
ForCondition(g, st, tab) ==
  IF st.e[2] = NoExp THEN g ELSE BreakUnless(Translate(st.e[2], g, tab), st)
TranslateIfAny(x, g, tab) == IF x = NoExp THEN g ELSE Translate(x, g, tab)
ForStart(g, st, tab) ==
  IF st.d = <<>> THEN TranslateIfAny(st.e[1], g, tab)
  ELSE FoldLeft(LAMBDA q, d : Declaration(q, d, tab), g, st.d)
TranslateFor(g, st, tab) ==
  LET Start(h)    == Emit(h, <<TLabel(StartOf(st))>>)
      Continue(h) == Emit(h, <<TLabel(ContinueOf(st.l))>>)
      Back(h)     == Emit(h, <<TJump(StartOf(st)), TLabel(BreakOf(st.l))>>)
  IN Back(TranslateIfAny(st.e[3],
          Continue(Statement(ForCondition(Start(ForStart(g, st, tab)), st, tab), st.b[1], tab)), tab))

(* The control is compared with one case after the other. *)
CaseTest(g, control, value, l) ==
  LET WhenEqual(e) == Emit(e, <<TJumpIfTrue(e.v, l)>>)
  IN WhenEqual(Into(g, "int", LAMBDA d : TBinary("eq", control, value, d)))
CaseTests(g, st, tab) ==
  FoldLeft(LAMBDA q, case : CaseTest(q, g.v, Translate(case.v, q, tab).v, case.l), g, st.cases)
TranslateSwitch(g, st, tab) ==
  LET otherwise == IF st.dflt # <<>> THEN st.dflt ELSE BreakOf(st.l)
  IN Emit(Statement(Emit(CaseTests(Translate(st.e[1], g, tab), st, tab), <<TJump(otherwise)>>), st.b[1], tab),
          <<TLabel(BreakOf(st.l))>>)
TranslateReturn(g, st, tab) ==
  LET Returned(r) == Emit(r, <<TRet(r.v)>>)
  IN IF st.e[1] = NoExp THEN Emit(g, <<TRet(NoVal)>>) ELSE Returned(Translate(st.e[1], g, tab))

Statement(g, st, tab) ==
  CASE st.k = "null"     -> g
    [] st.k = "decl"     -> Declaration(g, st.d[1], tab)
    [] st.k = "exp"      -> Translate(st.e[1], g, tab)
    [] st.k = "return"   -> TranslateReturn(g, st, tab)
    [] st.k = "if"       -> TranslateIf(g, st, tab)
    [] st.k = "block"    -> Statements(g, st.b, tab)
    [] st.k = "goto"     -> Emit(g, <<TJump(st.l)>>)
    [] st.k = "break"    -> Emit(g, <<TJump(BreakOf(st.l))>>)
    [] st.k = "continue" -> Emit(g, <<TJump(ContinueOf(st.l))>>)
    [] st.k \in {"label", "case", "default"} -> Statement(Emit(g, <<TLabel(st.l)>>), st.b[1], tab)
    [] st.k = "while"    -> TranslateWhile(g, st, tab)
    [] st.k = "do"       -> TranslateDo(g, st, tab)
    [] st.k = "for"      -> TranslateFor(g, st, tab)
    [] st.k = "switch"   -> TranslateSwitch(g, st, tab)

----------------------------------------------------------------------------
(* A function that does not end in a return gets one. *)
ReturnOf(d) == IF d.t = "void" THEN TRet(NoVal) ELSE TRet(TypedConst(d.t, 0))
Ended(code, d) == IF code # <<>> /\ code[Len(code)].op = "ret" THEN code ELSE Append(code, ReturnOf(d))
AddTacFunction(r, d, tab) ==
  LET Done(g) ==
      [g |-> g, out |-> Append(r.out, [n |-> d.n, t |-> d.t, global |-> tab[d.n].global,
                                      params |-> d.params, code |-> Ended(g.code, d)])]
  IN Done(Statements([r.g EXCEPT !.code = <<>>], d.body, tab))
(* The bytes a static object starts with. *)
StaticByte(sym, k) ==
  LET t    == IF IsArray(sym.t) THEN ElementOf[sym.t] ELSE sym.t
      j    == k \div BytesOf(t)
      x    == sym.init.exp
      item == IF IsArray(sym.t) /\ x # NoExp THEN IF j < Len(x.e) THEN x.e[j + 1] ELSE NoExp ELSE x
      v    == IF item = NoExp THEN 0 ELSE (CHOOSE c \in ConstInit(item) : TRUE) % Modulus(BytesOf(t))
  IN (v \div ByteSize^(k % BytesOf(t))) % ByteSize
StaticVariables(tab) ==
  {[n |-> n, t |-> tab[n].t, global |-> tab[n].global,
    bytes |-> [k \in 0..BytesOf(tab[n].t) - 1 |-> StaticByte(tab[n], k)]] :
     n \in {m \in DOMAIN tab : tab[m].kind = "static" /\ tab[m].init.how # "none"}}
TacProgram(prog, tab) ==
  [functions |-> FoldLeft(LAMBDA r, d : IF d.defined THEN AddTacFunction(r, d, tab) ELSE r,
                          [g |-> Translation, out |-> <<>>], prog).out,
   statics |-> StaticVariables(tab)]
=============================================================================
