------------------------------ MODULE CMeaning ------------------------------
(***************************************************************************)
(* What a C function does, as the C standard has it: the specification the *)
(* front end is held against, not a model of its code.  It can be asked of *)
(* a tree before and after every stage, and says the same of each of them  *)
(* unless the stage has changed the program's meaning.                     *)
(*                                                                         *)
(* An environment gives a name its object and type.  The state is the      *)
(* machine's, and with it: how the last statement ended (out; to, the      *)
(* label it is on the way to; want, the case), the value of the last       *)
(* expression (v, of type t), the object it designates (at; none if it is  *)
(* the address v that does), and how many jumps back are left.  jump is a  *)
(* goto on its way out; goto, case and default one on its way in.          *)
(***************************************************************************)
EXTENDS CTree

CONSTANT Patience   \* a function that jumps back more often is taken to hang

Begin(mem) ==
  [out |-> "normal", to |-> <<>>, want |-> 0, v |-> 0, t |-> "int", at |-> <<>>,
   left |-> Patience] @@ Entry(mem, [A |-> 0, X |-> 0, Y |-> 0])

----------------------------------------------------------------------------
(* Types.  Every char type fits in int. *)
Promoted(t) == IF t \in CharTypes THEN "int" ELSE t
Common(t, u) == IF IsPointer(t) THEN t ELSE IF IsPointer(u) THEN u
                ELSE IF "uint" \in {t, u} THEN "uint" ELSE "int"
Shifts == {"shl", "shr"}
Logical == {"land", "lor"}

(* The type of an expression, array names standing for pointers. *)
RECURSIVE TypeIn(_, _)
TypeIn(x, env) ==
  CASE x.k = "const" -> x.o
    [] x.k = "var" -> IF IsArray(env[x.n].t) THEN PointerTo(ElementOf[env[x.n].t]) ELSE env[x.n].t
    [] x.k = "cast" -> x.o
    [] x.k = "unary" -> IF x.o = "lnot" THEN "int" ELSE Promoted(TypeIn(x.e[1], env))
    [] x.k = "binary" ->
         IF x.o \in Comparisons \cup Logical THEN "int"
         ELSE IF x.o \in Shifts THEN Promoted(TypeIn(x.e[1], env))
         ELSE IF x.o = "sub" /\ IsPointer(TypeIn(x.e[1], env)) /\ IsPointer(TypeIn(x.e[2], env)) THEN "int"
         ELSE Common(TypeIn(x.e[1], env), TypeIn(x.e[2], env))
    [] x.k \in {"assign", "opassign", "postfix", "prefix"} -> TypeIn(x.e[1], env)
    [] x.k = "cond" -> IF TypeIn(x.e[2], env) = "void" THEN "void"
                       ELSE Common(TypeIn(x.e[2], env), TypeIn(x.e[3], env))
    [] x.k = "comma" -> TypeIn(x.e[2], env)
    [] x.k = "call" -> env[x.n].t
    [] x.k \in {"deref", "index"} -> PointeeOf[TypeIn(x.e[1], env)]
    \* the name of an array already stands for the pointer to its first element
    [] x.k = "addrof" ->
         IF x.e[1].k = "var" /\ IsArray(env[x.e[1].n].t) THEN TypeIn(x.e[1], env)
         ELSE PointerTo(TypeIn(x.e[1], env))

----------------------------------------------------------------------------
(* Values are unsigned; a conversion reads them as their type says. *)
Converted(v, t, u) ==
  Wrap(IF IsSignedType(t) THEN Signed(v, BytesOf(t)) ELSE v, BytesOf(u))
Yield(s, t, v) == [s EXCEPT !.v = v, !.t = t, !.at = <<>>]
As(s, u)       == IF u = "void" THEN s ELSE Yield(s, u, Converted(s.v, s.t, u))
True(s)        == s.v # 0

(* Reading and writing the object at, or at the address v, of type t. *)
ReadFrom(s, at, v, t) ==
  IF at # <<>>
    THEN LET object == Var(Raw(t), at) IN Yield(AfterRead(s, object), t, ValueOf(s, object))
    ELSE Yield(s, t, LoadWord(s, v, BytesOf(t)))
WriteTo(s, at, address, t, v) ==
  IF at # <<>> THEN Assign(s, Var(Raw(t), at), v) ELSE StoreWord(s, address, BytesOf(t), v)

(* l OP r: the operation and the type it is done in, the operands in that  *)
(* type, the type of the result.  A pointer counts in elements.            *)
In(o, a, b, t, result) == [o |-> o, a |-> a, b |-> b, t |-> t, result |-> result]
Scaled(v, t, p) == Wrap(Converted(v, t, "int") * BytesOf(PointeeOf[p]), 2)
Operation(o, l, lt, r, rt) ==
  IF o \in {"add", "sub"} /\ IsPointer(lt) /\ IsPointer(rt)
    THEN In("div", Wrap(l - r, 2), BytesOf(PointeeOf[lt]), "int", "int")
  ELSE IF o \in {"add", "sub"} /\ IsPointer(lt) THEN In(o, l, Scaled(r, rt, lt), lt, lt)
  ELSE IF o = "add" /\ IsPointer(rt) THEN In(o, r, Scaled(l, lt, rt), rt, rt)
  ELSE LET t == IF o \in Shifts THEN Promoted(lt) ELSE Common(lt, rt)
       IN In(o, Converted(l, lt, t), Converted(r, rt, IF o \in Shifts THEN "int" ELSE t), t,
             IF o \in Comparisons THEN "int" ELSE t)
Operated(s, q) ==
  Yield(s, q.result, EvalBinary(q.o, q.a, q.b, IsSignedType(q.t), IsSignedType(q.t), 2))
Operate(s, o, l, lt, r, rt) == Operated(s, Operation(o, l, lt, r, rt))
Negated(s, o) ==
  IF o = "lnot" THEN Yield(s, "int", IF s.v = 0 THEN 1 ELSE 0)
  ELSE Yield(s, Promoted(s.t), EvalUnary(o, Converted(s.v, s.t, Promoted(s.t)), 2))

----------------------------------------------------------------------------
RECURSIVE Eval(_, _, _)
(* What follows an operand, s being the state it leaves. *)
Right(x, l, s) == Operate(s, x.o, l.v, l.t, s.v, s.t)
Arm(x, env, s) == As(Eval(IF True(s) THEN x.e[2] ELSE x.e[3], env, s), TypeIn(x, env))
Truth(s) == Yield(s, "int", IF True(s) THEN 1 ELSE 0)
Decide(x, env, s) ==
  IF True(s) = (x.o = "lor") THEN Truth(s)
  ELSE Truth(Eval(x.e[2], env, s))
(* The object designated in l takes the value r has in its type. *)
Deposit(l, r) == LET v == Converted(r.v, r.t, l.t) IN Yield(WriteTo(r, l.at, l.v, l.t, v), l.t, v)
Update(o, l, old, r) == Deposit(l, Operate(r, o, old.v, old.t, r.v, r.t))
Incremented(x, l, old) ==
  LET new == Deposit(l, Operate(old, x.o, old.v, old.t, 1, "int"))
  IN IF x.k = "prefix" THEN new ELSE Yield(new, old.t, old.v)
CalleeOf(env, f) == env[f].at
Called(x, env, q) ==
  LET s     == q.s
      args  == q.got
      types == env[x.n].params
      first == IF args = <<>> THEN 0 ELSE Converted(args[1].v, args[1].t, types[1])
      u == CallValue(s, CalleeOf(env, x.n), IF args = <<>> THEN <<>> ELSE <<Const("int", first)>>)
  IN Yield(u, env[x.n].t, IF env[x.n].t = "void" THEN 0
                          ELSE Wrap(ReturnedWord(u.log[Len(u.log)][2][2]), BytesOf(env[x.n].t)))
WithValue(q, s) == [s |-> s, got |-> Append(q.got, [v |-> s.v, t |-> s.t])]
EvalAll(xs, env, s) ==
  FoldLeft(LAMBDA q, x : WithValue(q, Eval(x, env, q.s)), [s |-> s, got |-> <<>>], xs)

(* The object an lvalue designates: s.at or s.v, and its type. *)
Pointed(s) == Yield(s, PointeeOf[s.t], s.v)
Designate(x, env, s) ==
  IF x.k = "var" THEN [s EXCEPT !.at = env[x.n].at, !.t = env[x.n].t]
  ELSE Pointed(Eval(IF x.k = "index" THEN CBin("add", x.e[1], x.e[2]) ELSE x.e[1], env, s))
(* What becomes of it, l being the state it was designated in. *)
PlaceIn(l)       == [at |-> l.at, v |-> l.v, t |-> l.t]
FetchIn(l)       == ReadFrom(l, l.at, l.v, l.t)
PointerIn(l, t)  == Yield(l, t, IF l.at = <<>> THEN l.v ELSE AddressOf(l.at))
AssignIn(l, r)   == Deposit(PlaceIn(l), [l EXCEPT !.v = r.v, !.t = r.t])
AssignFrom(x, env, r)       == AssignIn(Designate(x.e[1], env, r), r)
Compounded(x, env, l, old)  == Update(x.o, PlaceIn(l), old, Eval(x.e[2], env, old))
UpdateIn(x, env, l) ==
  IF x.k = "opassign" THEN Compounded(x, env, l, FetchIn(l)) ELSE Incremented(x, PlaceIn(l), FetchIn(l))
BinaryFrom(x, env, l) == IF x.o \in Logical THEN Decide(x, env, l) ELSE Right(x, l, Eval(x.e[2], env, l))

Eval(x, env, s) ==
  CASE x.k = "const" -> Yield(s, x.o, Wrap(x.v, BytesOf(x.o)))
    [] x.k = "var" -> IF IsArray(env[x.n].t) THEN Yield(s, TypeIn(x, env), AddressOf(env[x.n].at))
                      ELSE ReadFrom(s, env[x.n].at, 0, env[x.n].t)
    [] x.k \in {"deref", "index"} -> FetchIn(Designate(x, env, s))
    [] x.k = "addrof" -> PointerIn(Designate(x.e[1], env, s), TypeIn(x, env))
    [] x.k = "cast" -> As(Eval(x.e[1], env, s), x.o)
    [] x.k = "unary" -> Negated(Eval(x.e[1], env, s), x.o)
    [] x.k = "binary" -> BinaryFrom(x, env, Eval(x.e[1], env, s))
    [] x.k = "assign" -> AssignFrom(x, env, Eval(x.e[2], env, s))
    [] x.k \in {"opassign", "postfix", "prefix"} -> UpdateIn(x, env, Designate(x.e[1], env, s))
    [] x.k = "cond"  -> Arm(x, env, Eval(x.e[1], env, s))
    [] x.k = "comma" -> Eval(x.e[2], env, Eval(x.e[1], env, s))
    [] x.k = "call"  -> Called(x, env, EvalAll(x.e, env, s))

----------------------------------------------------------------------------
(* A statement that is jumped into skips all that lies before the label.   *)
Seeking(s) == s.out \in {"goto", "case", "default"}
Normal(s)  == [s EXCEPT !.out = "normal", !.to = <<>>]
(* A break or continue names its loop once the loops have labels. *)
Meant(s, st) == s.to = <<>> \/ s.to = st.l
Bind(env, d) ==
  (d.n :> [at |-> d.at, t |-> d.t, params |-> Map(LAMBDA p : p.t, d.params)]) @@ env
RECURSIVE Exec(_, _, _), Looping(_, _, _)

(* The initializer of an automatic object runs whenever it is reached. *)
RunsInit(d) == d.k = "var" /\ d.init # NoExp /\ d.sc \notin {"static", "extern"}
ItemAt(d, k) ==
  IF ~IsArray(d.t) THEN d.init ELSE IF k < Len(d.init.e) THEN d.init.e[k + 1] ELSE CConst(ElementOf[d.t], 0)
Initialized(d, k, r) ==
  IF IsArray(d.t)
    THEN LET t == ElementOf[d.t]
         IN StoreWord(r, AddressOf(d.at) + k * BytesOf(t), BytesOf(t), Converted(r.v, r.t, t))
  ELSE Deposit([at |-> d.at, v |-> 0, t |-> d.t], r)
Initialize(s, env, d) ==
  IF ~RunsInit(d) \/ s.out # "normal" THEN s
  ELSE FoldLeft(LAMBDA r, k : Initialized(d, k, Eval(ItemAt(d, k), env, r)), s,
                IF IsArray(d.t) THEN <<0, 1, 2, 3>> ELSE <<0>>)
(* A scope is the environment so far and the state. *)
Scope(env, s) == [env |-> env, s |-> s]
IntroduceIn(env, q, d) == Scope(env, Initialize(q.s, env, d))
Introduce(q, d) == IntroduceIn(Bind(q.env, d), q, d)
BindAll(env, ds) == FoldLeft(Bind, env, ds)
ExecItem(q, item) ==
  IF item.k = "decl" THEN Introduce(q, item.d[1]) ELSE Scope(q.env, Exec(item, q.env, q.s))
ExecItems(items, env, s) == FoldLeft(ExecItem, Scope(env, s), items)

(* One round of a loop from its body on, s being the state behind the body;*)
(* Looping itself starts with the condition.                               *)
Post(st, env, s)  == IF st.k = "for" /\ st.e[3] # NoExp THEN Eval(st.e[3], env, s) ELSE s
Condition(st)     == IF st.k = "for" THEN st.e[2] ELSE st.e[1]
Round(st, env, s) ==
  IF s.out = "break" /\ Meant(s, st) THEN Normal(s)
  ELSE IF s.out = "normal" \/ (s.out = "continue" /\ Meant(s, st))
    THEN IF s.left = 0 THEN [s EXCEPT !.out = "hang"]
         ELSE Looping(st, env, Post(st, env, [Normal(s) EXCEPT !.left = @ - 1]))
  ELSE s
Tested(st, env, s) == IF Condition(st) = NoExp THEN Yield(s, "int", 1) ELSE Eval(Condition(st), env, s)
IntoBody(st, env, s) == Round(st, env, Exec(st.b[1], env, s))
Again(st, env, s)  == IF True(s) THEN IntoBody(st, env, s) ELSE s
Looping(st, env, s) == Again(st, env, Tested(st, env, s))
(* A block is what it opens with; a for opens with its declarations or its *)
(* first expression.  A do, and a jump into the body of a loop, goes on    *)
(* with the body.                                                          *)
Opening(st) ==
  IF st.k = "block" THEN st.b
  ELSE Map(SDecl, st.d) \o (IF st.k = "for" /\ st.e[1] # NoExp THEN <<SExp(st.e[1])>> ELSE <<>>)
Opened(st, q) ==
  IF st.k = "block" THEN q.s
  ELSE IF st.k = "do" \/ Seeking(q.s) THEN IntoBody(st, q.env, q.s) ELSE Looping(st, q.env, q.s)

(* The value of a constant expression, in type t. *)
ConstantAs(x, t) == As(Eval(x, <<>>, Begin(<<>>)), t).v
(* The cases of a switch: not those of the switches within it. *)
RECURSIVE CasesIn(_)
CasesIn(st) ==
  IF st.k = "switch" THEN <<>>
  ELSE (IF st.k \in {"case", "default"} THEN <<st>> ELSE <<>>) \o FlattenSeq(Map(CasesIn, st.b))
Select(cases, s) ==
  IF \E c \in cases : c.k = "case" /\ ConstantAs(c.e[1], s.t) = s.v THEN [s EXCEPT !.out = "case", !.want = s.v]
  ELSE IF \E c \in cases : c.k = "default" THEN [s EXCEPT !.out = "default"]
  ELSE [s EXCEPT !.out = "break", !.to = <<>>]
EndSwitch(st, s) == IF s.out = "break" /\ Meant(s, st) THEN Normal(s) ELSE s
ExecSwitch(st, env, s) == EndSwitch(st, IF Seeking(s) THEN Exec(st.b[1], env, s) ELSE s)
Choose(st, s) == Select(ToSet(CasesIn(st.b[1])), As(s, Promoted(s.t)))

(* The arms of an if, s being the state behind the condition or, on the    *)
(* way to a label, behind the first arm.                                   *)
ElseArm(st, env, s)   == IF Len(st.b) = 2 THEN Exec(st.b[2], env, s) ELSE s
TakeArm(st, env, s)    == IF True(s) THEN Exec(st.b[1], env, s) ELSE ElseArm(st, env, s)
SeekElse(st, env, s)  == IF Seeking(s) THEN ElseArm(st, env, s) ELSE s

Exec(st, env, s) ==
  IF s.out # "normal" /\ ~Seeking(s) THEN s
  ELSE
  CASE st.k \in {"null", "goto", "break", "continue", "exp", "return"} /\ Seeking(s) -> s
    [] st.k = "null" -> s
    [] st.k = "goto"   -> [s EXCEPT !.out = "jump", !.to = st.l]
    [] st.k \in {"break", "continue"} -> [s EXCEPT !.out = st.k, !.to = st.l]
    [] st.k = "exp"    -> Eval(st.e[1], env, s)
    [] st.k = "return" -> [(IF st.e[1] = NoExp THEN s ELSE Eval(st.e[1], env, s)) EXCEPT !.out = "return"]
    [] st.k = "if" ->
         IF Seeking(s) THEN SeekElse(st, env, Exec(st.b[1], env, s)) ELSE TakeArm(st, env, Eval(st.e[1], env, s))
    [] st.k = "label"  ->
         Exec(st.b[1], env, IF s.out = "goto" /\ s.to = st.l THEN Normal(s) ELSE s)
    [] st.k = "case"   ->
         Exec(st.b[1], env, IF s.out = "case" /\ ConstantAs(st.e[1], s.t) = s.want
                              THEN Normal(s) ELSE s)
    [] st.k = "default" -> Exec(st.b[1], env, IF s.out = "default" THEN Normal(s) ELSE s)
    [] st.k \in {"block", "while", "do", "for"} -> Opened(st, ExecItems(Opening(st), env, s))
    [] st.k = "switch" ->
         \* a goto may lead into it; the cases of another switch are not its own
         IF s.out \in {"case", "default"} THEN s
         ELSE ExecSwitch(st, env, IF s.out = "goto" THEN s ELSE Choose(st, Eval(st.e[1], env, s)))

----------------------------------------------------------------------------
(* The function named f of a program, from the memory mem and the bytes of *)
(* its arguments on. *)
RECURSIVE RunBody(_, _, _)
Resume(body, env, s) ==
  IF s.out # "jump" THEN s
  ELSE IF s.left = 0 THEN [s EXCEPT !.out = "hang"]
  ELSE RunBody(body, env, [s EXCEPT !.out = "goto", !.left = @ - 1])
RunBody(body, env, s) == Resume(body, env, ExecItems(body, env, s).s)

LocalDecls(prog) == UNION {DeclsIn(BodyOf(d)) : d \in ToSet(prog)}
StaticDecls(prog) ==
  {d \in ToSet(prog) : d.k = "var"} \cup {d \in LocalDecls(prog) : d.sc = "static"}
(* Static objects start with their initializers. *)
ByteAt(v, k) == (v \div ByteSize^k) % ByteSize
InitByte(d, k) ==
  LET t == IF IsArray(d.t) THEN ElementOf[d.t] ELSE d.t
  IN ByteAt(ConstantAs(ItemAt(d, k \div BytesOf(t)), t), k % BytesOf(t))
AtStart(prog, mem) ==
  LET inits == {d \in StaticDecls(prog) : d.init # NoExp}
      Cells(d) == {<<d.at, k>> : k \in 0..BytesOf(d.t) - 1}
      owner(c) == CHOOSE d \in inits : d.at = c[1]
  IN [c \in UNION {Cells(d) : d \in inits} |-> InitByte(owner(c), c[2])] @@ mem

FunctionOf(prog, f) == SelectSeq(prog, LAMBDA d : d.k = "fun" /\ d.n = f /\ d.defined)[1]
Passed(params, args) ==
  FoldLeft(LAMBDA m, k : m @@ [c \in {<<params[k].at, j>> : j \in 0..BytesOf(params[k].t) - 1} |->
                                 ByteAt(args[k], c[2])],
           <<>>, [k \in DOMAIN params |-> k])
Calling(prog, f, mem, args) ==
  RunBody(f.body, BindAll(BindAll(<<>>, prog), f.params),
          Begin(Passed(f.params, args) @@ AtStart(prog, mem)))
(* The value returned, the accesses to volatile objects and the calls, and *)
(* what the static objects that are watched hold. *)
Observed(f, s, watched) ==
  [ends |-> s.out # "hang",
   value |-> IF f.t = "void" THEN 0
             ELSE IF s.out = "return" THEN Converted(s.v, s.t, f.t) ELSE 0,
   log |-> s.log, statics |-> [c \in watched |-> Fetch(s, c)]]
MeaningOf(prog, f, mem, args, watched) ==
  Observed(FunctionOf(prog, f), Calling(prog, FunctionOf(prog, f), mem, args), watched)
=============================================================================
