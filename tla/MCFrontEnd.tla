----------------------------- MODULE MCFrontEnd -----------------------------
(***************************************************************************)
(* Source files for FrontEnd.                                              *)
(***************************************************************************)
EXTENDS FrontEnd

x == <<"x">>
y == <<"y">>
a == <<"a">>
b == <<"b">>
i == <<"i">>
j == <<"j">>
p == <<"p">>
g == <<"g">>
h == <<"h">>
arr == <<"arr">>
brr == <<"brr">>
crr == <<"crr">>
tab == <<"tab">>
f == <<"f">>
m == <<"m">>
ext == <<"ext">>
nop == <<"nop">>
MCObjects == <<arr, brr, tab, g, h, <<"crr", "@">>, <<"@", 4, "crr">>, <<"a", "@">>, <<"@", 5, "a">>>>

c(v) == CConst("int", v)
u(v) == CConst("uint", v)
X == CVar(x)
Y == CVar(y)
A == CVar(a)
B == CVar(b)
I == CVar(i)
J == CVar(j)
P == CVar(p)
G == CVar(g)
H == CVar(h)
(* Local objects; the second of a name in a function is an Inner one. *)
Obj(n, t, x1)     == SDecl(DInit(n, t, Append(n, "@"), x1))
Inner(n, t, x1)   == SDecl(DInit(n, t, Append(n, "@@"), x1))
Counter(n, x1)    == SDecl(DStatic(n, "int", Append(n, "static"), x1))
Set(l, r)         == SExp(CAssign(l, r))
Plus(l, r)         == SExp(COpAssign("add", l, r))
Block(items)      == SBlock(items)
For(n, t, from, cond, post, s) == SForDecl(<<DInit(n, t, Append(n, "for"), from)>>, cond, post, s)
Up(n, t, to, s)   == For(n, t, c(0), CBin("lt", CVar(n), to), CPostfix("add", CVar(n)), s)
Down(n, t, from, s) == For(n, t, from, CBin("ge", CVar(n), c(0)), CPostfix("sub", CVar(n)), s)

(* static const char tab[4] = {2, 3}; char arr[4] = {7}; int brr[4] = {300, 9}; *)
(* int g = 5; char h; char ext(schar k); void nop(int k);                       *)
Globals == <<DStatic(tab, "const char[4]", tab, CList(<<c(2), c(3)>>)),
             DInit(arr, "char[4]", arr, CList(<<c(7)>>)),
             DInit(brr, "int[4]", brr, CList(<<c(300), c(9)>>)),
             DInit(g, "int", g, c(5)), DVar(h, "char", h),
             DProto(ext, "char", <<DVar(<<"k">>, "schar", <<"k">>)>>),
             DProto(nop, "void", <<DVar(<<"k">>, "int", <<"k">>)>>)>>
XandY   == <<DVar(x, "char", <<"x", "@">>), DVar(y, "int", <<"y", "@">>)>>
Fun(n, t, body) == DFun(n, t, XandY, body)
Cells    == {<<arr, k>> : k \in 0..3} \cup {<<brr, k>> : k \in 0..7} \cup {<<g, 0>>, <<g, 1>>, <<h, 0>>}
Source(decls, by, calls) ==
  [prog |-> decls, refusedBy |-> by, main |-> f, calls |-> calls, watched |-> Cells]
Calls   == {<<0, 0>>, <<3, 65535>>, <<200, 258>>}
Good(body)      == Source(Append(Globals, Fun(f, "int", body)), "", Calls)
Bad(body, by)   == Source(Append(Globals, Fun(f, "int", body)), by, {<<0, 0>>})

----------------------------------------------------------------------------
(* Names: a local for every scope, statics, externs below a local. *)
Shadows == Good(<<
  Obj(a, "int", CBin("add", X, c(1))),
  Block(<<Inner(a, "schar", Y), Plus(A, c(2)), Set(G, A)>>),
  SForDecl(<<DInit(a, "char", <<"a", "for">>, c(3)), DInit(b, "int", <<"b", "for">>, A)>>,
           CBin("gt", A, c(0)), CPrefix("sub", A), Block(<<Plus(B, A), Set(H, B)>>)),
  Obj(g, "int", c(100)),
  Block(<<SDecl(DExtern(g, "int")), Plus(G, A)>>),
  SReturn(CBin("add", A, G))>>)
TwoFunctions == Source(Globals \o <<
  Fun(m, "int", <<SDecl(DStatic(a, "int", <<"a", "of", "m">>, c(40))), Obj(b, "int", CPostfix("add", A)), SReturn(B)>>),
  Fun(f, "int", <<Counter(a, c(3)), Plus(A, X), Obj(b, "char", A), SGoto(<<"end">>), Set(B, c(0)),
                  SLabel(<<"end">>, Set(G, B)), SReturn(A)>>)>>, "", Calls)
SameLabel == Source(Globals \o <<
  Fun(m, "int", <<SGoto(<<"end">>), SLabel(<<"end">>, SReturn(X))>>),
  Fun(f, "int", <<SIf(X, SGoto(<<"end">>)), Set(G, c(1)), SLabel(<<"end">>, SReturn(G))>>)>>, "", Calls)
Again1 == Source(<<DExtern(g, "int")>> \o Globals \o <<
  DExtern(h, "char"), [DVar(h, "char", h) EXCEPT !.init = c(260)],
  DProto(f, "int", XandY), Fun(f, "int", <<SReturn(CBin("mul", H, G))>>), DVar(g, "int", g)>>, "", Calls)
Private == Source(Globals \o <<
  DStatic(p, "int", p, NoExp), DExtern(p, "int"),
  [Fun(m, "int", <<SReturn(X)>>) EXCEPT !.sc = "static"], DProto(m, "int", XandY),
  Fun(f, "int", <<Set(P, Y), SReturn(CBin("sub", P, c(1)))>>)>>, "", Calls)

(* Jumps. *)
Nest == Good(<<
  Obj(a, "int", c(0)),
  Up(i, "char", c(4), SSwitch(I, Block(<<
    SCase(c(1), SContinue),
    SCase(c(2), Up(j, "char", c(5), Block(<<SIf(CBin("eq", J, c(2)), SBreak), Plus(A, J)>>))),
    SDefault(Plus(A, c(10))), SBreak,
    SCase(c(7), SExp(CPostfix("add", A)))>>))),
  SReturn(A)>>)
Device == Good(<<
  Obj(a, "int", c(0)),
  SSwitch(CBin("and", Y, c(3)), Block(<<
    SDo(Block(<<Plus(A, c(1)), SCase(c(2), Plus(A, c(20))), SCase(c(1), Plus(A, c(50)))>>),
        CBin("lt", A, c(90))),
    SSwitch(X, Block(<<SCase(c(3), Plus(A, c(3))), SCase(c(0), SBreak)>>)),
    SDefault(Plus(A, c(1)))>>)),
  SReturn(A)>>)
Into1 == Good(<<
  Obj(a, "int", Y), SIf(X, SGoto(<<"in">>)),
  SWhile(CBin("lt", A, c(3)), Block(<<Plus(A, c(1)), SLabel(<<"in">>, Plus(A, c(2))), SIf(CBin("eq", A, c(5)), SContinue),
                                      SIf(CBin("gt", A, c(6)), SGoto(<<"out">>))>>)),
  Set(G, A), SLabel(<<"out">>, SNull), SReturn(A)>>)
Forever == Good(<<
  Obj(a, "int", X),
  SFor(NoExp, NoExp, CPrefix("sub", A), SIfElse(CBin("le", A, c(0)), SBreak,
       SIf(CBin("gt", A, c(9)), Set(A, c(4))))),
  SReturn(CBin("add", A, Y))>>)

(* Side effects, once and in order. *)
Circuits == Good(<<
  Obj(a, "int", CBin("land", CCall(ext, <<Y>>), CBin("lor", CAssign(G, X), CCall(ext, <<c(300)>>)))),
  SIfElse(CUnary("lnot", CBin("lor", X, Y)), SExp(CCall(nop, <<X>>)), Plus(H, c(1))),
  SExp(CCond(CBin("lt", X, c(9)), CCall(nop, <<c(1)>>), CCall(nop, <<Y>>))),
  SReturn(CCond(A, CBin("sub", X, Y), CComma(CPostfix("add", G), G)))>>)
Updates == Good(<<
  Obj(p, "char*", CVar(arr)), Obj(a, "int", CPostfix("add", CDeref(CPostfix("add", P)))),
  SExp(COpAssign("sub", CIndex(P, CBin("and", CPostfix("add", G), c(1))), X)),
  SExp(CPrefix("sub", CIndex(CVar(brr), CBin("and", X, c(3))))),
  SExp(COpAssign("mul", CIndex(CVar(brr), c(0)), CPrefix("add", A))),
  Set(CIndex(c(2), CVar(arr)), CIndex(CVar(brr), c(1))),
  SReturn(CBin("add", CBin("sub", P, CVar(arr)), CCast("char", CAssign(H, Y))))>>)
Walks == Good(<<
  Obj(p, "int*", CAddr(CIndex(CVar(brr), c(3)))), Obj(a, "int", c(0)),
  SWhile(CBin("gt", P, CVar(brr)), Block(<<SExp(COpAssign("sub", P, c(1))), Plus(A, CDeref(P))>>)),
  SIf(CBin("ne", P, c(0)), Set(CDeref(CBin("add", c(2), P)), X)),
  SReturn(CBin("add", A, CBin("sub", CBin("add", P, c(3)), CVar(brr))))>>)
Locals == Good(<<
  Obj(crr, "int[4]", CList(<<Y, CPostfix("add", G), X>>)), Obj(a, "int", CIndex(CVar(crr), CBin("and", X, c(3)))),
  Obj(p, "int*", CAddr(A)), Plus(CDeref(P), CIndex(CVar(crr), c(3))), Set(CIndex(CVar(crr), c(1)), A),
  SReturn(CBin("sub", A, CIndex(CVar(crr), c(1))))>>)

(* The conversions of every pair of types in operations that tell them     *)
(* apart.                                                                  *)
Kinds == {"char", "schar", "int", "uint"}
Mixes == {Good(<<Obj(a, t, Y), Obj(b, v, X), SReturn(CBin(o, A, B))>>) :
            o \in {"sub", "lt", "shr"}, t \in Kinds, v \in Kinds}
Updated == {Good(<<Obj(a, t, Y), SExp(COpAssign(o, A, X)), Set(CIndex(CVar(brr), c(1)), A),
                   SReturn(CCond(X, A, c(1)))>>) :
              o \in {"add", "shr"}, t \in Kinds \ {"schar"}}
Returns == {Source(Append(Globals, Fun(f, t, <<Obj(a, v, Y), SReturn(A)>>)), "", Calls) : t \in Kinds, v \in Kinds}
Selects == {Good(<<SSwitch(CCast(t, Y), Block(<<SCase(c(2), Set(G, c(1))), SBreak, SCase(c(255), Set(G, c(2))),
                                                 SDefault(Set(G, c(3)))>>)), SReturn(G)>>) : t \in {"schar", "char"}}

(* Loops to unroll. *)
Sum(loop) == Good(<<Obj(a, "int", Y), SUnroll(loop), SReturn(A)>>)
Unrolled ==
  {Sum(Up(i, t, to, Block(<<Plus(A, I), Inner(a, "int", CBin("add", I, X)), Set(CIndex(CVar(arr), I), A)>>))) :
     t \in {"char", "schar", "int"}, to \in {c(0), c(3), CIndex(CVar(tab), c(1)), CCast("char", c(2))}}
  \cup {Sum(Down(i, t, c(2), Plus(A, CBin("mul", I, c(3))))) : t \in {"schar", "int"}}
  \cup {Sum(For(i, "char", c(0), CBin("le", I, c(3)), COpAssign("add", I, c(2)),
                SUnroll(Up(j, "char", CIndex(CVar(tab), I), Plus(A, J)))))}
NotUnrolled ==
  {[Sum(loop) EXCEPT !.refusedBy = "unroll"] :
     loop \in {Up(i, "char", c(3), SIf(CBin("eq", I, X), SBreak)),
               Up(i, "char", c(3), SLabel(<<"l">>, Plus(A, I))),
               Up(i, "char", c(3), SExp(CPrefix("add", I))),
               Up(i, "char", X, Plus(A, I)),
               For(i, "char", c(0), CBin("ne", I, c(3)), CPostfix("add", I), Plus(A, I)),
               For(i, "schar", c(0), CBin("lt", I, c(3)), CPostfix("sub", I), Plus(A, I))}}

(* What each stage has to refuse. *)
Unnamed == {Bad(s, "names") : s \in {
  <<SReturn(A)>>, <<Block(<<Obj(a, "int", c(1))>>), SReturn(A)>>,
  <<Obj(a, "int", c(1)), Inner(a, "char", c(2)), SReturn(A)>>, <<Obj(x, "int", c(1)), SReturn(X)>>,
  <<SDecl(DExtern(a, "int")), Obj(a, "int", c(1)), SReturn(A)>>,
  <<SExp(CAssign(CBin("add", X, c(1)), Y)), SReturn(X)>>, <<SExp(CCall(<<"away">>, <<>>)), SReturn(c(0))>>,
  <<SForDecl(<<DStatic(i, "int", i, c(0))>>, NoExp, NoExp, SBreak), SReturn(c(0))>>}}
Unlabelled == {Bad(s, "labels") : s \in {
  <<SGoto(<<"l">>), SReturn(X)>>, <<SLabel(<<"l">>, SNull), Block(<<SLabel(<<"l">>, SNull)>>), SReturn(X)>>}}
Misplaced == {Bad(s, "loops") : s \in {
  <<SBreak, SReturn(X)>>, <<SSwitch(X, SContinue), SReturn(X)>>, <<SWhile(X, SCase(c(1), SBreak)), SReturn(X)>>,
  <<SSwitch(X, Block(<<SDefault(SNull), SDefault(SNull)>>)), SReturn(X)>>}}
Mistyped == {Bad(s, "types") : s \in {
  <<Obj(p, "int*", CVar(arr)), SReturn(X)>>, <<Obj(p, "char*", X), SReturn(X)>>,
  <<SReturn(CBin("mul", CVar(arr), X))>>, <<SReturn(CDeref(X))>>, <<SReturn(NoExp)>>,
  <<SReturn(CCall(ext, <<X, Y>>))>>, <<SReturn(CCall(nop, <<X>>))>>, <<SExp(CAssign(CVar(arr), X)), SReturn(X)>>,
  <<SSwitch(X, Block(<<SCase(c(1), SNull), SCase(c(1), SNull)>>)), SReturn(X)>>,
  <<SSwitch(X, SCase(Y, SNull)), SReturn(X)>>,
  <<SDecl([DInit(a, "char", a, X) EXCEPT !.sc = "register"]), SExp(CAddr(A)), SReturn(X)>>,
  <<SDecl([DInit(a, "int", a, X) EXCEPT !.sc = "register"]), SReturn(X)>>,
  <<SExp(CPostfix("add", CIndex(CVar(tab), X))), SReturn(X)>>, <<SExp(CAssign(CIndex(CVar(tab), X), Y)), SReturn(X)>>,
  <<SDecl(DStatic(a, "int", a, X)), SReturn(X)>>, <<SIf(CCall(nop, <<X>>), SNull), SReturn(X)>>}}
Clashes == {Source(Append(Globals, Fun(f, "int", <<SReturn(X)>>)) \o ds, by, {<<0, 0>>}) :
  <<ds, by>> \in {<<<<DInit(g, "int", g, c(6))>>, "types">>, <<<<DVar(g, "char", g)>>, "types">>,
                  <<<<Fun(f, "int", <<SReturn(X)>>)>>, "types">>, <<<<DVar(f, "int", f)>>, "types">>,
                  <<<<DStatic(g, "int", g, NoExp)>>, "names">>, <<<<DProto(f, "char", XandY)>>, "types">>}}

MCInputs ==
  {Shadows, TwoFunctions, SameLabel, Again1, Private, Nest, Device, Into1, Forever, Circuits, Updates, Walks, Locals}
  \cup Mixes \cup Updated \cup Returns \cup Selects \cup Unrolled \cup NotUnrolled
  \cup Unnamed \cup Unlabelled \cup Misplaced \cup Mistyped \cup Clashes
=============================================================================
