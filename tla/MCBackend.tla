----------------------------- MODULE MCBackend -----------------------------
(***************************************************************************)
(* Functions for Backend: TAC as the front end emits it for small C        *)
(* functions, and listings as they reach the peepholes.                    *)
(***************************************************************************)
EXTENDS Backend

Arr == <<"arr">>  Brr == <<"brr">>  G == <<"g">>  V == <<"v">>  W == <<"w">>
MCObjects  == <<Arr, Brr, G, V, W, <<"frame">>, <<"local", "f", -162>>, <<"local", "f", -163>>>>
MCVolatile == {V}
MCSlotBase == [f |-> 128, h |-> 136, k |-> 140]
MCStatics  == {Arr, Brr, G, V}

x(t) == Var(t, <<"x">>)   y(t) == Var(t, <<"y">>)   z(t) == Var(t, <<"z">>)
i(t) == Var(t, <<"i">>)   j(t) == Var(t, <<"j">>)   s(t) == Var(t, <<"s">>)
g == Var("char", G)       v == Var("char", V)       w == Var("char", W)
c(n) == Const("char", n)  ci(n) == Const("int", n)
L == <<"L">>  M == <<"M">>  E == <<"E">>

(* Parameters: <<name, byte, register or "">>. *)
Param(n, o, r) == [n |-> n, o |-> o, reg |-> r]
Chars(n1, r1, n2, r2) == <<Param(<<n1>>, 0, r1), Param(<<n2>>, 0, r2)>>
Ints(n1, n2) == <<Param(<<n1>>, 0, ""), Param(<<n1>>, 1, ""), Param(<<n2>>, 0, ""), Param(<<n2>>, 1, "")>>
Fn(params) ==
  [name |-> "f", params |-> params, statics |-> MCStatics, pool |-> <<>>, blocked |-> {},
   pins |-> {}, hints |-> [n \in {} |-> ""], sizes |-> <<>>,
   ssa |-> {}, consts |-> <<>>, tables |-> <<>>]

(* The parameters are where the TAC and where the assembly look for them.  *)
Memory(params, bytes) ==
  [mem |-> [cl \in {<<params[k].n, params[k].o>> : k \in DOMAIN params} |->
              bytes[CHOOSE k \in DOMAIN params : <<params[k].n, params[k].o>> = cl]]
           @@ [cl \in {<<<<"zpabi", "f", k - 1>>, 0>> : k \in {q \in DOMAIN params : params[q].reg = ""}} |->
                 bytes[cl[1][3] + 1]]
           @@ [cl \in {Arr} \X (0..5) |-> cl[2] + 7] @@ [cl \in {Brr} \X (0..5) |-> 40 + cl[2]]
           @@ (<<G, 0>> :> 3) @@ (<<V, 0>> :> 250)
           @@ [cl \in {<<"zp">>} \X (192..200) |-> cl[2] - 100],
   regs |-> [r \in Regs |-> LET ks == {k \in DOMAIN params : params[k].reg = r}
                            IN IF ks = {} THEN 85 ELSE bytes[CHOOSE k \in ks : TRUE]]]
Watched == ({Arr, Brr} \X (0..5)) \cup {<<G, 0>>}
Function(params, body, returns, pooled, values) ==
  [enters |-> "codegen", fn |-> Fn(params), tac |-> body, code |-> <<>>, returns |-> returns, pooled |-> pooled,
   watched |-> Watched, memories |-> {Memory(params, bytes) : bytes \in values}]
Listing(params, listing, returns, values) ==
  [enters |-> "peephole", fn |-> Fn(params), tac |-> <<>>, code |-> listing, returns |-> returns,
   pooled |-> TRUE, watched |-> Watched, memories |-> {Memory(params, bytes) : bytes \in values}]

XY   == Chars("x", "", "y", "")
XinX == Chars("x", "X", "y", "")
XinA == Chars("x", "A", "y", "")
Few  == {<<0, 0>>, <<2, 5>>, <<200, 3>>}
Small == {<<1, 3>>, <<3, 2>>}
Near  == {<<0, 0, 1, 0>>, <<255, 255, 3, 0>>, <<5, 0, 2, 0>>}   \* no difference overflows
Words == {<<0, 0, 1, 0>>, <<255, 1, 3, 128>>, <<5, 0, 5, 0>>}

----------------------------------------------------------------------------
(* for (i = 0; i < 3; i++) { arr[i] = s; s += i; } return s; *)
Fill == <<TCopy(c(0), i("char")), TCopy(c(0), s("char")), TLabel(L),
          TIndexedStore(Arr, i("char"), s("char")),
          TBinary("add", s("char"), i("char"), s("char")),
          TBinary("add", i("char"), c(1), i("char")),
          TJumpIfCmp("lt", i("char"), c(3), L), TRet(s("char"))>>
(* Two locals swapped by a loop: the phis of its head are a cycle. *)
Swap == <<TCopy(x("char"), i("char")), TCopy(y("char"), j("char")), TCopy(c(3), z("char")), TLabel(L),
          TCopy(i("char"), s("char")), TCopy(j("char"), i("char")), TCopy(s("char"), j("char")),
          TBinary("sub", z("char"), c(1), z("char")), TJumpIfTrue(z("char"), L),
          TBinary("sub", i("char"), j("char"), s("char")), TRet(s("char"))>>
(* The same, tested at its top. *)
SwapWhile == <<TCopy(x("char"), i("char")), TCopy(y("char"), j("char")), TCopy(c(3), z("char")), TLabel(L),
               TJumpIfFalse(z("char"), E),
               TCopy(i("char"), s("char")), TCopy(j("char"), i("char")), TCopy(s("char"), j("char")),
               TBinary("sub", z("char"), c(1), z("char")), TJump(L), TLabel(E),
               TBinary("sub", i("char"), j("char"), s("char")), TRet(s("char"))>>
(* A conditional jump with a merge on both its edges. *)
Edges == <<TCopy(y("char"), z("char")), TJumpIfFalse(x("char"), E), TCopy(x("char"), z("char")),
           TJumpIfCmp("lt", x("char"), c(3), M), TLabel(E),
           TBinary("add", z("char"), x("char"), z("char")), TLabel(M), TRet(z("char"))>>
(* int arithmetic around a call. *)
Calls == <<TBinary("add", x("int"), y("int"), z("int")),
           TCall(<<"h", "slot">>, <<x("char")>>, j("char")),
           TConvert("zext", j("char"), s("int")), TBinary("sub", z("int"), s("int"), z("int")),
           TRet(z("int"))>>
CallLoop == <<TCopy(y("char"), i("char")), TLabel(L),
              TCall(<<"k", "A">>, <<i("char")>>, j("char")),
              TIndexedStore(Arr, i("char"), j("char")),
              TBinary("sub", i("char"), c(1), i("char")),
              TJumpIfTrue(i("char"), L), TCall(<<"h", "slot">>, <<j("char")>>, NoVal), TRet(NoVal)>>
(* A walk through a pointer to a static array. *)
Walk == <<TGetAddress(Var("char", Arr), z("ptr")), TCopy(c(0), i("char")), TLabel(L),
          TIndirectIndexedLoad(z("ptr"), i("char"), j("char")),
          TBinary("xor", j("char"), x("char"), j("char")),
          TIndirectIndexedStore(z("ptr"), i("char"), j("char")),
          TBinary("add", i("char"), c(1), i("char")),
          TJumpIfCmp("ne", i("char"), c(3), L), TRet(j("char"))>>
(* A local reached through its address. *)
Taken1 == <<TGetAddress(w, z("ptr")), TCopy(c(5), w), TStore(x("char"), z("ptr")),
           TBinary("add", w, y("char"), s("char")), TRet(s("char"))>>
Taken2 == <<TGetAddress(w, z("ptr")), TBinary("add", x("char"), y("char"), w),
            TLoad(z("ptr"), s("char")), TBinary("sub", s("char"), c(3), s("char")),
            TStore(s("char"), z("ptr")),
            TBinary("xor", w, y("char"), s("char")), TRet(s("char"))>>
Volatiles == <<TCopy(v, x("char")), TCopy(v, y("char")), TBinary("add", x("char"), y("char"), z("char")),
               TCopy(z("char"), v), TRet(z("char"))>>
Compare1 == <<TCopy(ci(0), s("int")), TCopy(x("int"), i("int")), TLabel(L),
             TJumpIfCmp("gt", i("int"), y("int"), E),
             TBinary("add", s("int"), i("int"), s("int")), TBinary("add", i("int"), ci(2), i("int")),
             TBinary("shl", s("int"), ci(1), s("int")), TJumpIfCmp("lt", i("int"), ci(9), L),
             TLabel(E), TUnary("neg", s("int"), z("int")), TRet(z("int"))>>

(* A register parameter, a register local, and two indices that swap. *)
Downward1 == <<TCopy(c(0), s("char")), TLabel(L), TIndexedLoad(Arr, x("char"), z("char")),
               TBinary("add", s("char"), z("char"), s("char")), TBinary("sub", x("char"), c(1), x("char")),
               TJumpIfTrue(x("char"), L), TRet(s("char"))>>
Upward1 == <<TCopy(c(0), i("char")), TLabel(L), TIndexedLoad(Arr, i("char"), z("char")),
             TIndexedStore(Brr, i("char"), z("char")), TBinary("add", i("char"), c(1), i("char")),
             TJumpIfCmp("ne", i("char"), c(3), L), TRet(z("char"))>>
SwapIndices == <<TCopy(x("char"), i("char")), TCopy(y("char"), j("char")), TCopy(c(3), z("char")), TLabel(L),
                 TIndexedLoad(Arr, i("char"), s("char")), TIndexedStore(Brr, j("char"), s("char")),
                 TCopy(i("char"), s("char")), TCopy(j("char"), i("char")), TCopy(s("char"), j("char")),
                 TBinary("sub", z("char"), c(1), z("char")), TJumpIfTrue(z("char"), L), TRet(i("char"))>>
(* Through a pointer that is a parameter; helpers, shifts and masks. *)
ByParam == <<TCopy(c(2), i("char")), TLabel(L), TIndirectIndexedLoad(x("ptr"), i("char"), j("char")),
             TBinary("xor", j("char"), y("char"), j("char")),
             TIndirectIndexedStore(x("ptr"), i("char"), j("char")),
             TBinary("sub", i("char"), c(1), i("char")), TJumpIfTrue(i("char"), L),
             TLoad(x("ptr"), s("char")), TStore(c(4), x("ptr")), TRet(s("char"))>>
Mixed == <<TBinary("mul", x("char"), y("char"), z("char")), TBinary("div", z("char"), c(3), i("char")),
           TBinary("shr", z("char"), c(2), j("char")), TJumpIfMasked(j("char"), 1, TRUE, E),
           TUnary("neg", i("char"), i("char")), TCopy(i("char"), g), TLabel(E),
           TUnary("lnot", g, s("char")), TBinary("or", s("char"), i("char"), s("char")), TRet(s("char"))>>

(* What the TAC optimizer starts from: promotions to int, conditions as    *)
(* values, the labels of loops and the temporaries of c99_to_tac.          *)
Id(k, t) == Var(t, <<"%", k>>)   u(n) == Const("uint", n)   sc(n) == Const("schar", n)
LoopStart == <<"start", 0>>  LoopContinue == <<"continue", 0>>  LoopBreak == <<"break", 0>>
(* for (i = 2; i >= 0; i--) { arr[i] = s; s += i; } return s;  i signed *)
DownTo0 == <<TCopy(sc(2), i("schar")), TCopy(c(0), s("char")), TLabel(LoopStart),
             TConvert("sext", i("schar"), Id(0, "int")), TBinary("ge", Id(0, "int"), ci(0), Id(1, "int")),
             TJumpIfFalse(Id(1, "int"), LoopBreak),
             TIndexedStore(Arr, i("schar"), s("char")),
             TConvert("sext", i("schar"), Id(2, "int")), TConvert("zext", s("char"), Id(3, "int")),
             TBinary("add", Id(3, "int"), Id(2, "int"), Id(4, "int")), TConvert("trunc", Id(4, "int"), s("char")),
             TLabel(LoopContinue), TBinary("sub", i("schar"), sc(1), Id(5, "schar")), TCopy(Id(5, "schar"), i("schar")),
             TJump(LoopStart), TLabel(LoopBreak), TRet(s("char"))>>
(* s = 1; if (!x) { s = 2; i = 0; do { if (y) i++; i++; } while (i < 3); } return s; *)
Idle == <<TCopy(c(1), s("char")), TUnary("lnot", x("char"), Id(0, "int")), TJumpIfFalse(Id(0, "int"), E),
          TCopy(c(2), s("char")), TCopy(c(0), i("char")), TLabel(L), TJumpIfFalse(y("char"), M),
          TBinary("add", i("char"), c(1), Id(1, "char")), TCopy(Id(1, "char"), i("char")), TLabel(M),
          TBinary("add", i("char"), c(1), Id(2, "char")), TCopy(Id(2, "char"), i("char")),
          TConvert("zext", i("char"), Id(3, "int")), TBinary("lt", Id(3, "int"), ci(3), Id(4, "int")),
          TJumpIfTrue(Id(4, "int"), L), TLabel(E), TRet(s("char"))>>
(* g and arr are const: if (g == 3) s = arr[2] - ~arr[1] / 3; else h(x); return s % 4 + y * 8; *)
ConstStatics == <<TConvert("zext", g, Id(0, "int")), TBinary("eq", Id(0, "int"), ci(3), Id(1, "int")), TCopy(c(9), s("uint")),
           TJumpIfFalse(Id(1, "int"), E),
           TIndexedLoad(Arr, c(1), Id(2, "char")), TConvert("zext", Id(2, "char"), Id(3, "int")),
           TUnary("com", Id(3, "int"), Id(4, "int")), TBinary("div", Id(4, "int"), ci(3), Id(5, "int")),
           TIndexedLoad(Arr, c(2), Id(6, "char")), TConvert("zext", Id(6, "char"), Id(7, "int")),
           TBinary("sub", Id(7, "int"), Id(5, "int"), Id(8, "int")), TCopy(Id(8, "int"), s("uint")), TJump(M),
           TLabel(E), TCall(<<"h", "slot">>, <<x("char")>>, Id(9, "char")),
           TLabel(M), TConvert("zext", y("char"), Id(10, "uint")),
           TBinary("mul", Id(10, "uint"), u(8), Id(11, "uint")), TBinary("mod", s("uint"), u(4), Id(12, "uint")),
           TBinary("add", Id(12, "uint"), Id(11, "uint"), Id(13, "uint")), TRet(Id(13, "uint"))>>
(* if (x && y) h(x); if (x || y) return 1; return 2; *)
AndOr == <<TJumpIfFalse(x("char"), <<"F">>), TJumpIfFalse(y("char"), <<"F">>), TCopy(ci(1), Id(0, "int")),
           TJump(L), TLabel(<<"F">>), TCopy(ci(0), Id(0, "int")), TLabel(L), TJumpIfFalse(Id(0, "int"), E),
           TCall(<<"h", "slot">>, <<x("char")>>, Id(2, "char")), TLabel(E),
           TJumpIfTrue(x("char"), <<"T">>), TJumpIfTrue(y("char"), <<"T">>), TCopy(ci(0), Id(1, "int")),
           TJump(M), TLabel(<<"T">>), TCopy(ci(1), Id(1, "int")), TLabel(M), TJumpIfFalse(Id(1, "int"), <<"N">>),
           TRet(c(1)), TLabel(<<"N">>), TRet(c(2))>>
(* p[y] = p[y] + 1 for a pointer p and for the address of an array; return p[y]; *)
Bump(p, k) == <<TConvert("zext", y("char"), Id(k, "uint")), TBinary("add", p, Id(k, "uint"), Id(k + 1, "ptr")),
                TLoad(Id(k + 1, "ptr"), Id(k + 2, "char")), TConvert("zext", Id(k + 2, "char"), Id(k + 3, "int")),
                TBinary("add", Id(k + 3, "int"), ci(1), Id(k + 4, "int")), TConvert("trunc", Id(k + 4, "int"), Id(k + 5, "char")),
                TConvert("zext", y("char"), Id(k + 6, "uint")), TBinary("add", p, Id(k + 6, "uint"), Id(k + 7, "ptr")),
                TStore(Id(k + 5, "char"), Id(k + 7, "ptr"))>>
Bumps == Bump(x("ptr"), 0) \o Bump(Const("ptr", 512), 10) \o <<TLoad(x("ptr"), s("char")), TRet(s("char"))>>
(* t = x & 3; if (x & 1) return t + y; return t; *)
MaskTwice == <<TConvert("zext", x("char"), Id(0, "int")), TBinary("and", Id(0, "int"), ci(3), Id(1, "int")),
               TConvert("trunc", Id(1, "int"), Id(2, "char")), TCopy(Id(2, "char"), z("char")),
               TConvert("zext", x("char"), Id(3, "int")), TBinary("and", Id(3, "int"), ci(1), Id(4, "int")),
               TJumpIfFalse(Id(4, "int"), E), TConvert("zext", z("char"), Id(5, "int")),
               TConvert("zext", y("char"), Id(6, "int")), TBinary("add", Id(5, "int"), Id(6, "int"), Id(7, "int")),
               TConvert("trunc", Id(7, "int"), Id(8, "char")), TRet(Id(8, "char")), TLabel(E), TRet(z("char"))>>
(* int m = x; g = m + y; return m; *)
Widened == <<TConvert("zext", x("char"), Id(0, "int")), TCopy(Id(0, "int"), i("int")), TConvert("zext", y("char"), Id(1, "int")),
             TBinary("add", i("int"), Id(1, "int"), Id(2, "int")), TConvert("trunc", Id(2, "int"), Id(3, "char")),
             TCopy(Id(3, "char"), g), TRet(i("int"))>>
(* i = x + 1; j = x + 2; g = x + 5 + 2; s = +x / 1; arr[1] = s * 4 - s; if (y >= 0) return i; return j;  y signed *)
Steps == <<TBinary("add", x("char"), c(1), i("char")), TBinary("add", x("char"), c(2), j("char")),
           TBinary("add", x("char"), c(5), Id(0, "char")), TBinary("add", Id(0, "char"), c(2), Id(1, "char")), TCopy(Id(1, "char"), g),
           TConvert("zext", x("char"), Id(2, "int")), TConvert("trunc", Id(2, "int"), Id(3, "char")),
           TBinary("div", Id(3, "char"), c(1), s("char")),
           TBinary("mul", s("char"), c(4), Id(4, "char")), TBinary("sub", Id(4, "char"), s("char"), Id(5, "char")),
           TIndexedStore(Arr, c(1), Id(5, "char")), TConvert("sext", y("schar"), Id(6, "int")),
           TBinary("ge", Id(6, "int"), ci(0), Id(7, "int")),
           TJumpIfFalse(Id(7, "int"), E), TRet(i("char")), TLabel(E), TRet(j("char"))>>
(* do { x--; if (x == y) { return y; dead: } } while (x); return h(x); *)
Leading == <<TLabel(L), TBinary("sub", x("char"), c(1), Id(0, "char")), TCopy(Id(0, "char"), x("char")),
             TConvert("zext", x("char"), Id(1, "int")), TConvert("zext", y("char"), Id(2, "int")),
             TBinary("eq", Id(1, "int"), Id(2, "int"), Id(3, "int")), TJumpIfFalse(Id(3, "int"), E),
             TRet(y("char")), TCopy(c(4), y("char")), TLabel(E), TJumpIfTrue(x("char"), L),
             TCall(<<"h", "slot">>, <<x("char")>>, z("char")), TRet(z("char"))>>

WithHint(inp) == [inp EXCEPT !.fn.hints = [n \in {<<"x">>} |-> "X"]]
WithPin(inp)  == [inp EXCEPT !.fn.pins = {<<"i">>}]
Source(params, body, returns, pooled, values) ==
  [Function(params, body, returns, pooled, values) EXCEPT !.enters = "rotate"]
PtrChar == <<Param(<<"x">>, 0, ""), Param(<<"x">>, 1, ""), Param(<<"y">>, 0, "")>>
WithConsts(inp) == [inp EXCEPT !.fn.consts = g :> Const("uchar", 3),
                               !.fn.tables = Arr :> [size |-> 1, values |-> [e \in 1..6 |-> e + 6]]]
Sources ==
  {Source(XY, DownTo0, "char", TRUE, {<<0, 0>>}),
   Source(XY, Idle, "char", TRUE, Few),
   WithConsts(Source(XY, ConstStatics, "uint", TRUE, {<<1, 2>>})),
   Source(XY, AndOr, "char", TRUE, Few),
   Source(PtrChar, Bumps, "char", TRUE, {<<0, 1, 5>>, <<0, 1, 0>>}),
   Source(XY, MaskTwice, "char", TRUE, Few),
   Source(XY, Widened, "int", TRUE, Few),
   Source(XinA, Steps, "char", TRUE, {<<0, 0>>, <<125, 128>>, <<255, 127>>}),
   Source(XY, Leading, "char", TRUE, {<<3, 1>>, <<2, 7>>}),
   Source(XY, SwapWhile, "char", FALSE, Few),
   Source(XY, CallLoop, "void", TRUE, Small)}
TacInputs ==
  {Function(XY, Fill, "char", TRUE, {<<0, 0>>}),
   Function(XY, Swap, "char", TRUE, Few),
   Function(XY, Swap, "char", FALSE, Few),
   Function(XinX, Edges, "char", TRUE, Few),
   Function(Ints("x", "y"), Calls, "int", TRUE, Words),
   Function(Ints("x", "y"), Calls, "int", FALSE, Words),
   Function(XY, Walk, "char", TRUE, Few),
   Function(XY, Taken2, "char", TRUE, Few),
   Function(XY, Volatiles, "char", TRUE, {<<0, 0>>}),
   Function(Ints("x", "y"), Compare1, "int", TRUE, Near),
   WithHint(Function(XinX, Downward1, "char", TRUE, Small)),
   WithPin(Function(XY, Upward1, "char", TRUE, {<<0, 0>>})),
   WithPin(Function(XY, Fill, "char", TRUE, {<<0, 0>>})),
   Function(PtrChar, ByParam, "char", TRUE, {<<0, 1, 5>>, <<1, 2, 0>>}),
   Function(XY, Mixed, "char", TRUE, {<<7, 9>>, <<255, 1>>})}
----------------------------------------------------------------------------
(* Listings: what the generator and the allocator leave for other C, cut   *)
(* down to what a pass looks at.                                           *)
P0 == Data(<<"zpabi", "f", 0>>, 0)   P1 == Data(<<"zpabi", "f", 1>>, 0)
T0 == Data(<<"local", "f", 160>>, 0) T1 == Data(<<"local", "f", 161>>, 0)
GB == Data(G, 0)  A1 == Data(Arr, 1)  AX == IndexedX(Arr, 0)  BX == IndexedX(Brr, 0)
Lda(o) == Mov(o, RegA)  Sta(o) == Mov(RegA, o)
Ldx(o) == Mov(o, RegX)  Stx(o) == Mov(RegX, o)  Ldy(o) == Mov(o, RegY)
ReturnA == Return({"A"})

(* --x in a register, tested through A. *)
DownX == <<Ldx(P0), Label(L), Lda(AX), Sta(GB), Mov(RegX, RegA), SetCarry, Sub(Imm(1)), Sta(T0), Ldx(T0),
           Branch("NE", L), Lda(GB), ReturnA>>
(* ++arr[x] == y, in a temporary. *)
NextIs == <<Ldx(P0), Lda(AX), Sta(T0), Inc(T0), Lda(T0), Compare(RegA, P1), Branch("NE", L),
            Lda(Imm(1)), ReturnA, Label(L), Lda(Imm(0)), ReturnA>>
(* A sign test, over a jump. *)
SignOf == <<Lda(P0), And(Imm(128)), Branch("EQ", L), Lda(Imm(2)), Jump(M), Label(L), Lda(P1), Label(M),
            Sta(GB), Lda(P0), Compare(RegA, P1), Branch("CS", E), Jump(<<"N">>), Label(E),
            SetCarry, Sub(P1), ReturnA, Label(<<"N">>), Lda(GB), ReturnA>>
(* A counter in memory that wraps, and one in X whose copy is returned. *)
Wraps == <<Inc(GB), Lda(GB), Branch("NE", L), Inc(A1), Label(L), Ldx(P0), Dec(RegX), Mov(RegX, RegA),
           Branch("EQ", M), ReturnA, Label(M), Lda(GB), ReturnA>>
(* Sums through a temporary, a comparison through one, constants. *)
Sums == <<Lda(P0), Sta(T0), Lda(A1), ClearCarry, Add(T0), Sta(A1),
          Lda(P1), Sta(T1), Lda(GB), Compare(RegA, T1), Branch("CC", L),
          Lda(Imm(5)), Sta(T0), Lda(P0), And(T0), Or(Imm(0)), Sta(GB),
          Label(L), Lda(GB), Sta(P1), Lda(GB), ReturnA>>
(* A pointer stepped down, its last byte read where the index is zero. *)
StepDown == <<Mov(ImmLabelLow(Arr, 0), Data(DPTR, 0)), Mov(ImmLabelHigh(Arr, 0), Data(DPTR, 1)),
              Mov(Imm(0), T0), Ldy(Imm(3)), Label(L), Lda(IndirectY), ClearCarry, Add(T0), Sta(T0),
              Dec(RegY), Branch("NE", L), Lda(Indirect(0)), ClearCarry, Add(T0), ReturnA>>
(* A byte of a buffer stepped by the saved parameter in A. *)
StepByA == <<Sta(T0), Label(L), Ldy(T0), Inc(T0), Lda(IndexedY(Arr, 0)), Sta(GB), Dec(P1), Branch("NE", L),
             ReturnA>>
StepInA == <<Sta(T0), Label(L), Ldy(T0), Inc(T0), Dec(P1), Branch("NE", L), Mov(RegY, GB), Lda(Imm(0)), ReturnA>>
(* A counter in memory, copied to X at the top of its loop. *)
CountX == <<Lda(Imm(3)), Sta(T0), Label(L), Ldx(T0), Lda(AX), Sta(BX), Ldx(P1), Lda(AX), Sta(GB),
            Branch("NE", M), Mov(Imm(6), GB), Label(M), Dec(T0), Branch("NE", L), Lda(GB), ReturnA>>
(* The same, the counter stepped in the stretch that uses the other index. *)
CountXY == <<Lda(Imm(3)), Sta(T0), Label(L), Ldx(T0), Lda(AX), Sta(BX), Ldx(P1), Lda(AX), Sta(GB),
             Dec(T0), Branch("NE", L), Lda(GB), ReturnA>>
CountCalls == <<Lda(Imm(3)), Sta(T0), Label(L), Lda(T0), Call(<<"k", "A">>, {"A"}), Ldx(T0), Sta(AX),
                Dec(T0), Branch("NE", L), ReturnA>>
(* X kept in memory and read back. *)
SaveX == <<Stx(T0), Ldx(P1), Lda(AX), ClearCarry, Add(T0), Sta(GB), Lda(T0), Sta(A1), Ldx(Imm(0)), Lda(T0), ReturnA>>
SaveX2 == <<Stx(T0), Lda(AX), Sta(GB), Lda(T0), Sta(A1), ReturnA>>
(* Two indices that take turns in X. *)
TwoIndices == <<Ldx(P0), Lda(AX), Ldx(P1), Sta(BX), Ldx(P0), Lda(BX), Sta(GB), Ldx(P1), Sta(AX), Ldx(P0), Lda(AX), ReturnA>>
(* A branch just in reach, until the one it jumps over is lengthened. *)
Times(n, ins) == [k \in 1..n |-> ins]
Outer == <<Lda(P0), Branch("NE", L), Lda(P1), Branch("EQ", M)>> \o Times(11, Inc(GB)) \o <<Label(L)>>
         \o Times(14, Inc(A1)) \o <<Label(M), Lda(GB), ReturnA>>
(* Two neighbours: what A holds of arr[x] is not arr[x] once x has moved. *)
Neighbours == <<Ldx(P0), Lda(AX), Compare(RegA, P1), Branch("NE", L), Inc(RegX), Lda(AX), ReturnA,
                Label(L), Lda(GB), ReturnA>>
(* The store of a register parameter nobody reads. *)
EntryStub == <<Mov(RegX, P0), Lda(AX), ClearCarry, Add(P1), ReturnA>>
(* A pointer to a volatile object read for nothing. *)
Discard == <<Mov(ImmLabelLow(V, 0), Data(DPTR, 0)), Mov(ImmLabelHigh(V, 0), Data(DPTR, 1)),
             Ldy(Imm(0)), MovV(IndirectY, RegA, TRUE), Lda(P0), ReturnA>>
(* Increments and transfers that end in a store. *)
Stores == <<Ldx(P0), Mov(RegX, RegA), ClearCarry, Add(Imm(1)), Sta(GB), Ldx(P1), Mov(RegX, RegA), Sta(A1),
            Lda(P0), SetCarry, Sub(Imm(1)), Sta(T0), Lda(Imm(0)), Compare(RegA, P0), Branch("CC", L),
            Lda(T0), ReturnA, Label(L), Lda(Imm(9)), ReturnA>>

Listings ==
  {Listing(XY, DownX, "char", Small),
   Listing(XY, NextIs, "char", {<<1, 9>>, <<2, 0>>}),
   Listing(XY, SignOf, "char", Few \cup {<<3, 200>>}),
   Listing(XY, Wraps, "char", {<<0, 0>>, <<1, 7>>}),
   Listing(XY, Sums, "char", Few),
   Listing(XY, StepDown, "char", {<<0, 0>>}),
   Listing(XinA, StepByA, "void", {<<1, 3>>}),
   Listing(XinA, StepInA, "char", {<<1, 3>>}),
   Listing(XY, CountX, "char", Small),
   Listing(XY, CountCalls, "void", Small),
   Listing(XinX, SaveX2, "void", Small),
   Listing(XY, TwoIndices, "char", Small),
   Listing(XY, Neighbours, "char", {<<1, 8>>, <<0, 0>>}),
   Listing(XinX, EntryStub, "char", Small),
   Listing(XY, Outer, "char", {<<0, 0>>, <<0, 1>>, <<1, 0>>}),
   Listing(XY, Discard, "char", {<<7, 7>>}),
   Listing(XY, Stores, "char", Few)}
MCInputs == Sources \cup TacInputs \cup Listings

----------------------------------------------------------------------------
(* Functions that are not compiled right; Inputs is LostCopyInputs in      *)
(* LostCopy.cfg, each of the others in a copy of it.                       *)
(* int q = x; return q < 0;  x unsigned *)
LostSign == <<TCopy(x("uint"), i("int")), TBinary("lt", i("int"), ci(0), Id(0, "int")), TRet(Id(0, "int"))>>
SignedCompareInputs == {Function(Ints("x", "y"), Compare1, "int", TRUE, Words)}
LostSignInputs      == {Source(Ints("x", "y"), LostSign, "int", TRUE, {<<5, 0, 0, 0>>, <<255, 255, 0, 0>>})}
LostCopyInputs      == {Source(XY, Swap, "char", TRUE, Few)}
(* int m = x + y; g = m; return m; *)
DroppedSum == <<TConvert("zext", x("char"), Id(0, "int")), TConvert("zext", y("char"), Id(1, "int")),
                TBinary("add", Id(0, "int"), Id(1, "int"), Id(2, "int")), TCopy(Id(2, "int"), i("int")),
                TConvert("trunc", i("int"), Id(3, "char")), TCopy(Id(3, "char"), g), TRet(i("int"))>>
(* g = x & 3; if (x & 1) arr[1] = 2; *)
SunkStore == <<TConvert("zext", x("char"), Id(0, "int")), TBinary("and", Id(0, "int"), ci(3), Id(1, "int")),
               TConvert("trunc", Id(1, "int"), g), TConvert("zext", x("char"), Id(2, "int")),
               TBinary("and", Id(2, "int"), ci(1), Id(3, "int")), TJumpIfFalse(Id(3, "int"), E),
               TIndexedStore(Arr, c(1), c(2)), TLabel(E), TRet(NoVal)>>
(* int t = g; g = 5; return (char)t; *)
StaleCast == <<TConvert("zext", g, i("int")), TCopy(c(5), g), TConvert("trunc", i("int"), s("char")), TRet(s("char"))>>
(* if (x) goto a; if (y) goto c; return 0; a: goto b; c: return 5; b: goto a; *)
JumpCycle == <<TJumpIfTrue(x("char"), L), TJumpIfTrue(y("char"), E), TRet(c(0)), TLabel(L), TJump(M),
               TLabel(E), TRet(c(5)), TLabel(M), TJump(L)>>
DroppedSumInputs    == {Source(XY, DroppedSum, "int", TRUE, Few)}
SunkStoreInputs     == {Source(XY, SunkStore, "void", TRUE, Few)}
StaleCastInputs     == {Source(XY, StaleCast, "char", TRUE, Few)}
SwapIndicesInputs   == {Function(XY, SwapIndices, "char", TRUE, Small)}
JumpCycleInputs     == {Function(XY, JumpCycle, "char", TRUE, {<<0, 0>>, <<0, 1>>})}
=============================================================================
