------------------------------- MODULE CTree -------------------------------
(***************************************************************************)
(* The syntax tree of the C the front end compiles (c99.asdl): integers    *)
(* of one and two bytes, pointers to them and arrays of four of them.      *)
(* Structs, floating point, the wider integers and pointers to pointers,   *)
(* to arrays and to functions are left out.                                *)
(*                                                                         *)
(* Every expression is a record of one shape, so is every statement and    *)
(* every declaration.  A name of the source is <<n>>; identifier           *)
(* resolution makes it <<"@", number, n>>.  at is where an object is       *)
(* declared in the source: the copies of a declaration share it.           *)
(***************************************************************************)
EXTENDS TacIR, SequencesExt

CharTypes  == {"char", "schar", "uchar"}
WordTypes  == {"int", "uint"}
IntTypes   == CharTypes \cup WordTypes
PointeeOf  == [p \in {"char*", "schar*", "uchar*", "int*", "uint*"} |->
                 CASE p = "char*" -> "char" [] p = "schar*" -> "schar" [] p = "uchar*" -> "uchar"
                   [] p = "int*" -> "int" [] p = "uint*" -> "uint"]
IsPointer(t) == t \in DOMAIN PointeeOf
PointerTo(t) == CHOOSE p \in DOMAIN PointeeOf : PointeeOf[p] = t
ElementOf  == [a \in {"char[4]", "int[4]", "const char[4]"} |-> IF a = "int[4]" THEN "int" ELSE "char"]
IsArray(t) == t \in DOMAIN ElementOf
(* The type of the machine's value. *)
Raw(t)    == IF IsPointer(t) THEN "ptr" ELSE t
BytesOf(t) == IF IsArray(t) THEN 4 * SizeOf(ElementOf[t]) ELSE SizeOf(Raw(t))
IsSignedType(t) == t \in SignedTypes

----------------------------------------------------------------------------
(* Expressions: kind, operator, name, type (once checked), value, operands *)
(* and, for a compound assignment, the type it computes in.                *)
Exp(k, o, n, t, v, e) == [k |-> k, o |-> o, n |-> n, t |-> t, v |-> v, e |-> e, it |-> ""]
NoExp          == Exp("none", "", <<>>, "", 0, <<>>)
CConst(t, v)   == Exp("const", t, <<>>, "", v, <<>>)
CVar(n)        == Exp("var", "", n, "", 0, <<>>)
CCast(t, x)    == Exp("cast", t, <<>>, "", 0, <<x>>)
CUnary(o, x)   == Exp("unary", o, <<>>, "", 0, <<x>>)
CBin(o, l, r)  == Exp("binary", o, <<>>, "", 0, <<l, r>>)     \* land and lor among them
CAssign(l, r)  == Exp("assign", "", <<>>, "", 0, <<l, r>>)
COpAssign(o, l, r) == Exp("opassign", o, <<>>, "", 0, <<l, r>>)
CPostfix(o, x) == Exp("postfix", o, <<>>, "", 0, <<x>>)        \* add or sub
CPrefix(o, x)  == Exp("prefix", o, <<>>, "", 0, <<x>>)
CCond(c, x, y) == Exp("cond", "", <<>>, "", 0, <<c, x, y>>)
CComma(l, r)   == Exp("comma", "", <<>>, "", 0, <<l, r>>)
CCall(f, args) == Exp("call", "", f, "", 0, args)
CDeref(x)      == Exp("deref", "", <<>>, "", 0, <<x>>)
CAddr(x)       == Exp("addrof", "", <<>>, "", 0, <<x>>)
CList(items)   == Exp("list", "", <<>>, "", 0, items)          \* an array's initializer
CIndex(a, x)   == Exp("index", "", <<>>, "", 0, <<a, x>>)

(* Statements: kind, expressions, statements, label, declarations; the     *)
(* cases and the default of a switch, once collected, and its promoted     *)
(* type; and whether a for carries the unroll pragma.                      *)
Stm(k, e, b) ==
  [k |-> k, e |-> e, b |-> b, l |-> <<>>, d |-> <<>>, cases |-> <<>>, dflt |-> <<>>, u |-> FALSE]
SReturn(x)      == Stm("return", <<x>>, <<>>)
SExp(x)         == Stm("exp", <<x>>, <<>>)
SIf(c, s)       == Stm("if", <<c>>, <<s>>)
SIfElse(c, s, t) == Stm("if", <<c>>, <<s, t>>)
SBlock(items)   == Stm("block", <<>>, items)
SBreak          == Stm("break", <<>>, <<>>)
SContinue       == Stm("continue", <<>>, <<>>)
SWhile(c, s)    == Stm("while", <<c>>, <<s>>)
SDo(s, c)       == Stm("do", <<c>>, <<s>>)
SForDecl(ds, c, post, s) == [Stm("for", <<NoExp, c, post>>, <<s>>) EXCEPT !.d = ds]
SFor(init, c, post, s)   == Stm("for", <<init, c, post>>, <<s>>)
SUnroll(f)      == [f EXCEPT !.u = TRUE]
SSwitch(c, s)   == Stm("switch", <<c>>, <<s>>)
SCase(v, s)     == Stm("case", <<v>>, <<s>>)
SDefault(s)     == Stm("default", <<>>, <<s>>)
SGoto(l)        == [Stm("goto", <<>>, <<>>) EXCEPT !.l = l]
SLabel(l, s)    == [Stm("label", <<>>, <<s>>) EXCEPT !.l = l]
SNull           == Stm("null", <<>>, <<>>)
SDecl(d)        == [Stm("decl", <<>>, <<>>) EXCEPT !.d = <<d>>]
CaseOf(v, l)    == [v |-> v, l |-> l]

(* Declarations.  The parameters of a function are declarations; a         *)
(* function that is only declared has no body.                             *)
Decl(k, n, t, sc, init, at) ==
  [k |-> k, n |-> n, t |-> t, sc |-> sc, init |-> init, at |-> at,
   params |-> <<>>, body |-> <<>>, defined |-> FALSE]
DVar(n, t, at)        == Decl("var", n, t, "", NoExp, at)
DInit(n, t, at, init) == Decl("var", n, t, "", init, at)
DStatic(n, t, at, init) == Decl("var", n, t, "static", init, at)
DExtern(n, t)         == Decl("var", n, t, "extern", NoExp, n)
DFun(n, t, params, body) ==
  [Decl("fun", n, t, "", NoExp, n) EXCEPT !.params = params, !.body = body, !.defined = TRUE]
DProto(n, t, params)  == [Decl("fun", n, t, "", NoExp, n) EXCEPT !.params = params]

----------------------------------------------------------------------------
(* All the expressions below x, all the statements below st, and what they *)
(* contain; and a tree with every node changed, the inner ones first.      *)
RECURSIVE SubExps(_), SubStms(_)
SubExps(x)   == {x} \cup UNION {SubExps(y) : y \in ToSet(x.e)}
SubStms(st)  == {st} \cup UNION {SubStms(b) : b \in ToSet(st.b)}
OwnExps(st)  == {x \in ToSet(st.e) \cup {d.init : d \in ToSet(st.d)} : x # NoExp}
ExpsIn(st)   == UNION {SubExps(x) : x \in UNION {OwnExps(b) : b \in SubStms(st)}}
DeclsIn(st)  == UNION {ToSet(b.d) : b \in SubStms(st)}
BodyOf(d)    == SBlock(d.body)

(* A stage that cannot accept the program leaves this in its place. *)
SError == Stm("error", <<>>, <<>>)
Rejected(prog) == \E d \in ToSet(prog) : SError \in SubStms(BodyOf(d))
=============================================================================
