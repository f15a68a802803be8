------------------------------- MODULE TacIR -------------------------------
(***************************************************************************)
(* The three-address IR (tac.asdl) and what a function in it computes      *)
(* (tac_sim.py).  A variable carries its type, so no symbol table is       *)
(* needed; its bytes are the cells <<name, 0>>, <<name, 1>>, ... of the    *)
(* machine, so that a TAC function and its assembly start from the same    *)
(* memory and are compared on it.  Floating point is left out.             *)
(***************************************************************************)
EXTENDS Machine

SignedTypes   == {"schar", "int", "long"}
UnsignedTypes == {"char", "uchar", "uint", "ulong", "ptr"}
SizeOf(t) == CASE t \in {"char", "schar", "uchar"} -> 1
               [] t \in {"int", "uint", "ptr"} -> 2
               [] t \in {"long", "ulong"} -> 4

Const(t, v) == [k |-> "const", t |-> t, n |-> <<>>, v |-> v]
Var(t, n)   == [k |-> "var", t |-> t, n |-> n, v |-> 0]
NoVal       == [k |-> "noval", t |-> "void", n |-> <<>>, v |-> 0]
IsConst(v)  == v.k = "const"
IsVar(v)    == v.k = "var"

Tac(op, o, a, b, dst, to) ==
  [op |-> op, o |-> o, a |-> a, b |-> b, dst |-> dst, to |-> to, args |-> <<>>, vol |-> FALSE]
TRet(v)         == Tac("ret", "", v, NoVal, NoVal, <<>>)
TCopy(s, d)     == Tac("copy", "", s, NoVal, d, <<>>)
TConvert(o, s, d) == Tac("convert", o, s, NoVal, d, <<>>)    \* sext, zext, trunc
TUnary(o, s, d) == Tac("unary", o, s, NoVal, d, <<>>)
TBinary(o, x, y, d) == Tac("binary", o, x, y, d, <<>>)
TLabel(l)       == Tac("label", "", NoVal, NoVal, NoVal, l)
TJump(l)        == Tac("jump", "", NoVal, NoVal, NoVal, l)
TJumpIfTrue(c, l)  == Tac("jtrue", "", c, NoVal, NoVal, l)
TJumpIfFalse(c, l) == Tac("jfalse", "", c, NoVal, NoVal, l)
TJumpIfCmp(o, x, y, l) == Tac("jcmp", o, x, y, NoVal, l)
TJumpIfMasked(v, m, nz, l) ==
  Tac("jmask", IF nz THEN "ne" ELSE "eq", v, Const("char", m), NoVal, l)
TGetAddress(v, d) == Tac("addr", "", v, NoVal, d, <<>>)
TLoad(p, d)       == Tac("load", "", p, NoVal, d, <<>>)
TStore(s, p)      == Tac("store", "", s, p, NoVal, <<>>)
TIndexedLoad(n, i, d)  == Tac("idxload", "", i, NoVal, d, n)
TIndexedStore(n, i, s) == Tac("idxstore", "", s, i, NoVal, n)
TIndirectIndexedLoad(p, i, d)  == Tac("indload", "", p, i, d, <<>>)
TIndirectIndexedStore(p, i, s) == [Tac("indstore", "", s, i, NoVal, <<>>) EXCEPT !.args = <<p>>]
TCall(f, args, d) == [Tac("call", "", NoVal, NoVal, d, f) EXCEPT !.args = args]
TVolatile(i)      == [i EXCEPT !.vol = TRUE]
(* IndexedConstLoad and IndexedStore: at a number instead of a name. *)
AbsName(address)          == <<"abs", address>>
TIndexedConstLoad(m, i, d) == Tac("absload", "", i, NoVal, d, AbsName(m))
TIndexedNumStore(m, i, s)  == Tac("absstore", "", s, i, NoVal, AbsName(m))
(* The arguments of a phi: the label of a predecessor, and a value. *)
TPhi(d, args)              == [Tac("phi", "", NoVal, NoVal, d, <<>>) EXCEPT !.args = args]
PhiArg(lbl, v)             == [lbl |-> lbl, src |-> v]

Comparisons == {"eq", "ne", "lt", "gt", "le", "ge"}

----------------------------------------------------------------------------
IsSigned(v) == v.t \in SignedTypes
Width(v)    == SizeOf(v.t)

(* Reading a volatile variable is a read of each of its cells. *)
ReadCells(s, n, size) ==
  LET r[k \in 0..size] == IF k = 0 THEN s ELSE ReadEffect(r[k - 1], Data(n, k - 1)) IN r[size]
AfterRead(s, v) == IF IsVar(v) /\ v.n \in Volatile THEN ReadCells(s, v.n, Width(v)) ELSE s
ValueOf(s, v) ==
  IF IsConst(v) THEN Wrap(v.v, Width(v)) ELSE Word(s, v.n, 0, Width(v))

WriteCells(s, n, o, size, v) ==
  LET w[k \in 0..size] ==
        IF k = 0 THEN s ELSE Write(w[k - 1], Data(n, o + k - 1), (v \div ByteSize^(k - 1)) % ByteSize)
  IN w[size]
Assign(s, d, v) == WriteCells(s, d.n, 0, Width(d), Wrap(v, Width(d)))

EvalUnary(o, v, w) ==
  CASE o = "neg"  -> Wrap(-v, w)
    [] o = "com"  -> Modulus(w) - 1 - v
    [] o = "lnot" -> IF v = 0 THEN 1 ELSE 0

Bytewise(o, x, y, w) ==
  LET r[k \in 0..w] ==
        IF k = 0 THEN 0
        ELSE r[k - 1] + ByteSize^(k - 1) * BitOp(o, (x \div ByteSize^(k - 1)) % ByteSize,
                                                    (y \div ByteSize^(k - 1)) % ByteSize)
  IN r[w]

Holds(o, x, y) == CASE o = "eq" -> x = y [] o = "ne" -> x # y [] o = "lt" -> x < y
                    [] o = "gt" -> x > y [] o = "le" -> x <= y [] o = "ge" -> x >= y
(* A comparison is signed only when both sides are. *)
EvalCompare(o, x, y, sx, sy, w) ==
  IF sx /\ sy THEN Holds(o, Signed(x, w), Signed(y, w)) ELSE Holds(o, x, y)

EvalBinary(o, x, y, sx, sy, w) ==
  CASE o = "add" -> Wrap(x + y, w)
    [] o = "sub" -> Wrap(x - y, w)
    [] o \in {"and", "or", "xor"} -> Bytewise(o, x, y, w)
    [] o \in Comparisons -> IF EvalCompare(o, x, y, sx, sy, w) THEN 1 ELSE 0
    [] o = "mul" -> Arith("mul", x, y, w)
    [] o = "div" -> Arith(IF sx THEN "sdiv" ELSE "udiv", x, y, w)
    [] o = "mod" -> Arith(IF sx THEN "smod" ELSE "umod", x, y, w)
    [] o = "shl" -> Arith("asl", x, y % ByteSize, w)
    [] o = "shr" -> Arith(IF sx THEN "asr" ELSE "lsr", x, y % ByteSize, w)

Convert(o, v, from, to) ==
  CASE o = "sext" -> Wrap(Signed(v, from), to)
    [] o \in {"zext", "trunc"} -> Wrap(v, to)

----------------------------------------------------------------------------
(* The callee of Machine, called with values instead of bytes. *)
CallValue(s, f, args) ==
  LET arg == IF args = <<>> THEN s.A ELSE ValueOf(s, args[1])
  IN [s EXCEPT !.log = Append(@, <<"call", <<f, arg % ByteSize>>>>)]
ReturnedWord(arg) == ((arg + 1) % ByteSize) + ByteSize * MaxByte

LoadWord(s, address, size) ==
  LET w[k \in 0..size] ==
        IF k = 0 THEN 0 ELSE w[k - 1] + ByteSize^(k - 1) * Fetch(s, CellAt(address + k - 1))
  IN w[size]
StoreWord(s, address, size, v) ==
  [s EXCEPT !.mem = [c \in {CellAt(address + k) : k \in 0..size - 1} |->
                       LET k == CHOOSE j \in 0..size - 1 : CellAt(address + j) = c
                       IN (v \div ByteSize^k) % ByteSize] @@ @]

Goto(s, lab, l) == [s EXCEPT !.pc = lab[l]]

(* The phis of a block read what there was when its label was passed, on   *)
(* the way from the block last entered.                                    *)
EnterBlock(s, l) == [s EXCEPT !.from = s.block, !.block = l, !.atLabel = s.mem]
AssignPhi(s, d, args) ==
  LET came == SelectSeq(args, LAMBDA a : a.lbl = s.from)
  IN IF came = <<>> THEN s ELSE Assign(s, d, ValueOf([s EXCEPT !.mem = s.atLabel], came[1].src))

(* Instruction i in t, which its operands x and y leave as r; index is the *)
(* byte of y.                                                              *)
Execute(i, lab, t, r, x, y, index) ==
     CASE i.op = "label"  -> EnterBlock(t, i.to)
       [] i.op = "phi"    -> AssignPhi(t, i.dst, i.args)
       [] i.op = "jump"   -> Goto(t, lab, i.to)
       [] i.op = "jtrue"  -> IF x # 0 THEN Goto(r, lab, i.to) ELSE r
       [] i.op = "jfalse" -> IF x = 0 THEN Goto(r, lab, i.to) ELSE r
       [] i.op = "jcmp"   -> IF EvalCompare(i.o, x, y, IsSigned(i.a), IsSigned(i.b), Width(i.a))
                               THEN Goto(r, lab, i.to) ELSE r
       [] i.op = "jmask"  -> IF Holds(i.o, BitAnd(x % ByteSize, i.b.v % ByteSize), 0)
                               THEN Goto(r, lab, i.to) ELSE r
       [] i.op = "copy"   -> Assign(r, i.dst, x)
       [] i.op = "convert" -> Assign(r, i.dst, Convert(i.o, x, Width(i.a), Width(i.dst)))
       [] i.op = "unary"  -> Assign(r, i.dst, EvalUnary(i.o, x, Width(i.a)))
       [] i.op = "binary" -> Assign(r, i.dst, EvalBinary(i.o, x, y, IsSigned(i.a), IsSigned(i.b),
                                                         Width(i.a)))
       [] i.op = "addr"   -> Assign(t, i.dst, AddressOf(i.a.n))
       [] i.op = "load"   -> Assign(t, i.dst, LoadWord(t, x, Width(i.dst)))
       [] i.op = "store"  -> StoreWord(t, y, Width(i.a), x)
       [] i.op \in {"idxload", "absload"} ->
            Assign(ReadEffect(t, Data(i.to, x % ByteSize)), i.dst,
                   Word(t, i.to, x % ByteSize, Width(i.dst)))
       [] i.op \in {"idxstore", "absstore"} -> WriteCells(t, i.to, index, Width(i.a), x)
       [] i.op = "indload"  -> Assign(t, i.dst, LoadWord(t, x + index, Width(i.dst)))
       [] i.op = "indstore" -> StoreWord(t, ValueOf(t, i.args[1]) + index, Width(i.a), x)
       [] i.op = "call"   -> LET u == CallValue(t, i.to, i.args)
                                 v == ReturnedWord(u.log[Len(u.log)][2][2])
                             IN IF i.dst = NoVal THEN u ELSE Assign(u, i.dst, v)
       [] i.op = "ret"    -> [r EXCEPT !.done = TRUE, !.ret = IF i.a = NoVal THEN {} ELSE {"value"},
                                       !.value = IF i.a = NoVal THEN 0 ELSE x]
ReadSecond(i, lab, t, r) ==
  Execute(i, lab, t, AfterRead(r, i.b), ValueOf(t, i.a), ValueOf(r, i.b), ValueOf(t, i.b) % ByteSize)
ReadFirst(i, lab, t) == ReadSecond(i, lab, t, AfterRead(t, i.a))
TacStep(p, lab, s)   == ReadFirst(p[s.pc], lab, [s EXCEPT !.pc = @ + 1])

RECURSIVE TacRunFor(_, _, _, _)
TacRunFor(n, p, lab, s) ==
  IF s.done \/ s.pc > Len(p) THEN s
  ELSE IF n = 0 THEN TacStep(p, lab, s)
  ELSE TacRunFor(n - 1, p, lab, TacRunFor(n - 1, p, lab, s))

TacLabels(p) == {p[k].to : k \in {j \in DOMAIN p : p[j].op = "label"}}
TacRun(p, mem) ==
  TacRunFor(Fuel, p, [l \in TacLabels(p) |-> CHOOSE k \in DOMAIN p : p[k].op = "label" /\ p[k].to = l],
             [value |-> 0, block |-> <<>>, from |-> <<>>, atLabel |-> mem] @@ Entry(mem, [A |-> 0, X |-> 0, Y |-> 0]))
=============================================================================
