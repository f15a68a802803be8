------------------------------ MODULE Codegen ------------------------------
(***************************************************************************)
(* tac_to_asm.py: the assembly of each TAC instruction, over Pseudos, with *)
(* the exit of a function bare (Return).  Integers only; arguments go to   *)
(* zero page or registers (the soft stack is left out).                    *)
(***************************************************************************)
EXTENDS TacIR, AsmFlow

(* Bytes, low first, of an operand; concatenation of per-byte sequences.   *)
ByteAt(op, k) == IF IsImm(op) THEN Imm((op.o \div ByteSize^k) % ByteSize)
                 ELSE [op EXCEPT !.o = @ + k]
ForBytes(lo, hi, Seq_(_)) == Concat(<<>> \o [k \in 1..hi - lo + 1 |-> Seq_(lo + k - 1)])
Upward(size, Seq_(_)) == ForBytes(0, size - 1, Seq_)
Downward(hi, lo, Seq_(_)) == ForBytes(0, hi - lo, LAMBDA j : Seq_(hi - j))

TranslateVal(v) == IF IsConst(v) THEN Imm(v.v) ELSE Pseudo(v.n, 0)
IsUnsignedVal(v) == v.t \in UnsignedTypes
IsPointerVal(v)  == IsVar(v) /\ v.t = "ptr"

Hargs(k) == Data(HARGS, k)
CopyByte(src, dst) == <<Mov(src, RegA), Mov(RegA, dst)>>

(* A Mov whose operand is a volatile variable is marked, once the function *)
(* is translated.                                                          *)
MarkVolatileVarAccess(i) ==
  IF IsMov(i) /\ \E op \in {i.src, i.dst} : op.k = "pseudo" /\ op.n \in Volatile
    THEN [i EXCEPT !.vol = TRUE] ELSE i

----------------------------------------------------------------------------
TranslateCopy(s, d, size) ==
  Upward(size, LAMBDA k : <<Mov(ByteAt(s, k), ByteAt(d, k))>>)

TranslateSignExtend(s, d, from, to, id) ==
  TranslateCopy(s, d, from)
  \o <<Mov(ByteAt(s, from - 1), RegA), Branch("MI", <<"sx_neg", id>>),
       Mov(Imm(0), RegA), Jump(<<"sx_done", id>>),
       Label(<<"sx_neg", id>>), Mov(Imm(MaxByte), RegA), Label(<<"sx_done", id>>)>>
  \o ForBytes(from, to - 1, LAMBDA k : <<Mov(RegA, ByteAt(d, k))>>)

TranslateZeroExtend(s, d, from, to) ==
  TranslateCopy(s, d, from) \o ForBytes(from, to - 1, LAMBDA k : <<Mov(Imm(0), ByteAt(d, k))>>)

TranslateConvert(i, id) ==
  LET s == TranslateVal(i.a)  d == TranslateVal(i.dst)
      from == Width(i.a)      to == Width(i.dst)
  IN CASE i.o = "sext"  -> TranslateSignExtend(s, d, from, to, id)
       [] i.o = "zext"  -> TranslateZeroExtend(s, d, from, to)
       [] i.o = "trunc" -> TranslateCopy(s, d, to)

(* 0 or 1 in A by the flags, then zero-filled to the width of the result. *)
Select(cond, true, end) ==
  <<Branch(cond, true), Mov(Imm(0), RegA), Jump(end),
    Label(true), Mov(Imm(1), RegA), Label(end)>>
StoreCompareResult(d, size) ==
  <<Mov(RegA, d)>> \o ForBytes(1, size - 1, LAMBDA k : <<Mov(Imm(0), ByteAt(d, k))>>)

OrBytes(s, size) ==
  <<Mov(ByteAt(s, 0), RegA)>> \o ForBytes(1, size - 1, LAMBDA k : <<Or(ByteAt(s, k))>>)

TranslateLogicalNot(s, d, size, dsize, id) ==
  OrBytes(s, size) \o Select("EQ", <<"lnot_true", id>>, <<"lnot_end", id>>)
  \o StoreCompareResult(d, dsize)

TranslateUnary(o, a, dst, id) ==
  LET s == TranslateVal(a)  d == TranslateVal(dst)  size == Width(a)
      Byte1(k) == IF o = "com" THEN <<>> ELSE IF k = 0 THEN <<ClearCarry, Add(Imm(1))>>
                                                      ELSE <<Add(Imm(0))>>
  IN IF o = "lnot" THEN TranslateLogicalNot(s, d, size, Width(dst), id)
     ELSE Upward(size, LAMBDA k : <<Mov(ByteAt(s, k), RegA), Xor(Imm(MaxByte))>>
                                  \o Byte1(k) \o <<Mov(RegA, ByteAt(d, k))>>)

TranslateCondJump(c, l, cond) ==
  OrBytes(TranslateVal(c), Width(c)) \o <<Branch(cond, l)>>
TranslateJumpIfMasked(i) ==
  <<Mov(ByteAt(TranslateVal(i.a), 0), RegA), And(Imm(i.b.v)),
    Branch(IF i.o = "ne" THEN "NE" ELSE "EQ", i.to)>>

----------------------------------------------------------------------------
(* Byte by byte through A, Setup before the first byte. *)
Chain(s1, s2, d, size, Setup, Alu(_)) ==
  Upward(size, LAMBDA k : <<Mov(ByteAt(s1, k), RegA)>> \o (IF k = 0 THEN Setup ELSE <<>>)
                          \o <<Alu(ByteAt(s2, k)), Mov(RegA, ByteAt(d, k))>>)
(* The same without a result: the flags of the last byte are what counts. *)
Difference(l, r, size) ==
  <<Mov(ByteAt(l, 0), RegA), SetCarry, Sub(ByteAt(r, 0))>>
  \o ForBytes(1, size - 1, LAMBDA k : <<Mov(ByteAt(l, k), RegA), Sub(ByteAt(r, k))>>)
(* N after a signed subtraction, V being the overflow. *)
SignOfDifference(l, r, size, novf) ==
  Difference(l, r, size) \o <<Branch("VC", novf), Xor(Imm(SignBit)), Label(novf)>>

TranslateEquality(s1, s2, d, size, cond, dsize, id) ==
  (IF size = 1 THEN <<Mov(s1, RegA), Compare(RegA, s2)>>
   ELSE Downward(size - 1, 1, LAMBDA k : <<Mov(ByteAt(s1, k), RegA), Compare(RegA, ByteAt(s2, k)),
                                           Branch("NE", <<"cmp_differ", id>>)>>)
        \o <<Mov(ByteAt(s1, 0), RegA), Compare(RegA, ByteAt(s2, 0)), Label(<<"cmp_differ", id>>)>>)
  \o Select(cond, <<"cmp_true", id>>, <<"cmp_end", id>>) \o StoreCompareResult(d, dsize)

TranslateSignedOrdering(l, r, d, size, cond, dsize, id) ==
  SignOfDifference(l, r, size, <<"cmp_novf", id>>)
  \o Select(cond, <<"cmp_true", id>>, <<"cmp_end", id>>) \o StoreCompareResult(d, dsize)
TranslateUnsignedOrdering(l, r, d, size, cond, dsize, id) ==
  Difference(l, r, size)
  \o Select(cond, <<"cmp_true", id>>, <<"cmp_end", id>>) \o StoreCompareResult(d, dsize)

(* < and >= compare as written, > and <= with the sides exchanged. *)
Exchanged(o) == o \in {"gt", "le"}
OrderingCond(o, unsigned) ==
  IF o \in {"lt", "gt"} THEN (IF unsigned THEN "CC" ELSE "MI")
                        ELSE (IF unsigned THEN "CS" ELSE "PL")
TranslateOrdering(o, s1, s2, d, size, dsize, unsigned, id) ==
  LET l == IF Exchanged(o) THEN s2 ELSE s1
      r == IF Exchanged(o) THEN s1 ELSE s2
  IN IF unsigned
       THEN TranslateUnsignedOrdering(l, r, d, size, OrderingCond(o, TRUE), dsize, id)
       ELSE TranslateSignedOrdering(l, r, d, size, OrderingCond(o, FALSE), dsize, id)

(* Inline shifts: by one, and by whole bytes. *)
InlineLeftShiftByOne(s, d, size) ==
  Upward(size, LAMBDA k : <<Mov(ByteAt(s, k), ByteAt(d, k)),
                            IF k = 0 THEN Asl(ByteAt(d, k)) ELSE Rol(ByteAt(d, k))>>)
InlineRightShiftByOne(s, d, size, signed) ==
  <<Mov(ByteAt(s, size - 1), ByteAt(d, size - 1))>>
  \o (IF signed THEN <<Mov(ByteAt(d, size - 1), RegA), Asl(RegA), Ror(ByteAt(d, size - 1))>>
                ELSE <<Lsr(ByteAt(d, size - 1))>>)
  \o Downward(size - 2, 0, LAMBDA k : <<Mov(ByteAt(s, k), ByteAt(d, k)), Ror(ByteAt(d, k))>>)
InlineLeftShiftByteAligned(s, d, size, n) ==
  Downward(size - 1, 0, LAMBDA k : <<Mov(IF k < n THEN Imm(0) ELSE ByteAt(s, k - n), ByteAt(d, k))>>)
InlineRightShiftByteAligned(s, d, size, n) ==
  Upward(size, LAMBDA k : <<Mov(IF k + n < size THEN ByteAt(s, k + n) ELSE Imm(0), ByteAt(d, k))>>)

(* A constant count, of a type wider than a char; -1 when there is none. *)
ShiftCountConst(v) == IF IsConst(v) /\ v.t \notin {"char", "schar", "uchar"} /\ v.v >= 0
                        THEN v.v ELSE -1

(* Operands to HARGS, the call, the result from HARGS. *)
HelperInputs(s1, n1, s2, n2) ==
  Upward(n1, LAMBDA k : CopyByte(ByteAt(s1, k), Hargs(k)))
  \o Upward(n2, LAMBDA k : CopyByte(ByteAt(s2, k), Hargs(n1 + k)))
TranslateHelperCall(s1, n1, s2, n2, f, d) ==
  HelperInputs(s1, n1, s2, n2) \o <<Call(f, {})>>
  \o Upward(f[2], LAMBDA k : CopyByte(Hargs(f[3] + k), ByteAt(d, k)))

TranslateShift(i, id) ==
  LET s1 == TranslateVal(i.a)  s2 == TranslateVal(i.b)  d == TranslateVal(i.dst)
      size == Width(i.a)       unsigned == IsUnsignedVal(i.a)
      n == ShiftCountConst(i.b)
      bytes == n > 0 /\ n % ByteBits = 0 /\ n < size * ByteBits
  IN CASE n = 1 /\ i.o = "shl" -> InlineLeftShiftByOne(s1, d, size)
       [] n = 1 /\ i.o = "shr" -> InlineRightShiftByOne(s1, d, size, ~unsigned)
       [] bytes /\ i.o = "shl" -> InlineLeftShiftByteAligned(s1, d, size, n \div ByteBits)
       [] bytes /\ i.o = "shr" /\ unsigned ->
            InlineRightShiftByteAligned(s1, d, size, n \div ByteBits)
       [] OTHER -> TranslateHelperCall(s1, size, s2, 1,
                     <<IF i.o = "shl" THEN "asl" ELSE IF unsigned THEN "lsr" ELSE "asr",
                       size, size + 1>>, d)

TranslateBinary(i, id) ==
  LET s1 == TranslateVal(i.a)  s2 == TranslateVal(i.b)  d == TranslateVal(i.dst)
      size == Width(i.a)       dsize == Width(i.dst)
      Helper(f, out) == TranslateHelperCall(s1, size, s2, size, <<f, size, out>>, d)
      sign == IF IsUnsignedVal(i.a) THEN "u" ELSE "s"
  IN CASE i.o = "add" -> Chain(s1, s2, d, size, <<ClearCarry>>, Add)
       [] i.o = "sub" -> Chain(s1, s2, d, size, <<SetCarry>>, Sub)
       [] i.o = "and" -> Chain(s1, s2, d, size, <<>>, And)
       [] i.o = "or"  -> Chain(s1, s2, d, size, <<>>, Or)
       [] i.o = "xor" -> Chain(s1, s2, d, size, <<>>, Xor)
       [] i.o = "mul" -> Helper("mul", 2 * size)
       [] i.o = "div" -> Helper(IF sign = "u" THEN "udiv" ELSE "sdiv", 2 * size)
       [] i.o = "mod" -> Helper(IF sign = "u" THEN "umod" ELSE "smod", 3 * size)
       [] i.o \in {"shl", "shr"} -> TranslateShift(i, id)
       [] i.o = "eq"  -> TranslateEquality(s1, s2, d, size, "EQ", dsize, id)
       [] i.o = "ne"  -> TranslateEquality(s1, s2, d, size, "NE", dsize, id)
       [] OTHER       -> TranslateOrdering(i.o, s1, s2, d, size, dsize,
                                           IsUnsignedVal(i.a) \/ IsUnsignedVal(i.b), id)

----------------------------------------------------------------------------
(* Fused compare and branch. *)
JcmpEquality(s1, s2, size, l, onEq, id) ==
  LET Test(k, cond, to) == <<Mov(ByteAt(s1, k), RegA), Compare(RegA, ByteAt(s2, k)), Branch(cond, to)>>
  IN IF ~onEq THEN Downward(size - 1, 0, LAMBDA k : Test(k, "NE", l))
     ELSE IF size = 1 THEN Test(0, "EQ", l)
     ELSE Downward(size - 1, 1, LAMBDA k : Test(k, "NE", <<"jcmp_skip", id>>))
          \o Test(0, "EQ", l) \o <<Label(<<"jcmp_skip", id>>)>>
JcmpUnsignedOrdering(l, r, size, cond, to) ==
  (IF size = 1 THEN <<Mov(l, RegA), Compare(RegA, r)>> ELSE Difference(l, r, size))
  \o <<Branch(cond, to)>>
(* Against a literal zero only the sign byte matters. *)
JcmpSignedOrdering(l, r, size, cond, to, id) ==
  IF r = Imm(0) THEN <<Mov(ByteAt(l, size - 1), RegA), Branch(cond, to)>>
  ELSE SignOfDifference(l, r, size, <<"jcmp_novf", id>>) \o <<Branch(cond, to)>>
TranslateJumpIfCmp(i, id) ==
  LET s1 == TranslateVal(i.a)  s2 == TranslateVal(i.b)  size == Width(i.a)
      unsigned == \E v \in {i.a, i.b} : IsUnsignedVal(v) \/ IsPointerVal(v)
      l == IF Exchanged(i.o) THEN s2 ELSE s1
      r == IF Exchanged(i.o) THEN s1 ELSE s2
  IN CASE i.o = "eq" -> JcmpEquality(s1, s2, size, i.to, TRUE, id)
       [] i.o = "ne" -> JcmpEquality(s1, s2, size, i.to, FALSE, id)
       [] unsigned /\ i.o \notin {"eq", "ne"} ->
            JcmpUnsignedOrdering(l, r, size, OrderingCond(i.o, TRUE), i.to)
       [] OTHER -> JcmpSignedOrdering(l, r, size, OrderingCond(i.o, FALSE), i.to, id)

----------------------------------------------------------------------------
(* Pointers: the address staged in DPTR, the bytes through (DPTR),Y; an    *)
(* index of one byte in X or Y.                                            *)
StageDptr(p) == CopyByte(ByteAt(p, 0), Data(DPTR, 0)) \o CopyByte(ByteAt(p, 1), Data(DPTR, 1))
TranslateLoad(p, d, size, vol) ==
  StageDptr(p) \o Upward(size, LAMBDA k : <<MovV(Indirect(k), RegA, vol), Mov(RegA, ByteAt(d, k))>>)
TranslateStore(s, p, size, vol) ==
  StageDptr(p) \o Upward(size, LAMBDA k : <<Mov(ByteAt(s, k), RegA), MovV(RegA, Indirect(k), vol)>>)
TranslateGetAddress(n, d, static) ==
  IF static THEN <<Mov(ImmLabelLow(n, 0), ByteAt(d, 0)), Mov(ImmLabelHigh(n, 0), ByteAt(d, 1))>>
  ELSE <<LoadAddress(Pseudo(n, 0), d)>>
IndexTo(index, reg) == <<Mov(index, RegA), Mov(RegA, reg)>>
TranslateIndexedLoad(n, index, d, size, vol) ==
  IndexTo(index, RegX) \o Upward(size, LAMBDA k : <<MovV(IndexedX(n, k), ByteAt(d, k), vol)>>)
TranslateIndexedSymbolStore(n, index, s, size, vol) ==
  IndexTo(index, RegX)
  \o Upward(size, LAMBDA k : <<Mov(ByteAt(s, k), RegA), MovV(RegA, IndexedX(n, k), vol)>>)
TranslateIndexedConstLoad(n, index, d, vol) ==
  IndexTo(index, RegX) \o <<MovV(IndexedX(n, 0), RegA, vol), Mov(RegA, d)>>
TranslateIndexedStore(n, index, s, vol) ==
  IndexTo(index, RegX) \o <<Mov(s, RegA), MovV(RegA, IndexedX(n, 0), vol)>>
TranslateIndirectIndexedLoad(p, index, d, vol) ==
  StageDptr(p) \o IndexTo(index, RegY) \o <<MovV(IndirectY, RegA, vol), Mov(RegA, d)>>
TranslateIndirectIndexedStore(p, index, s, vol) ==
  StageDptr(p) \o <<Mov(s, RegA), Push>> \o IndexTo(index, RegY)
  \o <<Pop, MovV(RegA, IndirectY, vol)>>

(* Calls: the argument in its slot or its register, the result from A, X.  *)
EmitZpArgWrites(f, args) ==
  IF args = <<>> THEN <<>>
  ELSE LET src == ByteAt(TranslateVal(args[1]), 0) IN
       CASE f[2] = "slot" -> <<Mov(src, Data(SlotOf(f), 0))>>
         [] f[2] = "A"    -> <<Mov(src, RegA)>>
         [] OTHER         -> <<Mov(src, RegA), Mov(RegA, RegOf(f[2]))>>
CaptureRegReturn(d, size) ==
  <<Mov(RegA, ByteAt(d, 0))>> \o (IF size >= 2 THEN <<Mov(RegX, ByteAt(d, 1))>> ELSE <<>>)
TranslateFunctionCall(i) ==
  EmitZpArgWrites(i.to, i.args)
  \o <<Call(i.to, {i.to[2]} \cap Regs)>>
  \o (IF i.dst = NoVal THEN <<>> ELSE CaptureRegReturn(TranslateVal(i.dst), Width(i.dst)))

(* A char comes back in A, an int in A and X, anything else in HARGS. *)
RetHargsOffset(size) == IF size = 2 THEN 0 ELSE 2 * size
TranslateRet(v) ==
  LET s == TranslateVal(v) IN
  IF v = NoVal THEN <<Return({})>>
  ELSE CASE Width(v) = 1 -> <<Mov(ByteAt(s, 0), RegA), Return({"A"})>>
         [] v.t \in {"int", "uint"} -> <<Mov(ByteAt(s, 1), RegA), Mov(RegA, RegX), Mov(ByteAt(s, 0), RegA),
                              Return({"A", "X"})>>
         [] OTHER -> Upward(Width(v), LAMBDA k : CopyByte(ByteAt(s, k), Hargs(RetHargsOffset(Width(v)) + k)))
                     \o <<Return({})>>

TranslateInstruction(i, id, statics) ==
  LET a == TranslateVal(i.a)  b == TranslateVal(i.b)  d == TranslateVal(i.dst)
  IN CASE i.op = "ret"     -> TranslateRet(i.a)
       [] i.op = "convert" -> TranslateConvert(i, id)
       [] i.op = "unary"   -> TranslateUnary(i.o, i.a, i.dst, id)
       [] i.op = "binary"  -> TranslateBinary(i, id)
       [] i.op = "copy"    -> TranslateCopy(a, d, Width(i.a))
       [] i.op = "jump"    -> <<Jump(i.to)>>
       [] i.op = "label"   -> <<Label(i.to)>>
       [] i.op = "jtrue"   -> TranslateCondJump(i.a, i.to, "NE")
       [] i.op = "jfalse"  -> TranslateCondJump(i.a, i.to, "EQ")
       [] i.op = "jcmp"    -> TranslateJumpIfCmp(i, id)
       [] i.op = "jmask"   -> TranslateJumpIfMasked(i)
       [] i.op = "call"    -> TranslateFunctionCall(i)
       [] i.op = "addr"    -> TranslateGetAddress(i.a.n, d, i.a.n \in statics)
       [] i.op = "load"    -> TranslateLoad(a, d, Width(i.dst), i.vol)
       [] i.op = "store"   -> TranslateStore(a, b, Width(i.a), i.vol)
       [] i.op = "idxload"  -> TranslateIndexedLoad(i.to, a, d, Width(i.dst), i.vol)
       [] i.op = "idxstore" -> TranslateIndexedSymbolStore(i.to, b, a, Width(i.a), i.vol)
       [] i.op = "absload"  -> TranslateIndexedConstLoad(i.to, a, d, i.vol)
       [] i.op = "absstore" -> TranslateIndexedStore(i.to, b, a, i.vol)
       [] i.op = "indload"  -> TranslateIndirectIndexedLoad(a, b, d, i.vol)
       [] i.op = "indstore" -> TranslateIndirectIndexedStore(TranslateVal(i.args[1]), b, a, i.vol)

(* The register parameters go to their slots first.  fn.params is the      *)
(* sequence of the bytes of the parameters, each with its register, or "". *)
EntrySpills(fn) ==
  ForBytes(1, Len(fn.params), LAMBDA k :
    IF fn.params[k].reg = "" THEN <<>>
    ELSE <<Mov(RegOf(fn.params[k].reg), Data(<<"zpabi", fn.name, k - 1>>, 0))>>)
TranslateFunction(fn, p) ==
  Map(MarkVolatileVarAccess,
      EntrySpills(fn) \o ForBytes(1, Len(p), LAMBDA k : TranslateInstruction(p[k], k, fn.statics)))
=============================================================================
