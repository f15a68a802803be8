------------------------------ MODULE Machine ------------------------------
(***************************************************************************)
(* The 6502 as asm_emit.py and the assembler use it, with bytes of         *)
(* ByteBits bits: what a list of asm instructions does to the registers,   *)
(* the flags, the hardware stack and memory.  Every instruction is run as  *)
(* the opcodes asm_emit prints for it, A and Y being clobbered where those *)
(* go through them.                                                        *)
(*                                                                         *)
(* A memory cell is <<name, offset>>.  Objects is the sequence of the      *)
(* names whose address is taken, each on a page of its own: the pointer    *)
(* k * ByteSize + j is the cell <<Objects[k], j>>.  A read of a cell of a  *)
(* Volatile name returns another value the next time, and is recorded, as  *)
(* is a write.                                                             *)
(***************************************************************************)
EXTENDS AsmIR

CONSTANTS ByteBits,   \* the width of a byte
          Objects,    \* the names that have an address
          Volatile,   \* the names whose accesses are observable
          Fuel        \* a run takes at most 2^Fuel instructions
ASSUME MachineAssumption ==
  /\ ByteBits \in Nat \ {0, 1}
  /\ Fuel \in Nat

ByteSize == 2^ByteBits
Byte     == 0..(ByteSize - 1)
SignBit  == ByteSize \div 2
MaxByte  == ByteSize - 1

Bit(v, k) == (v \div 2^k) % 2
(* Bitwise operations, by tables of half a byte. *)
HalfBits == (ByteBits + 1) \div 2
HalfSize == 2^HalfBits
HalfTable(f(_, _)) ==
  [a \in 0..HalfSize - 1, b \in 0..HalfSize - 1 |->
     LET r[k \in 0..HalfBits] ==
           IF k = 0 THEN 0 ELSE r[k - 1] + 2^(k - 1) * f(Bit(a, k - 1), Bit(b, k - 1))
     IN r[HalfBits]]
AndTable == HalfTable(LAMBDA x, y : x * y)
OrTable  == HalfTable(LAMBDA x, y : x + y - x * y)
XorTable == HalfTable(LAMBDA x, y : (x + y) % 2)
ByHalves(t, a, b) == HalfSize * t[a \div HalfSize, b \div HalfSize] + t[a % HalfSize, b % HalfSize]
BitAnd(a, b) == ByHalves(AndTable, a, b)
BitOr(a, b)  == ByHalves(OrTable, a, b)
BitXor(a, b) == ByHalves(XorTable, a, b)

PageOf(n)    == CHOOSE k \in DOMAIN Objects : Objects[k] = n
AddressOf(n) == PageOf(n) * ByteSize
(* The cell at an address; an address of no object is a cell of its own. *)
CellAt(a) == IF a \div ByteSize \in DOMAIN Objects
               THEN <<Objects[a \div ByteSize], a % ByteSize>>
               ELSE <<<<"nowhere">>, a % ByteSize^2>>

----------------------------------------------------------------------------
(* Where the memory operand is, in state s. *)
Fetch(s, c) == IF c \in DOMAIN s.mem THEN s.mem[c] ELSE 0
Dptr(s) == Fetch(s, <<DPTR, 0>>) + ByteSize * Fetch(s, <<DPTR, 1>>)
(* The slots of a function lie in a row: the byte after one is the next    *)
(* slot.  A slot whose address is taken is one object, <<"abs", a>> the     *)
(* address a.                                                              *)
Place(n, o) ==
  CASE n[1] = "abs" -> CellAt(n[2] + o)
    [] n[1] \in {"zpabi", "local"} /\ Len(n) = 3 /\ n[3] >= 0 -> <<<<n[1], n[2], n[3] + o>>, 0>>
    [] OTHER -> <<n, o>>
(* A pointer in the zero page, from the byte a slot is named for. *)
SlotByte(n, k) == IF n[1] = "zp" THEN <<HARGS, n[3] - 32 + k>> ELSE Place(n, k)
SlotPointer(s, n) == Fetch(s, SlotByte(n, 0)) + ByteSize * Fetch(s, SlotByte(n, 1))
Cell(s, op) ==
  CASE op.k \in {"pseudo", "data"} -> Place(op.n, op.o)
    [] op.k = "zp"     -> <<<<"zp">>, op.o>>
    [] op.k = "frame"  -> <<<<"frame">>, op.o>>
    [] op.k = "ind"    -> CellAt(Dptr(s) + op.o)
    [] op.k = "indY"   -> CellAt(Dptr(s) + s.Y)
    [] op.k = "indZp"  -> CellAt(SlotPointer(s, op.n) + op.o)
    [] op.k = "indZpY" -> CellAt(SlotPointer(s, op.n) + s.Y)
    [] op.k = "idxX"   -> Place(op.n, op.o + s.X)
    [] op.k = "idxY"   -> Place(op.n, op.o + s.Y)

Value(s, op) ==
  CASE IsReg(op)        -> s[op.k]
    [] op.k = "imm"     -> op.o % ByteSize
    [] op.k = "immLo"   -> (AddressOf(op.n) + op.o) % ByteSize
    [] op.k = "immHi"   -> ((AddressOf(op.n) + op.o) \div ByteSize) % ByteSize
    [] OTHER            -> Fetch(s, Cell(s, op))

(* The LDY #offset that precedes an access through a pointer or the frame. *)
WithY(s, op) ==
  IF op.k \in {"frame", "ind", "indZp"}
    THEN [s EXCEPT !.Y = op.o % ByteSize, !.Z = (op.o % ByteSize = 0),
                   !.N = (op.o % ByteSize >= SignBit)]
    ELSE s

(* What an access to a volatile cell leaves behind. *)
ReadCell(s, c) ==
  IF c[1] \in Volatile
    THEN [s EXCEPT !.mem = (c :> (Fetch(s, c) + 1) % ByteSize) @@ @,
                   !.log = Append(@, <<"read", c>>)]
    ELSE s
ReadEffect(s, op) ==
  IF IsReg(op) \/ IsImm(op) \/ IsImmLabel(op) THEN s ELSE ReadCell(s, Cell(s, op))
WriteCell(s, c, v) ==
  [s EXCEPT !.mem = (c :> v) @@ @,
            !.log = IF c[1] \in Volatile THEN Append(@, <<"write", c, v>>) ELSE @]
Write(s, op, v) == WriteCell(s, Cell(s, op), v)

SetNZ(s, v) == [s EXCEPT !.Z = (v = 0), !.N = (v >= SignBit)]

Take(s, r, v) == SetNZ([s EXCEPT ![r] = v], v)
LoadFrom(s, r, op) == Take(ReadEffect(s, op), r, Value(s, op))
Load(s, r, op)  == LoadFrom(WithY(s, op), r, op)
Store(s, r, op) == Write(WithY(s, op), op, s[r])

(* Mov: nothing at all when source and destination are the same operand,   *)
(* one opcode when there is one, otherwise through A.                      *)
Direct(src, dst) == "A" \in {src.k, dst.k} \/ dst.k \in {"pseudo", "data", "zp"}
MoveTo(s, r, dst) == IF IsReg(dst) THEN Take(s, dst.k, s[r]) ELSE Store(s, r, dst)
DoMov(s, src, dst) ==
  CASE src = dst -> s
    [] src # dst /\ ~IsReg(src) /\ IsReg(dst) -> Load(s, dst.k, src)
    [] src # dst /\ IsReg(src) /\ Direct(src, dst) -> MoveTo(s, src.k, dst)
    [] OTHER -> MoveTo(Load(s, "A", src), "A", dst)
RECURSIVE DoMovs(_, _)
DoMovs(s, moves) ==
  IF moves = <<>> THEN s ELSE DoMovs(DoMov(s, moves[1][1], moves[1][2]), Tail(moves))

----------------------------------------------------------------------------
Carry(s) == IF s.C THEN 1 ELSE 0

DoAdd(s, v) ==
  LET sum == s.A + v + Carry(s)
      r   == sum % ByteSize
  IN SetNZ([s EXCEPT !.A = r, !.C = (sum >= ByteSize),
              !.V = ((s.A >= SignBit) = (v >= SignBit)
                     /\ (s.A >= SignBit) # (r >= SignBit))], r)

BitOp(o, x, y) ==
  CASE o = "and" -> BitAnd(x, y) [] o = "or" -> BitOr(x, y) [] o = "xor" -> BitXor(x, y)
AluWith(s, op, v) ==
  CASE op = "add" -> DoAdd(s, v)
    [] op = "sub" -> DoAdd(s, MaxByte - v)
    [] OTHER      -> Take(s, "A", BitOp(op, s.A, v))
AluFrom(s, op, src) == AluWith(ReadEffect(s, src), op, Value(s, src))
DoAlu(s, op, src)   == AluFrom(WithY(s, src), op, src)

CompareWith(s, l, r) == SetNZ([s EXCEPT !.C = (l >= r)], (l - r + ByteSize) % ByteSize)
CompareFrom(s, l, right) == CompareWith(ReadEffect(s, right), l, Value(s, right))
DoCompare(s, left, right) == CompareFrom(WithY(s, right), Value(s, left), right)

DoBit(s, src) ==
  LET v == Value(s, src) IN
  [ReadEffect(s, src) EXCEPT !.Z = (BitAnd(s.A, v) = 0), !.N = (v >= SignBit),
                             !.V = (Bit(v, ByteBits - 2) = 1)]

(* A register or a cell takes the value v, and the flags say what it is. *)
Put(s, dst, v) ==
  SetNZ(IF IsReg(dst) THEN [s EXCEPT ![dst.k] = v] ELSE Write(s, dst, v), v)

DoIncDec(s, op, dst) ==
  Put(s, dst, (Value(s, dst) + (IF op = "inc" THEN 1 ELSE MaxByte)) % ByteSize)

DoShift(s, op, dst) ==
  LET v    == Value(s, dst)
      left == op \in {"asl", "rol"}
      cin  == IF op \in {"rol", "ror"} THEN Carry(s) ELSE 0
      out  == IF left THEN v >= SignBit ELSE v % 2 = 1
      r    == IF left THEN ((2 * v) % ByteSize) + cin
                      ELSE (v \div 2) + cin * SignBit
  IN Put([s EXCEPT !.C = out], dst, r)

(* LoadAddress of a symbol, or of a byte of the frame: both halves of its  *)
(* address, through A.                                                     *)
DoLoadAddress(s, src, dst) ==
  LET n == IF src.k = "frame" THEN <<"frame">> ELSE src.n
  IN DoMovs(s, <<<<ImmLabelLow(n, src.o), RegA>>, <<RegA, dst>>,
                 <<ImmLabelHigh(n, src.o), RegA>>, <<RegA, NextByte(dst)>>>>)

(* The frame: the bytes the function must preserve go to its first cells   *)
(* and come back from there; the arithmetic on the stack pointer is done   *)
(* in A, and X and A carry the result over the teardown.                   *)
DoPrologue(s, saved) ==
  DoMovs([s EXCEPT !.A = MaxByte, !.Y = 1, !.C = TRUE, !.Z = FALSE, !.N = TRUE],
         [k \in DOMAIN saved |-> <<saved[k].src, Frame(k)>>])
Leave(s, t, regs) ==
  [t EXCEPT !.A = IF "A" \in regs THEN s.A ELSE MaxByte, !.done = TRUE, !.ret = regs,
            !.X = IF "X" \in regs THEN s.X ELSE MaxByte]
DoRet(s, saved, regs) ==
  Leave(s, DoMovs(s, [k \in DOMAIN saved |-> <<Frame(k), saved[k].src>>]), regs)

Taken(s, c) ==
  CASE c = "CC" -> ~s.C [] c = "CS" -> s.C
    [] c = "EQ" -> s.Z  [] c = "NE" -> ~s.Z
    [] c = "MI" -> s.N  [] c = "PL" -> ~s.N
    [] c = "VC" -> ~s.V [] c = "VS" -> s.V
----------------------------------------------------------------------------
(* The runtime helpers read their operands from HARGS, low byte first, and *)
(* leave the result behind them; the registers are theirs.  A helper is    *)
(* <<operation, operand size, offset of the result>>.                      *)
Word(s, n, o, size) ==
  LET w[k \in 0..size] ==
        IF k = 0 THEN 0 ELSE w[k - 1] + ByteSize^(k - 1) * Fetch(s, Place(n, o + k - 1))
  IN w[size]
Modulus(size) == ByteSize^size
Signed(v, size) == IF 2 * v >= Modulus(size) THEN v - Modulus(size) ELSE v
Wrap(v, size) == v % Modulus(size)
Magnitude(v) == IF v < 0 THEN -v ELSE v

QuotientS(a, b) == LET q == Magnitude(a) \div Magnitude(b)
                   IN IF (a < 0) # (b < 0) THEN -q ELSE q
RemainderS(a, b) == LET r == Magnitude(a) % Magnitude(b) IN IF a < 0 THEN -r ELSE r

Arith(op, a, b, size) ==
  CASE op = "mul"  -> Wrap(a * b, size)
    [] op = "udiv" -> IF b = 0 THEN 0 ELSE a \div b
    [] op = "umod" -> IF b = 0 THEN 0 ELSE a % b
    [] op = "sdiv" -> IF b = 0 THEN 0 ELSE Wrap(QuotientS(Signed(a, size), Signed(b, size)), size)
    [] op = "smod" -> IF b = 0 THEN 0 ELSE Wrap(RemainderS(Signed(a, size), Signed(b, size)), size)
    [] op = "asl"  -> IF b >= ByteBits * size THEN 0 ELSE Wrap(a * 2^b, size)
    [] op = "lsr"  -> IF b >= ByteBits * size THEN 0 ELSE a \div 2^b
    [] op = "asr"  -> Wrap(Signed(a, size) \div 2^(IF b >= ByteBits * size THEN ByteBits * size ELSE b), size)

WriteWord(mem, n, o, size, v) ==
  [c \in {<<n, o + k>> : k \in 0..size - 1} |-> (v \div ByteSize^(c[2] - o)) % ByteSize] @@ mem

IsHelper(f) == f[1] \in {"mul", "udiv", "umod", "sdiv", "smod", "asl", "lsr", "asr"}
HelperCall(s, f) ==
  LET size == f[2]
      b    == IF f[1] \in {"asl", "lsr", "asr"} THEN Fetch(s, <<HARGS, size>>)
                                                ELSE Word(s, HARGS, size, size)
      r    == Arith(f[1], Word(s, HARGS, 0, size), b, size)
  IN [s EXCEPT !.A = MaxByte, !.X = MaxByte, !.Y = 0, !.C = TRUE, !.Z = FALSE,
               !.mem = WriteWord(@, HARGS, f[3], size, r)]

(* A function of another translation unit: <<"f", where its argument is>>. *)
(* It records the argument, returns its successor in A, and uses X, Y, the *)
(* flags and its own parameter slot as it likes.                           *)
SlotOf(f) == <<"zpabi", f[1], 0>>
FunctionCall(s, f) ==
  LET arg == IF f[2] = "slot" THEN Fetch(s, <<SlotOf(f), 0>>) ELSE s[f[2]]
      ret == (arg + 1) % ByteSize
  IN [s EXCEPT !.A = ret, !.X = MaxByte, !.Y = MaxByte, !.C = FALSE, !.Z = FALSE,
               !.log = Append(@, <<"call", <<f, arg>>>>),
               !.mem = (<<SlotOf(f), 0>> :> MaxByte) @@ @]

DoCall(s, f) == IF IsHelper(f) THEN HelperCall(s, f) ELSE FunctionCall(s, f)

----------------------------------------------------------------------------
(* One instruction of p, lab being where its labels are. *)
Step(p, lab, s) ==
  LET i == p[s.pc]
      t == [s EXCEPT !.pc = @ + 1]
  IN CASE i.op = "mov"   -> DoMov(t, i.src, i.dst)
       [] IsAlu(i)       -> DoAlu(t, i.op, i.src)
       [] i.op = "label" -> t
       [] IsBranch(i)    -> IF Taken(t, i.op) THEN [t EXCEPT !.pc = lab[i.to]] ELSE t
       [] i.op = "cmp"   -> DoCompare(t, i.dst, i.src)
       [] i.op = "clc"   -> [t EXCEPT !.C = FALSE]
       [] i.op = "sec"   -> [t EXCEPT !.C = TRUE]
       [] IsIncDec(i)    -> DoIncDec(t, i.op, i.dst)
       [] IsShift(i)     -> DoShift(t, i.op, i.dst)
       [] i.op = "jmp"   -> IF i.to \in DOMAIN lab THEN [t EXCEPT !.pc = lab[i.to]]
                            ELSE [DoCall(t, i.to) EXCEPT !.done = TRUE, !.ret = {"A"}]
       [] i.op = "rts"   -> [t EXCEPT !.done = TRUE, !.ret = i.regs]
       [] i.op = "prologue" -> DoPrologue(t, i.args)
       [] i.op = "ret"   -> DoRet(t, i.args, i.regs)
       [] i.op = "call"  -> DoCall(t, i.to)
       [] i.op = "lea"   -> DoLoadAddress(t, i.src, i.dst)
       [] i.op = "push"  -> [t EXCEPT !.st = Append(@, t.A)]
       [] i.op = "pop"   -> IF t.st = <<>> THEN [t EXCEPT !.done = TRUE, !.ret = {"underflow"}]
                            ELSE SetNZ([t EXCEPT !.A = t.st[Len(t.st)],
                                          !.st = SubSeq(@, 1, Len(@) - 1)], t.st[Len(t.st)])
       [] i.op = "bit"   -> DoBit(t, i.src)

RECURSIVE RunFor(_, _, _, _)
RunFor(n, p, lab, s) ==   \* at most 2^n instructions
  IF s.done \/ s.pc > Len(p) THEN s
  ELSE IF n = 0 THEN Step(p, lab, s)
  ELSE RunFor(n - 1, p, lab, RunFor(n - 1, p, lab, s))

(* The registers and the flags hold anything when a function is entered,   *)
(* but for the arguments in them.                                          *)
Entry(mem, regs) ==
  [pc |-> 1, A |-> regs.A, X |-> regs.X, Y |-> regs.Y, C |-> TRUE, Z |-> FALSE,
   N |-> TRUE, V |-> TRUE, st |-> <<>>, mem |-> mem, log |-> <<>>,
   done |-> FALSE, ret |-> {}]
Run(p, mem, regs) ==
  RunFor(Fuel, p, [l \in LabelsIn(p) |-> LabelIndex(p, l)], Entry(mem, regs))
=============================================================================
