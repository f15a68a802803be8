------------------------------- MODULE AsmIR -------------------------------
(***************************************************************************)
(* The assembly IR (asm.asdl): what tac_to_asm.py emits, the asm optimizer *)
(* and the peepholes rewrite, and asm_emit.py prints.                      *)
(*                                                                         *)
(* An operand is a record [k, n, o]: its class, a name and an offset (the  *)
(* value, for an immediate).  Names and labels are tuples, so that the     *)
(* passes can derive fresh ones.  An instruction is a record of one shape  *)
(* for every class, so that two programs compare with =.                   *)
(***************************************************************************)
EXTENDS Integers, Sequences, FiniteSets, TLC

Op(k, n, o) == [k |-> k, n |-> n, o |-> o]

None  == Op("none", <<>>, 0)
RegA  == Op("A", <<>>, 0)
RegX  == Op("X", <<>>, 0)
RegY  == Op("Y", <<>>, 0)
RegOf(r) == Op(r, <<>>, 0)
Imm(v)        == Op("imm", <<>>, v)
Pseudo(n, o)  == Op("pseudo", n, o)
Data(n, o)    == Op("data", n, o)
ZP(a)         == Op("zp", <<>>, a)
Frame(o)      == Op("frame", <<>>, o)
Indirect(o)   == Op("ind", <<>>, o)
IndirectY     == Op("indY", <<>>, 0)
IndirectZp(a, o) == Op("indZp", a, o)
IndirectZpY(a)   == Op("indZpY", a, 0)
ImmLabelLow(n, o)  == Op("immLo", n, o)
ImmLabelHigh(n, o) == Op("immHi", n, o)
IndexedX(n, o) == Op("idxX", n, o)
IndexedY(n, o) == Op("idxY", n, o)

(* The runtime's bytes that the code names. *)
DPTR  == <<"DPTR">>
HARGS == <<"HARGS">>

Regs == {"A", "X", "Y"}
Conditions == {"CC", "CS", "EQ", "MI", "NE", "PL", "VC", "VS"}
IsReg(op)     == op.k \in Regs
IsImm(op)     == op.k = "imm"
IsDataOrZp(op) == op.k \in {"data", "zp"}
IsImmLabel(op) == op.k \in {"immLo", "immHi"}
IsIndexed(op) == op.k \in {"idxX", "idxY"}
(* asm_emit's "memory operand": every one but the indexed one.  A Pseudo   *)
(* is memory too until it gets its home.                                   *)
IsMemory(op)  == op.k \in {"pseudo", "data", "zp", "frame", "ind", "indY", "indZp", "indZpY"}

----------------------------------------------------------------------------
Instr(op, src, dst) ==
  [op |-> op, src |-> src, dst |-> dst, vol |-> FALSE, to |-> <<>>,
   regs |-> {}, args |-> <<>>]

Mov(s, d)      == Instr("mov", s, d)
MovV(s, d, v)  == [Mov(s, d) EXCEPT !.vol = v]
Add(s)         == Instr("add", s, RegA)
Sub(s)         == Instr("sub", s, RegA)
And(s)         == Instr("and", s, RegA)
Or(s)          == Instr("or", s, RegA)
Xor(s)         == Instr("xor", s, RegA)
ClearCarry     == Instr("clc", None, None)
SetCarry       == Instr("sec", None, None)
Inc(d)         == Instr("inc", None, d)
Dec(d)         == Instr("dec", None, d)
Push           == Instr("push", RegA, None)
Pop            == Instr("pop", None, RegA)
Asl(d)         == Instr("asl", None, d)
Lsr(d)         == Instr("lsr", None, d)
Rol(d)         == Instr("rol", None, d)
Ror(d)         == Instr("ror", None, d)
Compare(l, r)  == Instr("cmp", r, l)
BitTest(s)     == Instr("bit", s, None)
LoadAddress(s, d) == Instr("lea", s, d)
Label(l)       == [Instr("label", None, None) EXCEPT !.to = l]
Jump(l)        == [Instr("jmp", None, None) EXCEPT !.to = l]
Branch(c, l)   == [Instr(c, None, None) EXCEPT !.to = l]
Call(f, regs)  == [Instr("call", None, None) EXCEPT !.to = f, !.regs = regs]
Return(saved)  == [Instr("rts", None, None) EXCEPT !.regs = saved]
(* The frame, with the zero-page bytes it saves: args, as in a Phi. *)
Saves(bytes)   == [k \in DOMAIN bytes |-> [lbl |-> <<>>, src |-> ZP(bytes[k])]]
FunctionPrologue(bytes) == [Instr("prologue", None, None) EXCEPT !.args = Saves(bytes)]
Ret(saved, bytes) == [Instr("ret", None, None) EXCEPT !.regs = saved, !.args = Saves(bytes)]
Phi(d, args)   == [Instr("phi", None, d) EXCEPT !.args = args]

IsBranch(i) == i.op \in Conditions
IsReturn(i) == i.op \in {"rts", "ret"}
IsMov(i)    == i.op = "mov"
IsLabel(i)  == i.op = "label"
IsAlu(i)    == i.op \in {"add", "sub", "and", "or", "xor"}
IsShift(i)  == i.op \in {"asl", "lsr", "rol", "ror"}
IsIncDec(i) == i.op \in {"inc", "dec"}

NextByte(op) == [op EXCEPT !.o = @ + 1]

(* The operands the instruction reads or writes. *)
Operands(i) == {i.src, i.dst} \cup {i.args[k].src : k \in DOMAIN i.args}

MovTo(i, d)   == IsMov(i) /\ i.dst = d
MovFrom(i, s) == IsMov(i) /\ i.src = s

LabelsIn(p) == {p[k].to : k \in {j \in DOMAIN p : IsLabel(p[j])}}
LabelIndex(p, l) == CHOOSE k \in DOMAIN p : IsLabel(p[k]) /\ p[k].to = l

----------------------------------------------------------------------------
(* A function and a sequence as they are; written so, TLC tabulates them.  *)
Table(f)     == f @@ <<>>
Listed(s)    == <<>> \o s
Map(f(_), s) == Listed([k \in DOMAIN s |-> f(s[k])])

(* p[k], or a value no instruction matches, past the end. *)
At(p, k) == IF k \in DOMAIN p THEN p[k] ELSE Instr("end", None, None)
=============================================================================
