---------------------------- MODULE LongBranches ----------------------------
(***************************************************************************)
(* The end of the pipeline: which operands the assembler can encode and in *)
(* how many bytes (sim/assembler.py), the lengthening of the branches that *)
(* do not reach (long_branches.py), and the slot names the emitted unit    *)
(* still declares (prune_unused_slots.py).                                 *)
(*                                                                         *)
(* The lengthening runs before the linker has placed the slots: a slot     *)
(* name counts as an absolute address then, and may turn out to be a       *)
(* zero-page one.                                                          *)
(***************************************************************************)
EXTENDS AsmIR

CONSTANT Reach   \* a branch reaches -Reach .. Reach - 1; 128 in the code
(* An inverted branch reaches over the three bytes of a jump. *)
ASSUME ReachAssumption == Reach \in Nat /\ Reach > 3

DefaultZp == {HARGS, DPTR, <<"SSP">>, <<"FP">>}
IsSlotName(n) == Len(n) = 3 /\ n[1] \in {"zpabi", "local"}

(* The addresses that take one byte: when the branches are lengthened, and *)
(* when the program is assembled.                                          *)
FitsZp(op, zp)      == op.k = "zp" \/ (op.n \in zp /\ op.o \in 0..251)
Absolute(op, zp)    == IF FitsZp(op, zp) THEN 2 ELSE 3
FinalZp(p) == DefaultZp \cup {n \in {op.n : op \in UNION {Operands(p[k]) : k \in DOMAIN p}} :
                                 IsSlotName(n)}

ByPointer(op)  == op.k \in {"frame", "ind"}
Through(op)    == op.k \in {"indY", "indZpY"}
IsConstant(op) == IsImm(op) \/ IsImmLabel(op)

(* An access by LDA or STA, by an ALU opcode or CMP, by INC or a shift, as *)
(* a number of bytes; 0 is for the operands with no encoding.              *)
AccessSize(op, zp) ==
  CASE IsDataOrZp(op) -> Absolute(op, zp)
    [] ByPointer(op) \/ op.k = "indZp" -> 4
    [] Through(op) -> 2
    [] OTHER -> 0
AccumSize(op, zp) ==
  CASE IsConstant(op) -> 2
    [] IsDataOrZp(op) -> Absolute(op, zp)
    [] ByPointer(op)  -> 4
    [] IsIndexed(op)  -> 3
    [] OTHER -> 0
CompareSize(left, right, zp) ==
  IF left.k = "A" THEN (IF right.k = "indY" THEN 2 ELSE AccumSize(right, zp))
  ELSE IF IsReg(left) /\ (IsConstant(right) \/ IsDataOrZp(right)) THEN AccumSize(right, zp)
  ELSE 0
InPlaceSize(op, zp) == IF IsDataOrZp(op) THEN Absolute(op, zp) ELSE 0

Both(m, n) == IF m = 0 \/ n = 0 THEN 0 ELSE m + n
MovToReg(s, r, zp) ==
  CASE IsReg(s)      -> IF {s.k, r} = {"X", "Y"} THEN 2 ELSE 1
    [] IsConstant(s) -> 2
    [] IsIndexed(s)  -> IF r = "A" \/ <<s.k, r>> \in {<<"idxY", "X">>, <<"idxX", "Y">>} THEN 3 ELSE 0
    [] OTHER         -> IF r = "A" THEN AccessSize(s, zp) ELSE InPlaceSize(s, zp)
MovToMemory(s, d, zp) ==
  CASE s.k = "A"     -> IF IsIndexed(d) THEN 3 ELSE AccessSize(d, zp)
    [] s.k \in {"X", "Y"} -> IF ByPointer(d) THEN 5 ELSE InPlaceSize(d, zp)
    [] IsConstant(s) -> Both(2, AccessSize(d, zp))
    [] IsIndexed(s)  -> Both(3, AccessSize(d, zp))
    [] OTHER         -> Both(AccessSize(s, zp), AccessSize(d, zp))
MovSize(s, d, zp) ==
  IF s = d THEN 0 ELSE IF IsReg(d) THEN MovToReg(s, d.k, zp) ELSE MovToMemory(s, d, zp)

(* The soft stack: SSP moves, FP is saved and restored, the callee-saved   *)
(* bytes go through the frame.                                             *)
FrameSize(i) == 33 + 6 * Len(i.args)
UnframeSize(i) == 28 + 6 * Len(i.args)
                  + (IF "X" \in i.regs THEN 6 ELSE IF "A" \in i.regs THEN 2 ELSE 0)
AddressSize(i, zp) ==
  LET store == AccessSize(i.dst, zp) IN
  IF store = 0 THEN 0 ELSE (IF i.src.k = "frame" THEN 9 ELSE 4) + 2 * store

Size(i, zp) ==
  CASE IsMov(i)    -> MovSize(i.src, i.dst, zp)
    [] IsAlu(i)    -> AccumSize(i.src, zp)
    [] i.op = "cmp" -> CompareSize(i.dst, i.src, zp)
    [] i.op = "bit" -> InPlaceSize(i.src, zp)
    [] i.op \in {"clc", "sec", "push", "pop", "rts"} -> 1
    [] IsIncDec(i) -> IF i.dst.k \in {"X", "Y"} THEN 1 ELSE InPlaceSize(i.dst, zp)
    [] IsShift(i)  -> CASE i.dst.k = "A" -> 1
                        [] i.dst.k = "frame" -> 9
                        [] OTHER -> InPlaceSize(i.dst, zp)
    [] i.op \in {"call", "jmp"} -> 3
    [] IsBranch(i) -> 2
    [] IsLabel(i)  -> 0
    [] i.op = "prologue" -> FrameSize(i)
    [] i.op = "ret" -> UnframeSize(i)
    [] i.op = "lea" -> AddressSize(i, zp)

(* The instructions the assembler and asm_emit have opcodes for.           *)
Encodable(i, zp) == \/ IsLabel(i)
                    \/ IsMov(i) /\ i.src = i.dst
                    \/ Size(i, zp) > 0
Emittable(p) ==
  LET zp == FinalZp(p) IN
  \A k \in DOMAIN p : Encodable(p[k], zp) /\ \A op \in Operands(p[k]) : op.k # "pseudo"

----------------------------------------------------------------------------
(* Where each instruction is, and the branches that do not reach.          *)
BytesOf(p, S, zp) == UNION {{j} \X (1..Size(p[j], zp)) : j \in S}
CodeAddress(p, k, zp) == Cardinality(BytesOf(p, 1..(k - 1), zp))
Displacement(p, k, zp) == CodeAddress(p, LabelIndex(p, p[k].to), zp) - (CodeAddress(p, k, zp) + 2)
TooFar(p, zp) == {k \in DOMAIN p : IsBranch(p[k]) /\ Displacement(p, k, zp) \notin -Reach..(Reach - 1)}

Inverted == [CC |-> "CS", CS |-> "CC", EQ |-> "NE", NE |-> "EQ",
             MI |-> "PL", PL |-> "MI", VC |-> "VS", VS |-> "VC"]
(* Mutant: the skip labels are not numbered. *)
SameSkipLabel(n) == <<"lb_skip", 0>>
SkipLabel(n) == <<"lb_skip", n>>

(* One of them becomes an inverted branch over a jump.                     *)
Lengthened(i, counter) ==
  <<Branch(Inverted[i.op], SkipLabel(counter)), Jump(i.to), Label(SkipLabel(counter))>>
ExpandAt(p, k, counter) ==
  SubSeq(p, 1, k - 1) \o Lengthened(p[k], counter) \o SubSeq(p, k + 1, Len(p))

----------------------------------------------------------------------------
(* Mutant: only the operands that are read count. *)
NamedSlotsRead(p) == {p[k].src.n : k \in {j \in DOMAIN p : p[j].src.k \in {"data", "idxX", "idxY"}}}
(* prune_unused_locals: the names of local slots no operand names directly *)
(* lose their EQU; an ImmLabel is not such an operand.                     *)
NamedSlots(p) == {op.n : op \in {o \in UNION {Operands(p[k]) : k \in DOMAIN p} :
                                    o.k \in {"data", "idxX", "idxY"}}}
PruneUnusedLocals(p, slots) ==
  {n \in slots : n[1] = "local" => n \in NamedSlots(p)}
=============================================================================
