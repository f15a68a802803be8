---------------------------- MODULE PeepWindows ----------------------------
(***************************************************************************)
(* The peepholes that look at a few instructions.  First those that fuse or*)
(* drop adjacent ones: each is one left-to-right walk; where its pattern   *)
(* starts at k the instructions of the pattern are replaced, elsewhere p[k]*)
(* is kept.  Then those about branches, labels, jumps and the flags they   *)
(* test, with the removal of computations of an A nobody reads.            *)
(***************************************************************************)
EXTENDS AsmFlow

Instead(n, code) == [take |-> n, new |-> code]
IsXY(op)     == op.k \in {"X", "Y"}
(* Mutant: a volatile access is an access like any other. *)
AnyMov(i) == IsMov(i)
PlainMov(i)  == IsMov(i) /\ ~i.vol
LoadsA(i)    == PlainMov(i) /\ i.dst = RegA
StoresA(i)   == PlainMov(i) /\ i.src = RegA
StoresAStable(i) == StoresA(i) /\ IsDataOrZp(i.dst)
LoadsStable(i)   == LoadsA(i) /\ IsDataOrZp(i.src)
BitwiseAnd(a, b) ==
  LET r[k \in 0..8] == IF k = 0 THEN 0
                       ELSE r[k - 1] + 2^(k - 1) * ((a \div 2^(k - 1)) % 2) * ((b \div 2^(k - 1)) % 2)
  IN r[8]
BitwiseOr(a, b) == a + b - BitwiseAnd(a, b)

----------------------------------------------------------------------------
(* LDA m1; STA m2 in two instructions; nothing when m1 is m2.              *)
SplitMemToMem(p) ==
  LET mem(op) == (IsMemory(op) /\ op.k # "pseudo") \/ IsIndexed(op)
      Edit(k) == IF ~(PlainMov(p[k]) /\ mem(p[k].src) /\ mem(p[k].dst)) THEN Keep(p[k])
                 ELSE IF p[k].src = p[k].dst THEN Instead(1, <<>>)
                 ELSE Instead(1, <<Mov(p[k].src, RegA), Mov(RegA, p[k].dst)>>)
  IN Rewrite(p, Edit)

(* LDA m; CLC; ADC #1; STA m is INC m, and with LDA h; ADC #0; STA h next  *)
(* the bytes are incremented as far as they wrap, unless the carry goes on *)
(* into another addition.                                                  *)
CountableOp(op) == IsDataOrZp(op) \/ IsXY(op)
InPlace(load, store) == LoadsA(load) /\ StoresA(store) /\ load.src = store.dst /\ CountableOp(load.src)
FirstIncByte(p, k) == /\ InPlace(p[k], At(p, k + 3))
                      /\ p[k + 1].op = "clc" /\ p[k + 2] = Add(Imm(1))
NextIncByte(p, k)  == InPlace(At(p, k), At(p, k + 2)) /\ p[k + 1] = Add(Imm(0))
CarryConsumedAfter(p, k) == LET j == FirstFrom(p, k, LAMBDA i : ~IsMov(i)) IN j # 0 /\ p[j].op = "add"
IncPeephole(p) ==
  LET bytes[k \in 1..Len(p) + 1] == IF NextIncByte(p, k) THEN <<p[k].src>> \o bytes[k + 3] ELSE <<>>
      chain(ops, done) ==
        Concat([j \in DOMAIN ops |-> IF j = Len(ops) THEN <<Inc(ops[j]), Label(done)>>
                                     ELSE <<Inc(ops[j]), Branch("NE", done)>>])
      Edit(k) == IF ~FirstIncByte(p, k) THEN Keep(p[k])
                 ELSE LET ops == <<p[k].src>> \o bytes[k + 4]
                          n == 3 * Len(ops) + 1
                      IN IF CarryConsumedAfter(p, k + n) THEN Keep(p[k])
                         ELSE Instead(n, IF Len(ops) = 1 THEN <<Inc(ops[1])>>
                                         ELSE chain(ops, <<"inc_done", k>>))
  IN Rewrite(p, Edit)

(* LDA m; SEC; SBC #1; STA m is DEC m, when the borrow goes nowhere.       *)
FirstDecByte(p, k) == /\ InPlace(p[k], At(p, k + 3))
                      /\ p[k + 1].op = "sec" /\ p[k + 2] = Sub(Imm(1))
SbcContinuation(p, k) == /\ MovTo(At(p, k), RegA) /\ At(p, k + 1) = Sub(Imm(0))
                         /\ MovFrom(At(p, k + 2), RegA) /\ p[k + 2].dst = p[k].src
                         /\ CountableOp(p[k].src)
RECURSIVE BranchReadsCV(_, _, _)
BranchReadsCV(p, todo, seen) ==
  IF todo = {} THEN FALSE
  ELSE LET k == CHOOSE k \in todo : TRUE
           i == p[k]
           target == {j \in DOMAIN p : IsLabel(p[j]) /\ p[j].to = i.to}
           on == {k + 1} \cap DOMAIN p
           Go(S) == BranchReadsCV(p, (todo \cup S) \ (seen \cup {k}), seen \cup {k})
       IN CASE IsBranch(i) -> i.op \in {"CC", "CS", "VC", "VS"} \/ Go(target \cup on)
            [] i.op = "jmp" -> Go(target)
            [] \/ i.op \in {"mov", "and", "or", "xor", "push", "pop", "bit", "label"}
               \/ IsIncDec(i) -> Go(on)
            [] OTHER -> Go({})
DecPeephole(p) ==
  Rewrite(p, LAMBDA k : IF /\ FirstDecByte(p, k) /\ ~SbcContinuation(p, k + 4)
                           /\ ~BranchReadsCV(p, {k + 4} \cap DOMAIN p, {})
                          THEN Instead(4, <<Dec(p[k].src)>>) ELSE Keep(p[k]))

----------------------------------------------------------------------------
(* LDA m; TAX is LDX m, and TXA; CMP m is CPX m, when A is dead after it.  *)
DirectIndexLoad(p) ==
  LET fuses(k) == /\ MovTo(p[k], RegA) /\ (IsDataOrZp(p[k].src) \/ IsImm(p[k].src))
                  /\ StoresA(At(p, k + 1)) /\ IsXY(p[k + 1].dst) /\ ADeadAt(p, k + 2)
  IN Rewrite(p, LAMBDA k : IF fuses(k) THEN Instead(2, <<[p[k] EXCEPT !.dst = p[k + 1].dst]>>)
                           ELSE Keep(p[k]))
CpxCpyPeephole(p) ==
  LET fuses(k) == /\ MovTo(p[k], RegA) /\ IsXY(p[k].src)
                  /\ At(p, k + 1).op = "cmp" /\ p[k + 1].dst = RegA
                  /\ (IsImm(p[k + 1].src) \/ IsDataOrZp(p[k + 1].src)) /\ ADeadAt(p, k + 2)
  IN Rewrite(p, LAMBDA k : IF fuses(k) THEN Instead(2, <<Compare(p[k].src, p[k + 1].src)>>)
                           ELSE Keep(p[k]))
(* PHA and the PLA that brings the same A back.                           *)
DeadPhaPla(p) ==
  LET match(k) == FirstFrom(p, k + 1, LAMBDA i : \/ i.op \in {"push", "pop", "call", "label"}
                                                 \/ IsTerminator(i) \/ Reads(i, "A") \/ Kills(i, "A"))
      dead(k) == p[k] = Push /\ match(k) # 0 /\ p[match(k)] = Pop /\ FlagsDeadAt(p, match(k) + 1)
      pushes == {k \in DOMAIN p : dead(k)}
  IN Without(p, pushes \cup {match(k) : k \in pushes})

(* TXA; SEC; SBC #1; STA t; LDX t; BNE is DEX; BNE, when A is dead on both *)
(* sides and t is not read below.                                          *)
ReadsADirectly(i) == \/ i.op \in {"add", "sub", "xor"}
                     \/ i.op \in {"mov", "push"} /\ i.src = RegA
                     \/ i.op = "cmp" /\ RegA \in {i.src, i.dst}
                     \/ IsShift(i) /\ i.dst = RegA
WritesADirectly(i) == \/ IsMov(i) /\ i.dst = RegA
                      \/ i.op \in {"and", "or", "pop"}
NoopMov(i) == IsMov(i) /\ i.src = i.dst
RECURSIVE ADeadAlong(_, _, _)
ADeadAlong(p, k, seen) ==
  LET i == At(p, k)  Go(j) == ADeadAlong(p, j, seen \cup {k}) IN
  IF k > Len(p) THEN TRUE
  ELSE IF k \in seen \/ (ReadsADirectly(i) /\ ~NoopMov(i)) \/ IsBranch(i) THEN FALSE
  ELSE IF i.op \in {"jmp", "call"} /\ "A" \in i.regs THEN FALSE
  ELSE IF i.op = "jmp" THEN i.to \in LabelsIn(p) => Go(LabelIndex(p, i.to) + 1)
  ELSE IF IsReturn(i) \/ i.op = "call" \/ (WritesADirectly(i) /\ ~NoopMov(i)) THEN TRUE
  ELSE Go(k + 1)
ReadOperands(i) == CASE i.op \in {"mov", "lea"} -> {i.src}
                     [] i.op \in {"pop", "bit"} -> {}
                     [] OTHER -> {i.src, i.dst} \ {None}
DecRegisterPeephole(p) ==
  LET folds(k) ==
        /\ k + 5 <= Len(p)
        /\ IsMov(p[k]) /\ IsXY(p[k].src) /\ p[k].dst = RegA
        /\ p[k + 1].op = "sec" /\ p[k + 2] = Sub(Imm(1))
        /\ MovFrom(p[k + 3], RegA)
        /\ MovFrom(p[k + 4], p[k + 3].dst) /\ p[k + 4].dst = p[k].src
        /\ p[k + 5].op \in {"NE", "EQ"}
        /\ ADeadAlong(p, k + 6, {})
        /\ p[k + 5].to \in LabelsIn(p) => ADeadAlong(p, LabelIndex(p, p[k + 5].to) + 1, {})
        /\ \A j \in k + 6..Len(p) : p[k + 3].dst \notin ReadOperands(p[j])
  IN Rewrite(p, LAMBDA k : IF folds(k) THEN Instead(6, <<Dec(p[k].src), p[k + 5]>>) ELSE Keep(p[k]))

(* TXA; CLC; ADC #1; STA m is INX; STX m, when nothing needs A, X or the   *)
(* flags after it; TXA; STA m alone is STX m.                              *)
TransferPm1Store(p) ==
  LET matches(k) ==
        /\ k + 3 <= Len(p)
        /\ LoadsA(p[k]) /\ IsXY(p[k].src)
        /\ <<p[k + 1].op, p[k + 2]>> \in {<<"sec", Sub(Imm(1))>>, <<"clc", Add(Imm(1))>>}
        /\ StoresAStable(p[k + 3])
        /\ ADeadAt(p, k + 4) /\ RegDeadAt(p, k + 4, p[k].src.k) /\ AllFlagsDeadAt(p, k + 4)
      count(k) == IF p[k + 2].op = "add" THEN Inc(p[k].src) ELSE Dec(p[k].src)
  IN Rewrite(p, LAMBDA k : IF matches(k) THEN Instead(4, <<count(k), Mov(p[k].src, p[k + 3].dst)>>)
                           ELSE Keep(p[k]))
ViaAStoreFold(p) ==
  LET folds(k) == /\ LoadsA(p[k]) /\ IsXY(p[k].src) /\ StoresAStable(At(p, k + 1))
                  /\ ADeadAt(p, k + 2) /\ FlagsDeadAt(p, k + 2)
  IN Rewrite(p, LAMBDA k : IF folds(k) THEN Instead(2, <<Mov(p[k].src, p[k + 1].dst)>>) ELSE Keep(p[k]))

----------------------------------------------------------------------------
(* A volatile read whose value is dropped becomes a CMP, which leaves A    *)
(* alone, when the next instruction sets A or the flags again.             *)
ClobbersFlagsAndA(i) == \/ IsMov(i) /\ i.dst = RegA
                        \/ IsAlu(i) \/ IsIncDec(i) \/ IsShift(i) \/ i.op \in {"cmp", "pop"}
VolatileVoidReadCmp(p) ==
  LET next(k) == FirstFrom(p, k, LAMBDA i : ~(IsMov(i) /\ i.src = i.dst))
      candidate(k) == /\ p[k].vol /\ p[k].dst = RegA
                      /\ p[k].src.k \in {"ind", "indY", "indZp", "indZpY"}
                      /\ next(k + 1) # 0 => ClobbersFlagsAndA(p[next(k + 1)])
  IN Rewrite(p, LAMBDA k : Keep(IF IsMov(p[k]) /\ candidate(k) THEN Compare(RegA, p[k].src) ELSE p[k]))

(* LDA arr,X; STA t; INC t; LDA t; CMP m is LDY arr,X; INY; CPY m.         *)
IndexIncCmpY(p) ==
  LET matches(k) ==
        /\ k + 4 <= Len(p)
        /\ LoadsA(p[k]) /\ p[k].src.k = "idxX"
        /\ StoresAStable(p[k + 1])
        /\ IsIncDec(p[k + 2]) /\ p[k + 2].dst = p[k + 1].dst
        /\ LoadsA(p[k + 3]) /\ p[k + 3].src = p[k + 1].dst
        /\ p[k + 4].op = "cmp" /\ p[k + 4].dst = RegA
        /\ (IsImm(p[k + 4].src) \/ IsDataOrZp(p[k + 4].src))
        /\ ADeadAt(p, k + 5) /\ YDeadAt(p, k)
        /\ \A j \in k + 5..Len(p) : p[k + 1].dst \notin {p[j].src, p[j].dst}
  IN Rewrite(p, LAMBDA k : IF matches(k)
       THEN Instead(5, <<Mov(p[k].src, RegY), [p[k + 2] EXCEPT !.dst = RegY], Compare(RegY, p[k + 4].src)>>)
       ELSE Keep(p[k]))

(* AND and OR of constants, and the ones that change nothing.              *)
ConstArithFold(p) ==
  LET b(k) == At(p, k + 1)
      byte(op) == op.o % 256
      logic(k) == b(k).op \in {"and", "or"}
      identity(k) == logic(k) /\ IsImm(b(k).src) /\ byte(b(k).src) = (IF b(k).op = "and" THEN 255 ELSE 0)
      loadsConst(k) == MovTo(p[k], RegA) /\ IsImm(p[k].src)
      neutral(k) == loadsConst(k) /\ logic(k) /\ byte(p[k].src) = (IF b(k).op = "and" THEN 255 ELSE 0)
      value(k) == IF b(k).op = "and" THEN BitwiseAnd(byte(p[k].src), byte(b(k).src))
                  ELSE BitwiseOr(byte(p[k].src), byte(b(k).src))
      Edit(k) == CASE loadsConst(k) /\ logic(k) /\ IsImm(b(k).src) -> Instead(2, <<Mov(Imm(value(k)), RegA)>>)
                   [] ~loadsConst(k) /\ identity(k) /\ (MovTo(p[k], RegA) \/ IsAlu(p[k])) -> Instead(2, <<p[k]>>)
                   [] neutral(k) /\ ~IsImm(b(k).src) -> Instead(2, <<Mov(b(k).src, RegA)>>)
                   [] OTHER -> Keep(p[k])
  IN Rewrite(p, Edit)

----------------------------------------------------------------------------
(* A store and a load of the same byte next to each other.                 *)
WritesAWithFlags(i) == \/ i.op = "pop" \/ IsAlu(i)
                       \/ i.dst = RegA /\ (IsMov(i) \/ IsShift(i))
RoundTripLoadDrop(p) ==
  LET trip(k) == /\ WritesAWithFlags(p[k]) /\ StoresAStable(At(p, k + 1))
                 /\ PlainMov(At(p, k + 2)) /\ p[k + 2].src = p[k + 1].dst
      Edit(k) == CASE trip(k) /\ p[k + 2].dst = RegA -> Instead(3, <<p[k], p[k + 1]>>)
                   [] trip(k) /\ ~IsReg(p[k + 2].dst) ->
                        Instead(3, <<p[k], p[k + 1], Mov(RegA, p[k + 2].dst)>>)
                   [] OTHER -> Keep(p[k])
  IN Rewrite(p, Edit)
SelfStoreDrop(p) ==
  LET Edit(k) == CASE PlainMov(p[k]) /\ IsDataOrZp(p[k].src) /\ p[k].src = p[k].dst -> Instead(1, <<>>)
                   [] LoadsStable(p[k]) /\ StoresA(At(p, k + 1)) /\ p[k + 1].dst = p[k].src ->
                        Instead(2, <<p[k]>>)
                   [] OTHER -> Keep(p[k])
  IN Rewrite(p, Edit)

(* LDA s; STA t; LDA o; CMP t is LDA o; CMP s, when every read of t is the *)
(* CMP of such a group.                                                    *)
CmpThroughTmpFold(p) ==
  LET constant(op) == IsImm(op) \/ IsImmLabel(op)
      group(k) ==
        /\ k + 3 <= Len(p)
        /\ LoadsA(p[k]) /\ StoresAStable(p[k + 1]) /\ LoadsA(p[k + 2])
        /\ p[k + 3].op = "cmp" /\ p[k + 3].dst = RegA /\ p[k + 3].src = p[k + 1].dst
        /\ (constant(p[k].src) \/ IsDataOrZp(p[k].src) \/ IsIndexed(p[k].src))
        /\ (constant(p[k + 2].src) \/ (IsDataOrZp(p[k + 2].src) /\ p[k + 2].src # p[k + 1].dst))
      groups == {k \in DOMAIN p : group(k)}
      reads(i, t) == \/ IsMov(i) /\ i.src = t
                     \/ i.op \in {"cmp", "push"} /\ t \in {i.src, i.dst}
                     \/ IsAlu(i) /\ i.src = t
                     \/ (IsIncDec(i) \/ IsShift(i)) /\ i.dst = t
      owned(t) == {k + 3 : k \in {j \in groups : p[j + 1].dst = t}}
      folds(k) == k \in groups
                  /\ \A j \in DOMAIN p \ owned(p[k + 1].dst) : ~reads(p[j], p[k + 1].dst)
  IN Rewrite(p, LAMBDA k : IF folds(k) THEN Instead(4, <<Mov(p[k + 2].src, RegA), Compare(RegA, p[k].src)>>)
                           ELSE Keep(p[k]))

-----------------------------------------------------------------------------
Targets(p) == {p[k].to : k \in {j \in DOMAIN p : IsBranch(p[j]) \/ p[j].op = "jmp"}}
References(p, l) == Cardinality({k \in DOMAIN p : (IsBranch(p[k]) \/ p[k].op = "jmp") /\ p[k].to = l})

Inverse(c) == CASE c = "EQ" -> "NE" [] c = "NE" -> "EQ" [] c = "CC" -> "CS" [] c = "CS" -> "CC"
                [] c = "MI" -> "PL" [] c = "PL" -> "MI" [] c = "VC" -> "VS" [] c = "VS" -> "VC"

(* Mutant: the inverted branch keeps its target, and the jump stays. *)
BranchInvertKept(p) ==
  LET over(k) == IsBranch(p[k]) /\ At(p, k + 1).op = "jmp" /\ At(p, k + 2) = Label(p[k].to)
  IN Rewrite(p, LAMBDA k : IF over(k) THEN Instead(3, <<Branch(Inverse(p[k].op), p[k].to), p[k + 1], p[k + 2]>>)
                           ELSE Keep(p[k]))
(* BEQ over a jump is BNE to the jump's target.                            *)
BranchInvert(p) ==
  LET over(k) == IsBranch(p[k]) /\ At(p, k + 1).op = "jmp" /\ At(p, k + 2) = Label(p[k].to)
  IN Rewrite(p, LAMBDA k : IF over(k) THEN Instead(3, <<Branch(Inverse(p[k].op), p[k + 1].to), p[k + 2]>>)
                           ELSE Keep(p[k]))

(* A branch to the next instruction, with its label if it was the only one *)
(* to need it.                                                             *)
BranchToNextDrop(p) ==
  LET next(k) == IsBranch(p[k]) /\ At(p, k + 1) = Label(p[k].to)
  IN Rewrite(p, LAMBDA k : IF ~next(k) THEN Keep(p[k])
                           ELSE Instead(IF References(p, p[k].to) <= 1 THEN 2 ELSE 1, <<>>))

DeadLabelDrop(p) == LET targets == Targets(p)
                    IN SelectSeq(p, LAMBDA i : ~(IsLabel(i) /\ i.to \notin targets))

(* A branch to a jump goes where the jump goes; the trampoline is dropped  *)
(* when that was its last use and nothing falls into it.                   *)
NoEffect(i) == NoopMov(i) /\ ~i.vol
Leads(p, labels, l) ==
  LET k == FirstFrom(p, LabelIndex(p, l), LAMBDA i : ~IsLabel(i) /\ ~NoEffect(i))
  IN IF k # 0 /\ At(p, k).op = "jmp" /\ p[k].to \in labels THEN p[k].to ELSE l
ResolveChains(leads) ==
  LET hop[d \in 0..17] == [l \in DOMAIN leads |-> IF d = 0 \/ leads[l] = l THEN l ELSE hop[d - 1][leads[l]]]
  IN Table(hop[17])
(* The labels none refers to any more, and what follows a terminator there. *)
DropOrphans(new, gone) ==
  LET past[k \in 1..Len(new) + 1] ==
        CASE k > Len(new) -> k
          [] new[k].op = "jmp" -> k + 1
          [] (IsLabel(new[k]) /\ new[k].to \in gone) \/ NoEffect(new[k]) -> past[k + 1]
          [] OTHER -> k
      Ends(i) == IsReturn(i) \/ i.op = "jmp"
      keep[k \in 1..Len(new) + 1] ==   (* the list from k, after a terminator and not *)
        IF k > Len(new) THEN [t |-> <<>>, f |-> <<>>]
        ELSE LET i == new[k]
                 on == keep[k + 1]
                 with == <<i>> \o (IF Ends(i) THEN on.t ELSE on.f)
             IN [f |-> with,
                 t |-> IF IsLabel(i) /\ i.to \in gone THEN keep[past[k + 1]].t ELSE with]
  IN keep[1].f
RetargetBranches(p, resolve) ==
  LET moved(l) == {k \in DOMAIN p : IsBranch(p[k]) /\ p[k].to = l /\ resolve[l] # l}
  IN DropOrphans(Map(LAMBDA i : IF IsBranch(i) THEN Branch(i.op, resolve[i.to]) ELSE i, p),
                 {l \in DOMAIN resolve : moved(l) # {} /\ References(p, l) = Cardinality(moved(l))})
BranchThroughJump(p) ==
  RetargetBranches(p, ResolveChains(Table([l \in LabelsIn(p) |-> Leads(p, LabelsIn(p), l)])))

----------------------------------------------------------------------------
(* DEY; BNE: where it falls through Y is zero, and the next access through *)
(* the pointer can use it.                                                 *)
DecBranchIndirectYFold(p) ==
  LET zero(op) == IF op = Indirect(0) THEN IndirectY ELSE op
      folds(k) == k > 2 /\ p[k - 2] = Dec(RegY) /\ p[k - 1].op = "NE" /\ p[k].op \in {"mov", "cmp"}
  IN Listed([k \in DOMAIN p |-> IF folds(k) THEN [p[k] EXCEPT !.src = zero(@), !.dst = zero(@)]
                                ELSE p[k]])

(* INC m; LDA m; BNE: the flags of the INC will do.                        *)
DecIncBranchFold(p) ==
  LET targets == Targets(p)
      load(k) == FirstFrom(p, k + 1, LAMBDA i : ~IsLabel(i))
      folds(k) == /\ IsIncDec(p[k]) /\ IsDataOrZp(p[k].dst)
                  /\ \A j \in k + 1..load(k) - 1 : p[j].to \notin targets
                  /\ load(k) # 0
                  /\ LoadsA(p[load(k)]) /\ p[load(k)].src = p[k].dst
                  /\ At(p, load(k) + 1).op \in {"EQ", "NE", "MI", "PL"}
                  /\ ADeadAt(p, load(k) + 2)
  IN Without(p, {load(k) : k \in {j \in DOMAIN p : folds(j)}})

SetsZN(i, r) == \/ (IsMov(i) \/ IsIncDec(i) \/ IsShift(i)) /\ i.dst.k = r
                \/ (IsAlu(i) \/ i.op = "pop") /\ r = "A"
(* DEX; TXA; BEQ l: the transfer waits until after the branch.             *)
TransferPastBranch(p) ==
  LET swaps(k) == /\ k + 2 <= Len(p)
                  /\ LoadsA(p[k + 1]) /\ IsXY(p[k + 1].src) /\ IsBranch(p[k + 2])
                  /\ SetsZN(p[k], p[k + 1].src.k)
                  /\ ADeadAt(p, LabelIndex(p, p[k + 2].to) + 1) /\ ~ADeadAt(p, k + 3)
  IN Rewrite(p, LAMBDA k : IF swaps(k) THEN Instead(3, <<p[k], p[k + 2], p[k + 1]>>) ELSE Keep(p[k]))

(* LDA m; AND #$80; BEQ is LDA m; BPL.                                     *)
AndSignBitBranch(p) ==
  LET load(i) == IsMov(i) /\ (IF IsReg(i.src) THEN IsXY(i.src) /\ i.dst = RegA ELSE TRUE)
      store(i) == StoresA(i) /\ ~IsReg(i.dst)
      test(k) == /\ At(p, k).op = "and" /\ IsImm(p[k].src) /\ p[k].src.o % 256 = 128
                 /\ At(p, k + 1).op \in {"EQ", "NE"} /\ ADeadAt(p, k + 2)
      sign(b) == Branch(IF b.op = "EQ" THEN "PL" ELSE "MI", b.to)
      Edit(k) == CASE load(p[k]) /\ test(k + 1) -> Instead(3, <<p[k], sign(p[k + 2])>>)
                   [] load(p[k]) /\ store(At(p, k + 1)) /\ test(k + 2) ->
                        Instead(4, <<p[k], p[k + 1], sign(p[k + 3])>>)
                   [] OTHER -> Keep(p[k])
  IN Rewrite(p, Edit)

TailCall(p) ==
  LET tail(k) == p[k].op = "call" /\ At(p, k + 1).op = "rts"
  IN Rewrite(p, LAMBDA k : IF tail(k) THEN Instead(2, <<[Jump(p[k].to) EXCEPT !.regs = p[k].regs]>>)
                           ELSE Keep(p[k]))

(* CMP r; BCC l; SEC; SBC r: the subtraction can set the branch's flags.   *)
CmpSbcFusion(p) ==
  LET targets == Targets(p)
      fuses(k) == /\ k + 5 <= Len(p)
                  /\ (MovTo(p[k], RegA) \/ IsAlu(p[k]))
                  /\ p[k + 1].op = "cmp" /\ p[k + 1].dst = RegA
                  /\ p[k + 2].op \in Conditions \ {"VC", "VS"}
                  /\ IsLabel(p[k + 3]) /\ p[k + 3].to \notin targets
                  /\ p[k + 4].op = "sec" /\ p[k + 5] = Sub(p[k + 1].src)
                  /\ (IsImm(p[k + 5].src) \/ IsDataOrZp(p[k + 5].src))
  IN Rewrite(p, LAMBDA k : IF fuses(k) THEN Instead(6, <<p[k], p[k + 4], p[k + 5], p[k + 2], p[k + 3]>>)
                           ELSE Keep(p[k]))

(* The entry store of a register parameter into a slot nobody reads;       *)
(* homes: the register of each slot passed in one.                         *)
DeadRegEntryStub(p, homes) ==
  LET reads(i) == CASE i.op \in {"mov", "lea"} -> {i.src}
                    [] i.op \in {"and", "or", "pop", "bit"} -> {}
                    [] OTHER -> {i.src, i.dst}
      read == UNION {{op.n : op \in reads(p[k])} : k \in DOMAIN p}
  IN SelectSeq(p, LAMBDA i : ~(/\ PlainMov(i) /\ i.dst.k = "data" /\ i.dst.o = 0
                               /\ i.dst.n \in DOMAIN homes /\ i.src = RegOf(homes[i.dst.n])
                               /\ i.dst.n \notin read))

----------------------------------------------------------------------------
(* Computations of A that are overwritten before A or the flags are read.  *)
PureSource(op) == IsImm(op) \/ IsImmLabel(op) \/ IsDataOrZp(op) \/ IsIndexed(op)
FlagsReflect(p, k, r) ==
  LET stop(i) == IsTerminator(i) \/ IsLabel(i) \/ i.op \in {"call", "prologue", "lea"}
      before == {j \in 1..k - 1 : stop(p[j]) \/ SetsFlags(p[j])}
  IN before # {} /\ ~stop(p[Greatest(before)]) /\ SetsZN(p[Greatest(before)], r)
RECURSIVE DeadAArith(_)
DeadAArith(p) ==
  LET computes(i) == \/ LoadsA(i) /\ (PureSource(i.src) \/ IsXY(i.src))
                     \/ i.op = "xor" /\ i.src = RegA
                     \/ IsAlu(i) /\ PureSource(i.src)
      unflagged(k) == IF p[k].op \in {"add", "sub"} THEN AllFlagsDeadAt(p, k + 1)
                      ELSE \/ FlagsDeadAt(p, k + 1)
                           \/ IsMov(p[k]) /\ IsXY(p[k].src) /\ FlagsReflect(p, k, p[k].src.k)
      dead == {k \in DOMAIN p : computes(p[k]) /\ ADeadAt(p, k + 1) /\ unflagged(k)}
  IN IF dead = {} THEN p ELSE DeadAArith(Without(p, dead))
=============================================================================
