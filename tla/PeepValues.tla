----------------------------- MODULE PeepValues -----------------------------
(***************************************************************************)
(* The peepholes that remember what the registers and the bytes hold:      *)
(* redundant loads, memory value propagation and rematerialisation; and    *)
(* those that remove stores and the copies they feed: staged values, dead  *)
(* stores, constants kept in memory, and the commuted addition.  zp gives  *)
(* the addresses of the zero-page slots.                                   *)
(***************************************************************************)
EXTENDS PeepWindows

(* LDA m after INC m, when nobody reads A.                                 *)
UsesA(i) == \/ i.op = "push" \/ IsAlu(i) \/ MovFrom(i, RegA)
            \/ i.op = "cmp" /\ RegA \in {i.src, i.dst}
            \/ (IsIncDec(i) \/ IsShift(i)) /\ i.dst = RegA
            \/ i.op = "call" /\ "A" \in i.regs
RECURSIVE ADeadOn(_, _, _)
ADeadOn(p, k, seen) ==
  IF k > Len(p) \/ k \in seen THEN TRUE
  ELSE LET i == p[k]
           Into(l) == l \in LabelsIn(p) /\ ADeadOn(p, LabelIndex(p, l) + 1, seen \cup {k})
       IN CASE IsReturn(i)   -> "A" \notin i.regs
            [] IsBranch(i)   -> ADeadOn(p, k + 1, seen \cup {k}) /\ Into(i.to)
            [] i.op = "jmp"  -> Into(i.to)
            [] UsesA(i) -> FALSE
            [] ~UsesA(i) /\ (i.op \in {"pop", "call"} \/ MovTo(i, RegA)) -> TRUE
            [] OTHER -> ADeadOn(p, k + 1, seen)
RedundantLoadAfterRmw(p) ==
  LET rmw(i) == (IsIncDec(i) \/ IsShift(i)) /\ (IsDataOrZp(i.dst) \/ IsXY(i.dst))
      again(k) == rmw(p[k]) /\ LoadsA(At(p, k + 1)) /\ p[k + 1].src = p[k].dst /\ ADeadOn(p, k + 2, {})
  IN Rewrite(p, LAMBDA k : IF again(k) THEN Instead(2, <<p[k]>>) ELSE Keep(p[k]))

----------------------------------------------------------------------------
(* Redundant loads: the operands each register, and the flags N and Z, are *)
(* known to hold the value of.                                             *)
Unknown == [A |-> {}, X |-> {}, Y |-> {}, Z |-> {}]
Same(a, b) == /\ a.k \in {"imm", "zp", "data", "frame", "ind", "idxX", "idxY"}
              /\ (a = b \/ (IsIndexed(a) /\ IsIndexed(b) /\ a.n = b.n /\ a.o = b.o))
Holding(S, op) == \E x \in S : Same(x, op)
Shares(S, T) == \E x \in S : Holding(T, x)
StableMem(op) == op.k \in {"zp", "data", "frame", "ind"}
Unless(S, w) == {x \in S : ~MayAlias(x, w)}
ForgetIn(st, w, regs) == [r \in DOMAIN st |-> IF r \in regs THEN Unless(st[r], w) ELSE st[r]]
Forget(st, w)  == ForgetIn(st, w, Regs)
ForgetZ(st, w) == ForgetIn(st, w, DOMAIN st)
(* Mutant: what an indexed cell holds is believed past a step of the index. *)
DependsOnNothing(op, r) == FALSE
DependsOn(op, r) == op.k = (IF r = "X" THEN "idxX" ELSE "idxY")
Free(S, r) == {x \in S : ~DependsOn(x, r)}
FreeFrom(st, r) == [q \in DOMAIN st |-> IF q = r THEN st[q] ELSE Free(st[q], r)]
Including(S, op) == IF Holding(S, op) THEN S ELSE S \cup {op}
HoldToo(st, regs, op) == [r \in DOMAIN st |-> IF r \in regs THEN Including(st[r], op) ELSE st[r]]

JoinKnown(ss) ==
  LET meet(S, T) == {x \in S : Holding(T, x)}
      two(s, t) == [A |-> meet(s.A, t.A), X |-> meet(s.X, t.X), Y |-> meet(s.Y, t.Y), Z |-> {}]
  IN Fold(two, ss[1], Tail(ss))

VolatileKnown(st, i) ==
  IF IsReg(i.dst) THEN [st EXCEPT ![i.dst.k] = {}, !.Z = IF IsReg(i.src) THEN {} ELSE {i.src}]
  ELSE HoldToo(ForgetZ(st, i.dst), IF StableMem(i.src) THEN {"A", "Z"} ELSE {}, i.src)
LoadKnown(st, r) == IF r = "A" THEN st ELSE FreeFrom(st, r)
StoreKnown(st, r, dst) ==
  LET agrees == Shares(st.Z, st[r]) \/ (st.Z = {} /\ st[r] = {})
  IN IF StableMem(dst) THEN HoldToo(st, IF agrees THEN {r, "Z"} ELSE {r}, dst) ELSE st
CopyKnown(st, dst) == IF StableMem(dst) THEN [st EXCEPT !.A = {dst}, !.Z = @ \cup {dst}] ELSE st
MovKnown(st, i) ==
  CASE i.vol -> VolatileKnown(st, i)
    [] ~i.vol /\ IsReg(i.src) /\ IsReg(i.dst) ->
         [st EXCEPT ![i.dst.k] = st[i.src.k], !.Z = st[i.src.k]]
    [] ~i.vol /\ ~IsReg(i.src) /\ IsReg(i.dst) ->
         LoadKnown([st EXCEPT ![i.dst.k] = {i.src}, !.Z = {i.src}], i.dst.k)
    [] ~i.vol /\ IsReg(i.src) /\ ~IsReg(i.dst) -> StoreKnown(Forget(st, i.dst), i.src.k, i.dst)
    [] OTHER -> IF Same(i.src, i.dst) THEN st ELSE CopyKnown(ForgetZ(st, i.dst), i.dst)
Known(st, i) ==
  CASE IsMov(i) -> MovKnown(st, i)
    [] i.op \in {"call", "prologue", "lea"} -> Unknown
    [] i.op = "pop" \/ IsAlu(i) \/ (IsShift(i) /\ i.dst = RegA) -> [st EXCEPT !.A = {}, !.Z = {}]
    [] i.op \in {"cmp", "bit"} -> [st EXCEPT !.Z = {}]
    [] IsShift(i) /\ i.dst # RegA -> [ForgetZ(st, i.dst) EXCEPT !.Z = @ \cup {i.dst}]
    [] IsIncDec(i) /\ IsXY(i.dst) -> FreeFrom([st EXCEPT ![i.dst.k] = {}, !.Z = {}], i.dst.k)
    [] IsIncDec(i) /\ ~IsXY(i.dst) -> [Forget(st, i.dst) EXCEPT !.Z = {i.dst}]
    [] OTHER -> st

(* A tail call leaves the graph: its target becomes a block of its own.    *)
Closed(p) ==
  LET out == Fold(LAMBDA acc, i : IF i.op = "jmp" /\ i.to \notin LabelsIn(p) /\ i.to \notin {acc[j] : j \in DOMAIN acc}
                                  THEN Append(acc, i.to) ELSE acc, <<>>, p)
  IN p \o Concat(Map(LAMBDA l : <<Label(l), Return({})>>, out))
(* First in, first out, as the blocks' states change. *)
Pending(todo, succ, blocks, changed) ==
  LET more == SelectSeq(succ[Head(todo)], LAMBDA c : c <= blocks /\ \A j \in 2..Len(todo) : todo[j] # c)
  IN Tail(todo) \o (IF ~changed THEN <<>>
                    ELSE IF Len(more) = 2 /\ more[1] = more[2] THEN Tail(more) ELSE more)
ReachedFrom(pred, b, out) == SelectSeq(pred[b], LAMBDA a : a \in DOMAIN out)
IsAt(f, b, v) == b \in DOMAIN f /\ f[b] = v
RECURSIVE SettleKnown(_, _, _, _, _, _), SettleBlock(_, _, _, _, _, _, _, _)
SettleKnown(bl, pred, succ, todo, in, out) ==
  IF todo = <<>> THEN in
  ELSE LET known == ReachedFrom(pred, Head(todo), out)
           new   == JoinKnown(Map(LAMBDA a : out[a], known))
       IN IF known = <<>> \/ IsAt(in, Head(todo), new) THEN SettleKnown(bl, pred, succ, Tail(todo), in, out)
          ELSE SettleBlock(bl, pred, succ, todo, in, out, new, Fold(Known, new, bl[Head(todo)]))
SettleBlock(bl, pred, succ, todo, in, out, new, after) ==
  LET b == Head(todo) IN
  SettleKnown(bl, pred, succ, Pending(todo, succ, Len(bl), ~IsAt(out, b, after)),
              (b :> new) @@ in, (b :> after) @@ out)
BlockStarts(bl) == LET s[b \in 1..Len(bl) + 1] == IF b = 1 THEN 1 ELSE s[b - 1] + Len(bl[b - 1]) IN s

RedundantLoad(p) ==
  LET bl == BuildCfg(Closed(p))
      succ == SuccessorMap(bl)
      in == SettleKnown(bl, PredecessorMap(succ), succ, Listed([b \in DOMAIN bl |-> b]), <<>>, 0 :> Unknown)
      redundant(i, st) ==
        /\ PlainMov(i) /\ IsReg(i.dst)
        /\ IF IsReg(i.src) THEN Shares(st[i.src.k], st[i.dst.k]) ELSE Holding(st[i.dst.k], i.src)
      flagged(i, st, k) == \/ FlagsDeadAt(p, k + 1)
                           \/ IF IsReg(i.src) THEN Shares(st.Z, st[i.src.k]) ELSE Holding(st.Z, i.src)
      transfer(i, st) ==
        IF ~(LoadsA(i) /\ ~IsReg(i.src)) THEN i
        ELSE IF Holding(st.A, i.src) THEN i
        ELSE IF Holding(st.X, i.src) THEN Mov(RegX, RegA)
        ELSE IF Holding(st.Y, i.src) THEN Mov(RegY, RegA) ELSE i
      step(acc, i) ==
        LET on(new, code) == [k |-> acc.k + 1, st |-> new, out |-> acc.out \o code]
            j == transfer(i, acc.st)
        IN IF redundant(i, acc.st) /\ flagged(i, acc.st, acc.k) THEN on(acc.st, <<>>)
           ELSE on(Known(acc.st, j), <<j>>)
      block(b) == Fold(step, [k |-> BlockStarts(bl)[b], out |-> <<>>,
                              st |-> IF b \in DOMAIN in THEN in[b] ELSE Unknown], bl[b]).out
      inside == SelectSeq(Listed([b \in DOMAIN bl |-> b]), LAMBDA b : BlockStarts(bl)[b] <= Len(p))
  IN Concat(Map(block, inside))

----------------------------------------------------------------------------
(* Redundant stores, within a block: known[d] = s when d was copied from   *)
(* s and neither has been written since.  A cell is named by its address   *)
(* where the runtime fixes it.                                             *)
CellOf(op) == IF op.k = "data" /\ op.n \in DOMAIN RuntimeZp THEN ZP(RuntimeZp[op.n] + op.o) ELSE op
Dropping(known, Test(_)) == [c \in {d \in DOMAIN known : ~Test(d)} |-> known[c]]
WrittenOperand(i) == IF i.op \in {"mov", "inc", "dec", "asl", "lsr", "rol", "ror"} /\ ~IsReg(i.dst)
                     THEN i.dst ELSE None
StoresForget(known, i) ==
  LET w == WrittenOperand(i)
      base == IF w.n = <<"">> THEN w.o ELSE RuntimeZp[w.n] + w.o
      fixed == IsIndexed(w) /\ w.n \in {<<"">>} \cup DOMAIN RuntimeZp   \* an array at a known address
      hits(c) == CASE IsDataOrZp(w) -> c = CellOf(w)
                   [] fixed /\ c.k = "zp" -> c.o \in base..base + 255
                   [] OTHER -> TRUE
  IN CASE \/ IsLabel(i) \/ IsTerminator(i) \/ i.op \in {"call", "prologue", "lea", "bit", "phi"} -> <<>>
       [] w = None -> known
       [] OTHER -> Dropping(known, LAMBDA d : hits(d) \/ hits(known[d]))
RedundantStore(p) ==
  LET pair(k) == /\ LoadsStable(p[k]) /\ StoresAStable(At(p, k + 1)) /\ FlagsDeadAt(p, k + 2)
      walk[k \in 1..Len(p) + 2] ==   \* the map before p[k], and what has been kept
        IF k = 1 THEN [known |-> <<>>, out |-> <<>>, from |-> 1]
        ELSE LET w == walk[k - 1] IN
             IF w.from > k - 1 THEN w
             ELSE IF k > Len(p) + 1 THEN w
             ELSE IF ~pair(k - 1)
               THEN [known |-> StoresForget(w.known, p[k - 1]), out |-> Append(w.out, p[k - 1]), from |-> k]
             ELSE LET s == CellOf(p[k - 1].src)
                      d == CellOf(p[k].dst)
                  IN IF d \in DOMAIN w.known /\ w.known[d] = s THEN [w EXCEPT !.from = k + 1]
                     ELSE [known |-> (d :> s) @@ Dropping(w.known, LAMBDA c : w.known[c] = d),
                           out |-> w.out \o <<p[k - 1], p[k]>>, from |-> k + 1]
  IN walk[Len(p) + 2].out

----------------------------------------------------------------------------
(* Memory value propagation: what A and the zero-page bytes are known to   *)
(* be, and which write of X and of Y is the last (0 at entry, -1 unknown). *)
(* A fact is the operand that still has the value.                         *)
NoFact == [op |-> None, tok |-> 0]
Fact(op) == [op |-> op, tok |-> 0]
AtEntry == [a |-> NoFact, cells |-> <<>>, X |-> 0, Y |-> 0]
NothingKnown == [a |-> NoFact, cells |-> <<>>, X |-> -1, Y |-> -1]
ZpAddress(zp, op) ==   \* -1: not a byte of the zero page
  LET at == RuntimeZp @@ zp IN
  CASE op.k = "zp" -> op.o
    [] op.k = "data" /\ op.n \in DOMAIN at -> IF at[op.n] + op.o > 255 THEN -1 ELSE at[op.n] + op.o
    [] OTHER -> -1
WritableNames(p) == {p[k].dst.n : k \in {j \in DOMAIN p : p[j].op # "lea" /\ p[j].dst.k \in {"data", "idxX", "idxY"}}}
IndexRegOf(op) == IF op.k = "idxX" THEN "X" ELSE "Y"
SourceFactAt(c, writable, st, op) ==
  CASE IsImm(op) \/ IsImmLabel(op) -> Fact(op)
    [] c >= 0 -> Fact(ZP(c))
    [] op.k = "data" /\ c < 0 -> IF op.n \in writable THEN NoFact ELSE Fact(op)
    [] IsIndexed(op) -> IF op.n \in writable \/ st[IndexRegOf(op)] = -1 THEN NoFact
                        ELSE [op |-> op, tok |-> st[IndexRegOf(op)]]
    [] OTHER -> NoFact
SourceFact(zp, writable, st, op) == SourceFactAt(ZpAddress(zp, op), writable, st, op)
Where(st, Stale(_)) == [st EXCEPT !.cells = Dropping(@, LAMBDA c : Stale(st.cells[c])),
                                  !.a = IF Stale(@) THEN NoFact ELSE @]
KillAt(st, d, c) ==
  CASE c >= 0 -> [Where(st, LAMBDA f : f = Fact(ZP(c))) EXCEPT !.cells = Dropping(@, LAMBDA x : x = c)]
    [] c < 0 /\ d.k = "data" -> Where(st, LAMBDA f : f = Fact(d))
    [] OTHER -> [st EXCEPT !.cells = <<>>, !.a = NoFact]
KillWrites(zp, st, d) == KillAt(st, d, ZpAddress(zp, d))
Indexed(st, r, k) ==
  Where([st EXCEPT ![r] = k], LAMBDA f : IsIndexed(f.op) /\ IndexRegOf(f.op) = r /\ f.tok # k)
(* The byte at c (a register when c is -1) now holds what fact says. *)
Recorded(st, c, fact) ==
  IF c < 0 \/ fact \in {NoFact, Fact(ZP(c))} THEN st ELSE [st EXCEPT !.cells = (c :> fact) @@ @]
MoveFact(st, i, c, f) ==
  LET a == IF (IsReg(i.dst) /\ i.dst # RegA) \/ (~IsReg(i.dst) /\ IsReg(i.src)) THEN st.a
           ELSE IF IsReg(i.src) THEN NoFact ELSE f
  IN Recorded([st EXCEPT !.a = a], c, CASE i.src = RegA -> a
                                        [] IsXY(i.src) -> NoFact
                                        [] OTHER -> f)
MovValue(zp, writable, st, i) ==
  MoveFact(IF IsReg(i.dst) THEN st ELSE KillWrites(zp, st, i.dst), i, ZpAddress(zp, i.dst),
           SourceFact(zp, writable, st, i.src))
(* k: where the instruction stands. *)
ValueAfter(zp, writable, st, i, k) ==
  CASE i.op \in {"call", "prologue", "lea", "phi"} -> NothingKnown
    [] IsMov(i) -> IF IsXY(i.dst) THEN Indexed(MovValue(zp, writable, st, i), i.dst.k, k)
                 ELSE MovValue(zp, writable, st, i)
    [] IsAlu(i) \/ i.op = "pop" -> [st EXCEPT !.a = NoFact]
    [] IsIncDec(i) \/ IsShift(i) ->
         IF i.dst = RegA THEN [st EXCEPT !.a = NoFact]
         ELSE IF IsXY(i.dst) THEN (IF IsIncDec(i) THEN Indexed(st, i.dst.k, k) ELSE st)
         ELSE KillWrites(zp, st, i.dst)
    [] OTHER -> st
ValueAtEnd(ctx, b, st) ==
  Fold(LAMBDA acc, i : [k |-> acc.k + 1, st |-> ValueAfter(ctx.zp, ctx.writable, acc.st, i, acc.k)],
       [k |-> ctx.start[b], st |-> st], ctx.bl[b]).st
MeetValue(s, t) ==
  [a |-> IF s.a = t.a THEN s.a ELSE NoFact, X |-> IF s.X = t.X THEN s.X ELSE -1,
   Y |-> IF s.Y = t.Y THEN s.Y ELSE -1,
   cells |-> Dropping(s.cells, LAMBDA c : IF c \in DOMAIN t.cells THEN s.cells[c] # t.cells[c] ELSE TRUE)]
RECURSIVE SettleValues(_, _, _, _, _, _), SettleValue(_, _, _, _, _, _, _, _)
SettleValues(ctx, pred, succ, todo, in, out) ==
  IF todo = <<>> THEN in
  ELSE LET known == ReachedFrom(pred, Head(todo), out)
           new == Fold(LAMBDA s, a : MeetValue(s, out[a]), out[known[1]], Tail(known))
       IN IF known = <<>> \/ IsAt(in, Head(todo), new)
            THEN SettleValues(ctx, pred, succ, Tail(todo), in, out)
            ELSE SettleValue(ctx, pred, succ, todo, in, out, new, ValueAtEnd(ctx, Head(todo), new))
SettleValue(ctx, pred, succ, todo, in, out, new, after) ==
  LET b == Head(todo) IN
  SettleValues(ctx, pred, succ, Pending(todo, succ, Len(ctx.bl), ~IsAt(out, b, after)),
               (b :> new) @@ in, (b :> after) @@ out)
(* The name of the byte at an address, and an access through the pointer   *)
(* there.                                                                  *)
SlotAt(zp, c) == IF \E n \in DOMAIN zp : zp[n] = c THEN CHOOSE n \in DOMAIN zp : zp[n] = c ELSE <<"zp", "", c>>
DptrBase(st) ==   \* where DPTR was copied from, or -1
  IF {36, 37} \subseteq DOMAIN st.cells
     THEN LET lo == st.cells[36].op hi == st.cells[37].op
          IN IF lo.k = "zp" /\ hi.k = "zp" /\ hi.o = lo.o + 1 THEN lo.o ELSE -1
     ELSE -1
(* An access through the pointer goes to where it was copied from; an      *)
(* operand is replaced by what its byte is known to hold.                  *)
BehindPointer(zp, base, op) ==
  CASE base >= 0 /\ op.k = "ind" -> IndirectZp(SlotAt(zp, base), op.o)
    [] base >= 0 /\ op.k = "indY" -> IndirectZpY(SlotAt(zp, base))
    [] OTHER -> op
FactAt(st, c) == IF c \in DOMAIN st.cells THEN st.cells[c] ELSE NoFact
KnownOr(st, op, g, indexed) ==
  IF \/ g.op.k \in {"none", "zp"}
     \/ IsIndexed(g.op) /\ ~(indexed /\ g.tok = st[IndexRegOf(g.op)])
  THEN op ELSE g.op
KnownAs(zp, st, op, indexed) == KnownOr(st, op, FactAt(st, ZpAddress(zp, op)), indexed)
Sourced(i, s, dst) ==
  LET own == IsIndexed(s) /\ i.dst = RegOf(IndexRegOf(s))
  IN [i EXCEPT !.src = IF own /\ s # i.src THEN @ ELSE s, !.dst = dst]
RewriteFrom(zp, st, i, base) ==
  CASE IsMov(i) -> Sourced(i, KnownAs(zp, st, BehindPointer(zp, base, i.src), TRUE), BehindPointer(zp, base, i.dst))
    [] IsAlu(i) \/ i.op \in {"cmp", "push"} ->
         [i EXCEPT !.src = KnownAs(zp, st, BehindPointer(zp, base, @), FALSE)]
    [] OTHER -> i
RewriteValue(zp, st, i) == RewriteFrom(zp, st, i, DptrBase(st))
MemoryValuePropagation(p, zp) ==
  LET bl == BuildCfg(p)
      succ == SuccessorMap(bl)
      ctx == [zp |-> zp, writable |-> WritableNames(p), bl |-> bl, start |-> BlockStarts(bl)]
      in == SettleValues(ctx, PredecessorMap(succ), succ, Listed([b \in DOMAIN bl |-> b]), <<>>, 0 :> AtEntry)
      step(acc, i) == [k |-> acc.k + 1, out |-> Append(acc.out, RewriteValue(zp, acc.st, i)),
                       st |-> ValueAfter(zp, ctx.writable, acc.st, i, acc.k)]
      block(b) == Fold(step, [k |-> ctx.start[b], out |-> <<>>,
                              st |-> IF b \in DOMAIN in THEN in[b] ELSE NothingKnown], bl[b]).out
  IN IF \E k \in DOMAIN p : p[k].op = "jmp" /\ p[k].to \notin LabelsIn(p) THEN p
     ELSE Concat(Map(block, Listed([b \in DOMAIN bl |-> b])))

-----------------------------------------------------------------------------
(* The two bytes of a pointer that an access goes through.                 *)
SlotAddress(zp, n) == IF n \in DOMAIN zp THEN zp[n] ELSE n[3]
PointerBytes(zp, op) ==
  CASE op.k \in {"indZp", "indZpY"} -> {ZP(SlotAddress(zp, op.n)), ZP(SlotAddress(zp, op.n) + 1)}
    [] op.k \in {"ind", "indY"} -> {Data(<<"DPTR">>, 0), Data(<<"DPTR">>, 1)}
    [] OTHER -> {}

(* A local slot loaded with something that can be loaded again: the reads  *)
(* of the slot load that instead, and a slot never read is not written.    *)
Boundary(i) == IsLabel(i) \/ IsTerminator(i) \/ i.op \in {"call", "prologue", "lea"}
Recomputable(op) == IsImm(op) \/ IsImmLabel(op) \/ op.k = "data" \/ IsIndexed(op)
LocalByte(op) == op.k = "data" /\ IsLocalSlot(op.n) /\ op.o = 0
WritesTo(i, d) == (IsMov(i) \/ IsIncDec(i) \/ IsShift(i) \/ i.op = "lea") /\ i.dst = d
RematUses(p, writable) ==
  LET producer(q, i) ==   \* the Mov that A holds the value of at i, or 0
        LET S == {j \in 1..i - 1 : Boundary(q[j]) \/ MovTo(q[j], RegA) \/ (~IsMov(q[j]) /\ WritesADirectly(q[j]))
                                   \/ IsAlu(q[j]) \/ (IsShift(q[j]) /\ q[j].dst = RegA)}
        IN IF S # {} /\ PlainMov(q[Greatest(S)]) THEN Greatest(S) ELSE 0
      stage(q, i) ==      \* where the value of the slot written at i comes from, or 0
        CASE Recomputable(q[i].src) -> i
          [] q[i].src = RegA -> IF producer(q, i) # 0 /\ Recomputable(q[producer(q, i)].src)
                                THEN producer(q, i) ELSE 0
          [] OTHER -> 0
      writes(j, r) == (IsMov(j) \/ IsIncDec(j)) /\ j.dst.k = r
      again(q, from, j) ==
        LET op == q[from].src IN
        CASE IsImm(op) \/ IsImmLabel(op) -> TRUE
          [] op.k = "data" \/ IsIndexed(op) ->
               /\ op.n \notin writable
               /\ \A k \in from + 1..j - 1 : q[k].op # "call"
               /\ IsIndexed(op) => \A k \in from + 1..j - 1 : ~writes(q[k], IndexRegOf(op))
      step(q, i) ==
        LET from == stage(q, i)
            use(j) == /\ j > i /\ PlainMov(q[j]) /\ q[j].src = q[i].dst
                      /\ \A k \in i + 1..j : ~Boundary(q[k]) /\ ~WritesTo(q[k], q[i].dst)
                      /\ again(q, from, j)
        IN IF from = 0 THEN q
           ELSE Listed([j \in DOMAIN q |-> IF use(j) THEN [q[j] EXCEPT !.src = q[from].src] ELSE q[j]])
  IN Fold(step, p, Indices(p, LAMBDA k : PlainMov(p[k]) /\ LocalByte(p[k].dst)))
ReferencedAddresses(p, zp) ==
  LET reads(i) == CASE i.op \in {"mov", "lea", "push"} -> {i.src}
                    [] IsAlu(i) -> {i.src}
                    [] i.op \in {"cmp"} \/ IsIncDec(i) \/ IsShift(i) -> {i.src, i.dst}
                    [] OTHER -> {}
      writes(i) == IF IsMov(i) \/ IsIncDec(i) \/ IsShift(i) \/ i.op = "lea" THEN {i.dst} ELSE {}
      pair(op) == IF op.k \in {"indZp", "indZpY"}
                  THEN LET a == SlotAddress(zp, op.n) + op.o IN {a, a + 1} ELSE {}
      of(op) == CASE op.k = "data" \/ IsIndexed(op) -> IF op.n \in DOMAIN zp THEN {zp[op.n] + op.o} ELSE {}
                  [] op.k = "zp" -> {op.o}
                  [] OTHER -> pair(op)
      dptr(op) == IF op.k \in {"ind", "indY"} THEN {36, 37} ELSE {}
  IN UNION {UNION {of(op) : op \in reads(p[k])} \cup UNION {pair(op) \cup dptr(op) : op \in writes(p[k])}
            : k \in DOMAIN p}
DropUnread(q, zp) ==
  LET referenced == ReferencedAddresses(q, zp)
      unread(i) == PlainMov(i) /\ LocalByte(i.dst) /\ i.dst.n \in DOMAIN zp /\ zp[i.dst.n] \notin referenced
  IN Rewrite(q, LAMBDA k : CASE unread(q[k]) /\ IsReg(q[k].src) -> Instead(1, <<>>)
                             [] unread(q[k]) /\ ~IsReg(q[k].src) -> Instead(1, <<Mov(q[k].src, RegA)>>)
                             [] OTHER -> Keep(q[k]))
Remat(p, zp) ==
  LET names == UNION {IF IsMov(i) \/ IsIncDec(i) \/ IsShift(i) \/ i.op = "lea" THEN {i.dst} ELSE {}
                      : i \in {p[k] : k \in DOMAIN p}}
  IN DropUnread(RematUses(p, {op.n : op \in {o \in names : o.k = "data" \/ IsIndexed(o)}}), zp)

----------------------------------------------------------------------------
(* A store is dead when, on every path, its byte is written again or the   *)
(* function is left before anything may read it.                           *)
StoreReads(zp, i) ==
  CASE IsMov(i) -> ({i.src} \cup PointerBytes(zp, i.dst))
    [] IsAlu(i) -> {i.src}
    [] i.op = "cmp" -> {i.src, i.dst}
    [] IsIncDec(i) \/ IsShift(i) -> {i.dst} \cup PointerBytes(zp, i.dst)
    [] i.op = "lea" -> IF i.src.k = "frame" THEN {Data(<<"FP">>, 0), Data(<<"FP">>, 1)} ELSE {}
    [] OTHER -> {}
DeadAtExit(zp, d) ==
  CASE d.k = "zp" -> d.o \in PoolLo..PoolHi
    [] d.k = "data" -> d.n = <<"DPTR">> \/ (d.n \in DOMAIN zp /\ zp[d.n] + d.o \in PoolLo..PoolHi)
RECURSIVE StoreDead(_, _, _, _, _)
StoreDead(ctx, p, d, todo, seen) ==
  IF todo = {} THEN TRUE
  ELSE LET k == CHOOSE k \in todo : TRUE
           i == p[k]
           target == {j \in DOMAIN p : IsLabel(p[j]) /\ p[j].to = i.to}
           on == {k + 1} \cap DOMAIN p
           Go(S) == StoreDead(ctx, p, d, (todo \cup S) \ (seen \cup {k}), seen \cup {k})
           private == d.k = "data" /\ d.n[1] = "local" /\ d.n[2] = ctx.name /\ d.n \notin ctx.taken
       IN CASE i.op = "call" -> private /\ Go(on)
            [] i.op = "prologue" -> FALSE
            [] i.op = "jmp" /\ target = {} -> d.k = "data" /\ IsLocalSlot(d.n) /\ Go({})
            [] i.op = "jmp" /\ target # {} -> Go(target)
            [] IsReturn(i) -> DeadAtExit(ctx.zp, d) /\ Go({})
            [] IsBranch(i) -> Go(on \cup target)
            [] OTHER -> IF \E op \in StoreReads(ctx.zp, i) : ~IsReg(op) /\ MayAliasIn(ctx.zp, op, d) THEN FALSE
                        ELSE IF (IsMov(i) \/ IsIncDec(i) \/ i.op = "lea") /\ i.dst = d THEN Go({})
                        ELSE Go(on)
AddressTakenBy(i) == \/ IsImmLabel(i.src) /\ i.op # "cmp"
                     \/ i.op = "lea" /\ i.src.k = "data"
AsmDeadStore(p, zp, name) ==
  LET ctx == [zp |-> zp, name |-> name,
              taken |-> {p[k].src.n : k \in {j \in DOMAIN p : AddressTakenBy(p[j])}}]
      dead(k) == /\ PlainMov(p[k]) /\ IsDataOrZp(p[k].dst)
                 /\ StoreDead(ctx, p, p[k].dst, {k + 1} \cap DOMAIN p, {})
  IN Rewrite(p, LAMBDA k : CASE ~dead(k) -> Keep(p[k])
                             [] dead(k) /\ IsReg(p[k].src) -> Instead(1, <<>>)
                             [] dead(k) /\ ~IsReg(p[k].src) -> Instead(1, <<Mov(p[k].src, RegA)>>))

----------------------------------------------------------------------------
(* Constants in memory, within a block: a, what A holds (-1 unknown), and  *)
(* the bytes known to be constant.                                         *)
ConstAfter(st, i) ==
  LET d == i.dst
      forget(t) == CASE IsDataOrZp(d) -> [t EXCEPT !.mem = Dropping(@, LAMBDA c : c = d)]
                     [] IsIndexed(d) -> [t EXCEPT !.mem = Dropping(@, LAMBDA c : c.k = "data" /\ c.n = d.n)]
                     [] IsReg(d) /\ d # RegA -> IF IsMov(i) /\ ~i.vol THEN t ELSE [t EXCEPT !.mem = <<>>]
                     [] OTHER -> [t EXCEPT !.mem = <<>>]
      set(v) == [st EXCEPT !.mem = (d :> v) @@ @]
  IN CASE Boundary(i) -> [a |-> -1, mem |-> <<>>]
       [] IsMov(i) /\ d = RegA -> [st EXCEPT !.a = IF IsImm(i.src) /\ ~i.vol THEN i.src.o % 256 ELSE -1]
       [] IsMov(i) /\ i.vol /\ d # RegA -> forget([st EXCEPT !.a = -1])
       [] PlainMov(i) /\ d # RegA ->
            IF IsDataOrZp(d) /\ IsImm(i.src) THEN set(i.src.o % 256)
            ELSE IF IsDataOrZp(d) /\ i.src = RegA /\ st.a >= 0 THEN set(st.a)
            ELSE forget(st)
       [] i.op \in {"and", "or"} /\ st.a >= 0 /\ IsImm(i.src) ->
            [st EXCEPT !.a = IF i.op = "and" THEN BitwiseAnd(@, i.src.o % 256) ELSE BitwiseOr(@, i.src.o % 256)]
       [] i.op \in {"and", "or"} /\ ~(st.a >= 0 /\ IsImm(i.src)) -> [st EXCEPT !.a = -1]
       [] i.op \in {"add", "sub", "xor"} \/ ((IsIncDec(i) \/ IsShift(i)) /\ d = RegA) -> [st EXCEPT !.a = -1]
       [] (IsIncDec(i) \/ IsShift(i)) /\ d # RegA -> forget(st)
       [] OTHER -> st
MemConstProp(p) ==
  LET substitute(st, i) ==
        IF (LoadsA(i) \/ i.op \in {"and", "or", "add", "sub", "cmp"}) /\ i.src \in DOMAIN st.mem
          THEN [i EXCEPT !.src = Imm(st.mem[@])] ELSE i
      step(acc, i) == LET j == substitute(acc.st, i)
                      IN [st |-> ConstAfter(acc.st, j), out |-> Append(acc.out, j)]
  IN Fold(step, [st |-> [a |-> -1, mem |-> <<>>], out |-> <<>>], p).out

(* STA t; LDA m; CLC; ADC t; STA m is STA t; CLC; ADC m; STA m: A still    *)
(* has t.                                                                  *)
Preserving(i, t) ==   \* the sum need not be taken before i
  LET touches == \E op \in {i.src, i.dst} : (IsMemory(op) \/ IsIndexed(op)) /\ MayAlias(op, t)
  IN (IsMov(i) \/ IsIncDec(i) \/ i.op \in {"clc", "sec", "cmp", "bit"}) /\ ~MovTo(i, RegA) /\ ~touches
ReloadsAddend(i) == LoadsA(i) /\ (IsDataOrZp(i.src) \/ IsIndexed(i.src))
(* at: the load after the store at k, alu: what adds the stored byte. *)
CommuteAt(p, k, at, alu) ==
  IF /\ at # 0 /\ ReloadsAddend(p[at])
     /\ At(p, alu).op \in {"add", "and", "or"} /\ p[alu].src = p[k].dst
     /\ StoresA(At(p, alu + 1)) /\ p[alu + 1].dst = p[at].src
  THEN Instead(alu + 2 - k, SubSeq(p, k, at - 1) \o SubSeq(p, at + 1, alu - 1)
                            \o <<[p[alu] EXCEPT !.src = p[at].src], p[alu + 1]>>)
  ELSE Keep(p[k])
CommuteFrom(p, k, at) ==
  CommuteAt(p, k, at, IF At(p, at + 1).op \in {"clc", "sec"} THEN at + 2 ELSE at + 1)
AdcCommute(p) ==
  LET next(k) == FirstFrom(p, k + 1, LAMBDA i : ReloadsAddend(i) \/ ~Preserving(i, p[k].dst))
  IN Rewrite(p, LAMBDA k : IF StoresAStable(p[k]) THEN CommuteFrom(p, k, next(k)) ELSE Keep(p[k]))
=============================================================================
