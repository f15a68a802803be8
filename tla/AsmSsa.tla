------------------------------- MODULE AsmSsa -------------------------------
(***************************************************************************)
(* Into SSA and out of it, one byte of a Pseudo being a variable           *)
(* (optimization_asm/ssa_construction.py, ssa_destruction.py), and the     *)
(* rewrites of the SSA form (optimization_asm/optimizer.py): copy          *)
(* propagation both ways, dead bytes, OR onto a zero, and the subtraction  *)
(* of one that is its own test for zero.                                   *)
(***************************************************************************)
EXTENDS AsmFlow

IsPseudo(op) == op.k = "pseudo"
NamesOf(ops) == {op.n : op \in {x \in ops : IsPseudo(x)}}
RangeOf(s) == {s[k] : k \in DOMAIN s}
Distinct(s) == Fold(LAMBDA acc, x : IF x \in RangeOf(acc) THEN acc ELSE Append(acc, x), <<>>, s)

(* A pointer staged in DPTR keeps its two bytes together: the four Movs.   *)
StagesDptr(p, k) ==
  /\ \A j \in 0..3 : IsMov(At(p, k + j))
  /\ IsPseudo(p[k].src) /\ p[k].src.o = 0 /\ p[k].dst = RegA
  /\ p[k + 1].src = RegA /\ p[k + 1].dst = Data(<<"DPTR">>, 0)
  /\ p[k + 2].src = Pseudo(p[k].src.n, 1) /\ p[k + 2].dst = RegA
  /\ p[k + 3].src = RegA /\ p[k + 3].dst = Data(<<"DPTR">>, 1)
ExcludedNames(p) ==
  UNION {NamesOf(CASE i.op = "lea" -> {i.src, i.dst}
                   [] IsIncDec(i) \/ IsShift(i) -> {i.dst}
                   [] IsMov(i) /\ i.vol -> {i.src, i.dst}
                   [] OTHER -> {}) : i \in RangeOf(p)}
  \cup {p[k].src.n : k \in {j \in DOMAIN p : StagesDptr(p, j)}}

(* What SSA construction takes to be written and read. *)
Keys(ops) == {<<op.n, op.o>> : op \in {x \in ops : IsPseudo(x)}}
DefsIn(i) == Keys(IF i.op \in {"cmp", "bit"} THEN {} ELSE {i.dst})
UsesIn(i) == Keys(CASE i.op = "cmp" -> {i.src, i.dst}
                    [] i.op = "lea" -> {}
                    [] OTHER -> {i.src} \cup {i.args[k].src : k \in DOMAIN i.args})
PromotableByteVars(p, excluded) ==
  {v \in Keys(UNION {Operands(i) : i \in RangeOf(p)}) : v[1] \notin excluded}

----------------------------------------------------------------------------
MaybePrependPreheader(p) == IF IsLabel(p[1]) THEN <<Label(<<"ssa_preheader", 0>>)>> \o p ELSE p
EnsureBlockLabels(bl) ==
  LET bare(b) == ~IsLabel(bl[b][1])
      nth(b)  == Cardinality({a \in 1..b - 1 : bare(a)})
  IN Listed([b \in DOMAIN bl |-> IF bare(b) THEN <<Label(<<"ssa_block", nth(b)>>)>> \o bl[b] ELSE bl[b]])

Gen(code, vars) ==
  Fold(LAMBDA acc, i : [gen  |-> acc.gen \cup ((UsesIn(i) \cap vars) \ acc.kill),
                        kill |-> acc.kill \cup (DefsIn(i) \cap vars)],
       [gen |-> {}, kill |-> {}], code)
RECURSIVE LiveInFrom(_, _, _)
LiveInFrom(succ, gk, live) ==
  LET next == Table([b \in DOMAIN succ |->
                       gk[b].gen \cup (UNION {live[s] : s \in RangeOf(succ[b])} \ gk[b].kill)])
  IN IF next = live THEN live ELSE LiveInFrom(succ, gk, next)
ComputeLiveIn(bl, succ, vars) ==
  LET gk == Table([b \in DOMAIN succ |-> Gen(IF b \in DOMAIN bl THEN bl[b] ELSE <<>>, vars)])
  IN LiveInFrom(succ, gk, [b \in DOMAIN succ |-> {}])

(* The blocks where v needs a phi; the variables, in order of definition.  *)
RECURSIVE PhiBlocks(_, _, _, _)
PhiBlocks(wanted, df, defs, placed) ==
  LET more == {y \in wanted : \E x \in (defs \cup placed) \cap DOMAIN df : y \in df[x]}
  IN IF more = placed THEN placed ELSE PhiBlocks(wanted, df, defs, more)
DefOrder(bl, vars) ==
  Fold(LAMBDA acc, i : LET new == (DefsIn(i) \cap vars) \ RangeOf(acc)
                       IN IF new = {} THEN acc ELSE Append(acc, CHOOSE v \in new : TRUE),
       <<>>, Concat(bl))
PlacePhis(bl, succ, df, vars) ==
  LET pred   == PredecessorMap(succ)
      liveIn == ComputeLiveIn(bl, succ, vars)
      at(v)  == PhiBlocks({y \in DOMAIN succ : Len(pred[y]) >= 2 /\ v \in liveIn[y]}, df,
                          {b \in DOMAIN bl : \E i \in RangeOf(bl[b]) : v \in DefsIn(i)}, {})
      order  == DefOrder(bl, vars)
      blocks == Map(at, order)
      phis(b) == LET here == Indices(order, LAMBDA k : b \in blocks[k])
                 IN Map(LAMBDA k : LET v == Pseudo(order[k][1], order[k][2])
                                   IN [Phi(v, <<>>) EXCEPT !.src = v], here)
  IN Listed([b \in DOMAIN bl |-> <<bl[b][1]>> \o phis(b) \o Tail(bl[b])])

(* Renaming, down the dominator tree.  st is the blocks and the version    *)
(* counters, top the current version of each variable on this path (None   *)
(* when it has none).  A phi carries its variable in src until its         *)
(* arguments are complete.                                                 *)
Version(v, n) == Pseudo(v[1] \o <<"b", v[2], n>>, 0)
RenameInstr(acc, i) ==
  LET use(op) == IF IsPseudo(op) /\ <<op.n, op.o>> \in DOMAIN acc.top
                    /\ acc.top[<<op.n, op.o>>] # None
                 THEN acc.top[<<op.n, op.o>>] ELSE op
      defs == DefsIn(i) \cap DOMAIN acc.top
      v    == CHOOSE x \in defs : TRUE
      new  == Version(v, acc.cnt[v] + 1)
      read == IF i.op = "phi" THEN i
              ELSE [i EXCEPT !.src = use(@), !.dst = IF defs = {} \/ IsIncDec(i) \/ IsShift(i)
                                                       THEN use(@) ELSE @]
  IN IF defs = {} \/ IsIncDec(i) \/ IsShift(i) THEN [acc EXCEPT !.new = Append(@, read)]
     ELSE [new |-> Append(acc.new, [read EXCEPT !.dst = new]),
           cnt |-> [acc.cnt EXCEPT ![v] = @ + 1], top |-> [acc.top EXCEPT ![v] = new]]
AddPhiArgs(code, top, predLabel) ==
  Map(LAMBDA i : IF i.op # "phi" THEN i
                 ELSE LET here == top[<<i.src.n, i.src.o>>] IN
                      [i EXCEPT !.args = Append(@, [lbl |-> predLabel,
                                                    src |-> IF here = None THEN i.src ELSE here])],
      code)
RECURSIVE RenameBlock(_, _, _, _), RenameChildren(_, _, _, _)
RenameChildren(g, b, st, mine) ==
  LET renamed == IF b \in DOMAIN st.bl THEN [st.bl EXCEPT ![b] = mine.new] ELSE st.bl
      withArgs == Fold(LAMBDA bl, s : IF s \in DOMAIN bl
                                        THEN [bl EXCEPT ![s] = AddPhiArgs(@, mine.top, bl[b][1].to)]
                                        ELSE bl,
                       renamed, IF b = 0 THEN <<>> ELSE g.succ[b])
  IN Fold(LAMBDA s, c : RenameBlock(g, c, s, mine.top), [bl |-> withArgs, cnt |-> mine.cnt],
          g.children[b])
RenameBlock(g, b, st, top) ==
  RenameChildren(g, b, st, Fold(RenameInstr, [new |-> <<>>, cnt |-> st.cnt, top |-> top],
                                IF b \in DOMAIN st.bl THEN st.bl[b] ELSE <<>>))

RenamedIn(bl, vars, top, g) ==
  Map(LAMBDA i : IF i.op = "phi" THEN [i EXCEPT !.src = None] ELSE i,
      Concat(RenameBlock(g, 0, [bl |-> bl, cnt |-> [v \in vars |-> 0]], top).bl))
SsaIn(bl, vars, top, succ, idom) ==
  RenamedIn(PlacePhis(bl, succ, DominanceFrontiers(succ, idom), vars), vars, top,
            [succ |-> succ, children |-> DominatorTreeChildren(succ, idom)])
SsaOver(bl, vars, top, succ) == SsaIn(bl, vars, top, succ, ImmediateDominators(succ))
SsaOf(bl, vars, params) ==
  IF vars = {} THEN Concat(bl)
  ELSE SsaOver(bl, vars, Table([v \in vars |-> IF v[1] \in params THEN Pseudo(v[1], v[2]) ELSE None]),
               SuccessorMap(bl))
ToSsa(p, params, statics) ==
  SsaOf(EnsureBlockLabels(BuildCfg(MaybePrependPreheader(p))),
        PromotableByteVars(p, ExcludedNames(p) \cup statics), params)

----------------------------------------------------------------------------
(* Out of SSA.  An edge from a conditional branch to a merge with phis gets *)
(* a block of its own for the copies.                                       *)
LeadingLabel(p, k) == LET S == {j \in 1..k : IsLabel(p[j])}
                      IN IF S = {} THEN <<>> ELSE p[Greatest(S)].to
PhiMerges(p) == {LeadingLabel(p, k) : k \in {j \in DOMAIN p : p[j].op = "phi"}}
(* In the block of the merge, the leading phis only. *)
RewritePhiPredLabel(p, merge, old, new) ==
  Listed([k \in DOMAIN p |->
     IF /\ p[k].op = "phi" /\ LeadingLabel(p, k) = merge
        /\ \A j \in LabelIndex(p, merge) + 1..k : p[j].op = "phi"
     THEN [p[k] EXCEPT !.args = Map(LAMBDA a : IF a.lbl = old THEN [a EXCEPT !.lbl = new] ELSE a, @)]
     ELSE p[k]])
SplitCriticalEdges(p) ==
  LET merges   == PhiMerges(p)
      taken    == Indices(p, LAMBDA k : IsBranch(p[k]) /\ p[k].to \in merges)
      branches == Indices(p, LAMBDA k : IsBranch(p[k]))
      falls    == SelectSeq(branches, LAMBDA k : IsLabel(At(p, k + 1)) /\ p[k + 1].to \in merges)
      Fresh(k, fall) == <<"ssa_split", Cardinality({j \in RangeOf(taken) : j < k})
                                       + Cardinality({j \in RangeOf(falls) : j < k})
                                       + (IF fall /\ k \in RangeOf(taken) THEN 1 ELSE 0)>>
      retargeted == Listed([k \in DOMAIN p |-> IF k \in RangeOf(taken)
                                                 THEN [p[k] EXCEPT !.to = Fresh(k, FALSE)] ELSE p[k]])
      viaTaken == Fold(LAMBDA q, k : RewritePhiPredLabel(q, p[k].to, LeadingLabel(p, k), Fresh(k, FALSE)),
                       retargeted, taken)
      viaFalls == Fold(LAMBDA q, k : RewritePhiPredLabel(q, p[k + 1].to, LeadingLabel(p, k), Fresh(k, TRUE)),
                       viaTaken, [j \in DOMAIN falls |-> falls[Len(falls) + 1 - j]])
      inserted == Concat([k \in DOMAIN viaFalls |->
                            IF k \in RangeOf(falls) THEN <<viaFalls[k], Label(Fresh(k, TRUE))>>
                            ELSE <<viaFalls[k]>>])
  IN inserted \o Concat([j \in DOMAIN taken |-> <<Label(Fresh(taken[j], FALSE)), Jump(p[taken[j]].to)>>])

(* The copies of one edge happen at once: one whose destination no other   *)
(* reads goes first; when there is none the first destination is saved and *)
(* its readers turned to the copy.                                         *)
RECURSIVE OrderParallelCopies(_, _, _)
OrderParallelCopies(pending, out, cycles) ==
  LET n == Len(pending)
      blocked(j) == \E h \in 1..n \ {j} : pending[h].src = pending[j].dst
      ready == {j \in 1..n : ~blocked(j)}
      j   == Least(ready)
      tmp == Pseudo(<<"cycle_tmp", cycles + 1>>, 0)
  IN CASE n = 0 -> [out |-> out, cycles |-> cycles]
       [] n > 0 /\ ready # {} ->
            OrderParallelCopies(SubSeq(pending, 1, j - 1) \o SubSeq(pending, j + 1, n),
                                Append(out, pending[j]), cycles)
       [] OTHER ->
            OrderParallelCopies(Map(LAMBDA m : IF m.src = pending[1].dst /\ m # pending[1]
                                                 THEN [m EXCEPT !.src = tmp] ELSE m, pending),
                                Append(out, Mov(pending[1].dst, tmp)), cycles + 1)
SafeDstXySplit(movs) ==
  Concat(Map(LAMBDA m : IF m.dst.k \in {"X", "Y"} /\ ~IsImm(m.src) /\ ~IsReg(m.src)
                          THEN <<Mov(m.src, RegA), Mov(RegA, m.dst)>> ELSE <<m>>, movs))

InsertCopies(code, movs) ==
  LET at == IF IsTerminator(Last(code)) THEN Len(code) - 1 ELSE Len(code)
  IN SubSeq(code, 1, at) \o movs \o SubSeq(code, at + 1, Len(code))
DestroyBlock(st, b) ==
  LET phis  == SelectSeq(st.bl[b], LAMBDA i : i.op = "phi")
      edges == Concat(Map(LAMBDA f : Map(LAMBDA a : [lbl |-> a.lbl, mov |-> Mov(a.src, f.dst)], f.args),
                          phis))
      preds == Fold(LAMBDA acc, e : IF e.lbl \in RangeOf(acc) THEN acc ELSE Append(acc, e.lbl),
                    <<>>, edges)
      copyOn(s, l) ==
        LET movs == SelectSeq(edges, LAMBDA e : e.lbl = l)
            done == IF Len(movs) <= 1 THEN [out |-> Map(LAMBDA e : e.mov, movs), cycles |-> s.cycles]
                    ELSE OrderParallelCopies(Map(LAMBDA e : e.mov, movs), <<>>, s.cycles)
            a == BlockOfLabel(s.bl, l)
        IN [bl |-> [s.bl EXCEPT ![a] = InsertCopies(@, SafeDstXySplit(done.out))],
            cycles |-> done.cycles]
      copied == Fold(copyOn, st, preds)
  IN IF phis = <<>> THEN st
     ELSE [copied EXCEPT !.bl[b] = SelectSeq(@, LAMBDA i : i.op # "phi")]
DestroyPhis(bl) == Fold(DestroyBlock, [bl |-> bl, cycles |-> 0], [b \in DOMAIN bl |-> b])
FromSsa(p) == Concat(DestroyPhis(BuildCfg(SplitCriticalEdges(p))).bl)

-----------------------------------------------------------------------------
(* copy_propagation.py: a byte with one definition, a copy, is its source. *)
CollectCopySources(p, excluded) ==
  LET copies == {k \in DOMAIN p :
                   /\ IsMov(p[k]) /\ IsPseudo(p[k].dst) /\ p[k].dst.n \notin excluded
                   /\ \/ IsImm(p[k].src) \/ IsImmLabel(p[k].src)
                      \/ IsPseudo(p[k].src) /\ p[k].src.n \notin excluded}
  IN Table([d \in {p[k].dst : k \in copies} |-> p[Greatest({k \in copies : p[k].dst = d})].src])
RECURSIVE Resolve(_, _, _)
Resolve(copySrc, op, seen) ==
  IF op \notin DOMAIN copySrc \/ op \in seen THEN op
  ELSE Resolve(copySrc, copySrc[op], seen \cup {op})
ResolveAll(copySrc) == Table([d \in DOMAIN copySrc |-> Resolve(copySrc, copySrc[d], {})])
Substitute(p, resolved) ==
  LET sub(op) == IF op \in DOMAIN resolved THEN resolved[op] ELSE op
  IN Map(LAMBDA i : IF i.op = "lea" THEN i
                    ELSE [i EXCEPT !.src = sub(@),
                                   !.dst = IF IsMov(i) \/ i.op \in {"phi", "pop"} THEN @ ELSE sub(@),
                                   !.args = Map(LAMBDA a : [a EXCEPT !.src = sub(@)], @)], p)
CopyPropagate(p, statics) ==
  Substitute(p, ResolveAll(CollectCopySources(p, ExcludedNames(p) \cup statics)))

----------------------------------------------------------------------------
(* The operands an instruction uses; a destination updated in place is one. *)
UseOperands(i) ==
  Map(LAMBDA a : a.src, i.args)
  \o (IF IsMov(i) \/ i.op \in {"push", "lea"} THEN <<i.src>>
      ELSE IF i.op = "cmp" \/ IsAlu(i) \/ IsIncDec(i) \/ IsShift(i) THEN <<i.src, i.dst>> ELSE <<>>)
UseCount(p, op) ==
  Fold(LAMBDA n, i : n + Len(SelectSeq(UseOperands(i), LAMBDA u : u = op)), 0, p)

(* backward_copy_propagation.py: A goes to P, and P, by A, to D: it goes   *)
(* to D at once, when nothing on the way touches D.                        *)
OperandsAlias(a, b) ==
  \/ a.k = "data" /\ a = b
  \/ a.k = "ind" /\ b.k = "data" /\ b.n = <<"DPTR">>
  \/ b.k = "ind" /\ a.k = "data" /\ a.n = <<"DPTR">>
SafeRelocationRange(p, lo, hi, d) ==
  \A k \in lo..hi : /\ ~IsLabel(p[k]) /\ ~IsTerminator(p[k]) /\ p[k].op # "call"
                    /\ \A op \in Operands(p[k]) : ~OperandsAlias(op, d)
DefsBefore(p, k, op) == {j \in 1..k - 1 : MovTo(p[j], op)}
BackwardMatch(p, k, excluded) ==
  LET a == p[k]  b == At(p, k + 1)  defs == DefsBefore(p, k, a.src) IN
  /\ MovTo(a, RegA) /\ ~a.vol /\ IsPseudo(a.src) /\ a.src.n \notin excluded
  /\ MovFrom(b, RegA) /\ ~b.vol /\ b.dst.k = "data"
  /\ UseCount(p, a.src) = 1
  /\ Cardinality(defs) = 1
  /\ \A j \in defs : /\ p[j].src = RegA /\ ~p[j].vol
                     /\ SafeRelocationRange(p, j + 1, k - 1, b.dst)
  /\ ADeadAt(p, k + 2) /\ FlagsDeadAt(p, k + 2)
BackwardPass(p, statics) ==
  LET excluded == ExcludedNames(p) \cup statics
      claim(acc, k) ==
        LET def == Least(DefsBefore(p, k, p[k].src)) IN
        IF {k, k + 1} \cap acc.claimed # {} \/ ~BackwardMatch(p, k, excluded) THEN acc
        ELSE IF def \in acc.claimed THEN acc
        ELSE [claimed |-> acc.claimed \cup {def, k, k + 1}, dead |-> acc.dead \cup {k, k + 1},
              code |-> [acc.code EXCEPT ![def].dst = p[k + 1].dst]]
      done == Fold(claim, [claimed |-> {}, dead |-> {}, code |-> p], [k \in 1..Len(p) - 1 |-> k])
  IN Without(done.code, done.dead)
RECURSIVE BackwardCopyPropagate(_, _), BackwardAgain(_, _, _)
BackwardAgain(p, q, statics) == IF q = p THEN p ELSE BackwardCopyPropagate(q, statics)
BackwardCopyPropagate(p, statics) == BackwardAgain(p, BackwardPass(p, statics), statics)

(* byte_dce.py *)
RECURSIVE DropDead(_, _)
DropDead(p, kept) ==
  LET used == UNION {RangeOf(UseOperands(i)) : i \in RangeOf(p)}
      q == SelectSeq(p, LAMBDA i : ~(/\ (IsMov(i) /\ ~i.vol) \/ i.op = "phi"
                                     /\ IsPseudo(i.dst) /\ i.dst.n \notin kept /\ i.dst \notin used))
  IN IF q = p THEN p ELSE DropDead(q, kept)
ByteDce(p, statics) == DropDead(p, ExcludedNames(p) \cup statics)

(* or_zero_absorb.py *)
AbsorbZeroLoad(p) ==
  Rewrite(p, LAMBDA k : IF p[k] = Mov(Imm(0), RegA) /\ At(p, k + 1).op = "or"
                          THEN [take |-> 2, new |-> <<Mov(p[k + 1].src, RegA)>>]
                          ELSE Keep(p[k]))

(* sub1_test_zero_peephole.py: SBC #1 already tells whether M was zero, its *)
(* carry being the opposite of that of 0 compared with M.                   *)
Sub1TestZero(p) ==
  LET matches(k) ==
        LET m == p[k].src  i(j) == At(p, k + j) IN
        /\ MovTo(p[k], RegA) /\ ~p[k].vol /\ m.k \in {"data", "zp", "pseudo"}
        /\ i(1) = SetCarry /\ i(2) = Sub(Imm(1))
        /\ MovFrom(i(3), RegA) /\ i(3).dst # m
        /\ MovTo(i(4), RegA) /\ i(4).src = Imm(0) /\ i(5) = Compare(RegA, m) /\ i(6).op \in {"CC", "CS"}
  IN Rewrite(p, LAMBDA k : IF matches(k)
                 THEN [take |-> 7, new |-> SubSeq(p, k, k + 3)
                         \o <<Branch(IF p[k + 6].op = "CC" THEN "CS" ELSE "CC", p[k + 6].to)>>]
                 ELSE Keep(p[k]))

(* The simplifications, to a fixed point. *)
SimplifyOnce(p, statics) ==
  AbsorbZeroLoad(ByteDce(BackwardCopyPropagate(CopyPropagate(p, statics), statics), statics))
RECURSIVE Simplify(_, _), SimplifyAgain(_, _, _)
SimplifyAgain(p, q, statics) == IF q = p THEN p ELSE Simplify(q, statics)
Simplify(p, statics) == SimplifyAgain(p, SimplifyOnce(p, statics), statics)
=============================================================================
