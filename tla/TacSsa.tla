------------------------------- MODULE TacSsa -------------------------------
(***************************************************************************)
(* The control flow of a TAC function (optimization/cfg.py), what an       *)
(* instruction reads and writes (var_visit.py), and the way into SSA and   *)
(* out of it (ssa_construction.py, ssa_destruction.py).  The promoted      *)
(* locals are the variables neither volatile, nor static, nor with their   *)
(* address taken; arrays and structs are not Vars here.                    *)
(***************************************************************************)
EXTENDS AsmSsa, TacIR

IsLabelTac(i) == i.op = "label"
IsJump(i)     == i.op \in {"jump", "jtrue", "jfalse", "jcmp", "jmask"}
EndsBlock(i)  == IsJump(i) \/ i.op = "ret"
NoInstr       == Tac("none", "", NoVal, NoVal, NoVal, <<>>)

TacBlocks(p) ==
  LET starts == Indices(p, LAMBDA k : k = 1 \/ IsLabelTac(p[k]) \/ EndsBlock(p[k - 1]))
  IN Listed([b \in DOMAIN starts |->
        SubSeq(p, starts[b], IF b = Len(starts) THEN Len(p) ELSE starts[b + 1] - 1)])
LabelledBlocks(bl, l) == {b \in DOMAIN bl : bl[b] # <<>> /\ IsLabelTac(bl[b][1]) /\ bl[b][1].to = l}
TacTarget(bl, l) == CHOOSE b \in LabelledBlocks(bl, l) : TRUE
TacSuccessors(bl, b) ==
  CASE b = 0 -> <<1>>
    [] b > Len(bl) -> <<>>
    [] OTHER ->
       LET last == Last(bl[b]) IN
       CASE last.op = "ret"  -> <<Len(bl) + 1>>
         [] last.op = "jump" -> <<TacTarget(bl, last.to)>>
         [] last.op \in {"jtrue", "jfalse", "jcmp", "jmask"} -> <<TacTarget(bl, last.to), b + 1>>
         [] OTHER            -> <<b + 1>>
TacSuccessorMap(bl) == Table([b \in 0..Len(bl) + 1 |-> TacSuccessors(bl, b)])

----------------------------------------------------------------------------
(* A GetAddress does not read its operand; the mask of a JumpIfMasked is a *)
(* constant.                                                               *)
ArgumentVals(i) == IF i.op = "phi" THEN Map(LAMBDA a : a.src, i.args) ELSE i.args
ReadVals(i)   == (IF i.op \in {"addr", "phi"} THEN <<>> ELSE <<i.a>>) \o <<i.b>> \o ArgumentVals(i)
TacUsesIn(i)  == SelectSeq(ReadVals(i), IsVar)
(* defs_in forgets IndirectIndexedLoad, which only appears once the passes *)
(* that ask are over.                                                      *)
TacDefsIn(i)  == IF IsVar(i.dst) /\ i.op # "indload" THEN {i.dst} ELSE {}
AllUses(p)    == Concat(Map(TacUsesIn, p))
CountUses(p, v) == Len(SelectSeq(AllUses(p), LAMBDA u : u = v))

SubstituteVal(sub, v) == IF v \in DOMAIN sub THEN sub[v] ELSE v
RewriteUsesIn(i, sub) ==
  [i EXCEPT !.a = IF i.op \in {"addr", "phi"} THEN @ ELSE SubstituteVal(sub, @),
            !.b = SubstituteVal(sub, @),
            !.args = IF i.op = "phi" THEN Map(LAMBDA a : [a EXCEPT !.src = SubstituteVal(sub, @)], @)
                                     ELSE Map(LAMBDA v : SubstituteVal(sub, v), @)]

----------------------------------------------------------------------------
(* Into SSA. *)
PrependPreheader(p) ==
  IF IsLabelTac(p[1]) THEN <<TLabel(<<"tac_preheader", 0>>)>> \o p ELSE p
LabelBlocks(bl) ==
  LET bare(b) == ~IsLabelTac(bl[b][1])
      nth(b)  == Cardinality({a \in 1..b - 1 : bare(a)})
  IN Listed([b \in DOMAIN bl |-> IF bare(b) THEN <<TLabel(<<"tac_block", nth(b)>>)>> \o bl[b] ELSE bl[b]])
ValsIn(i) == RangeOf(<<i.a, i.b, i.dst>> \o ArgumentVals(i))
Promotable(p, statics) ==
  LET taken == {p[k].a : k \in {j \in DOMAIN p : p[j].op = "addr"}}
  IN {v \in UNION {ValsIn(i) : i \in RangeOf(p)} :
        IsVar(v) /\ v \notin taken /\ v.n \notin statics \cup Volatile}

TacGen(code, vars) ==
  Fold(LAMBDA acc, i : [gen  |-> acc.gen \cup ((RangeOf(TacUsesIn(i)) \cap vars) \ acc.kill),
                        kill |-> acc.kill \cup (TacDefsIn(i) \cap vars)],
       [gen |-> {}, kill |-> {}], code)
TacLiveIn(bl, succ, vars) ==
  LET gk == Table([b \in DOMAIN succ |-> TacGen(IF b \in DOMAIN bl THEN bl[b] ELSE <<>>, vars)])
  IN LiveInFrom(succ, gk, [b \in DOMAIN succ |-> {}])
(* A phi carries its variable in a until its arguments are complete. *)
UnfilledPhi(v) == [TPhi(v, <<>>) EXCEPT !.a = v]
TacPlacePhis(bl, succ, df, vars, liveIn) ==
  LET pred   == PredecessorMap(succ)
      order  == Distinct(SelectSeq(Map(LAMBDA i : i.dst, SelectSeq(Concat(bl), LAMBDA i : TacDefsIn(i) # {})),
                                   LAMBDA v : v \in vars))
      at(v)  == PhiBlocks({y \in DOMAIN succ : Len(pred[y]) >= 2 /\ v \in liveIn[y]}, df,
                          {b \in DOMAIN bl : \E i \in RangeOf(bl[b]) : v \in TacDefsIn(i)}, {})
      blocks == Table([v \in RangeOf(order) |-> at(v)])
  IN Listed([b \in DOMAIN bl |->
        <<bl[b][1]>> \o Map(UnfilledPhi, SelectSeq(order, LAMBDA v : b \in blocks[v])) \o Tail(bl[b])])

(* Renaming, down the dominator tree; top has the current version of the   *)
(* variables that have one.                                                *)
VersionOf(v, n) == Var(v.t, Append(v.n, n))
TacRenameInstr(acc, i) ==
  LET read == IF i.op = "phi" THEN i ELSE RewriteUsesIn(i, acc.top)
      v    == i.dst
      new  == VersionOf(v, acc.cnt[v] + 1)
  IN IF v \notin DOMAIN acc.cnt THEN [acc EXCEPT !.new = Append(@, read)]
     ELSE [new |-> Append(acc.new, [read EXCEPT !.dst = new]),
           cnt |-> [acc.cnt EXCEPT ![v] = @ + 1], top |-> (v :> new) @@ acc.top]
TacAddPhiArgs(code, top, from) ==
  Map(LAMBDA i : IF i.op # "phi" THEN i
                 ELSE [i EXCEPT !.args = Append(@, PhiArg(from, SubstituteVal(top, i.a)))], code)
RECURSIVE TacRenameBlock(_, _, _, _), TacRenameChildren(_, _, _, _)
TacRenameChildren(g, b, st, mine) ==
  LET renamed  == IF b \in DOMAIN st.bl THEN [st.bl EXCEPT ![b] = mine.new] ELSE st.bl
      withArgs == Fold(LAMBDA bl, s : IF s \in DOMAIN bl
                                        THEN [bl EXCEPT ![s] = TacAddPhiArgs(@, mine.top, bl[b][1].to)]
                                        ELSE bl,
                       renamed, IF b = 0 THEN <<>> ELSE g.succ[b])
  IN Fold(LAMBDA s, c : TacRenameBlock(g, c, s, mine.top), [bl |-> withArgs, cnt |-> mine.cnt],
          g.children[b])
TacRenameBlock(g, b, st, top) ==
  TacRenameChildren(g, b, st, Fold(TacRenameInstr, [new |-> <<>>, cnt |-> st.cnt, top |-> top],
                                   IF b \in DOMAIN st.bl THEN st.bl[b] ELSE <<>>))

(* The function in SSA, and the names that have one definition from now on. *)
TacRenamed(bl, vars, params, g) ==
  LET kept == {v \in vars : v.n \in params}
      code == Map(LAMBDA i : IF i.op = "phi" THEN [i EXCEPT !.a = NoVal] ELSE i,
                  Concat(TacRenameBlock(g, 0, [bl |-> bl, cnt |-> [v \in vars |-> 0]], [v \in kept |-> v]).bl))
      old  == UNION {ValsIn(i) : i \in RangeOf(Concat(bl))}
  IN [tac |-> code, ssa |-> kept \cup (UNION {TacDefsIn(i) : i \in RangeOf(code)} \ old)]
TacSsaIn(bl, vars, params, succ, idom) ==
  TacRenamed(TacPlacePhis(bl, succ, DominanceFrontiers(succ, idom), vars, TacLiveIn(bl, succ, vars)),
             vars, params, [succ |-> succ, children |-> DominatorTreeChildren(succ, idom)])
TacSsaOver(bl, vars, params, succ) == TacSsaIn(bl, vars, params, succ, ImmediateDominators(succ))
TacSsaOf(bl, vars, params) ==
  IF vars = {} THEN [tac |-> Concat(bl), ssa |-> {}]
  ELSE TacSsaOver(bl, vars, params, TacSuccessorMap(bl))
TacToSsa(p, params, statics) ==
  TacSsaOf(LabelBlocks(TacBlocks(PrependPreheader(p))), Promotable(p, statics), params)

----------------------------------------------------------------------------
(* Out of SSA.  The copies go before the jump that ends the predecessor,   *)
(* on both its edges when it has two.                                      *)
RECURSIVE TacOrderCopies(_, _, _)
TacOrderCopies(pending, out, cycles) ==
  LET n == Len(pending)
      ready == {j \in 1..n : \A h \in 1..n \ {j} : pending[h].a # pending[j].dst}
      j   == Least(ready)
      tmp == Var(pending[1].dst.t, <<"tac_cycle_tmp", cycles + 1>>)
  IN CASE n = 0 -> [out |-> out, cycles |-> cycles]
       [] n > 0 /\ ready # {} ->
            TacOrderCopies(SubSeq(pending, 1, j - 1) \o SubSeq(pending, j + 1, n),
                           Append(out, pending[j]), cycles)
       [] OTHER ->
            TacOrderCopies(<<pending[1]>> \o Map(LAMBDA c : IF c.a = pending[1].dst
                                                              THEN [c EXCEPT !.a = tmp] ELSE c, Tail(pending)),
                           Append(out, TCopy(pending[1].dst, tmp)), cycles + 1)
BeforeTheJump(code, copies) ==
  LET at == IF code # <<>> /\ EndsBlock(Last(code)) THEN Len(code) - 1 ELSE Len(code)
  IN SubSeq(code, 1, at) \o copies \o SubSeq(code, at + 1, Len(code))
TacCopyOn(st, l, edges) ==
  LET copies == Map(LAMBDA e : e.copy, SelectSeq(edges, LAMBDA e : e.lbl = l))
      done   == IF Len(copies) <= 1 THEN [out |-> copies, cycles |-> st.cycles]
                ELSE TacOrderCopies(copies, <<>>, st.cycles)
  IN IF LabelledBlocks(st.bl, l) = {} THEN st
     ELSE [bl |-> [st.bl EXCEPT ![TacTarget(st.bl, l)] = BeforeTheJump(@, done.out)],
           cycles |-> done.cycles]
TacDestroyBlock(st, b) ==
  LET phis  == SelectSeq(st.bl[b], LAMBDA i : i.op = "phi")
      edges == Concat(Map(LAMBDA f : Map(LAMBDA a : [lbl |-> a.lbl, copy |-> TCopy(a.src, f.dst)], f.args),
                          phis))
      copied == Fold(LAMBDA s, l : TacCopyOn(s, l, edges), st, Distinct(Map(LAMBDA e : e.lbl, edges)))
  IN IF phis = <<>> THEN st
     ELSE [copied EXCEPT !.bl[b] = SelectSeq(@, LAMBDA i : i.op # "phi")]
TacFromSsa(p) ==
  LET bl == TacBlocks(p)
  IN Concat(Fold(TacDestroyBlock, [bl |-> bl, cycles |-> 0], [b \in DOMAIN bl |-> b]).bl)
=============================================================================
