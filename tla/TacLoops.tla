------------------------------ MODULE TacLoops ------------------------------
(***************************************************************************)
(* The TAC passes that move code: a countdown loop tested at its bottom    *)
(* (loop_rotate.py, before SSA), loops that do nothing                     *)
(* (dead_loop_elimination.py), increments after the last use of the old    *)
(* value (sink_increment.py), a mask behind the branch that follows it     *)
(* (sink_and_past_branch.py), and, after SSA, the jumps of && and ||       *)
(* (short_circuit_jump_fold.py).                                           *)
(***************************************************************************)
EXTENDS TacFold

LastWhere(p, Test(_)) == LET S == {k \in DOMAIN p : Test(p[k])} IN IF S = {} THEN NoInstr ELSE p[Greatest(S)]
FirstDef(p, v) == LET k == FirstFrom(p, 1, LAMBDA i : i.dst = v) IN IF k = 0 THEN NoInstr ELSE p[k]

(* The labels of a loop are <<"start", id>>, <<"continue", id>> and        *)
(* <<"break", id>>; a temporary of the front end is named <<"%", id>>.     *)
IsLoopStart(i)  == IsLabelTac(i) /\ i.to[1] = "start"
EndsCondition(i) == i.op \in {"label", "jump", "jtrue", "jcmp", "jmask", "ret", "call"}
EndsPost(i)     == EndsCondition(i) \/ i.op = "jfalse"
HighestSigned(t) == Modulus(SizeOf(t)) \div 2 - 1

RECURSIVE ResolvesToZero(_, _), TracedVar(_, _)
ResolvesToZero(block, v) ==
  LET d == FirstDef(block, v) IN
  IF IsConst(v) THEN v.v = 0 ELSE d.op \in {"convert", "copy"} /\ ResolvesToZero(block, d.a)
TracedVar(block, v) ==
  LET d == FirstDef(block, v) IN
  CASE IsConst(v) -> NoVal
    [] IsVar(v) /\ v.n[1] # "%" -> v
    [] OTHER -> IF IsExtend(d) \/ d.op = "copy" THEN TracedVar(block, d.a) ELSE NoVal
(* The variable that the condition compares with zero. *)
CountdownVar(block, cond) ==
  LET ge == LastWhere(block, LAMBDA i : i.op = "binary" /\ i.dst = cond) IN
  IF ge.op = "binary" /\ ge.o = "ge" /\ ResolvesToZero(block, ge.b) THEN TracedVar(block, ge.a) ELSE NoVal
StepsDownByOne(post, v) ==
  /\ Len(post) >= 2
  /\ LET sub == post[Len(post) - 1] IN
     /\ sub.op = "binary" /\ sub.o = "sub" /\ sub.a = v /\ IsConst(sub.b) /\ sub.b.v = 1
     /\ Last(post) = TCopy(sub.dst, v)
RECURSIVE StartsInRange(_, _, _, _)
StartsInRange(before, v, high, depth) ==
  LET defs == {k \in DOMAIN before : v \in TacDefsIn(before[k])}  d == before[Greatest(defs)] IN
  /\ depth <= 4 /\ defs # {} /\ d.op \in {"copy", "convert"}
  /\ IF IsConst(d.a) THEN d.a.v \in 0..high
     ELSE StartsInRange(SubSeq(before, 1, Greatest(defs) - 1), d.a, high, depth + 1)

(* The loop that starts at k: the positions of its conditional jump, its   *)
(* continue label and its jump back, 0 for what it has not got.            *)
LoopAt(p, k) ==
  LET id   == p[k].to[2]
      leaves(i) == i.op = "jfalse" /\ i.to = <<"break", id>>
      cond == FirstFrom(p, k + 1, LAMBDA i : EndsCondition(i) \/ leaves(i))
      cont == FirstFrom(p, IF cond = 0 THEN 1 ELSE cond + 1, LAMBDA i : IsLabelTac(i) /\ i.to = <<"continue", id>>)
      back == FirstFrom(p, IF cont = 0 THEN 1 ELSE cont + 1, EndsPost)
  IN [id |-> id, start |-> k, cont |-> cont, back |-> back, cond |-> IF cond # 0 /\ leaves(p[cond]) THEN cond ELSE 0]
IsCountdown(p, l, v) ==
  /\ v # NoVal /\ v.t \in SignedTypes
  /\ p[l.back] = TJump(<<"start", l.id>>) /\ l.back < Len(p) /\ p[l.back + 1] = TLabel(<<"break", l.id>>)
  /\ StepsDownByOne(SubSeq(p, l.cont + 1, l.back - 1), v)
  /\ StartsInRange(SubSeq(p, 1, l.start - 1), v, HighestSigned(v.t), 0)
(* The body only sees values of the counter that are not negative, unless  *)
(* it writes it.                                                           *)
WithZeroExtended(body, v) ==
  IF \E i \in RangeOf(body) : v \in TacDefsIn(i) THEN body
  ELSE Map(LAMBDA i : IF i.op = "convert" /\ i.o = "sext" /\ i.a = v THEN [i EXCEPT !.o = "zext"] ELSE i, body)
Rotated(p, l, v) ==
  <<p[l.start]>> \o WithZeroExtended(SubSeq(p, l.cond + 1, l.cont - 1), v) \o SubSeq(p, l.cont, l.back - 1)
  \o SubSeq(p, l.start + 1, l.cond - 1) \o <<TJumpIfTrue(p[l.cond].a, p[l.start].to), p[l.back + 1]>>
RotateLoop(p, l) ==
  LET v == IF l.cond # 0 /\ IsVar(p[l.cond].a)
             THEN CountdownVar(SubSeq(p, l.start + 1, l.cond - 1), p[l.cond].a) ELSE NoVal
  IN IF 0 \notin {l.cond, l.cont, l.back} /\ IsCountdown(p, l, v)
       THEN [take |-> l.back + 2 - l.start, new |-> Rotated(p, l, v)] ELSE Keep(p[l.start])
RotateSignedCountdownLoops(p) ==
  Rewrite(p, LAMBDA k : IF IsLoopStart(p[k]) THEN RotateLoop(p, LoopAt(p, k)) ELSE Keep(p[k]))

----------------------------------------------------------------------------
(* Natural loops: a header, and the blocks from which one of its back      *)
(* edges is reached without passing it.                                    *)
RECURSIVE Dominates(_, _, _)
Dominates(idom, d, b) == d = b \/ (b # 0 /\ Dominates(idom, d, idom[b]))
RECURSIVE LoopBody(_, _, _)
LoopBody(pred, body, todo) ==
  IF todo = {} THEN body
  ELSE LoopBody(pred, body \cup todo, UNION {RangeOf(pred[b]) : b \in todo} \ (body \cup todo))
LoopsOf(succ, idom, pred) ==
  LET heads(b) == SelectSeq(succ[b], LAMBDA h : Dominates(idom, h, b))
      headers  == Distinct(Concat(Map(heads, Ascending(DOMAIN idom \ {0}))))
      body(h)  == LoopBody(pred, {h}, {b \in DOMAIN idom : h \in RangeOf(succ[b]) /\ Dominates(idom, h, b)} \ {h})
  IN Map(LAMBDA h : [header |-> h, body |-> body(h) \cap DOMAIN idom], headers)

HasSideEffect(i) == i.op \in {"call", "store", "idxstore", "absstore", "indstore", "ret"}
Reading(i)       == i.op \in {"load", "idxload", "absload", "indload"}
LoopIsDead(bl, loop, ssa) ==
  LET inside  == RangeOf(Concat(Map(LAMBDA b : bl[b], Ascending(loop.body))))
      outside == RangeOf(Concat(Map(LAMBDA b : bl[b], Ascending(DOMAIN bl \ loop.body))))
      defs    == UNION {TacDefsIn(i) : i \in inside}
  IN /\ \A i \in inside : ~HasSideEffect(i) /\ ~(Reading(i) /\ i.vol)
     /\ defs \subseteq ssa
     /\ \A i \in outside : RangeOf(TacUsesIn(i)) \cap defs = {}
StartsWithLabel(bl, b) == b \in DOMAIN bl /\ bl[b] # <<>> /\ IsLabelTac(bl[b][1])
(* The header goes to the exit at once, where its phis know the header as  *)
(* the block they come from.                                               *)
FromLabel(i, was, now) ==
  IF i.op = "phi" THEN [i EXCEPT !.args = Map(LAMBDA a : IF a.lbl = was THEN [a EXCEPT !.lbl = now] ELSE a, @)] ELSE i
SkipLoop(bl, header, src, exit) ==
  LET label == bl[header][1].to
      enters == IF StartsWithLabel(bl, src) THEN Map(LAMBDA i : FromLabel(i, bl[src][1].to, label), bl[exit])
                ELSE bl[exit]
  IN [bl EXCEPT ![exit] = enters, ![header] = <<TLabel(label), TJump(bl[exit][1].to)>>]
TryEliminateLoop(bl, succ, loop, ssa) ==
  LET exits == Concat(Map(LAMBDA b : Map(LAMBDA t : <<b, t>>, SelectSeq(succ[b], LAMBDA t : t \notin loop.body)),
                          Ascending(loop.body)))
  IN IF LoopIsDead(bl, loop, ssa) /\ Len(exits) = 1 /\ StartsWithLabel(bl, exits[1][2]) /\ StartsWithLabel(bl, loop.header)
       THEN SkipLoop(bl, loop.header, exits[1][1], exits[1][2]) ELSE bl
DeadLoopsIn(bl, succ, ssa) ==
  Concat(Fold(LAMBDA acc, loop : TryEliminateLoop(acc, succ, loop, ssa), bl,
              LoopsOf(succ, ImmediateDominators(succ), PredecessorMap(succ))))
DeadLoopsOf(bl, ssa) == DeadLoopsIn(bl, TacSuccessorMap(bl), ssa)
EliminateDeadLoops(p, ssa) == DeadLoopsOf(TacBlocks(p), ssa)

----------------------------------------------------------------------------
(* y = x + 1 moves behind the last use of x before the block ends or y     *)
(* matters.                                                                *)
SinkCandidate(i) ==
  i.op = "binary" /\ i.o \in {"add", "sub"} /\ IsVar(i.a) /\ IsConst(i.b) /\ IsVar(i.dst) /\ i.a # i.dst
StopsSink(i, cand) ==
  \/ IsLabelTac(i) \/ EndsBlock(i) \/ i.op = "call"
  \/ cand.dst \in RangeOf(TacUsesIn(i)) \cup TacDefsIn(i)
  \/ SinkCandidate(i) /\ cand.a \in RangeOf(TacUsesIn(i))
SinkTarget(p, k) ==
  LET stop == FirstFrom(p, k + 1, LAMBDA i : StopsSink(i, p[k]))
      uses == {j \in k + 1..(IF stop = 0 THEN Len(p) ELSE stop - 1) : p[k].a \in RangeOf(TacUsesIn(p[j]))}
  IN IF uses = {} THEN k ELSE Greatest(uses)
SinkIncrements(p) ==
  Rewrite(p, LAMBDA k : IF SinkCandidate(p[k])
                          THEN [take |-> SinkTarget(p, k) + 1 - k, new |-> Append(SubSeq(p, k + 1, SinkTarget(p, k)), p[k])]
                          ELSE Keep(p[k]))

(* e = zext x; a = e & mask; t = trunc a; a test of bits of x: the three   *)
(* go to the two blocks the jump leads to, under new names.                *)
MaskOf(and, e) ==
  LET m == IF and.a = e THEN and.b ELSE and.a IN
  IF e \in {and.a, and.b} /\ IsConst(m) /\ Variant(m.t) \in {"schar", "uchar", "int", "uint"} /\ m.v \in 0..MaxByte
    THEN m.v ELSE -1
IsMaskTrio(ext, and, trunc, jump) ==
  /\ ext.op = "convert" /\ ext.o = "zext" /\ IsVar(ext.a) /\ ext.a.t \in {"char", "schar", "uchar"}
  /\ and.op = "binary" /\ and.o = "and" /\ IsVar(and.dst) /\ MaskOf(and, ext.dst) >= 0
  /\ IsTruncate(trunc) /\ trunc.a = and.dst
  /\ jump.op = "jmask" /\ jump.a = ext.a
TrioBefore(code) == SubSeq(code, Len(code) - 3, Len(code) - 1)
IsSinkableBlock(code) ==
  Len(code) >= 4 /\ IsMaskTrio(code[Len(code) - 3], code[Len(code) - 2], code[Len(code) - 1], Last(code))
Side(v, side, n) == Var(v.t, v.n \o <<side, n>>)
(* Every operand is renamed, that of a GetAddress too. *)
RenameUse(i, v, new) ==
  [RewriteUsesIn(i, v :> new) EXCEPT !.a = IF i.op = "addr" THEN SubstituteVal(v :> new, @) ELSE @]
WithTrio(code, trio, side, n, renames) ==
  LET ext  == Side(trio[1].dst, side, n)
      and  == Side(trio[2].dst, side, n)
      t    == trio[3].dst
      head == IF code # <<>> /\ IsLabelTac(code[1]) THEN 1 ELSE 0
      rest == SubSeq(code, head + 1, Len(code))
  IN SubSeq(code, 1, head)
     \o <<TConvert("zext", trio[1].a, ext),
          TBinary("and", ext, Const("int", MaskOf(trio[2], trio[1].dst)), and),
          TConvert("trunc", and, Side(t, side, n))>>
     \o (IF renames THEN Map(LAMBDA i : RenameUse(i, t, Side(t, side, n)), rest) ELSE rest)
SinkTrio(st, b, trio, users, target) ==
  LET code == SubSeq(st.bl[b], 1, Len(st.bl[b]) - 4) \o <<Last(st.bl[b])>>
      then == WithTrio(st.bl[b + 1], trio, "then", st.n, b + 1 \in users)
  IN IF ~(users \subseteq {target, b + 1}) THEN st
     ELSE IF target = b + 1 THEN [st EXCEPT !.bl[b] = code, !.n = @ + 1]
     ELSE LET bl == [st.bl EXCEPT ![b] = code, ![b + 1] = then]
          IN [bl |-> [bl EXCEPT ![target] = WithTrio(@, trio, "else", st.n, target \in users)],
              n |-> st.n + 1, changed |-> TRUE]
SinkAndOver(bl, p) ==
  LET users(v) == {b \in DOMAIN bl : \E i \in RangeOf(bl[b]) : v \in RangeOf(TacUsesIn(i))}
      visit(st, b) ==
        IF IsSinkableBlock(st.bl[b]) /\ b < Len(bl)
          THEN SinkTrio(st, b, TrioBefore(st.bl[b]), users(st.bl[b][Len(st.bl[b]) - 1].dst),
                        TacTarget(st.bl, Last(st.bl[b]).to))
          ELSE st
      done == Fold(visit, [bl |-> bl, n |-> 0, changed |-> FALSE], [b \in DOMAIN bl |-> b])
  IN IF done.changed THEN Concat(done.bl) ELSE p
SinkAndPastBranch(p) == SinkAndOver(TacBlocks(p), p)

----------------------------------------------------------------------------
(* t = c; goto end; branch: t = 1 - c; end: if (t) goto target: who jumps  *)
(* to branch goes where the test sends it.                                 *)
IsBool(v) == IsConst(v) /\ v.t = "int" /\ v.v \in {0, 1}
ShortCircuits(p, k) ==
  /\ k + 5 <= Len(p)
  /\ p[k].op = "copy" /\ p[k + 1] = TJump(p[k + 4].to) /\ IsLabelTac(p[k + 2])
  /\ p[k + 3].op = "copy" /\ IsLabelTac(p[k + 4]) /\ p[k + 5].op \in {"jtrue", "jfalse"}
  /\ p[k].dst = p[k + 3].dst /\ IsBool(p[k].a) /\ IsBool(p[k + 3].a) /\ p[k].a # p[k + 3].a
  /\ p[k + 5].a = p[k].dst /\ CountUses(p, p[k].dst) = 1
  /\ Cardinality({j \in DOMAIN p : IsJump(p[j]) /\ p[j].to = p[k + 4].to}) = 1
BranchTakesJump(p, k) == p[k + 3].a.v = (IF p[k + 5].op = "jtrue" THEN 1 ELSE 0)
RECURSIVE FollowLabel(_, _, _)
FollowLabel(to, l, seen) == IF l \in DOMAIN to /\ l \notin seen THEN FollowLabel(to, to[l], seen \cup {l}) ELSE l
ShortCircuitAt(p, used, acc, k) ==
  LET n     == Least({m \in acc.n..acc.n + Cardinality(used) : m \notin used})
      fresh == <<"scfold", n>>
      branch == p[k + 2].to  target == p[k + 5].to
  IN
  CASE k < acc.next -> acc
    [] k >= acc.next /\ ~ShortCircuits(p, k) -> [acc EXCEPT !.out = Append(@, p[k])]
    [] k >= acc.next /\ ShortCircuits(p, k) /\ BranchTakesJump(p, k) ->
         [acc EXCEPT !.to = (branch :> target) @@ @, !.next = k + 6]
    [] OTHER -> [out |-> acc.out \o <<TJump(target), TLabel(fresh)>>, to |-> (branch :> fresh) @@ acc.to,
                 n |-> n + 1, next |-> k + 6]
Retarget(code, to) ==
  Map(LAMBDA i : IF IsJump(i) /\ i.to \in DOMAIN to THEN [i EXCEPT !.to = FollowLabel(to, to[i.to], {i.to})] ELSE i, code)
(* The labels of an earlier sweep keep their numbers. *)
FoldShortCircuitJump(p) ==
  LET used == {p[k].to[2] : k \in {j \in DOMAIN p : IsLabelTac(p[j]) /\ p[j].to[1] = "scfold"}}
      done == Fold(LAMBDA acc, k : ShortCircuitAt(p, used, acc, k),
                   [out |-> <<>>, to |-> <<>>, n |-> 0, next |-> 1],
                   [k \in DOMAIN p |-> k])
  IN Retarget(done.out, done.to)
=============================================================================
