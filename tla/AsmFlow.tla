------------------------------ MODULE AsmFlow ------------------------------
(***************************************************************************)
(* What the asm passes ask about a program: its control-flow graph         *)
(* (optimization_asm/cfg.py), whether a register or the flags are read     *)
(* before they are overwritten (asm_liveness.py), and whether two operands *)
(* can be the same byte (asm_aliasing.py).                                 *)
(***************************************************************************)
EXTENDS AsmIR

(* f applied to acc and each element of s in turn, by halves (and acc      *)
(* computed first), so that long lists need no deep recursion.             *)
Fold(f(_, _), acc, s) ==
  LET RECURSIVE over(_, _, _)
      over(lo, hi, a) ==
        CASE <<a>> # <<>> /\ lo > hi -> a
          [] <<a>> # <<>> /\ lo = hi -> f(a, s[lo])
          [] <<a>> # <<>> /\ lo < hi ->
               LET mid == (lo + hi) \div 2 IN over(mid + 1, hi, over(lo, mid, a))
  IN over(1, Len(s), acc)
Concat(ss) == Fold(LAMBDA a, b : a \o b, <<>>, ss)

(* Rewriting: the passes walk the instruction list once, left to right,    *)
(* building a new one.  Edit(k) says how many instructions are consumed at *)
(* k and what replaces them.                                               *)
Keep(i) == [take |-> 1, new |-> <<i>>]
Rewrite(p, Edit(_)) ==
  LET at(acc, k) ==
        IF k < acc.next THEN acc
        ELSE LET e == Edit(k) IN [next |-> k + e.take, out |-> acc.out \o e.new]
  IN Fold(at, [next |-> 1, out |-> <<>>], <<>> \o [k \in DOMAIN p |-> k]).out

(* The list without the instructions at the positions D. *)
Without(p, D) == Rewrite(p, LAMBDA k : IF k \in D THEN [take |-> 1, new |-> <<>>]
                                      ELSE Keep(p[k]))

----------------------------------------------------------------------------
Indices(s, Test(_)) == SelectSeq(Listed([k \in DOMAIN s |-> k]), Test)
Least(S) == CHOOSE x \in S : \A y \in S : x <= y
Greatest(S) == CHOOSE x \in S : \A y \in S : x >= y
(* The elements of a set, in an arbitrary order (that of the names, in the *)
(* code), and insertion by decreasing weight.                              *)
RECURSIVE SetToSequence(_)
SetToSequence(S) == IF S = {} THEN <<>>
                    ELSE LET x == CHOOSE x \in S : TRUE IN <<x>> \o SetToSequence(S \ {x})
RECURSIVE Ascending(_)
Ascending(S) == IF S = {} THEN <<>> ELSE <<Least(S)>> \o Ascending(S \ {Least(S)})
InsertBy(s, x, weight) ==
  LET heavier == SelectSeq(s, LAMBDA y : weight[y] >= weight[x])
  IN heavier \o <<x>> \o SubSeq(s, Len(heavier) + 1, Len(s))

----------------------------------------------------------------------------
(* Blocks, in order: block 0 is the entry, the one after the last the exit. *)
IsTerminator(i) == IsBranch(i) \/ IsReturn(i) \/ i.op = "jmp"
BuildCfg(p) ==
  LET starts == Indices(p, LAMBDA k : k = 1 \/ IsLabel(p[k]) \/ IsTerminator(p[k - 1]))
  IN Listed([b \in DOMAIN starts |->
        SubSeq(p, starts[b], IF b = Len(starts) THEN Len(p) ELSE starts[b + 1] - 1)])
Last(s) == s[Len(s)]
BlockOfLabel(bl, l) == CHOOSE b \in DOMAIN bl : IsLabel(bl[b][1]) /\ bl[b][1].to = l
Successors(bl, b) ==
  CASE b = 0 -> <<1>>
    [] b > Len(bl) -> <<>>
    [] OTHER ->
       LET last == Last(bl[b]) IN
       CASE IsReturn(last) -> <<Len(bl) + 1>>
         [] last.op = "jmp" -> <<BlockOfLabel(bl, last.to)>>
         [] IsBranch(last)  -> <<BlockOfLabel(bl, last.to), b + 1>>
         [] OTHER           -> <<b + 1>>
SuccessorMap(bl) == Table([b \in 0..Len(bl) + 1 |-> Successors(bl, b)])
(* One entry per edge, in the order of the blocks. *)
Predecessors(succ, b) ==
  Concat([a \in 1..Cardinality(DOMAIN succ) |->
            SelectSeq([j \in DOMAIN succ[a - 1] |-> IF succ[a - 1][j] = b THEN a - 1 ELSE -1],
                      LAMBDA x : x >= 0)])
PredecessorMap(succ) == Table([b \in DOMAIN succ |-> Predecessors(succ, b)])

(* Depth first, the last successor's subtree first in the result. *)
RECURSIVE PostOrder(_, _, _)
PostOrder(succ, b, seen) ==
  LET visit[j \in 0..Len(succ[b])] ==
        IF j = 0 THEN <<b>>
        ELSE LET prev == visit[j - 1] IN
             IF \E k \in DOMAIN prev : prev[k] = succ[b][j] THEN prev
             ELSE IF succ[b][j] \in seen THEN prev
             ELSE prev \o PostOrder(succ, succ[b][j], seen \cup {prev[k] : k \in DOMAIN prev})
      all == visit[Len(succ[b])]
  IN Append(Tail(all), b)
ReversePostorder(succ) ==
  LET post == PostOrder(succ, 0, {}) IN Listed([k \in DOMAIN post |-> post[Len(post) + 1 - k]])

(* idom is a partial function, grown until it is stable. *)
RECURSIVE Intersect(_, _, _, _)
Intersect(index, idom, a, b) ==
  CASE a = b -> a
    [] index[a] > index[b] -> Intersect(index, idom, idom[a], b)
    [] OTHER -> Intersect(index, idom, a, idom[b])
RECURSIVE Stable(_, _, _, _)
Stable(rpo, index, pred, idom) ==
  LET visit(dom, b) ==
        LET done == SelectSeq(pred[b], LAMBDA q : q \in DOMAIN dom) IN
        IF b = 0 \/ done = <<>> THEN dom
        ELSE LET new == Fold(LAMBDA x, q : Intersect(index, dom, q, x), done[1], Tail(done))
             IN (b :> new) @@ dom
      next == Fold(visit, idom, rpo)
  IN IF next = idom THEN idom ELSE Stable(rpo, index, pred, next)
ImmediateDominators(succ) ==
  LET rpo == ReversePostorder(succ)
      index == Table([b \in {rpo[k] : k \in DOMAIN rpo} |-> CHOOSE k \in DOMAIN rpo : rpo[k] = b])
  IN Stable(rpo, index, PredecessorMap(succ), 0 :> 0)
DominatorTreeChildren(succ, idom) ==
  LET rpo == ReversePostorder(succ) IN
  Table([b \in DOMAIN idom |-> SelectSeq(rpo, LAMBDA c : c # 0 /\ idom[c] = b)])
RECURSIVE UpTo(_, _, _)
UpTo(idom, runner, stop) ==
  IF runner = stop THEN {} ELSE {runner} \cup UpTo(idom, idom[runner], stop)
DominanceFrontiers(succ, idom) ==
  LET pred == PredecessorMap(succ)
      reached(b) == SelectSeq(pred[b], LAMBDA q : q \in DOMAIN idom)
  IN Table([x \in DOMAIN idom |->
        {b \in DOMAIN idom \ {0} :
           /\ Len(reached(b)) >= 2
           /\ \E k \in DOMAIN reached(b) : x \in UpTo(idom, reached(b)[k], idom[b])}])

----------------------------------------------------------------------------
(* Which registers an instruction reads and overwrites.  The ALU works on  *)
(* A; an access through a pointer loads Y first.                           *)
Indexes(op, r) == \/ r = "X" /\ op.k = "idxX"
                  \/ r = "Y" /\ op.k \in {"idxY", "indY", "indZpY"}
SetupClobbersY(op) == op.k \in {"ind", "indZp"}

Reads(i, r) ==
  \/ i.op \in {"mov", "push"} /\ i.src.k = r
  \/ i.op = "cmp" /\ r \in {i.src.k, i.dst.k}
  \/ (IsIncDec(i) \/ IsShift(i)) /\ i.dst.k = r
  \/ IsAlu(i) /\ r = "A"
  \/ i.op # "lea" /\ (Indexes(i.src, r) \/ Indexes(i.dst, r))
  \/ i.op = "phi" /\ \E k \in DOMAIN i.args : i.args[k].src.k = r
  \/ i.op \in {"call", "jmp"} /\ r \in i.regs
Kills(i, r) ==
  \/ i.op = "call"
  \/ IsMov(i) /\ i.dst.k = r /\ i.src.k # r
  \/ r = "A" /\ i.op \in {"pop", "lea"}
  \/ r = "Y" /\ IsMov(i) /\ (SetupClobbersY(i.src) \/ SetupClobbersY(i.dst)) /\ i.dst.k # "Y"
  \/ r = "Y" /\ i.op = "lea" /\ SetupClobbersY(i.dst)

(* The register is overwritten before it is read on every path from k; at  *)
(* the exit the return value is read, and a jump out of the function ends  *)
(* the path.                                                               *)
RECURSIVE DeadFrom(_, _, _, _)
DeadFrom(p, r, todo, seen) ==
  IF todo = {} THEN TRUE
  ELSE LET k == CHOOSE k \in todo : TRUE
           i == p[k]
           target == {j \in DOMAIN p : IsLabel(p[j]) /\ p[j].to = i.to}
           on == {k + 1} \cap DOMAIN p
           Go(S) == DeadFrom(p, r, (todo \cup S) \ (seen \cup {k}), seen \cup {k})
       IN CASE IsReturn(i)     -> r \notin i.regs /\ Go({})
            [] i.op = "jmp"   -> r \notin i.regs /\ Go(target)
            [] IsBranch(i)    -> Go(target \cup on)
            [] i.op = "label" -> Go(on)
            [] OTHER          -> ~Reads(i, r) /\ (IF Kills(i, r) THEN Go({}) ELSE Go(on))
RegDeadAt(p, k, r) == DeadFrom(p, r, {k} \cap DOMAIN p, {})
ADeadAt(p, k) == RegDeadAt(p, k, "A")
XDeadAt(p, k) == RegDeadAt(p, k, "X")
YDeadAt(p, k) == RegDeadAt(p, k, "Y")

(* The flags, by one look down the list: a label, a jump and the end are   *)
(* taken not to need them.                                                 *)
SetsFlags(i) ==
  \/ IsMov(i) /\ (IsReg(i.dst) \/ i.src.k # "A")
  \/ IsAlu(i) \/ IsIncDec(i) \/ IsShift(i)
  \/ i.op \in {"cmp", "pop", "lea", "call"}
OverwritesAllFlags(i) == i.op \in {"sec", "clc", "cmp", "asl", "lsr", "call"}
FirstFrom(p, k, Test(_)) ==
  LET S == {j \in k..Len(p) : Test(p[j])} IN IF S = {} THEN 0 ELSE Least(S)
FlagsDeadAt(p, k) ==
  LET j == FirstFrom(p, k, LAMBDA i : IsTerminator(i) \/ IsLabel(i) \/ SetsFlags(i))
  IN j = 0 \/ ~IsBranch(p[j])
AllFlagsDeadAt(p, k) ==
  LET reader(i) == IsBranch(i) \/ i.op \in {"add", "sub", "rol", "ror"}
      j == FirstFrom(p, k, LAMBDA i : reader(i) \/ IsTerminator(i) \/ IsLabel(i)
                                      \/ OverwritesAllFlags(i))
  IN j = 0 \/ ~reader(p[j])

----------------------------------------------------------------------------
(* Aliasing.  The zero-page symbols are the runtime's own, the parameter   *)
(* slots and the local slots; no array is laid over them.  zp: the         *)
(* addresses of the slots, when the pass knows them.                       *)
RuntimeZp == [n \in {<<"SSP">>, <<"FP">>, <<"HARGS">>, <<"DPTR">>} |->
  CASE n = <<"SSP">> -> 0 [] n = <<"FP">> -> 2 [] n = <<"HARGS">> -> 4 [] n = <<"DPTR">> -> 36]
ThroughPointer == {"ind", "indY", "indZp", "indZpY"}
IsSlot(n) == n[1] \in {"zpabi", "local"}
IsLocalSlot(n) == n[1] = "local"
IsZpSymbol(n) == n \in DOMAIN RuntimeZp \/ IsSlot(n)
PoolLo == 128
PoolHi == 255
ElsewhereIn(at, b, a) == b.n \in DOMAIN at /\ at[b.n] + b.o # a.o
ApartIn(zp, a, b) ==
  \/ IsImm(a) \/ IsImmLabel(a)
  \/ a.k = "data" /\ b.k = "data" /\ a # b
  \/ a.k = "zp" /\ b.k = "zp" /\ a.o # b.o
  \/ a.k = "zp" /\ b.k = "data" /\ (IsZpSymbol(b.n) => ElsewhereIn(RuntimeZp @@ zp, b, a))
  \/ a.k = "zp" /\ (IsIndexed(b) \/ b.k = "frame" \/ (b.k \in ThroughPointer /\ a.o \in PoolLo..PoolHi))
  \/ a.k = "data" /\ IsZpSymbol(a.n) /\ IsIndexed(b)
  \/ a.k \in {"indZp", "indZpY"} /\ b.k = "data" /\ b.n \in DOMAIN RuntimeZp
  \/ a.k = b.k /\ a.k \in {"ind", "frame"} /\ a.o # b.o
  \/ a.k = b.k /\ a.k = "indZp" /\ (a.n # b.n \/ a.o # b.o)
  \/ a.k = b.k /\ a.k = "indZpY" /\ a.n # b.n
MayAliasIn(zp, a, b) == ~ApartIn(zp, a, b) /\ ~ApartIn(zp, b, a)
MayAlias(a, b) == MayAliasIn(<<>>, a, b)
=============================================================================
