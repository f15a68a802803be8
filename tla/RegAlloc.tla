------------------------------ MODULE RegAlloc ------------------------------
(***************************************************************************)
(* Byte-granular register allocation (optimization_asm: liveness.py,       *)
(* interference.py, coalescing.py, hwreg_eligibility.py, regalloc.py,      *)
(* apply_coloring.py) of a function in SSA form, into its private pool of  *)
(* zero-page bytes and into X and Y.                                       *)
(*                                                                         *)
(* fn is a record: its name, params (the bytes of its parameters, each a   *)
(* name, an offset and the register it comes in, or ""), statics (a set of *)
(* names), pool (the first and the last address, or <<>>), blocked         *)
(* (addresses of parameter slots), sizes (of the names that have a type),  *)
(* pins (the register locals) and hints (the register of a register        *)
(* parameter).                                                             *)
(***************************************************************************)
EXTENDS AsmSsa

(* liveness.py, by name; the arguments of a phi live at the end of their   *)
(* predecessors.                                                           *)
DefNames(i) == {v[1] : v \in DefsIn(i)}
UseNames(i) == IF i.op = "phi" THEN {} ELSE NamesOf(RangeOf(UseOperands(i)))
PhiDsts(code) == UNION {DefNames(i) : i \in {j \in RangeOf(code) : j.op = "phi"}}
LiveBefore(live, i) == IF i.op = "phi" THEN live ELSE (live \ DefNames(i)) \cup UseNames(i)
(* The names live after each instruction of a block, given those at its end. *)
LiveAfter(code, out) ==
  IF code = <<>> THEN <<>>
  ELSE Fold(LAMBDA acc, k : <<LiveBefore(acc[1], code[Len(code) + 1 - k])>> \o acc,
            <<out>>, [k \in 1..Len(code) - 1 |-> k])
LiveIn(code, out) ==
  IF code = <<>> THEN out
  ELSE LiveBefore(LiveAfter(code, out)[1], code[1]) \ PhiDsts(code)
RECURSIVE LiveOutFrom(_, _, _, _)
LiveOutFrom(bl, succ, edge, out) ==
  LET next == Listed([b \in DOMAIN bl |-> edge[b] \cup UNION {LiveIn(bl[s], out[s]) :
                                                              s \in RangeOf(succ[b]) \cap DOMAIN bl}])
  IN IF next = out THEN out ELSE LiveOutFrom(bl, succ, edge, next)
ComputeLiveness(p) ==
  LET bl   == BuildCfg(p)
      args == UNION {RangeOf(i.args) : i \in RangeOf(p)}
      edge == Map(LAMBDA code : NamesOf({a.src : a \in {x \in args : Label(x.lbl) = code[1]}}), bl)
      out  == LiveOutFrom(bl, SuccessorMap(bl), edge, Map(LAMBDA code : {}, bl))
  IN [bl |-> bl, after |-> Listed([b \in DOMAIN bl |-> LiveAfter(bl[b], out[b])]),
      in |-> Listed([b \in DOMAIN bl |-> LiveIn(bl[b], out[b])])]

----------------------------------------------------------------------------
(* interference.py *)
ParamNames(fn) == {b.n : b \in RangeOf(fn.params)}
PseudosOf(p) == {op \in UNION {Operands(i) : i \in RangeOf(p)} : IsPseudo(op)}
WidthOf(p, n) ==
  LET offsets == {op.o : op \in {x \in PseudosOf(p) : x.n = n}}
  IN IF \E i \in RangeOf(p) : i.op = "lea" /\ n \in NamesOf({i.dst}) THEN 2 ELSE Greatest(offsets) + 1
Mentioned(code) == UNION {DefNames(i) \cup UseNames(i) : i \in RangeOf(code)}
Edge(a, b) == {a, b}
BuildInterference(fn, p, live) ==
  LET excluded == fn.statics \cup ParamNames(fn)
                  \cup UNION {NamesOf({i.src}) : i \in {j \in RangeOf(p) : j.op = "lea"}}
      bl == live.bl
      nodes == Mentioned(p) \ excluded
      defEdges(b) == UNION {{Edge(d, n) : d \in DefNames(bl[b][k]) \ excluded,
                                          n \in live.after[b][k] \ excluded} :
                              k \in {j \in DOMAIN bl[b] : bl[b][j].op # "phi"}}
      phiEdges(b) == LET dsts == PhiDsts(bl[b]) \ excluded
                     IN {Edge(d, n) : d \in dsts, n \in dsts \cup ((live.in[b]) \ excluded)}
      (* A name is marked as live across a call if the walk has met it.    *)
      met(b, k) == UNION {Mentioned(bl[a]) : a \in 1..b - 1}
                   \cup Mentioned(SubSeq(bl[b], k + 1, Len(bl[b])))
      across == UNION {UNION {live.after[b][k] \cap met(b, k) :
                                k \in {j \in DOMAIN bl[b] : bl[b][j].op = "call"}} : b \in DOMAIN bl}
  IN [nodes |-> nodes, width |-> Table([n \in nodes |-> WidthOf(p, n)]), across |-> across,
      edges |-> {e \in UNION {defEdges(b) \cup phiEdges(b) : b \in DOMAIN bl} : Cardinality(e) = 2}]
Neighbors(graph, n) == {m \in graph.nodes : m # n /\ Edge(m, n) \in graph.edges}

(* coalescing.py: two names a Mov, a phi or a pair of Movs through A       *)
(* relates become one when they do not interfere.                          *)
FirstByte(op) == IsPseudo(op) /\ op.o = 0
MoveRelatedPairs(p) ==
  LET direct(i) ==
        IF IsMov(i) /\ ~i.vol /\ FirstByte(i.src) /\ FirstByte(i.dst) THEN <<<<i.src.n, i.dst.n>>>>
        ELSE IF i.op = "phi" /\ FirstByte(i.dst)
          THEN Map(LAMBDA a : <<i.dst.n, a.src.n>>, SelectSeq(i.args, LAMBDA a : FirstByte(a.src)))
          ELSE <<>>
      throughA == Indices(p, LAMBDA k : MovTo(p[k], RegA) /\ ~p[k].vol /\ FirstByte(p[k].src))
      chains == SelectSeq(throughA, LAMBDA k : /\ MovFrom(At(p, k + 1), RegA) /\ ~p[k + 1].vol
                                               /\ FirstByte(p[k + 1].dst))
  IN SelectSeq(Concat(Map(direct, p)) \o Map(LAMBDA k : <<p[k].src.n, p[k + 1].dst.n>>, chains),
               LAMBDA pair : pair[1] # pair[2])
Merge(graph, dst, src) ==
  [nodes |-> graph.nodes \ {src}, width |-> graph.width,
   across |-> IF src \in graph.across THEN graph.across \cup {dst} ELSE graph.across,
   edges |-> {IF src \in e THEN (e \ {src}) \cup {dst} ELSE e : e \in graph.edges}]
CoalesceMoves(p, graph) ==
  LET names == NamesOf(PseudosOf(p))
      step(acc, pair) ==
        LET a == acc.rep[pair[1]]  b == acc.rep[pair[2]]  g == acc.graph IN
        IF /\ a # b /\ {a, b} \subseteq g.nodes /\ g.width[a] = g.width[b] /\ Edge(a, b) \notin g.edges
        THEN [graph |-> Merge(g, a, b),
              rep |-> [n \in {m \in names : acc.rep[m] = b} |-> a] @@ acc.rep]
        ELSE acc
  IN Fold(step, [graph |-> graph, rep |-> Table([n \in names |-> n])], MoveRelatedPairs(p))

----------------------------------------------------------------------------
(* hwreg_eligibility.py: the names every instruction of which still has an *)
(* encoding when they are in X (in Y).                                     *)
PeerFriendly(peer, loads, r) ==
  \/ peer.k \in {"imm", "A", "X", "Y", "data", "zp", "pseudo", "frame", "ind", "immLo", "immHi"}
  \/ loads /\ peer.k = (IF r = "X" THEN "idxY" ELSE "idxX")
RoleOk(i, op, r) ==
  /\ op.o = 0
  /\ \/ IsIncDec(i) \/ i.op = "phi"
     \/ IsMov(i) /\ (op = i.src => PeerFriendly(i.dst, FALSE, r))
                 /\ (op = i.dst => PeerFriendly(i.src, TRUE, r))
     \/ i.op = "cmp" /\ op # i.src /\ (IsImm(i.src) \/ IsDataOrZp(i.src))
EligibleNames(p, r) ==
  NamesOf(PseudosOf(p))
  \ UNION {NamesOf({op \in Operands(i) : IsPseudo(op) /\ ~RoleOk(i, op, r)}) : i \in RangeOf(p)}
IndexSetups(p, r) ==
  {p[k].src.n : k \in {j \in DOMAIN p : /\ MovTo(p[j], RegA) /\ FirstByte(p[j].src)
                                        /\ MovFrom(At(p, j + 1), RegA) /\ p[j + 1].dst.k = r}}
SsaBase(n) == <<n[1]>>
HintedNames(fn, p, r) ==
  (IndexSetups(p, r)
   \cup {n \in NamesOf(PseudosOf(p)) : SsaBase(n) \in DOMAIN fn.hints /\ fn.hints[SsaBase(n)] = r})
  \cap (EligibleNames(p, "X") \cup EligibleNames(p, "Y"))
RequiredNames(fn, p) == {n \in NamesOf(PseudosOf(p)) : SsaBase(n) \in fn.pins}
OperandUses(p, n) ==
  Fold(LAMBDA c, i : c + Len(SelectSeq(<<i.src, i.dst>> \o Map(LAMBDA a : a.src, i.args),
                                       LAMBDA op : IsPseudo(op) /\ op.n = n)), 0, p)
(* The same of the representatives: eligible when every member is.         *)
ProjectEligibility(fn, p, rep) ==
  LET members(r) == {n \in DOMAIN rep : rep[n] = r}
      reps == {rep[n] : n \in DOMAIN rep}
      eligible(r) == {n \in reps : members(n) \subseteq EligibleNames(p, r)}
      hinted(r)   == {n \in reps : members(n) \cap HintedNames(fn, p, r) # {}}
      any == eligible("X") \cup eligible("Y")
  IN [eligible |-> Table([r \in {"X", "Y"} |-> eligible(r)]),
      hints    |-> Table([r \in {"X", "Y"} |-> hinted(r) \cap any]),
      required |-> {n \in reps : members(n) \cap RequiredNames(fn, p) # {}},
      uses     |-> Table([n \in reps |-> Fold(LAMBDA c, m : c + OperandUses(p, m), 0,
                                              SetToSequence(members(n)))])]

----------------------------------------------------------------------------
(* regalloc.py: what an instruction is known to write to X and Y.          *)
WritesHwReg(i, r) == (IsMov(i) \/ IsIncDec(i)) /\ i.dst.k = r
Clobbers(live, rep, name, r) ==
  \E b \in DOMAIN live.bl : \E k \in DOMAIN live.bl[b] :
    LET i == live.bl[b][k]  prev == At(live.bl[b], k - 1) IN
    /\ WritesHwReg(i, r)
    /\ ~\E d \in DefNames(i) : rep[d] = name
    /\ ~(MovFrom(i, RegA) /\ MovTo(prev, RegA) /\ FirstByte(prev.src) /\ rep[prev.src.n] = name)
    /\ \E n \in live.after[b][k] : rep[n] = name
CanPin(graph, elig, live, rep, pinned, name, r) ==
  /\ name \in elig.eligible[r] /\ name \in graph.nodes
  /\ graph.width[name] = 1 /\ name \notin graph.across
  /\ name \notin DOMAIN pinned
  /\ \A m \in Neighbors(graph, name) \cap DOMAIN pinned : pinned[m] # r
  /\ ~Clobbers(live, rep, name, r)
OtherReg(r) == IF r = "X" THEN "Y" ELSE "X"

(* The register locals must get Y.  Then the hints, the most used first:   *)
(* their register, or else the other one.                                  *)
TryHwregAssign(graph, elig, live, rep) ==
  LET Can(pinned, n, r) == CanPin(graph, elig, live, rep, pinned, n, r)
      byUse(S) == Fold(LAMBDA acc, n : InsertBy(acc, n, elig.uses), <<>>, SetToSequence(S))
      require(acc, n) ==
        IF n \notin graph.nodes \/ n \in DOMAIN acc.pinned THEN acc
        ELSE IF Can(acc.pinned, n, "Y") THEN [acc EXCEPT !.pinned = (n :> "Y") @@ @]
        ELSE [acc EXCEPT !.error = TRUE]
      prefer(pinned, n, r) ==
        CASE n \in DOMAIN pinned -> pinned
          [] Can(pinned, n, r) -> (n :> r) @@ pinned
          [] Can(pinned, n, OtherReg(r)) -> (n :> OtherReg(r)) @@ pinned
          [] OTHER -> pinned
      must == Fold(require, [pinned |-> <<>>, error |-> FALSE], SetToSequence(elig.required))
      inX  == Fold(LAMBDA acc, n : prefer(acc, n, "X"), must.pinned, byUse(elig.hints["X"]))
      inY  == Fold(LAMBDA acc, n : prefer(acc, n, "Y"), inX, byUse(elig.hints["Y"]))
  IN [pinned |-> inY, error |-> must.error]

(* The names in the order of their definitions, down the dominator tree,   *)
(* the phis of a block first; the allocation goes through it backwards.    *)
RECURSIVE Preorder(_, _)
Preorder(children, b) == <<b>> \o Concat(Map(LAMBDA c : Preorder(children, c), children[b]))
DefinitionOrder(bl, nodes) ==
  LET succ == SuccessorMap(bl)
      order == Preorder(DominatorTreeChildren(succ, ImmediateDominators(succ)), 0)
      phisFirst(b) == IF b \notin DOMAIN bl THEN <<>>
                      ELSE SelectSeq(bl[b], LAMBDA i : i.op = "phi")
                           \o SelectSeq(bl[b], LAMBDA i : i.op # "phi")
      defs == Fold(LAMBDA acc, i : acc \o SetToSequence((DefNames(i) \cap nodes) \ RangeOf(acc)),
                   <<>>, Concat(Map(phisFirst, order)))
  IN defs \o SetToSequence(nodes \ RangeOf(defs))
(* Without a pool of its own a function shares the two halves of the       *)
(* default one: what lives across a call must be in the half it saves.     *)
CallerSaved == <<128, 191>>
CalleeSaved == <<192, 255>>
PoolsFor(fn, across) ==
  CASE fn.pool # <<>>           -> <<fn.pool>>
    [] fn.pool = <<>> /\ across -> <<CalleeSaved>>
    [] OTHER                    -> <<CallerSaved, CalleeSaved>>
FindFit(pool, width, blocked) ==
  LET bases == {a \in pool[1]..pool[2] - width + 1 : \A j \in 0..width - 1 : a + j \notin blocked}
  IN IF bases = {} THEN -1 ELSE Least(bases)
ColorRest(fn, graph, hw, order) ==
  LET color(acc, n) ==
        LET blocked == fn.blocked \cup UNION {acc[m]..acc[m] + graph.width[m] - 1 :
                                              m \in Neighbors(graph, n) \cap DOMAIN acc}
            base == Fold(LAMBDA found, pool : IF found >= 0 THEN found
                                              ELSE FindFit(pool, graph.width[n], blocked),
                         -1, PoolsFor(fn, n \in graph.across))
        IN IF n \in DOMAIN hw.pinned \/ base < 0 THEN acc ELSE (n :> base) @@ acc
  IN [hw |-> hw.pinned, error |-> hw.error,
      addr |-> Fold(color, <<>>, [k \in DOMAIN order |-> order[Len(order) + 1 - k]])]
ColorGraph(fn, p, graph, live, rep) ==
  ColorRest(fn, graph, TryHwregAssign(graph, ProjectEligibility(fn, p, rep), live, rep),
            DefinitionOrder(live.bl, graph.nodes))

----------------------------------------------------------------------------
(* apply_coloring.py *)
LocalSlot(fn, a) == IF fn.pool = <<>> THEN ZP(a) ELSE Data(<<"local", fn.name, a>>, 0)
ApplyToOp(fn, coloring, rep, op) ==
  LET n == IF IsPseudo(op) THEN rep[op.n] ELSE <<>> IN
  CASE ~IsPseudo(op) -> op
    [] IsPseudo(op) /\ n \in DOMAIN coloring.hw -> RegOf(coloring.hw[n])
    [] IsPseudo(op) /\ n \in DOMAIN coloring.addr -> LocalSlot(fn, coloring.addr[n] + op.o)
    [] OTHER -> op

(* From TYA; TAX on (or from TXA; TAY), X indexes what Y can: the run of   *)
(* instructions up to the next use of either register otherwise.  The pair *)
(* goes when that changed something.                                       *)
TransfersAt(p, k) ==
  /\ IsMov(p[k]) /\ p[k].src.k \in {"X", "Y"} /\ p[k].dst = RegA
  /\ MovFrom(At(p, k + 1), RegA) /\ p[k + 1].dst.k \in {"X", "Y"}
IndexReg(op) == IF op.k = "idxX" THEN "X" ELSE IF op.k = "idxY" THEN "Y" ELSE ""
Reindex(op, from, to) ==
  IF IndexReg(op) = from /\ from # "" THEN [op EXCEPT !.k = IF to = "X" THEN "idxX" ELSE "idxY"] ELSE op
UnencodableLoad(i)  == IsMov(i) /\ IsIndexed(i.src) /\ i.dst.k = IndexReg(i.src)
UnencodableStore(i) == IsMov(i) /\ IsIndexed(i.dst) /\ i.src.k = IndexReg(i.dst)
BreaksTransferChain(i, regs) ==
  \/ i.op \in {"call", "label"} \/ IsTerminator(i)
  \/ i.op # "cmp" /\ i.dst.k \in regs
RECURSIVE RewriteRun(_, _, _, _, _)
RewriteRun(p, k, from, to, acc) ==
  IF k > Len(p) THEN [acc EXCEPT !.next = k]
  ELSE LET i == p[k]
           new == IF IsMov(i) THEN [i EXCEPT !.src = Reindex(@, from, to), !.dst = Reindex(@, from, to)]
                  ELSE i
           any == acc.any \/ new # i
       IN IF new # i /\ UnencodableLoad(new)
            THEN [any |-> TRUE, next |-> k + 1,
                  run |-> acc.run \o <<MovV(new.src, RegA, new.vol), Mov(RegA, new.dst)>>]
          ELSE IF UnencodableLoad(new) \/ UnencodableStore(new) THEN [acc EXCEPT !.any = FALSE]
          ELSE IF BreaksTransferChain(new, {from, to})
            THEN [any |-> any, next |-> k + 1, run |-> Append(acc.run, new)]
          ELSE RewriteRun(p, k + 1, from, to, [acc EXCEPT !.any = any, !.run = Append(@, new)])
RECURSIVE RewriteRedundantTransfers(_)
RewriteRedundantTransfers(p) ==
  LET edit(k) ==
        IF ~TransfersAt(p, k) THEN Keep(p[k])
        ELSE IF p[k].src = p[k + 1].dst THEN [take |-> 2, new |-> <<>>]
        ELSE LET run == RewriteRun(p, k + 2, p[k + 1].dst.k, p[k].src.k,
                                   [any |-> FALSE, next |-> k, run |-> <<>>])
             IN IF run.any THEN [take |-> run.next - k, new |-> run.run] ELSE Keep(p[k])
      q == Rewrite(p, edit)
  IN IF Len(q) = Len(p) THEN q ELSE RewriteRedundantTransfers(q)
ApplyColoring(fn, p, coloring, rep) ==
  LET apply(op) == ApplyToOp(fn, coloring, rep, op)
      q == Map(LAMBDA i : [i EXCEPT !.src = apply(@), !.dst = apply(@),
                                    !.args = Map(LAMBDA a : [a EXCEPT !.src = apply(@)], @)], p)
  IN IF DOMAIN coloring.hw = {} THEN q ELSE RewriteRedundantTransfers(q)

(* optimizer.py, from the SSA form on: what is allocated where. *)
ColorCoalesced(fn, p, live, co) ==
  [rep |-> co.rep, coloring |-> ColorGraph(fn, p, co.graph, live, co.rep)]
AllocateLive(fn, p, live) ==
  ColorCoalesced(fn, p, live, CoalesceMoves(p, BuildInterference(fn, p, live)))
Allocate(fn, p) == AllocateLive(fn, p, ComputeLiveness(p))
-----------------------------------------------------------------------------
(* Homes.  Where the names that no pass could keep in a register or in the *)
(* pool go (replace_pseudoregisters.py, address_taken_zp.py), the          *)
(* addresses that are constants then (lower_data_load_address.py), and the *)
(* frame of the functions that need one (prologue_synthesis.py).           *)

SizeOfName(fn, n) == IF n \in DOMAIN fn.sizes THEN fn.sizes[n] ELSE 1

(* The locals whose address is taken, in order; those that fit get a run   *)
(* of the pool's bytes nobody is colored with, first fit.                  *)
AddressTakenNames(fn, p) ==
  Distinct(Map(LAMBDA i : i.src.n,
               SelectSeq(p, LAMBDA i : /\ i.op = "lea" /\ IsPseudo(i.src)
                                       /\ i.src.n \notin ParamNames(fn) \cup fn.statics)))
ColoringUsedBytes(fn, coloring) ==
  UNION {coloring.addr[n]..coloring.addr[n] + SizeOfName(fn, n) - 1 : n \in DOMAIN coloring.addr}
(* A run is what is left of a maximal interval of free bytes: the fit is   *)
(* at the start of one.                                                    *)
AllocateInPool(fn, p, used) ==
  LET runStarts(free) == {a \in free : a - 1 \notin free}
      place(acc, n) ==
        LET size == SizeOfName(fn, n)
            fits == {a \in runStarts(acc.free) : a..a + size - 1 \subseteq acc.free}
            taken == Least(fits)..Least(fits) + size - 1
        IN IF fits = {} THEN acc
           ELSE [free |-> acc.free \ taken, at |-> (n :> Least(fits)) @@ acc.at]
  IN IF fn.pool = <<>> THEN <<>>
     ELSE Fold(place, [free |-> (fn.pool[1]..fn.pool[2]) \ used, at |-> <<>>],
               AddressTakenNames(fn, p)).at

(* A slot whose address is taken is one object, apart from the others.     *)
TakenSlot(fn, a) == <<"local", fn.name, -a>>

----------------------------------------------------------------------------
(* Mutant: the other half of the pool is saved. *)
CallerSavedAddrs(fn, coloring) ==
  Ascending(ColoringUsedBytes(fn, coloring) \cap (CallerSaved[1]..CallerSaved[2]))
(* The names left without a home live in the frame, behind the saved       *)
(* bytes, in order of appearance.                                          *)
CalleeSavedAddrs(fn, coloring) ==
  IF fn.pool # <<>> THEN <<>>
  ELSE Ascending(ColoringUsedBytes(fn, coloring) \cap (CalleeSaved[1]..CalleeSaved[2]))
OperandsInOrder(i) == IF i.op = "cmp" THEN <<i.dst, i.src>> ELSE <<i.src, i.dst>>
FrameNames(fn, p, at) ==
  Distinct(Map(LAMBDA op : op.n,
               SelectSeq(Concat(Map(OperandsInOrder, p)),
                         LAMBDA op : /\ IsPseudo(op)
                                     /\ op.n \notin fn.statics \cup ParamNames(fn) \cup DOMAIN at)))
LocalBases(fn, names, saved) ==
  Fold(LAMBDA acc, n : [at |-> (n :> acc.total + 1) @@ acc.at, total |-> acc.total + SizeOfName(fn, n)],
       [at |-> <<>>, total |-> saved], names)

Replace(fn, at, frame, op) ==
  CASE ~IsPseudo(op) -> op
    [] IsPseudo(op) /\ op.n \in fn.statics -> Data(op.n, op.o)
    [] IsPseudo(op) /\ op.n \in ParamNames(fn) ->
         LET k == CHOOSE k \in DOMAIN fn.params : fn.params[k].n = op.n /\ fn.params[k].o = op.o
         IN Data(<<"zpabi", fn.name, k - 1>>, 0)
    [] IsPseudo(op) /\ op.n \in DOMAIN at -> Data(TakenSlot(fn, at[op.n]), op.o)
    [] IsPseudo(op) /\ op.n \in DOMAIN frame -> Frame(frame[op.n] + op.o)
ReplaceIn(fn, p, at, saved, local) ==
  LET home(op) == Replace(fn, at, local.at, op)
  IN [code |-> Map(LAMBDA i : [i EXCEPT !.src = home(@), !.dst = home(@)], p),
      saved |-> saved, frame |-> local.total]
ReplaceWith(fn, p, at, saved) ==
  ReplaceIn(fn, p, at, saved, LocalBases(fn, FrameNames(fn, p, at), Len(saved)))
ReplacePseudoregs(fn, p, coloring) ==
  ReplaceWith(fn, p, AllocateInPool(fn, p, ColoringUsedBytes(fn, coloring)),
              CalleeSavedAddrs(fn, coloring))

LowerDataLoadAddress(p) ==
  Rewrite(p, LAMBDA k : IF p[k].op = "lea" /\ p[k].src.k = "data" /\ p[k].dst.k \in {"data", "zp", "frame"}
    THEN [take |-> 1, new |-> <<Mov(ImmLabelLow(p[k].src.n, p[k].src.o), p[k].dst),
                                Mov(ImmLabelHigh(p[k].src.n, p[k].src.o), NextByte(p[k].dst))>>]
    ELSE Keep(p[k]))

SynthesizePrologue(p, frame, saved) ==
  IF frame = 0 THEN p
  ELSE <<FunctionPrologue(saved)>>
       \o Map(LAMBDA i : IF i.op = "rts" THEN Ret(i.regs, saved) ELSE i, p)
=============================================================================
