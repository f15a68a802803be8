------------------------------- MODULE Backend -------------------------------
(***************************************************************************)
(* compile.py's optimizer and back end: one function on its way from TAC   *)
(* to assembly, one pass a step, in the order of optimizer.py's phases,    *)
(* _run_stage and _peephole_fixedpoint.                                    *)
(*                                                                         *)
(* The input is a record: fn, the function as the passes know it; enters,  *)
(* the phase it starts in; tac, its body, or <<>> when code, a listing     *)
(* that enters at the peepholes, is given instead; returns, the type it    *)
(* returns; memories, the initial memories and registers it is run on;     *)
(* pooled, whether allocate_zp_slots gives it zero-page locals of its own. *)
(*                                                                         *)
(* meaning is what the input does on each of the memories, found out once  *)
(* at the start: the properties compare every version of the code with it. *)
(***************************************************************************)
EXTENDS Codegen, RegAlloc, PeepLoops, LongBranches, TacLoops

CONSTANTS Inputs,     \* the functions to compile
          SlotBase,   \* where the parameter slots of each function start
          PoolBase,   \* where the local pool of a function starts
          SweepCap,   \* 16 in the code
          TacSweepCap \* 256 in the code

VARIABLES input, phase, tac, code, fn, alloc, pass, sweep, before, counter, slots, meaning
vars == <<input, phase, tac, code, fn, alloc, pass, sweep, before, counter, slots, meaning>>

----------------------------------------------------------------------------
(* One sweep of the TAC optimizer in SSA form, in order. *)
TacPasses == <<"constant_fold", "reduce_strength", "fold_producer_jumps", "eliminate_dead_loops",
  "eliminate_unreachable_code", "copy_propagate", "eliminate_dead_stores", "fold_copies_in_fixedpoint",
  "reassoc_constants", "recognize_indexed_store", "recognize_indexed_load", "fold_truncate_extend",
  "sink_increments", "sink_and_past_branch", "narrow_widened_arith">>
OptimizeTac(name, p, f) ==
  CASE name = "constant_fold" -> ConstantFold(p, f.tables)
    [] name = "reduce_strength" -> ReduceStrength(p)
    [] name = "fold_producer_jumps" -> FoldProducerJumps(p)
    [] name = "eliminate_dead_loops" -> EliminateDeadLoops(p, f.ssa)
    [] name = "eliminate_unreachable_code" -> EliminateUnreachableCode(p)
    [] name = "copy_propagate" -> TacCopyPropagate(p, f.ssa)
    [] name = "eliminate_dead_stores" -> EliminateDeadStores(p, f.ssa)
    [] name = "fold_copies_in_fixedpoint" -> FoldCopies(p)
    [] name = "reassoc_constants" -> ReassocConstants(p, f.ssa)
    [] name = "recognize_indexed_store" -> RecognizeIndexedStore(p, f.ssa)
    [] name = "recognize_indexed_load" -> RecognizeIndexedLoad(p, f.ssa)
    [] name = "fold_truncate_extend" -> FoldTruncateExtend(p, f.ssa)
    [] name = "sink_increments" -> SinkIncrements(p)
    [] name = "sink_and_past_branch" -> SinkAndPastBranch(p)
    [] name = "narrow_widened_arith" -> NarrowWidenedArith(p, f.ssa)

(* The symbol table knows the size of every variable, the new ones too. *)
SizesIn(p) ==
  LET known == {v \in UNION {ValsIn(i) : i \in RangeOf(p)} : IsVar(v)}
  IN [n \in {v.n : v \in known} |-> Greatest({Width(v) : v \in {u \in known : u.n = n}})]

----------------------------------------------------------------------------
(* The zero-page addresses of the slots a program names. *)
SlotAddressOf(n) == CASE n[1] = "zpabi" -> SlotBase[n[2]] + n[3]
                      [] n[1] = "local" -> IF n[3] < 0 THEN -n[3] ELSE n[3]
NamesIn(p) == UNION {{op.n : op \in Operands(p[k])} : k \in DOMAIN p}
SlotMap(p) == [n \in {m \in NamesIn(p) : IsSlotName(m)} |-> SlotAddressOf(n)]

(* optimizer.py: a function allocates around its own parameter slots and   *)
(* those of the functions it calls.                                        *)
Callees(p) == {p[k].to : k \in {j \in DOMAIN p : p[j].op = "call" /\ ~IsHelper(p[j].to)}}
BlockedAddrs(f, p) ==
  {SlotBase[f.name] + k - 1 : k \in DOMAIN f.params}
  \cup {SlotBase[g[1]] : g \in {c \in Callees(p) : c[2] = "slot"}}

(* function_local_sizing.py: the bytes the preliminary allocation used,    *)
(* and those of the locals whose address is taken.                         *)
ZpBytesUsed(p) == {op.o : op \in {o \in UNION {Operands(p[k]) : k \in DOMAIN p} : o.k = "zp"}}
(* Mutant: the locals whose address is taken are not counted. *)
NoTakenBytes(f, p) == 0
AddressTakenBytes(f, p) ==
  LET sizes == Map(LAMBDA n : SizeOfName(f, n), AddressTakenNames(f, p))
  IN Fold(LAMBDA total, size : total + size, 0, sizes)
LocalBytes(f, p) == Cardinality(ZpBytesUsed(p)) + AddressTakenBytes(f, p)

InSsa(f, p)      == Simplify(ToSsa(Sub1TestZero(p), ParamNames(f), f.statics), f.statics)
Colored(f, q, a) == ApplyColoring(f, q, a.coloring, a.rep)
Optimize(f, p)   == LET Color(q) == Colored(f, q, Allocate(f, q)) IN FromSsa(Color(InSsa(f, p)))

----------------------------------------------------------------------------
(* One sweep of the peepholes, in order. *)
Peepholes == <<"split_mem_to_mem", "inc", "dec", "sub1_test_zero", "direct_index_load",
  "dead_pha_pla", "cpx_cpy", "memory_value_propagation", "redundant_load_after_rmw",
  "redundant_load", "redundant_store", "remat", "asm_dead_store", "dead_a_arith",
  "dead_label_drop", "branch_invert", "branch_to_next_drop", "branch_through_jump",
  "dec_register", "transfer_past_branch", "index_inc_cmp_y", "volatile_void_read_cmp",
  "dec_branch_indirect_y_fold", "mem_const_prop", "const_arith_fold", "round_trip_load",
  "and_sign_bit_branch", "self_store_drop", "cmp_through_tmp_fold", "adc_commute",
  "cmp_sbc_fusion", "dec_inc_branch_fold", "tail_call", "via_a_store_fold",
  "transfer_pm1_store">>
RunPeephole(name, p, zp, f) ==
  CASE name = "split_mem_to_mem" -> SplitMemToMem(p)
    [] name = "inc" -> IncPeephole(p)
    [] name = "dec" -> DecPeephole(p)
    [] name = "sub1_test_zero" -> Sub1TestZero(p)
    [] name = "direct_index_load" -> DirectIndexLoad(p)
    [] name = "dead_pha_pla" -> DeadPhaPla(p)
    [] name = "cpx_cpy" -> CpxCpyPeephole(p)
    [] name = "memory_value_propagation" -> MemoryValuePropagation(p, zp)
    [] name = "redundant_load_after_rmw" -> RedundantLoadAfterRmw(p)
    [] name = "redundant_load" -> RedundantLoad(p)
    [] name = "redundant_store" -> RedundantStore(p)
    [] name = "remat" -> Remat(p, zp)
    [] name = "asm_dead_store" -> AsmDeadStore(p, zp, f.name)
    [] name = "dead_a_arith" -> DeadAArith(p)
    [] name = "dead_label_drop" -> DeadLabelDrop(p)
    [] name = "branch_invert" -> BranchInvert(p)
    [] name = "branch_to_next_drop" -> BranchToNextDrop(p)
    [] name = "branch_through_jump" -> BranchThroughJump(p)
    [] name = "dec_register" -> DecRegisterPeephole(p)
    [] name = "transfer_past_branch" -> TransferPastBranch(p)
    [] name = "index_inc_cmp_y" -> IndexIncCmpY(p)
    [] name = "volatile_void_read_cmp" -> VolatileVoidReadCmp(p)
    [] name = "dec_branch_indirect_y_fold" -> DecBranchIndirectYFold(p)
    [] name = "mem_const_prop" -> MemConstProp(p)
    [] name = "const_arith_fold" -> ConstArithFold(p)
    [] name = "round_trip_load" -> RoundTripLoadDrop(p)
    [] name = "and_sign_bit_branch" -> AndSignBitBranch(p)
    [] name = "self_store_drop" -> SelfStoreDrop(p)
    [] name = "cmp_through_tmp_fold" -> CmpThroughTmpFold(p)
    [] name = "adc_commute" -> AdcCommute(p)
    [] name = "cmp_sbc_fusion" -> CmpSbcFusion(p)
    [] name = "dec_inc_branch_fold" -> DecIncBranchFold(p)
    [] name = "tail_call" -> TailCall(p)
    [] name = "via_a_store_fold" -> ViaAStoreFold(p)
    [] name = "transfer_pm1_store" -> TransferPm1Store(p)

(* Between the three fixed points: the loop passes, and the second index   *)
(* register.                                                               *)
LoopPasses(p, f) == XSaveSlotLoad(LoopCounterToX(PromoteLoopCarriedToA(p, f.name)))
RegisterHomes(f) ==
  LET inReg == {k \in DOMAIN f.params : f.params[k].reg # ""}
  IN [n \in {<<"zpabi", f.name, k - 1>> : k \in inReg} |-> f.params[n[3] + 1].reg]

----------------------------------------------------------------------------
(* What a run is observed to do: the value it returns, the statics and the *)
(* effects it leaves, and whether it ends with the stack as it found it.   *)
Result(s, t) ==
  CASE t = "void" -> 0
    [] t \in {"char", "schar", "uchar"} -> s.A
    [] t \in {"int", "uint"} -> s.A + ByteSize * s.X
    [] t = "ptr" -> Word(s, HARGS, 0, 2)
Observe(s, value, i) ==
  [done |-> s.done, value |-> value, log |-> s.log,
   statics |-> [c \in i.watched |-> Fetch(s, c)]]
RunTac(p, i, m) == LET s == TacRun(p, m.mem) IN Observe(s, s.value, i)
RunAsm(p, i, m) == Run(p, m.mem, m.regs)
ObserveAsm(p, i, m) == LET s == RunAsm(p, i, m) IN Observe(s, Result(s, i.returns), i)

Meaning(i) == [m \in i.memories |-> IF i.tac # <<>> THEN RunTac(i.tac, i, m) ELSE ObserveAsm(i.code, i, m)]

----------------------------------------------------------------------------
NoAllocation == [hw |-> <<>>, addr |-> <<>>, error |-> FALSE, rep |-> <<>>]
Init ==
  /\ input \in Inputs
  /\ phase = input.enters
  /\ tac = input.tac
  /\ code = input.code
  /\ before = input.code
  /\ fn = input.fn
  /\ alloc = NoAllocation
  /\ pass = 1 /\ sweep = 1 /\ counter = 0 /\ slots = {}
  /\ meaning = Meaning(input)

Enter(from, to) == phase = from /\ phase' = to
(* The TAC optimizer: loops are rotated, the function goes into SSA form   *)
(* and through the passes to a fixed point, which is given up silently     *)
(* after TacSweepCap sweeps, and out of SSA form again.                    *)
RotateLoops ==
  /\ Enter("rotate", "tacssa")
  /\ tac' = RotateSignedCountdownLoops(tac)
  /\ UNCHANGED <<input, code, fn, alloc, pass, sweep, before, counter, slots, meaning>>
EnterTacSsa ==
  /\ Enter("tacssa", "tacfix")
  /\ \E r \in {TacToSsa(tac, ParamNames(fn), fn.statics)} :
       /\ tac' = FoldStaticConstReads(r.tac, fn.consts) /\ before' = tac'
       /\ fn' = [fn EXCEPT !.ssa = r.ssa]
  /\ UNCHANGED <<input, code, alloc, pass, sweep, counter, slots, meaning>>
RunTacPass ==
  /\ phase = "tacfix" /\ pass <= Len(TacPasses)
  /\ tac' = OptimizeTac(TacPasses[pass], tac, fn)
  /\ pass' = pass + 1
  /\ UNCHANGED <<input, phase, code, fn, alloc, sweep, before, counter, slots, meaning>>
EndTacSweep ==
  /\ phase = "tacfix" /\ pass > Len(TacPasses)
  /\ pass' = 1
  /\ IF tac = before \/ sweep = TacSweepCap THEN phase' = "tacidx" /\ sweep' = 1
                                            ELSE sweep' = sweep + 1 /\ UNCHANGED phase
  /\ before' = tac
  /\ UNCHANGED <<input, tac, code, fn, alloc, counter, slots, meaning>>
IndexPointers ==
  /\ Enter("tacidx", "tacleave")
  /\ tac' = RecognizeIndirectIndexed(tac, fn.ssa)
  /\ UNCHANGED <<input, code, fn, alloc, pass, sweep, before, counter, slots, meaning>>
LeaveTacSsa ==
  /\ Enter("tacleave", "shortcut")
  /\ tac' = FoldCopies(TacFromSsa(tac))
  /\ UNCHANGED <<input, code, fn, alloc, pass, sweep, before, counter, slots, meaning>>
FoldJumps ==
  /\ phase = "shortcut"
  /\ tac' = FoldShortCircuitJump(tac)
  /\ phase' = IF tac' = tac THEN "codegen" ELSE "shortcut"
  /\ UNCHANGED <<input, code, fn, alloc, pass, sweep, before, counter, slots, meaning>>

GenerateCode ==
  /\ Enter("codegen", "sizing")
  /\ fn' = [fn EXCEPT !.sizes = SizesIn(tac)]
  /\ code' = TranslateFunction(fn', tac)
  /\ before' = <<>>
  /\ UNCHANGED <<input, tac, alloc, pass, sweep, counter, slots, meaning>>

(* The preliminary allocation only serves to size the pool. *)
SizePool ==
  /\ Enter("sizing", "ssa")
  /\ LET f == [fn EXCEPT !.blocked = BlockedAddrs(fn, code)] IN
     \E bytes \in {LocalBytes(f, Optimize(f, code))} :
       fn' = [f EXCEPT !.pool = IF input.pooled /\ bytes > 0 THEN <<PoolBase, PoolBase + bytes - 1>>
                                ELSE <<>>]
  /\ UNCHANGED <<input, tac, code, alloc, pass, sweep, before, counter, slots, meaning>>

EnterSsa ==
  /\ Enter("ssa", "color")
  /\ code' = InSsa(fn, code)
  /\ UNCHANGED <<input, tac, fn, alloc, pass, sweep, before, counter, slots, meaning>>

(* A register local that does not get its register is an error. *)
ColorCode ==
  /\ phase = "color"
  /\ \E a \in {Allocate(fn, code)} :
       /\ phase' = IF a.coloring.error THEN "refused" ELSE "leave"
       /\ alloc' = [rep |-> a.rep] @@ a.coloring
       /\ code' = Colored(fn, code, a)
  /\ UNCHANGED <<input, tac, fn, pass, sweep, before, counter, slots, meaning>>

LeaveSsa ==
  /\ Enter("leave", "homes")
  /\ code' = FromSsa(code)
  /\ UNCHANGED <<input, tac, fn, alloc, pass, sweep, before, counter, slots, meaning>>

GiveHomes ==
  /\ Enter("homes", "peephole")
  /\ \E r \in {ReplacePseudoregs(fn, code, alloc)} :
       code' = Licm(SynthesizePrologue(LowerDataLoadAddress(r.code), r.frame, r.saved))
  /\ before' = code'
  /\ UNCHANGED <<input, tac, fn, alloc, pass, sweep, counter, slots, meaning>>

(* The fixed point: a sweep that changes nothing ends it, the SweepCap-th  *)
(* that does is an AssertionError.                                         *)
Fixpoints == <<"peephole", "peephole2", "peephole3">>
AfterFixpoint == [peephole |-> "loops", peephole2 |-> "dual", peephole3 |-> "stub"]
RunPass ==
  /\ phase \in DOMAIN AfterFixpoint /\ pass <= Len(Peepholes)
  /\ code' = RunPeephole(Peepholes[pass], code, SlotMap(code), fn)
  /\ pass' = pass + 1
  /\ UNCHANGED <<input, tac, phase, fn, alloc, sweep, before, counter, slots, meaning>>
EndSweep ==
  /\ phase \in DOMAIN AfterFixpoint /\ pass > Len(Peepholes)
  /\ pass' = 1
  /\ IF code = before THEN /\ phase' = AfterFixpoint[phase]
                           /\ sweep' = 1
     ELSE IF sweep = SweepCap THEN /\ phase' = "diverged"
                                   /\ UNCHANGED sweep
     ELSE /\ sweep' = sweep + 1
          /\ UNCHANGED phase
  /\ before' = code
  /\ UNCHANGED <<input, tac, code, fn, alloc, counter, slots, meaning>>

PassLoops ==
  /\ Enter("loops", "peephole2")
  /\ code' = LoopPasses(code, fn) /\ before' = code'
  /\ UNCHANGED <<input, tac, fn, alloc, pass, sweep, counter, slots, meaning>>
PromoteIndex ==
  /\ Enter("dual", "peephole3")
  /\ code' = DualIndexPromotion(code) /\ before' = code'
  /\ UNCHANGED <<input, tac, fn, alloc, pass, sweep, counter, slots, meaning>>
DropEntryStub ==
  /\ Enter("stub", "lengthen")
  /\ code' = DeadRegEntryStub(code, RegisterHomes(fn))
  /\ UNCHANGED <<input, tac, fn, alloc, pass, sweep, before, counter, slots, meaning>>

(* One round of _expand_function's loop: from the last branch that is too  *)
(* far to the first. The lengthened code may push another out of reach.    *)
ExpandIndices(p, far, first) ==
  Fold(LAMBDA r, n : [code |-> ExpandAt(r.code, far[Len(far) + 1 - n], r.counter),
                      counter |-> r.counter + 1],
       [code |-> p, counter |-> first], Listed([n \in DOMAIN far |-> n]))
ExpandRound(p, first) == ExpandIndices(p, Ascending(TooFar(p, DefaultZp)), first)

Lengthen ==
  /\ phase = "lengthen" /\ TooFar(code, DefaultZp) # {}
  /\ \E r \in {ExpandRound(code, counter)} : code' = r.code /\ counter' = r.counter
  /\ UNCHANGED <<input, tac, phase, fn, alloc, pass, sweep, before, slots, meaning>>
Emit ==
  /\ phase = "lengthen" /\ TooFar(code, DefaultZp) = {}
  /\ phase' = "done"
  /\ slots' = PruneUnusedLocals(code, DOMAIN SlotMap(code))
  /\ UNCHANGED <<input, tac, code, fn, alloc, pass, sweep, before, counter, meaning>>

(* The assembly is written, or the compiler has given up. *)
Finished == /\ phase \in {"done", "refused"}
            /\ UNCHANGED vars

Next == \/ RotateLoops \/ EnterTacSsa \/ RunTacPass \/ EndTacSweep \/ IndexPointers \/ LeaveTacSsa
        \/ FoldJumps
        \/ GenerateCode \/ SizePool \/ EnterSsa \/ ColorCode \/ LeaveSsa \/ GiveHomes
        \/ RunPass \/ EndSweep \/ PassLoops \/ PromoteIndex \/ DropEntryStub
        \/ Lengthen \/ Emit \/ Finished
Spec == Init /\ [][Next]_vars

----------------------------------------------------------------------------
(* The phases in which the code can be run. *)
TacSsaPhases == {"tacfix", "tacidx", "tacleave"}
TacPhases    == {"rotate", "tacssa", "shortcut", "codegen"} \cup TacSsaPhases
Runnable == phase \in TacPhases \cup {"sizing", "ssa", "homes", "lengthen", "stub", "loops", "dual", "done"} \cup DOMAIN AfterFixpoint
After(m) == IF phase \in TacPhases THEN TacRun(tac, m.mem) ELSE RunAsm(code, input, m)

(* Whatever pass has run, the code returns the value the TAC returns and   *)
(* leaves the statics as the TAC leaves them, on every initial memory; it  *)
(* ends when the TAC ends.  This is what no pass of compile.py may change. *)
ResultKept ==
  Runnable => \A m \in input.memories :
    LET now == IF phase \in TacPhases THEN RunTac(tac, input, m) ELSE ObserveAsm(code, input, m) IN
    /\ now.value = meaning[m].value
    /\ now.statics = meaning[m].statics
    /\ now.done = meaning[m].done

(* Calls, with their arguments, and the accesses to volatile objects       *)
(* happen as often and in the order the TAC does them.                     *)
EffectsKept ==
  Runnable => \A m \in input.memories : After(m).log = meaning[m].log

(* A variable of ssa has one definition, and it is passed on every way to  *)
(* a use of it.  A phi uses its argument at the end of the block that      *)
(* argument comes from.                                                    *)
DefinedIn(block, v) == \E k \in DOMAIN block : block[k].dst = v
Available(bl, idom, v, b) ==
  v.n \in ParamNames(fn) \/ \E d \in DOMAIN bl : Dominates(idom, d, b) /\ DefinedIn(bl[d], v)
UsesDefined(bl, idom, b) ==
  \A k \in DOMAIN bl[b] :
    IF bl[b][k].op = "phi"
      THEN \A a \in RangeOf(bl[b][k].args) :
             a.src \in fn.ssa => \A q \in LabelledBlocks(bl, a.lbl) \cap DOMAIN idom : Available(bl, idom, a.src, q)
      ELSE \A v \in RangeOf(TacUsesIn(bl[b][k])) \cap fn.ssa :
             DefinedIn(SubSeq(bl[b], 1, k - 1), v)
             \/ (~DefinedIn(bl[b], v) /\ Available(bl, idom, v, b))
UsesHaveDefinitions ==
  /\ \A k, l \in DOMAIN tac : tac[k].dst = tac[l].dst /\ tac[k].dst \in fn.ssa => k = l
  /\ \E bl \in {TacBlocks(tac)} : \E idom \in {ImmediateDominators(TacSuccessorMap(bl))} :
       \A b \in DOMAIN idom \cap DOMAIN bl : UsesDefined(bl, idom, b)

(* Each block from which a block with phis is reached has a label, and     *)
(* each of the phis one value for it.                                      *)
PhisMatch ==
  \E bl \in {TacBlocks(tac)} : \E succ \in {TacSuccessorMap(bl)} :
    \A b \in RangeOf(ReversePostorder(succ)) \cap DOMAIN bl : \A t \in RangeOf(succ[b]) \cap DOMAIN bl :
      \A i \in {j \in RangeOf(bl[t]) : j.op = "phi"} :
        /\ IsLabelTac(bl[b][1])
        /\ Cardinality({a.src : a \in {c \in RangeOf(i.args) : c.lbl = bl[b][1].to}}) = 1
(* SSA form is kept by every pass.                                         *)
SsaKept == phase \in TacSsaPhases => UsesHaveDefinitions /\ PhisMatch

(* A function leaves the hardware stack and the half of the shared pool it *)
(* must preserve as it found them.                                         *)
FrameKept ==
  Runnable /\ phase \notin TacPhases \cup {"sizing", "ssa", "homes"} =>
    \A m \in input.memories :
      LET end == After(m) IN
      /\ end.st = <<>>
      /\ \A cl \in DOMAIN m.mem : cl[1] = <<"zp">> => end.mem[cl] = m.mem[cl]

(* No two passes undo each other: the AssertionError of                    *)
(* _peephole_fixedpoint is never raised, and the fixed point of the TAC    *)
(* optimizer is left because a sweep changes nothing, never because        *)
(* TacSweepCap sweeps are over, which optimizer.py would not report.       *)
Converges == [][/\ phase' # "diverged"
                /\ phase = "tacfix" /\ phase' # "tacfix" => tac = before]_vars

(* The labels stay unique and the branches have theirs: a pass that copies *)
(* or drops a label breaks a branch far from it.                           *)
LabelsResolve ==
  /\ \A k, l \in DOMAIN code : IsLabel(code[k]) /\ IsLabel(code[l]) /\ code[k].to = code[l].to => k = l
  /\ phase \notin TacPhases => \A k \in DOMAIN code : IsBranch(code[k]) => code[k].to \in LabelsIn(code)

(* The final allocation fits in the pool that the preliminary one sized:   *)
(* what is left without a home in a function that has a pool is a static, a *)
(* parameter or the temporary of a cycle of copies.                        *)
PoolSuffices ==
  phase = "homes" /\ fn.pool # <<>> =>
    \A n \in UNION {NamesOf(Operands(code[k])) : k \in DOMAIN code} :
      n \in ParamNames(fn) \cup fn.statics \cup DOMAIN AllocateInPool(fn, code, ColoringUsedBytes(fn, alloc))
      \/ n[1] = "cycle_tmp"

(* Once the slots have their addresses every branch still reaches, and     *)
(* every instruction has an encoding and every slot it names an EQU.       *)
BranchesReach == TooFar(code, FinalZp(code)) = {}
Emitted == phase = "done" => /\ Emittable(code) /\ BranchesReach
                             /\ {n \in NamesIn(code) : IsSlotName(n)} \subseteq slots
=============================================================================
