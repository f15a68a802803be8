# c6502 in TLA+

c6502 compiles C99 to 6502 assembly. This directory holds TLA+ models of the
parts of the compiler whose correctness is a matter of order, of state shared
between passes and of what the compiled program does at run time, the TLC
configurations that check them, and proofs checked by TLAPS.

## The system

`compile.py --codegen --optimize` is one pipeline over one translation unit:

    source -> lexer, preprocessor, parser -> C99 AST
           -> identifier, label and loop resolution, unrolling, type checking
           -> c99_to_tac -> TAC -> passes/optimization (SSA and back)
           -> abi_selection -> zp_slot_allocation -> tac_to_asm
           -> passes/optimization_asm (SSA, coalescing, colouring, and back)
           -> function_local_sizing -> zp_local_allocation
           -> passes/optimization_asm again, with the pools
           -> replace_pseudoregisters -> prologue_synthesis -> peepholes
           -> long_branches -> asm_to_asm2 -> asm_emit (+ link metadata)

`compile.py --link` reads the metadata of several units, runs the two
zero-page allocators on the merged call graph and rewrites the addresses.

Nothing runs concurrently in the compiler. What is hard is that decisions of
one pass are trusted by another one, and that the compiled program is a stack
of activations sharing one memory: a static address is safe only because of
what every other function on the call stack does not do.

| component | state | operations | interacts with | correct when |
|---|---|---|---|---|
| `abi_selection` | convention of each function | select_abi | body scan of TAC; read by code generation and both allocators | caller and callee agree; no zp_abi function is active twice |
| `zp_slot_allocation` | slot addresses of each zp_abi function | order, ancestors, allocate | convention in; addresses to code generation, colouring, pools | no active function's parameters are overwritten |
| `zp_local_allocation` | private pool of each eligible function | eligibility, coexistence, allocate | slots and preliminary colouring in; colouring and prologues out | no active function's locals are overwritten |
| call sequence (`tac_to_asm`, `asm_to_asm2`, `prologue_synthesis`) | zero page, soft stack, frame | argument writes, prologue, epilogue | the plan above | a call preserves what the caller needs |
| `optimization_asm` (SSA, liveness, interference, coalescing, `regalloc`) | interference graph, colouring | build, merge, colour, pin to X or Y | ranges from the pools | interfering values have different places |
| `optimization_asm/ssa_destruction` | instruction list, pending copies | split edges, order copies | storage chosen by the colouring | each edge performs its parallel copy |
| peepholes | instruction list | about thirty rewrites to a fixed point | each other | equivalent code, convergence |
| `long_branches` | label addresses | expand until none is too far | code size | every branch reaches, the loop ends |
| `linker`, `zp_link_metadata`, `zp_slot_naming` | merged metadata, symbol table | merge, validate, reallocate | code compiled separately under the same names | units agree on conventions and sizes; symbols are unique |
| TAC optimizer | TAC, CFG, SSA names | propagation, folding, loop rotation, jump folds | C integer semantics | equivalent TAC |
| front-end resolution and typing | scopes, symbol table | declare, resolve, merge declarations | each other, in order | C's linkage and scope rules |
| `sim/`, `tac_sim`, runtime helpers | machine state | step; multiply, divide, shift loops | test harness | agree with C arithmetic |

The hazards, each at its line, are in `PROJECT.json`.

## Modules

The first group is the memory plan, from the smallest part up.

* `ZpProgram` - a program as the passes see it (functions, call edges, pointer
  uses, byte counts) and the pure analyses: `ValidatesZpAbi`, `SelectedAbi`,
  `AddressTaken`, `Eligible`, `CoexistingZp`, and `FreeRange`, the result of
  the range search. Transitive callers are defined as the least closed set.
* `ZpSlots` - the plan as a state machine: `SelectAbi`, `BuildCallgraph`,
  `AllocateSlots(f)`, `AllocateLocals(f)`, with the error ends. Functions are
  placed in *any* order in which callers come first.
* `KahnSlots` - `allocate_zp_slots` with its queue, in-degrees, ancestor sets
  and the scan that jumps past the highest conflict. It is shown to implement
  `ZpSlots` (`INSTANCE ... WITH`; the property `ImplementsPlan`).
* `ZpRuntime` - extends `ZpSlots` with the program's execution. `mem` maps
  each byte to the depth of the activation whose value it holds. `Enter` is
  argument writes, JSR and prologue in one step (nothing can run in between:
  interrupts are not used); `Body` is any computation of the running function,
  `Return` the epilogue; `CallExtern` and `IndirectCall` are the calls the
  analyses cannot see through. The bytes a body uses are where `color_graph`
  puts them: in the pool, or in the caller/callee-saved halves avoiding the
  slots of the function and of its direct callees.

* `ZpLink` - several units compiled apart and linked. `Metadata` is what a
  unit says of itself, `Merge` and `ValidateAndSynthesize` are the linker, whose
  synthetic program is then allocated by the actions of `ZpSlots`. The
  properties speak of the units as they were written (`SourceCalls`), not of
  what the linker made of them.

The second group is the lowering of Phis.

* `PhiEdge` - what the Phis of a block mean on one edge: an atomic parallel
  assignment.
* `ParallelCopy` - `_order_parallel_copies` with the Movs executed as they are
  emitted. It implements `PhiEdge` (`ImplementsEdge`).

The third group is the back end of one function: what its code does, and every
pass from TAC to assembly. From the smallest part up:

* `AsmIR` - the instructions and operands of the asm IR as records. (The helpers
  on lists of instructions every pass uses are in `AsmFlow`; `Rewrite` is the sweep
  of a window over the list.)
* `Machine` - what each instruction does to registers, flags, memory and the
  log of effects, as `asm_emit` spells it; bytes have `ByteBits` bits. Objects
  are separate arrays: an address is a page and an offset. A volatile cell
  counts the times it is read, so a read too many shows in the values too.
* `TacIR` - the TAC interpreter (`tac_sim.py`) on the same memory.
* `TacSsa`, `TacFold`, `TacLoops` - the TAC optimizer: SSA and back
  with its dominators; constant and copy propagation, dead code, jump folds,
  what is narrowed, reassociated, strength-reduced or turned into an indexed
  access; loops that are rotated, deleted, and what is sunk in them.
* `Codegen` - `tac_to_asm.py` for integers of one and two bytes and pointers.
* `AsmFlow`, `AsmSsa`, `RegAlloc` - the asm optimizer:
  control flow, dominators, SSA and back, copy propagation in both directions,
  dead code, liveness, interference, coalescing, index registers, colouring,
  homes of the locals, prologue.
* `Coloring` - register allocation of one function as a state machine of its own:
  the backward dataflow block by block and sweep by sweep (`FlowBlock`,
  `NextSweep`, `EndLiveness`), the interference graph (`AddBlock`,
  `EndInterference`), `Coalesce(p)`, the pins to X and Y (`PinRequired`,
  `RefuseRequired`, `PinHint`), `Color(n)`, `EndLoop` between them; then the
  coloured code at work (`Execute`, `TakeEdge`, `Return`), where each byte and
  register holds the name whose value it has. `RegAlloc` computes the same
  colouring of concrete code in one step of `Backend`; `Coloring` looks at what
  the allocator sees of an instruction only, so that it can be checked for
  every shape of code, and proved about. The orders that decide how good a
  colouring is (of pairs, hints and nodes) are open: any order is allowed.
* `PeepWindows`, `PeepValues`, `PeepLoops` - the peepholes, by what they look
  at: windows of a few instructions, labels and branches; what bytes are known
  to hold, which stores are read; loops.
* `LongBranches` - sizes of instructions, addresses, the triple that replaces a
  branch; pruning of slots.
* `Lengthening` - `_expand_function` as a state machine of its own: `Measure`
  finds the branches that are too far, `ExpandIndex` replaces the last of them,
  `MissingTarget` is the ValueError. `origin` and `place` remember the function
  that was given and where each of its instructions is by now. `Backend` does a
  round of it in one step, on code its other passes have made.
* `Backend` - the state machine: `RotateLoops`, `EnterTacSsa`, `RunTacPass` (one
  pass of the TAC fixed point a step), `EndTacSweep`, `IndexPointers`,
  `LeaveTacSsa`, `FoldJumps`, `GenerateCode`, `SizePool`, `EnterSsa`,
  `ColorCode`, `LeaveSsa`, `GiveHomes`, `RunPass` (one peephole a step),
  `EndSweep`, `PassLoops`, `PromoteIndex`, `DropEntryStub`, `Lengthen`,
  `Emit`, with the error ends. `meaning` is what the input does, found out at
  the start; after every step the TAC or the code is run and compared with it.
  While the TAC is in SSA, `SsaKept` says that each name has one definition that
  is there whenever it is used, and that phis and predecessors agree.

The fourth group is the front end: one source file from the parsed tree to TAC.

* `CTree` - the syntax tree (`c99.asdl`) as records: integers of one and two
  bytes, pointers and arrays of them. A name is a sequence of words, so that
  `@4.a` is `<<"@", 4, "a">>`: what resolution puts in front of a name stays apart
  from it.
* `CMeaning` - what such a tree does, by the C standard: the reference, not a
  translation of code (and so the one module with nothing in `map`). Objects
  have identities, scopes are nested, a switch looks for its case anywhere
  below it, values have the width and sign of their types. It runs the tree
  before names are resolved and after, with casts and without.
* `Names` - what happens to a tree before types: `unroll.py`,
  `identifier_resolution.py`, `label_resolution.py` and `loop_labeling.py`.
* `Types`, `TacGen` - `type_checking.py` with `constant_expression.py`;
  `c99_to_tac.py`.
* `FrontEnd` - the state machine: `UnrollLoops`, `ResolveIdentifiers`,
  `ResolveJumps`, `LabelLoops`, `TypeCheck`, `TranslateToTac`, one stage a step
  as in `_resolved`, each of which may refuse the file. `meaning` is what the
  parsed tree does on each of the input's calls; after every stage the tree, and
  at the end the TAC (by `TacIR`), is run and compared with it.

`MC*` modules hold the bounds; `*Proofs` modules the proofs (below). The
operators named "Mutant" beside some definitions are plausible bugs: replacing
the definition by one of them makes the property in `PROJECT.json` fail.

### Correspondence

| code | model |
|---|---|
| `abi` dict, an extern missing from it | `abi`; "soft" for both |
| `strict` (annotation or `register`), AbiSelectionError | `prog.strict`, `phase = "AbiSelectionError"` |
| `ZpLayout.addrs`, `local_pools` | `slots`, `pools` with `placed`, `pooled` |
| the raise in `_topological_order` | `phase = "CycleError"` (never reached, `OrderNeverStuck`) |
| `Pool` 80/C0/100 and the spill region | `PoolStart`, `Mid`, `PoolEnd`, `SpillStart`, `SpillEnd` |
| colours, `callee_saved_addrs` | `BodyBytes`, `SavedBytes` |
| soft-stack frame holding the saved bytes | `saved` of an activation |
| `LinkMetadata` of a unit, the merged one | `metas[i]`, `merged` |
| lists of slot symbols | their lengths |
| `LinkError` | `phase = "LinkError"` |
| `pending`, `cycle_counter`, `tmp` | `pending`, `temps`, `Tmp` |
| `asm_ast` nodes | records with `op`, `src`, `dst`, `to`, `args`, `regs`, `vol` |
| the `Function` and its options as `compile.py` hands them on | `fn` |
| `ssa_dsts` and the symbol table's constant statics and tables | `fn.ssa`, `fn.consts`, `fn.tables` |
| `PhaseDriver.apply`, its `fixedpoint_cap` of 256 | `EnterTacSsa` ... `FoldJumps`, `TacSweepCap` |
| the preliminary allocation, `local_pools` | `SizePool`, `fn.pool` |
| `_peephole_fixedpoint`, its sweeps and its AssertionError | `RunPass`, `EndSweep`, `phase = "diverged"` |
| a register local that got no register | `phase = "refused"` |
| `expand_program`, its counter | `Lengthen`, `counter` |
| `_expand_function`: `too_far`, `counter`, the list `new` | `tooFar`, `counter`, `instrs` of `Lengthening` |
| pruned EQUs | `slots` |
| `Liveness.live_in`, `live_out`; the loop's `changed` | `liveIn`, `liveOut`; `changed`, `at` of `Coloring` |
| `InterferenceGraph.nodes`, the edges, `lives_across_call` | `nodes`, `edges`, `across` |
| `CoalesceResult.representative`, resolved | `rep` |
| `hwreg_assignments`, `assignments` | `pin`; `colored` with `base` |
| `RegallocError` | `phase = "RegallocError"` |
| the tree handed from stage to stage of `_resolved` | `tree`, `stage` |
| `UnrollError`, `IdentifierResolutionError`, `LabelResolutionError`, `LoopLabelingError`, `TypeCheckError` | `stage = "refused by ..."` |
| the resolver's `_Scope`, name to (name, inner flag, linkage) | `scope`, a function to `Entry3`; `inner` |
| the labeler's stacks of break, continue and switch labels | the context handed down (`Outside`, `InLoop`, `InSwitch`) |
| the symbol table with `Tentative`, `Initial`, `NoInitializer` | `symbols` |
| the translator's counters and instruction list | the `Translation` record handed from part to part |

Only single bytes are coloured in the runtime model (multi-byte values are
sets of bytes there), bodies are "temporaries" and "values live across calls",
and the soft stack itself is taken to be private to an activation.

`Coloring` takes a name as assigned whole: a name of two bytes whose low byte alone
is written is outside it. A name that is neither pinned nor coloured has a byte
of the frame to itself. The copies of an edge are done at once, as
`ParallelCopy` shows they may be thought of, and a call keeps the callee-saved
bytes, as `ZpRuntime` shows. The empty blocks ENTRY and EXIT are left out.

## Runs

| run | question | result |
|---|---|---|
| `kahn` | does the algorithm compute the plan, and end? | passes |
| `runtime` | is the plan enough for the program that runs? | passes |
| `runtime_pointers` | can a pointer reach a zp_abi function? | violated |
| `link` | is the plan of a linked program right, whatever the units could see? | passes |
| `link_params` | does linking keep parameters apart, as compiling in one unit does? | violated |
| `parallel_copy` | do the sequential Movs equal the parallel copy? | passes |
| `backend` | does every pass keep what the function does, do the peepholes converge, does the result assemble? | passes |
| `lengthening` | do all branches reach, in the code that was given, also when the linker has shrunk it? | passes |
| `coloring` | is liveness exact, does the coloured code find the values it reads, does the allocation end? | passes |
| `coloring_calls` | is a name that lives across a call always kept out of X and Y? | violated |
| `frontend` | does every stage of the front end keep what C says a program does, and refuse what it must? | passes |
| `lost_copy` | does a value of the last round of a loop survive leaving SSA? | violated |

**Bounds.** `kahn`: three functions, every one of the 512 call graphs, sizes
chosen so that ranges fit exactly, leave gaps, spill and overflow the spill region
(window 0..2, spill 6..7). Three functions give chains, diamonds with a
skipped level, self loops and cycles of each length; the scan has at most two
conflicts to skip. `runtime`: three functions, every call graph, stack depth 3
(one more than the shortest chain in which a function above is reached through
another one, and enough for any function to be on the stack twice), window
of two bytes, two callee-saved, seven spill bytes, so that pools and slots
contend for the window and land in the spill region; units with externs and
with function pointers are separate sets. The names are interchangeable in
the next-state relation and in every property, so the symmetry set is sound:
a permuted state has permuted successors, whichever of the two is kept.
`link`: two units, three functions, every call graph without self loops and
every choice of functions with a parameter, so that each function can be
private to its unit or shared, with and without slots; further sets have
recursion inside a unit, indirect calls, a refused function, an extern nobody
defines, duplicate definitions and declarations that disagree. The longest
chain needs one byte more than there are, so both allocators can fail.
`parallel_copy`: lists of up to four Movs with any sources among five locations
and one immediate, and the permutations of five locations, which holds two
disjoint cycles, a five-cycle, chains hanging off cycles, self moves and fans.

`backend`: bytes of eight bits (carries, signs and wrap-around are real), 43
inputs: functions that enter at the TAC optimizer (countdowns, widened
arithmetic and its casts, masks and the jumps on them, constant statics and
tables, increments, indexed accesses, short-circuit conditions, calls in
loops), functions that enter at code generation (loops with one and two
counters, critical edges, pointers into arrays and into locals, volatile reads,
comparisons and arithmetic of both widths, hints and pins to X) and listings
that enter at the peepholes, written so that each of the passes finds what it
looks for; each is run on two or three initial memories with values at the
boundaries (0, 255, 128). `Fuel` 9 bounds the backward jumps of a run, which
no input needs more of. `Reach` 40 stands for the 127 bytes a branch reaches,
so that functions of this size have branches too far, and one whose expansion
pushes another out. `SweepCap` 16 is the code's. `TacSweepCap` is 16 where the
code has 256: no input needs more than seven sweeps, and `Converges` fails if one
did. Each pass of the TAC optimizer, rotation, indexing and the fold after SSA
change something in at least one input. The passes
`mem_const_prop`, `self_store_drop` and `dec_inc_branch_fold` are in the sweep
but find nothing in these inputs.

`frontend`: 142 source files, each with unrolling on and off; bytes have eight
bits, and each file is called with zeros, with a word of ones, and with values
beyond 127 and 255. The files pair scopes and linkages (shadowing, statics of
one name in two functions, externs below a local, every order of
declarations), jumps (switches in loops, cases inside loops, gotos into loops,
labels of one name), side effects in lvalues and short circuits, pointers up
and down arrays, every pair of the four integer types in operations that tell
them apart, loops that unroll or must not, and for each stage programs it has
to refuse. `Patience` 40 and `Fuel` 9 bound the rounds of a run, which no input
exhausts; `MaxIterations` is the code's 256. What C leaves undefined or
unspecified (overflow of int, the order of operands with effects) is
not among the inputs.

`lengthening`: every list of up to six instructions among two labels (each at
most once), branches to them and a store whose operand takes a byte less when
the linker has placed it; a branch reaches -9 .. 8. That is enough for a
branch that is too far at once, one that an expansion pushes out, in both
directions, several in one round, and for targets that are missing. `FirstCounter` 3
stands for what the functions before have used.

`coloring`: functions of three blocks, a loop and a diamond, over three names,
with every two of ten pieces of code (assign, read, copy, index setup, load of
an index register, call, access through a pointer) in the middle block and
with and without phis that swap; each once with the default pool (two bytes
that calls destroy, two that they keep, hints for X and Y, a parameter's slot in the way)
and once with a private pool of three bytes, names of two bytes and a
`register` local. There are 2824 of them that satisfy `CallsMeetNames` and
`HiddenWritesApart`, the two things the code does not see to (below). That is
enough for two sweeps and more, merges whose neighbours have been merged before,
pins that are refused for each reason, names that spill, and a name read on one of
two paths only. `coloring_calls` has the one function that shows why the first
is needed.

**Fairness.** `coloring` assumes weak fairness of the allocation alone
(`Allocate`): the compiler is one thread that keeps running, and the compiled
code need not. `kahn`, `parallel_copy` and `lengthening` assume weak fairness of the whole
next-state relation: one thread of control that keeps running. No liveness is
claimed of the compiled program, which may loop for ever. `Backend` needs no
fairness: that the fixed point ends is a safety property there (`Converges`),
because the code counts its sweeps and asserts.

**Deadlock** checking is off where the algorithm ends; in `backend` it is on,
and `Finished` is the only state allowed to stay: a pass that could not be
applied would show. `backend`, `frontend` and `link` state no type invariant: a value of
a wrong type makes TLC fail in the definition that uses it.

### What the violations show

* `EveryParamKept` (not among the runs: `RuntimePointers.cfg` shows it with
  `Programs <- SoftBetweenPrograms` and this invariant; `link_params` below is the
  same gap). The slot allocator records edges between two zp_abi
  functions only, so `a (zp) -> b (soft) -> c (zp)` looks like two unrelated
  functions, and c's arguments are written over a's. A recursive `b` does the
  same with its body's bytes, which start at the bottom of the same window.
  The docstrings promise otherwise. What does hold is `ParamsKept`: the
  parameters stay if the function and all it calls have pools and every zp_abi
  function below it is reached through zp_abi functions alone.
* `ConventionsAgree`. A function whose address is stored only by a static
  initializer (or by itself) is not seen as address-taken; it gets the
  zero-page convention although indirect calls use the soft stack. In the
  units of the run `runtime`, where addresses are stored by other functions'
  instructions, it holds.

* `LinkedParamsKept`. The linker gives a function without parameters the
  soft-stack layout (in its own unit it is zp_abi), and the slot allocator drops
  its edges. With `f(x)` and `g(void)` in one unit, `h(y)` in another, and
  `f -> g -> h`, the linked program has `x` and `y` at the same address. It
  takes an extern declaration of `g` in some unit, whose ABI selection gives it
  the zero-page convention, to restore the chain: this is what
  `SharedParamsKept` says. (A declaration alone is not enough: where the
  function was refused the convention, the chain stays broken. The attempt to
  prove the weaker condition showed it.)
* `RecursionRejected` (not among the runs: `Link.cfg` shows it with
  `Links <- LoopLinks` and this invariant). A cycle across units through such a function is not
  noticed; its functions, and all that call them, are left out of the pools and
  their symbols have no address in the output.

* `lost_copy`. A do-while loop swaps two locals, one of which is read after it.
  The copies of the edge back are placed before the conditional jump at the
  end of the loop and so run on the way out too; the read after the loop, which
  copy propagation has turned into a read of the phi, finds it overwritten.

* `coloring_calls`. `interference.py:23` says that `lives_across_call` "is set on a
  node iff the value is live just before any `Call` instruction". The code marks only
  names that are nodes already (`:95`): blocks are walked forward, so the counter
  of a loop whose head calls a function, and whose uses are in later blocks, is
  not marked. In the run it is pinned to X, which the call destroys; without
  a hint it gets a byte that calls do not keep. `CallsMeetNames` is the condition
  under which this cannot happen.
* `ReadsFindValues` with `Functions <- DerefMeetsPin` in a copy of
  `ColoringCalls.cfg` (not among the runs): an access through a pointer, or to
  the frame, loads Y when it is emitted, and `_instr_writes_hwregs` looks at explicit
  writes only, so that a value pinned to Y across it is lost. The docstring at
  `regalloc.py:427` admits it. `HiddenWritesApart` is the condition.

More inputs on which the code does not do what its TAC does are at the end of
`MCBackend`; naming one of the sets as `Inputs` in a copy of `LostCopy.cfg` shows the
counterexample (for `JumpCycleInputs`, with the property `Converges`):

* `SignedCompareInputs`: a signed comparison corrects the sign for overflow with
  `BVC no_ovf; EOR #$80; no_ovf: BMI`. `flags_dead_at` takes the flags as dead
  at the label, so `dead_a_arith` deletes the EOR and a comparison whose
  difference overflows branches the wrong way.
* `LostSignInputs`: `int q = x; return q < 0;` with unsigned `x`. The cast is a Copy,
  copy propagation puts `x` into the comparison, and code generation takes the
  signedness from the operand. In general a Copy between types of one width is
  taken to make its two sides interchangeable.
* `DroppedSumInputs`: `narrow_widened_arith` deletes the wide sum whose truncation it
  narrows, also when the sum is used elsewhere.
* `SunkStoreInputs`: `sink_and_past_branch` moves the masked value past the branch
  under fresh names, also when its destination is a static, whose store is lost.
* `StaleCastInputs`: `truncate_extend_fold` reads the source of the extension at the
  truncation, also when it is a static that was written in between.
* `SwapIndicesInputs`: two loop variables that swap and are both used as indices are
  pinned to X and Y. The temporary that breaks the cycle of copies is minted
  after the colouring; without a pool it becomes a frame byte, and reaching it
  takes Y, which holds one of the two.
* `JumpCycleInputs`: two empty loops that jump to each other. `branch_through_jump`
  follows the chain to its depth limit and writes back where it stopped, so
  each sweep exchanges the two labels and the fixed point never settles.

Divergences met while modelling that no run states, because it takes code the
compiler's own front end seldom or never produces: `loop_counter_to_x` leaves a
`DEC` of the counter in place inside a stretch moved to Y, so that X does not
count; `x_save_slot_load` ignores writes to X other than INX and DEX (it says it
does not); `asm_remat` and `redundant_store` do not look at stores through a pointer when the byte they
follow is a zero-page local's; `ssa_destruction` splits both edges of a branch whose
target is its fall-through; `asm_licm` hoists a store that is conditional in
the loop; `memory_value_propagation` keeps a fact read from a volatile;
`redundant_load` compares indexed operands without their index register;
`mem_const_prop` keeps A's value over a pop; `prune_unused_slots` overlooks
address operands; Divide and Modulo take the signedness of the first operand
alone; two address-taken locals spelt alike share a symbol; a Mov from the
frame to X or Y has no encoding; a framed function loses a parameter passed in
A; `dec_register` and `inc_peephole` take A to be dead in cases it is not.

`loop_rotate` takes the start of a loop's variable from the last definition in
front of it, also when that one is conditional, and does not look for writes
through pointers; `reassoc_const` promises Subtract and does Add only; folding
a comparison with 0 of type char makes the zero an unsigned int.

Disagreements of the front end with C or with its own comments, met while
modelling and kept out of the inputs of `frontend`:

* `unroll.py:458` lets a `static` local through: its copies become as many
  objects, each of which starts anew.
* `unroll.py` follows the counter with unbounded integers: a counter that would
  wrap is unrolled as if it did not.
* `_const_for_value` (`type_checking.py:1188`) keeps the low byte of an int case value,
  though its docstring speaks of "the matching width"; `constant_expression.py:96`
  gives int one byte where the function it "Mirrors" gives two, so that
  `case (int)300:` is 44.
* A static initializer drops a cast: `static int x = (char)300;` is 300.
* The compound assignments' `_emit_widen_or_narrow` extends a signed char with zeros,
  though it "Mirrors the Cast lowering".
* A cast between types of one width leaves no trace in TAC: `(int)u / v` divides
  without sign (the source of `LostSignInputs`).
* A switch on a volatile object reads it once for each case, though a comment
  says the control is evaluated once; `v;` reads a volatile object not at all.
* An array used as a condition is not decayed; a bitwise or multiplying
  assignment to a pointer fails with a TypeError of Python.

The front end's definitions, too, were compared with the code: some hundred
random programs of the models' fragment, right and wrong ones, gave the same
tree after each stage, the same refusals and the same TAC, up to the numbers of
temporaries (a cast between `const char` and `char` takes one in the code).

The TAC passes were also compared with the real ones: random functions in the
models' fragment of TAC went through the optimizer pass by pass, and the
definitions, evaluated by TLC on the same lists, gave the same result in each of
some 5000 applications of a pass.

The module docstring of `abi_selection.py` also says that unannotated functions get the
soft-stack convention; `select_abi` gives the zero-page one to every function that
qualifies. The model follows the code.

## Proofs

TLAPS proves the following for every value of the constants: any finite set of
names, any program, pool, depth of calls, number of units, list of Movs or list
of instructions.

* `ZpGraphProofs`: transitive callers (least closed set), transitivity,
  monotony, that a finite acyclic graph has a source, and that the lowest free
  range is free and inside its region. All of the memory plan rests on these.
* `ZpSlotsProofs`: `PlanTypeOK`, `SlotsDisjoint`, `PoolsDisjoint` and
  `OrderNeverStuck`. `PlanIInv` adds what the phases have done, that a placed
  function's callers are placed, and where ranges may lie; disjointness is not
  inductive without the order, since the search avoids ancestors only, and
  those must already have their range. The part about the allocation alone,
  `AllocIInv`, speaks of any program with any convention, so that the linker's
  synthetic program can use it too.
* `KahnProofs`: `AncestorsExact`, and the refinement `ImplementsPlan`. The
  invariant `KahnIInv` says what each loop has established so far: that a
  function is queued or done exactly when all its callers are done, and the
  in-degree of each counts the others (`QueueInv`); that the sets of the functions
  gone through are their transitive callers (`AncestorsInv`); that no start
  the scan has passed is free (`ScanInv`). With it each of its steps is a step of `ZpSlots` (selection,
  a placement, an error) or none: the queue is one of the orders in which
  callers come first, and the scan ends at the least free start. The liveness
  half of the specification does not enter: `ZpSlots` promises safety only.
* `ZpRuntimeProofs`: `TypeOK`, `LocalsKept`, `ParamsKept` of the running
  program. `RunIInv` adds that each frame saved exactly the callee-saved bytes of
  its function, that what it needs while it waits lies in its slots, its pool
  or the callee-saved half (`FramesInv`), and that everything above a function
  with a pool has one and is its descendant (`ChainInv`) - this is what
  connects the stack with the graph the allocator used. `ConventionsAgree`
  (`ConventionsAlwaysAgree`) is proved under the hypothesis the code needs and the
  run `runtime_pointers` shows it does not have: each function whose address is
  stored is stored by an instruction of another function (`AddressesSeen`).
* `ZpLinkProofs`: `LinkTypeOK`, `LinkedLocalsKept`, `SharedParamsKept`,
  `LinkedConventionsAgree` and `EverySymbolBound`. `LinkIInv` says what the merged
  metadata owe to the units and the synthetic program to the merged metadata,
  and takes `AllocIInv` for the final allocation. A chain of calls as the
  units were written is shown to be one of the synthetic program: a function
  with a pool calls nothing the metadata do not record.
* `ParallelCopyProofs`: `TypeOK`, `NoLostCopy`, `OneTempPerCycle` and the refinement
  `ImplementsEdge`. The invariant says that a destination already written holds
  what it should, one not yet written still holds its old value, that no
  pending Mov reads a location already overwritten, and that the temporaries
  are distinct from all storage. `TempsInv` counts: the temporaries minted are as
  many as the cycles of which a Mov has been emitted or reads a temporary. When
  no Mov is ready, each pending destination is read by exactly one pending Mov
  (they are as many), so every pending Mov is on a cycle, and a whole one
  (`StuckOnCycle`): a temporary is never spent twice, or on a chain.
* `LengtheningProofs`: the safety properties of `Lengthening`. First the sizes: the
  more addresses take one byte, the smaller every instruction, case by case of
  `instruction_size` (`SizeShrinks`); then the distances, as cardinalities of sets of
  bytes, so that no induction over the list is needed (`BranchDisplacement`,
  `BytesShrink`); together, a branch that reaches when it is measured reaches in the
  linked program (`ReachKept`). The invariant `LIInv` adds to the properties that
  places increase; from it each instruction of the list is one given or one
  of a triple (`OriginAt`), an inverted branch jumps three bytes and is never too far
  (`BranchAt`), so what is expanded is always a branch that was given, once. Proved
  are `TypeOK`, `ReachesWhenLinked`, `ExpandedOnce` and `CodeKept`, which has the parts
  `FlowKept`, `IndicesStayValid`, `LabelsStayDistinct` and `RefusedAsGiven`.

* `ColoringProofs`: `LiveExact`, `HomesDistinct` and `ReadsFindValues` of `Coloring`, for
  functions of any number of blocks, names and bytes. `LiveInv` says that no set
  ever holds a name the answer does not, and that the blocks a sweep has passed
  without a change satisfy their equations; when the sweeps end, the blocks at
  whose start a name is in `liveIn` are therefore closed, and the answer is the
  least closed set (`LiveAlwaysExact`). `EdgesKept` follows an interference through
  the merges: if one of two names is assigned while the other is live, their
  representatives differ and are connected, whatever has been merged with
  either; `AcrossKept` says the same of the mark that a name lives across a call,
  and `GraphInv` which names are nodes. `PinInv` and `ColorInv` add that neighbours share
  no register and no byte and that marked names avoid what a call destroys, so
  that interfering names have homes apart (`InterferingApart`). `RunInv` is what
  `ReadsFindValues` needs in between: wherever the code is, each name that is live
  and has been assigned is in its home. Names merged into one do not disturb each
  other, because none is assigned while another one is live.
  `ReadsAlwaysFindValues` is proved under `CallsMeetNames(fn)` and
  `HiddenWritesApart(fn)`: `coloring_calls` and `DerefMeetsPin` show that neither can be
  left out, and all functions of the run `coloring` satisfy them.

The least-number principle (`LeastNatural`) is proved where it is used. Only the
named assumptions on the constants are used, and TLC evaluates them in the runs:
`PoolAssumption` (the shape of the pool), `NamesAssumption` (names are finitely many),
`OrderAssumption` (in `KahnSlots` they are numbers: the code sorts them),
`ProgramsAssumption` of `ZpSlots` and of `KahnSlots`, `DepthAssumption`, `LinksAssumption` (the units are units), `MovListsAssumption` and
`OperandsAssumption` (destinations of one edge are distinct, temporaries are
fresh), `ReachAssumption` (a branch reaches over a jump) and `FunctionsAssumption` (labels
are bound once, and the labels `.lb_skip@` are the lengthening's own). In `Coloring`,
`NamesAssumption` and `PoolAssumption` are the shapes of a name and of the two halves of
the pool, and `FunctionsAssumption` says of the functions what `IsFunction` does: an
instruction that calls or writes X or Y assigns no name.

The type invariants of the plan, the link, the lengthening and the colouring are proved
without being properties of a run, as is `HomesDistinct`: other theorems rest on them.

Model-checked only: `AllocationEnds`, `OrderingEnds`, `LengtheningEnds` and `ColoringEnds` (liveness under
fairness and ENABLED are beyond the prover; `ExpandedOnce` bounds the rounds of the lengthening),
and all of `Backend` and `FrontEnd`: their passes are recursive definitions over
instruction lists and trees, which are out of the prover's reach. So is the
result of the parallel copy's emitted list as a whole: the proof follows the Movs
one by one as they are executed. Nothing proved here is an induction over data.

## Not modelled

Text processing (lexer, preprocessor, parser, the wording of the assembly),
generated data classes. Interrupt handlers. In the front end: structures, floats,
integers of four bytes and more, strings and their lifting, `sizeof`, volatile
objects, pointers to functions, to arrays and to pointers, arrays of several dimensions. The models know one
size of array, of four elements; its type decides what the code asks a size for. In the
back end: parameters on the soft stack, floats, integers of four bytes and
more, the dispatch of arrays of function pointers, constant statics in the asm
optimizer, the pipeline without `--optimize`.

## Plan

Done: the memory plan, its run time and its linking; Phi lowering; the way of a
source file from the tree to TAC, and of a function from TAC to branch
expansion; the register allocation for functions of any shape. What could follow:

1. The linked program at run time: functions that address their locals by
   number although the linker accepts them, on the model of `ZpRuntime`.
2. Four-byte integers and soft-stack parameters in `Codegen` and `Machine`.
3. Structures and four-byte integers in the front end.

4. Names assigned byte by byte in `Coloring`, whose liveness the code keeps by the
   name.
5. Theorems: the part of the linked program's run time that 1 adds. That each round
   of `Backend` is the rounds of `Lengthening`, and its colouring one of `Coloring`,
   cannot be stated, as `Backend` reaches recursive operators.
