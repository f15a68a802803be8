------------------------------ MODULE Coloring ------------------------------
(***************************************************************************)
(* The register allocation of one function, from liveness to the coloured  *)
(* code at work (optimization_asm: liveness.py, interference.py,           *)
(* coalescing.py, optimizer.py, regalloc.py). An instruction is what the   *)
(* allocator sees of it: the names it assigns and reads, the pair of names *)
(* it is a copy between, what it does to X and Y. The orders that only     *)
(* decide how good a coloring is - of the pairs, the hints, the nodes -    *)
(* are left open. ENTRY and EXIT are left out: they are empty.             *)
(*                                                                         *)
(* RegAlloc computes the same coloring of concrete code, in one go.        *)
(***************************************************************************)
EXTENDS Integers, Sequences

CONSTANTS
  Names, NoName,  \* the pseudoregisters of a function; no pseudoregister
  Bytes,          \* addresses a name can be colored with
  CallerSaved, CalleeSaved,  \* the two halves of the default Pool
  Functions       \* the functions considered

Regs == {"X", "Y"}

(* An instruction assigns `dst` and reads `uses`. It is the second half of *)
(* a copy of `copy`. It writes the registers `writes`, for the assembler   *)
(* to see; `from` is the name in A when that is the end of an index-setup  *)
(* chain. The registers `hidden` are only written by what its operands     *)
(* are expanded to when the code is emitted.                               *)
IsInstr(i) ==
  /\ i \in [dst : Names \cup {NoName}, uses : SUBSET Names, copy : Names \cup {NoName},
            call : BOOLEAN, writes : SUBSET Regs, from : Names \cup {NoName}, hidden : SUBSET Regs]
  /\ i.writes # {} \/ i.call => i.dst = NoName

(* A block starts with its phis. Their argument for a predecessor that     *)
(* they have none from, or a constant one from, is NoName.                 *)
IsBlock(x, all) ==
  /\ DOMAIN x = {"phis", "code", "succ"}
  /\ x.phis \subseteq [dst : Names, args : [all -> Names \cup {NoName}]]
  /\ x.code \in Seq({x.code[k] : k \in DOMAIN x.code})
  /\ \A k \in DOMAIN x.code : IsInstr(x.code[k])
  /\ x.succ \subseteq all

(* `colorable` are the names that are neither static nor address-taken nor *)
(* parameters; `eligible`, `hints` and `required` what hwreg_eligibility   *)
(* finds; `pool` the private pool, if `private`; `blocked` the slots of    *)
(* the parameters, its own and of those it calls.                          *)
IsFunction(f) ==
  /\ f.blocks \in Seq({f.blocks[b] : b \in DOMAIN f.blocks}) /\ f.blocks # <<>>
  /\ \A b \in DOMAIN f.blocks : IsBlock(f.blocks[b], DOMAIN f.blocks)
  /\ f.colorable \subseteq Names /\ f.required \subseteq Names
  /\ f.width \in [Names -> Nat \ {0}]
  /\ f.eligible \in [Regs -> SUBSET Names] /\ f.hints \in [Regs -> SUBSET Names]
  /\ f.private \in BOOLEAN
  /\ f.pool \subseteq Bytes /\ f.blocked \subseteq Bytes

ASSUME NamesAssumption == NoName \notin Names
ASSUME PoolAssumption ==
  /\ Bytes \subseteq Nat /\ CallerSaved \subseteq Bytes /\ CalleeSaved \subseteq Bytes
  /\ CallerSaved \cap CalleeSaved = {}
ASSUME FunctionsAssumption == \A f \in Functions : IsFunction(f)

VARIABLES
  fn,       \* the function
  phase,    \* where _optimize_function is; then the code runs
  at,       \* the block the sweep is at
  changed,  \* whether the sweep changed something
  liveIn, liveOut,       \* Liveness
  nodes, edges, across,  \* InterferenceGraph; the nodes with lives_across_call
  rep,      \* CoalesceResult.representative, resolved
  todo,     \* what the loop of the phase has left
  pin,      \* hwreg_assignments
  colored, base,  \* assignments: the names and their bytes
  blk, idx,       \* the block that runs, instructions of it that are done
  zp, reg,        \* whose value is in each byte, in X and in Y
  defd            \* the names assigned so far

analysis == <<liveIn, liveOut>>
graph    == <<nodes, edges, across>>
coloring == <<pin, colored, base>>
machine  == <<blk, idx, zp, reg, defd>>
vars == <<fn, phase, at, changed, analysis, graph, rep, todo, coloring, machine>>

-----------------------------------------------------------------------------
(* liveness.py *)
Blocks(f) == DOMAIN f.blocks
Code(f, b) == f.blocks[b].code
Last(f, b) == Len(Code(f, b))
PhiDsts(f, b) == {p.dst : p \in f.blocks[b].phis}
Dsts(f, b) == {Code(f, b)[k].dst : k \in DOMAIN Code(f, b)} \ {NoName}

(* The names read after the first k instructions of a block before they    *)
(* are assigned, and those not assigned after them.                        *)
UsedAfter(f, b, k) ==
  {n \in Names : \E j \in k + 1 .. Last(f, b) :
      n \in Code(f, b)[j].uses /\ \A m \in k + 1 .. j - 1 : Code(f, b)[m].dst # n}
Through(f, b, k) == {n \in Names : \A m \in k + 1 .. Last(f, b) : Code(f, b)[m].dst # n}
LiveWhen(f, out, b, k) == UsedAfter(f, b, k) \cup (out \cap Through(f, b, k))

Gen(f, b)  == UsedAfter(f, b, 0) \ PhiDsts(f, b)
Kill(f, b) == PhiDsts(f, b) \cup Dsts(f, b)

(* The arguments of a phi are read at the end of the predecessors.         *)
PhiUses(f, b) == (UNION {{p.args[b] : p \in f.blocks[s].phis} : s \in Blocks(f)}) \ {NoName}

NewOut(b) == PhiUses(fn, b) \cup UNION {liveIn[s] : s \in fn.blocks[b].succ}
NewIn(b)  == Gen(fn, b) \cup (NewOut(b) \ Kill(fn, b))
(* Mutant: only live_out is compared. *)
StableOut(b) == liveOut[b] = NewOut(b)
Stable(b) == liveOut[b] = NewOut(b) /\ liveIn[b] = NewIn(b)

LiveAfter(b, k) == LiveWhen(fn, liveOut[b], b, k)

Init ==
  /\ fn \in Functions
  /\ phase = "liveness" /\ at = 1 /\ changed = FALSE
  /\ liveIn = [b \in Blocks(fn) |-> {}] /\ liveOut = [b \in Blocks(fn) |-> {}]
  /\ nodes = {} /\ edges = {} /\ across = {}
  /\ rep = [n \in Names |-> n] /\ todo = {}
  /\ pin = [n \in Names |-> "none"] /\ colored = {} /\ base = [n \in Names |-> 0]
  /\ blk = 1 /\ idx = 0 /\ defd = {}
  /\ zp = [a \in Bytes |-> NoName] /\ reg = [r \in Regs |-> NoName]

(* One block of the backward dataflow, with what the sweep has so far.     *)
FlowBlock ==
  /\ phase = "liveness" /\ at \in Blocks(fn)
  /\ liveOut' = [liveOut EXCEPT ![at] = NewOut(at)]
  /\ liveIn' = [liveIn EXCEPT ![at] = NewIn(at)]
  /\ changed' = (changed \/ ~Stable(at))
  /\ at' = at + 1
  /\ UNCHANGED <<fn, phase, graph, rep, todo, coloring, machine>>

(* Mutant: `changed` stays set. *)
NextSweepStill ==
  /\ phase = "liveness" /\ at \notin Blocks(fn) /\ changed
  /\ at' = 1
  /\ UNCHANGED <<fn, phase, changed, analysis, graph, rep, todo, coloring, machine>>
NextSweep ==
  /\ phase = "liveness" /\ at \notin Blocks(fn) /\ changed
  /\ at' = 1 /\ changed' = FALSE
  /\ UNCHANGED <<fn, phase, analysis, graph, rep, todo, coloring, machine>>

EndLiveness ==
  /\ phase = "liveness" /\ at \notin Blocks(fn) /\ ~changed
  /\ phase' = "interference" /\ at' = 1
  /\ UNCHANGED <<fn, changed, analysis, graph, rep, todo, coloring, machine>>

-----------------------------------------------------------------------------
(* interference.py: an assigned name interferes with what is live after    *)
(* the assignment, a phi with its siblings and with what is live before    *)
(* the first instruction.                                                  *)
Mentions(f, b, k) ==
  UNION {({Code(f, b)[j].dst} \ {NoName}) \cup Code(f, b)[j].uses : j \in k + 1 .. Last(f, b)}
LiveColorable(b, k) == LiveAfter(b, k) \cap fn.colorable
EdgesAt(d, S) == {{d, n} : n \in S \ {d}}
BlockEdges(b) ==
  (UNION {EdgesAt(Code(fn, b)[k].dst, LiveColorable(b, k)) :
            k \in {j \in DOMAIN Code(fn, b) : Code(fn, b)[j].dst \in fn.colorable}})
  \cup (UNION {EdgesAt(d, LiveColorable(b, 0) \cup (PhiDsts(fn, b) \cap fn.colorable)) :
                 d \in PhiDsts(fn, b) \cap fn.colorable})
BlockNodes(f, b) == (Mentions(f, b, 0) \cup PhiDsts(f, b)) \cap f.colorable
Calls(f, b) == {k \in DOMAIN Code(f, b) : Code(f, b)[k].call}

(* Only the names that are nodes by then are marked at a call: those the   *)
(* walk has met in an earlier block or further down in this one.           *)
BlockAcross(b) ==
  UNION {LiveColorable(b, k) \cap (nodes \cup Mentions(fn, b, k)) : k \in Calls(fn, b)}

AddBlock ==
  /\ phase = "interference" /\ at \in Blocks(fn)
  /\ nodes' = nodes \cup BlockNodes(fn, at)
  /\ edges' = edges \cup BlockEdges(at)
  /\ across' = across \cup BlockAcross(at)
  /\ at' = at + 1
  /\ UNCHANGED <<fn, phase, changed, analysis, rep, todo, coloring, machine>>

-----------------------------------------------------------------------------
(* coalescing.py: the names a copy or a phi relates, the one that stays    *)
(* first.                                                                  *)
MovePairs(f) ==
  {p \in (Names \X Names) :
     /\ p[1] # p[2]
     /\ \E b \in Blocks(f) :
          \/ \E k \in DOMAIN Code(f, b) : Code(f, b)[k].copy = p[1] /\ Code(f, b)[k].dst = p[2]
          \/ \E x \in f.blocks[b].phis : x.dst = p[1] /\ \E a \in Blocks(f) : x.args[a] = p[2]}

EndInterference ==
  /\ phase = "interference" /\ at \notin Blocks(fn)
  /\ phase' = "coalescing" /\ todo' = MovePairs(fn)
  /\ UNCHANGED <<fn, at, changed, analysis, graph, rep, coloring, machine>>

Mergeable(a, b) ==
  /\ a # b /\ {a, b} \subseteq nodes
  /\ fn.width[a] = fn.width[b]
  /\ {a, b} \notin edges
(* Mutant: the neighbors of b are not told. *)
RedirectedNot(e, a, b) == e
Redirected(e, a, b) == IF b \in e THEN (e \ {b}) \cup {a} ELSE e

Merge(a, b) ==
  /\ nodes' = nodes \ {b}
  /\ edges' = {Redirected(e, a, b) : e \in edges}
  /\ across' = IF b \in across THEN across \cup {a} ELSE across
  /\ rep' = [n \in Names |-> IF rep[n] = b THEN a ELSE rep[n]]

Coalesce(p) ==
  /\ phase = "coalescing" /\ p \in todo
  /\ todo' = todo \ {p}
  /\ IF Mergeable(rep[p[1]], rep[p[2]]) THEN Merge(rep[p[1]], rep[p[2]])
     ELSE UNCHANGED <<graph, rep>>
  /\ UNCHANGED <<fn, phase, at, changed, analysis, coloring, machine>>

-----------------------------------------------------------------------------
(* regalloc.py: pins into X and Y, of the representatives                  *)
(* (_project_eligibility).                                                 *)
Members(r) == {n \in Names : rep[n] = r}
RepsOf(S) == {rep[n] : n \in S} \cap nodes

(* An instruction that writes the register while the name is live, the end *)
(* of an index-setup chain of the name itself aside. (The code also passes *)
(* over assignments of the name: those write no register here.)            *)
IndexesOwn(i, n) == i.from # NoName /\ rep[i.from] = n
Clobbered(n, r) ==
  \E b \in Blocks(fn) : \E k \in DOMAIN Code(fn, b) :
    /\ r \in Code(fn, b)[k].writes
    /\ ~IndexesOwn(Code(fn, b)[k], n)
    /\ LiveAfter(b, k) \cap Members(n) # {}

CanPin(n, r) ==
  /\ Members(n) \subseteq fn.eligible[r]
  /\ n \in nodes /\ fn.width[n] = 1
  /\ n \notin across
  /\ pin[n] = "none"
  /\ \A m \in nodes : {n, m} \in edges => pin[m] # r
  /\ ~Clobbered(n, r)

Pin(n, r) == pin' = [pin EXCEPT ![n] = r]

(* A `register` local has to be in Y; a RegallocError otherwise.           *)
PinRequired(n) ==
  /\ phase = "required" /\ n \in todo /\ CanPin(n, "Y")
  /\ Pin(n, "Y") /\ todo' = todo \ {n}
  /\ UNCHANGED <<fn, phase, at, changed, analysis, graph, rep, colored, base, machine>>

RefuseRequired(n) ==
  /\ phase = "required" /\ n \in todo /\ ~CanPin(n, "Y")
  /\ phase' = "RegallocError"
  /\ UNCHANGED <<fn, at, changed, analysis, graph, rep, todo, coloring, machine>>

(* The hints: first those for X, then those for Y, else the other one.     *)
TryPin(n, r, other) ==
  IF CanPin(n, r) THEN Pin(n, r)
  ELSE IF CanPin(n, other) THEN Pin(n, other) ELSE UNCHANGED pin
PinHint(n) ==
  /\ n \in todo
  /\ \/ phase = "hintsX" /\ TryPin(n, "X", "Y")
     \/ phase = "hintsY" /\ TryPin(n, "Y", "X")
  /\ todo' = todo \ {n}
  /\ UNCHANGED <<fn, phase, at, changed, analysis, graph, rep, colored, base, machine>>

(* register_allocation.py: the lowest bytes that no colored neighbour has. *)
Run(a, w) == a .. a + w - 1
Span(n) == Run(base[n], fn.width[n])
Taken(n) == fn.blocked \cup UNION {Span(m) : m \in {x \in colored : {n, x} \in edges}}
Fits(n, region) ==
  {a \in region : Run(a, fn.width[n]) \subseteq region /\ Run(a, fn.width[n]) \cap Taken(n) = {}}

(* allowed_range replaces the default pool, of which a name that lives     *)
(* across a call gets the half that calls preserve.                        *)
Choices(n) ==
  IF fn.private THEN Fits(n, fn.pool)
  ELSE IF n \in across THEN Fits(n, CalleeSaved)
  ELSE IF Fits(n, CallerSaved) # {} THEN Fits(n, CallerSaved) ELSE Fits(n, CalleeSaved)

Color(n) ==
  /\ phase = "coloring" /\ n \in todo
  /\ \/ \E a \in Choices(n) :
          /\ \A x \in Choices(n) : a <= x
          /\ colored' = colored \cup {n} /\ base' = [base EXCEPT ![n] = a]
     \/ Choices(n) = {} /\ UNCHANGED <<colored, base>>  \* spilled
  /\ todo' = todo \ {n}
  /\ UNCHANGED <<fn, phase, at, changed, analysis, graph, rep, pin, machine>>

(* The passes and the loops of a pass, one after the other.                *)
Successor == [coalescing |-> "required", required |-> "hintsX", hintsX |-> "hintsY",
              hintsY |-> "coloring", coloring |-> "running"]
Work(p) ==
  CASE p = "required" -> RepsOf(fn.required)
    [] p = "hintsX"   -> RepsOf(fn.hints["X"])
    [] p = "hintsY"   -> RepsOf(fn.hints["Y"])
    [] p = "coloring" -> {n \in nodes : pin[n] = "none"}
    [] p = "running"  -> {}
EndLoop ==
  /\ phase \in DOMAIN Successor /\ todo = {}
  /\ phase' = Successor[phase] /\ todo' = Work(phase')
  /\ UNCHANGED <<fn, at, changed, analysis, graph, rep, coloring, machine>>

-----------------------------------------------------------------------------
(* The code after apply_coloring. A name that is neither pinned nor        *)
(* colored has a byte of the frame to itself, which nothing else writes.   *)
HomeReg(n) == pin[rep[n]]
HomeBytes(n) == IF rep[n] \in colored THEN Span(rep[n]) ELSE {}
Holds(n) ==
  /\ \A a \in HomeBytes(n) : zp[a] = n
  /\ HomeReg(n) \in Regs => reg[HomeReg(n)] = n

(* D are assigned, what was in the bytes and the registers `lost` is gone. *)
AssignNames(D, lostBytes, lostRegs) ==
  /\ zp' = [a \in Bytes |->
              LET owners == {d \in D : a \in HomeBytes(d)}
              IN IF owners # {} THEN CHOOSE d \in owners : TRUE
                 ELSE IF a \in lostBytes THEN NoName ELSE zp[a]]
  /\ reg' = [r \in Regs |->
              LET owners == {d \in D : HomeReg(d) = r}
              IN IF owners # {} THEN CHOOSE d \in owners : TRUE
                 ELSE IF r \in lostRegs THEN NoName ELSE reg[r]]
  /\ defd' = defd \cup D

(* A call destroys X and Y, and the caller-saved bytes - no byte of a      *)
(* private pool. The slots of parameters are not the function's to keep.   *)
LostBytes(i) == fn.blocked \cup (IF i.call /\ ~fn.private THEN CallerSaved ELSE {})
LostRegs(i) ==
  IF i.call THEN Regs
  ELSE i.hidden \cup {r \in i.writes : ~(i.from # NoName /\ HomeReg(i.from) = r)}

Execute ==
  /\ phase = "running" /\ idx < Last(fn, blk)
  /\ LET i == Code(fn, blk)[idx + 1]
     IN AssignNames({i.dst} \ {NoName}, LostBytes(i), LostRegs(i))
  /\ idx' = idx + 1
  /\ UNCHANGED <<fn, phase, at, changed, analysis, graph, rep, todo, coloring, blk>>

(* The Movs of the edge implement the parallel copy of the phis            *)
(* (ParallelCopy).                                                         *)
TakeEdge(s) ==
  /\ phase = "running" /\ idx = Last(fn, blk) /\ s \in fn.blocks[blk].succ
  /\ AssignNames(PhiDsts(fn, s), {}, {})
  /\ blk' = s /\ idx' = 0
  /\ UNCHANGED <<fn, phase, at, changed, analysis, graph, rep, todo, coloring>>

Return ==
  /\ phase = "running" /\ idx = Last(fn, blk) /\ fn.blocks[blk].succ = {}
  /\ phase' = "returned"
  /\ UNCHANGED <<fn, at, changed, analysis, graph, rep, todo, coloring, machine>>

Allocate ==
  \/ FlowBlock \/ NextSweep \/ EndLiveness
  \/ AddBlock \/ EndInterference
  \/ \E p \in todo : Coalesce(p)
  \/ \E n \in todo : PinRequired(n) \/ RefuseRequired(n) \/ PinHint(n) \/ Color(n)
  \/ EndLoop

Next ==
  \/ Allocate
  \/ Execute
  \/ \E s \in Blocks(fn) : TakeEdge(s)
  \/ Return

(* The compiler is one thread that runs on; the program it compiles need   *)
(* not.                                                                    *)
Spec == Init /\ [][Next]_vars /\ WF_vars(Allocate)

TypeOK ==
  /\ fn \in Functions
  /\ phase \in {"liveness", "interference", "returned", "RegallocError", "running"}
             \cup DOMAIN Successor
  /\ at \in Nat \ {0} /\ changed \in BOOLEAN
  /\ liveIn \in [Blocks(fn) -> SUBSET Names] /\ liveOut \in [Blocks(fn) -> SUBSET Names]
  /\ nodes \subseteq fn.colorable /\ edges \subseteq SUBSET Names /\ across \subseteq Names
  /\ rep \in [Names -> Names]
  /\ todo \subseteq IF phase = "coalescing" THEN Names \X Names ELSE nodes
  /\ pin \in [Names -> Regs \cup {"none"}]
  /\ colored \subseteq nodes /\ base \in [Names -> Nat]
  /\ blk \in Blocks(fn) /\ idx \in 0 .. Last(fn, blk)
  /\ zp \in [Bytes -> Names \cup {NoName}] /\ reg \in [Regs -> Names \cup {NoName}]
  /\ defd \subseteq Names

-----------------------------------------------------------------------------
(* The blocks from whose start a path leads to a read of n that meets no   *)
(* assignment of n: the least set closed under going back along edges.     *)
ReadsFirst(f, b, n) == n \in Gen(f, b) \/ (n \in PhiUses(f, b) /\ n \notin Kill(f, b))
LiveClosed(f, n, S) ==
  \A b \in Blocks(f) :
    \/ ReadsFirst(f, b, n)
    \/ n \notin Kill(f, b) /\ \E s \in f.blocks[b].succ : s \in S
    => b \in S
LiveBlocks(f, n) == {b \in Blocks(f) : \A S \in SUBSET Blocks(f) : LiveClosed(f, n, S) => b \in S}

(* compute_liveness ends with the exact answer: a name is in live_in of a  *)
(* block iff a path leads from there to a read of it. Missing ones give    *)
(* two live names one home, excess ones never go away by more sweeps.      *)
LiveExact ==
  phase # "liveness" =>
    \A n \in Names : {b \in Blocks(fn) : n \in liveIn[b]} = LiveBlocks(fn, n)

(* What an instruction of the coloured code reads of a name that has been  *)
(* assigned, and what the Movs of an edge read for the phis, is the value  *)
(* of the name: no other name with the same home, call or index setup has  *)
(* replaced it.                                                            *)
ReadsFindValues ==
  phase = "running" =>
    /\ idx < Last(fn, blk) => \A n \in Code(fn, blk)[idx + 1].uses \cap defd : Holds(n)
    /\ idx = Last(fn, blk) =>
         \A s \in fn.blocks[blk].succ : \A p \in fn.blocks[s].phis :
           p.args[blk] \in defd => Holds(p.args[blk])

(* The dataflow reaches its fixed point, and the loops after it end: the   *)
(* function gets its coloring or its error.                                *)
ColoringEnds == <>(phase \in {"running", "RegallocError"})

-----------------------------------------------------------------------------
(* Two things the allocator does not see to. The walk that builds the      *)
(* graph meets every name before the calls it lives across; and no name    *)
(* that could be pinned to a register is live after an instruction that    *)
(* only destroys the register when it is emitted.                          *)
LiveOutOf(f, b) ==
  PhiUses(f, b) \cup {n \in Names : \E s \in f.blocks[b].succ : s \in LiveBlocks(f, n)}
LiveAt(f, b, k) == LiveWhen(f, LiveOutOf(f, b), b, k)
CallsMeetNames(f) ==
  \A b \in Blocks(f) : \A k \in Calls(f, b) :
    LiveAt(f, b, k) \cap f.colorable
      \subseteq Mentions(f, b, k) \cup UNION {BlockNodes(f, c) : c \in 1 .. b - 1}
HiddenWritesApart(f) ==
  \A b \in Blocks(f) : \A k \in DOMAIN Code(f, b) : \A r \in Code(f, b)[k].hidden :
    LiveAt(f, b, k) \cap f.eligible[r] \cap f.colorable = {}
=============================================================================
