--------------------------- MODULE ZpSlotsProofs ----------------------------
(***************************************************************************)
(* Proofs about the memory plan of ZpSlots, for every program and pool:    *)
(* the ranges of functions that can be active together are disjoint, and   *)
(* the allocators' topological orders never fail.                          *)
(*                                                                         *)
(* The two allocators are used twice, on a unit whose conventions          *)
(* select_abi has chosen (ZpSlots) and on the program the linker makes up  *)
(* (ZpLink): what they preserve by themselves is AllocIInv.                *)
(***************************************************************************)
EXTENDS ZpSlots, ZpGraphProofs

-----------------------------------------------------------------------------
(* What the allocators preserve, whatever program and conventions they are *)
(* given.                                                                  *)

Started == phase \in {"slots", "locals", "done", "SlotAllocationError", "LocalAllocationError"}

AllocTyped ==
  /\ IsProgram(prog) /\ abi \in [Names -> {"zp", "soft"}]
  /\ placed \subseteq Names /\ slots \in [Names -> SUBSET Addresses]
  /\ pooled \subseteq Names /\ pools \in [Names -> SUBSET Addresses]

(* Nothing is placed before _topological_order has found no cycle; the     *)
(* second allocator starts when the first has placed everything.           *)
AllocPhase ==
  /\ Started => \A f \in ZpNames(abi) : f \notin Ancestors(ZpCalls(prog, abi), f)
  /\ ~Started => placed = {}
  /\ phase \notin {"locals", "done", "LocalAllocationError"} => pooled = {}
  /\ phase \in {"locals", "done"} => placed = ZpNames(abi)
  /\ phase = "done" => pooled = Eligible(prog, abi)

(* Callers are placed before their callees.                                *)
OrderInv ==
  /\ placed \subseteq ZpNames(abi)
  /\ \A g \in placed : Callers(ZpCalls(prog, abi), g) \subseteq placed
  /\ pooled \subseteq Eligible(prog, abi)
  /\ \A g \in pooled : Callers(EligibleCalls(prog, abi), g) \subseteq pooled

(* Ranges avoid the callee-saved half, and only placed functions have one, *)
(* of the size that was asked for.                                         *)
RangeInv ==
  /\ \A f \in Names : slots[f] \cap CalleeSaved = {} /\ pools[f] \cap CalleeSaved = {}
  /\ \A f \in Names : (f \notin placed => slots[f] = {}) /\ (f \notin pooled => pools[f] = {})
  /\ \A f \in placed : Cardinality(slots[f]) = prog.params[f]
  /\ \A f \in pooled : Cardinality(pools[f]) = LocalBytes(prog, f)

AllocIInv == AllocTyped /\ AllocPhase /\ OrderInv /\ RangeInv /\ SlotsDisjoint /\ PoolsDisjoint

(* All ancestors of a placed function are placed.                          *)
LEMMA PlacedAncestors ==
  ASSUME AllocIInv
  PROVE  /\ \A g \in placed : Ancestors(ZpCalls(prog, abi), g) \subseteq placed
         /\ \A g \in pooled : Ancestors(EligibleCalls(prog, abi), g) \subseteq pooled
<1>1. IsProgram(prog) /\ placed \in SUBSET Names /\ pooled \in SUBSET Names
  BY DEF AllocIInv, AllocTyped
<1>2. ASSUME NEW g \in placed PROVE Ancestors(ZpCalls(prog, abi), g) \subseteq placed
  <2>1. CallerClosed(ZpCalls(prog, abi), g, placed)
    BY <1>1, <1>2, GraphTypes DEF AllocIInv, OrderInv, CallerClosed, Callers
  <2>2. QED
    BY <1>1, <2>1, AncestorsLeast
<1>3. ASSUME NEW g \in pooled PROVE Ancestors(EligibleCalls(prog, abi), g) \subseteq pooled
  <2>1. CallerClosed(EligibleCalls(prog, abi), g, pooled)
    BY <1>1, <1>3, GraphTypes DEF AllocIInv, OrderInv, CallerClosed, Callers
  <2>2. QED
    BY <1>1, <2>1, AncestorsLeast
<1>4. QED
  BY <1>2, <1>3

(* A step that only leaves a phase before the allocators for another one,  *)
(* for a program nothing of which is placed.                               *)
LEMMA NotStartedInv ==
  ASSUME AllocIInv, ~Started, ~Started', UNCHANGED <<placed, slots, pooled, pools>>,
         IsProgram(prog'), abi' \in [Names -> {"zp", "soft"}]
  PROVE  AllocIInv'
<1>1. placed = {} /\ pooled = {}
  BY DEF AllocIInv, AllocPhase, Started
<1>2. AllocTyped' /\ AllocPhase'
  BY <1>1 DEF AllocIInv, AllocTyped, AllocPhase, Started
<1>3. OrderInv' /\ RangeInv' /\ SlotsDisjoint' /\ PoolsDisjoint'
  BY <1>1 DEF AllocIInv, OrderInv, RangeInv, SlotsDisjoint, PoolsDisjoint
<1>4. QED
  BY <1>2, <1>3 DEF AllocIInv

(* _topological_order goes on only if the graph has no cycle.              *)
LEMMA BuildCallgraphInv == AllocIInv /\ BuildCallgraph => AllocIInv'
<1> SUFFICES ASSUME AllocIInv, BuildCallgraph PROVE AllocIInv'
  OBVIOUS
<1>1. phase = "callgraph" /\ UNCHANGED <<prog, abi, placed, slots, pooled, pools>>
  BY DEF BuildCallgraph
<1>2. CASE \E f \in ZpNames(abi) : f \in Ancestors(ZpCalls(prog, abi), f)
  <2>1. ~Started /\ ~Started'
    BY <1>1, <1>2 DEF BuildCallgraph, Started
  <2>2. QED
    BY <1>1, <2>1, NotStartedInv DEF AllocIInv, AllocTyped
<1>3. CASE \A f \in ZpNames(abi) : f \notin Ancestors(ZpCalls(prog, abi), f)
  <2>1. phase' = "slots"
    BY <1>3 DEF BuildCallgraph
  <2>2. AllocTyped' /\ AllocPhase'
    BY <1>1, <1>3, <2>1 DEF AllocIInv, AllocTyped, AllocPhase, Started
  <2>3. OrderInv' /\ RangeInv' /\ SlotsDisjoint' /\ PoolsDisjoint'
    BY <1>1 DEF AllocIInv, OrderInv, RangeInv, SlotsDisjoint, PoolsDisjoint
  <2>4. QED
    BY <2>2, <2>3 DEF AllocIInv
<1>4. QED
  BY <1>2, <1>3

(* One function of allocate_zp_slots: the new range avoids those of all    *)
(* ancestors, and the new function is an ancestor of none that is placed.  *)
LEMMA AllocateSlotsInv ==
  ASSUME AllocIInv, NEW f \in Names, AllocateSlots(f)
  PROVE  AllocIInv'
<1> DEFINE E == ZpCalls(prog, abi)
           n == prog.params[f]
           range == FreeRange(SlotsForbidden(f), n)
<1>1. /\ phase = "slots" /\ pooled = {} /\ IsProgram(prog) /\ n \in Nat
      /\ placed \in SUBSET Names
      /\ slots \in [Names -> SUBSET Addresses]
      /\ UNCHANGED <<prog, abi, pooled, pools>>
  BY ProgramParts DEF AllocIInv, AllocTyped, AllocPhase, AllocateSlots
<1>2. f \in ZpNames(abi) /\ f \notin placed /\ Callers(E, f) \subseteq placed
  BY DEF AllocateSlots, SlotsReady
<1>3. CASE ~CanPlace(SlotsForbidden(f), n)
  <2>1. phase' = "SlotAllocationError" /\ UNCHANGED <<slots, placed>>
    BY <1>3 DEF AllocateSlots
  <2>2. QED
    BY <1>1, <2>1 DEF AllocIInv, AllocTyped, AllocPhase, Started,
                      OrderInv, RangeInv, SlotsDisjoint, PoolsDisjoint
<1>4. CASE CanPlace(SlotsForbidden(f), n)
  <2>1. /\ slots' = [slots EXCEPT ![f] = range] /\ placed' = placed \cup {f}
        /\ phase' = "slots"
    BY <1>1, <1>4 DEF AllocateSlots
  <2>2. /\ range \subseteq Addresses \ CalleeSaved /\ range \cap SlotsForbidden(f) = {}
        /\ Cardinality(range) = n
    BY <1>1, <1>4, FreeRangeSound
  <2> HIDE DEF range
  <2>3. AllocTyped'
    BY <1>1, <2>1, <2>2 DEF AllocIInv, AllocTyped
  <2>4. AllocPhase'
    BY <1>1, <2>1 DEF AllocIInv, AllocPhase, Started
  <2>5. OrderInv'
    BY <1>1, <1>2, <2>1 DEF AllocIInv, OrderInv
  <2>6. RangeInv'
    BY <1>1, <2>1, <2>2 DEF AllocIInv, RangeInv
  <2>7. SlotsDisjoint'
    <3> SUFFICES ASSUME NEW a \in placed \cup {f}, NEW g \in placed \cup {f}, a \in Ancestors(E, g)
                 PROVE  slots'[a] \cap slots'[g] = {}
      BY <1>1, <2>1 DEF SlotsDisjoint
    <3>1. CASE a # f /\ g # f
      BY <1>1, <2>1, <3>1 DEF AllocIInv, SlotsDisjoint
    <3>2. CASE g = f
      <4>1. a # f
        BY <1>1, <1>2, <3>2 DEF AllocIInv, AllocPhase, Started
      <4>2. slots[a] \subseteq SlotsForbidden(f)
        BY <3>2 DEF SlotsForbidden
      <4>3. QED
        BY <1>1, <2>1, <2>2, <3>2, <4>1, <4>2
    <3>3. CASE a = f /\ g # f
      <4>1. g \in placed /\ f \in Ancestors(E, g)
        BY <3>3
      <4>2. QED
        BY <1>2, <4>1, PlacedAncestors
    <3>4. QED
      BY <3>1, <3>2, <3>3
  <2>8. PoolsDisjoint'
    BY <1>1 DEF PoolsDisjoint
  <2>9. QED
    BY <2>3, <2>4, <2>5, <2>6, <2>7, <2>8 DEF AllocIInv
<1>5. QED
  BY <1>3, <1>4

(* One function of allocate_function_locals.                               *)
LEMMA AllocateLocalsInv ==
  ASSUME AllocIInv, NEW f \in Names, AllocateLocals(f)
  PROVE  AllocIInv'
<1> DEFINE E == EligibleCalls(prog, abi)
           n == LocalBytes(prog, f)
           range == FreeRange(PoolForbidden(f), n)
<1>1. /\ phase = "locals" /\ IsProgram(prog) /\ n \in Nat
      /\ pooled \in SUBSET Names
      /\ pools \in [Names -> SUBSET Addresses]
      /\ UNCHANGED <<prog, abi, placed, slots>>
  BY ProgramParts DEF AllocIInv, AllocTyped, AllocPhase, AllocateLocals, LocalBytes
<1>2. f \in Eligible(prog, abi) /\ f \notin pooled /\ Callers(E, f) \subseteq pooled
  BY DEF AllocateLocals, PoolReady
<1>3. CASE ~CanPlace(PoolForbidden(f), n)
  <2>1. phase' = "LocalAllocationError" /\ UNCHANGED <<pools, pooled>>
    BY <1>3 DEF AllocateLocals
  <2>2. QED
    BY <1>1, <2>1 DEF AllocIInv, AllocTyped, AllocPhase, Started,
                      OrderInv, RangeInv, SlotsDisjoint, PoolsDisjoint
<1>4. CASE CanPlace(PoolForbidden(f), n)
  <2>1. /\ pools' = [pools EXCEPT ![f] = range] /\ pooled' = pooled \cup {f}
        /\ phase' = "locals"
    BY <1>1, <1>4 DEF AllocateLocals
  <2>2. /\ range \subseteq Addresses \ CalleeSaved /\ range \cap PoolForbidden(f) = {}
        /\ Cardinality(range) = n
    BY <1>1, <1>4, FreeRangeSound
  <2> HIDE DEF range
  <2>3. AllocTyped'
    BY <1>1, <2>1, <2>2 DEF AllocIInv, AllocTyped
  <2>4. AllocPhase'
    BY <1>1, <2>1 DEF AllocIInv, AllocPhase, Started
  <2>5. OrderInv'
    BY <1>1, <1>2, <2>1 DEF AllocIInv, OrderInv
  <2>6. RangeInv'
    BY <1>1, <2>1, <2>2 DEF AllocIInv, RangeInv
  <2>7. SlotsDisjoint'
    BY <1>1 DEF AllocIInv, SlotsDisjoint
  <2>8. PoolsDisjoint'
    <3> SUFFICES ASSUME NEW g \in pooled \cup {f}
                 PROVE  /\ \A a \in pooled \cup {f} :
                              a \in Ancestors(E, g) => pools'[a] \cap pools'[g] = {}
                        /\ \A a \in CoexistingZp(prog, abi, g) \cup {g} : slots[a] \cap pools'[g] = {}
      BY <1>1, <2>1 DEF PoolsDisjoint
    <3>1. CASE g # f
      <4>1. g \in pooled /\ f \notin Ancestors(E, g)
        BY <1>2, <3>1, PlacedAncestors
      <4>2. QED
        BY <1>1, <2>1, <3>1, <4>1 DEF AllocIInv, PoolsDisjoint
    <3>2. CASE g = f
      <4>1. f \notin Ancestors(E, f)
        BY <1>1, <1>2, NoEligibleCycle
      <4>2. \A a \in Ancestors(E, f) : pools[a] \subseteq PoolForbidden(f)
        BY DEF PoolForbidden
      <4>3. \A a \in CoexistingZp(prog, abi, f) \cup {f} : slots[a] \subseteq PoolForbidden(f)
        BY DEF PoolForbidden
      <4>4. \A a \in pooled \cup {f} : a \in Ancestors(E, f) => pools'[a] = pools[a]
        BY <1>1, <2>1, <4>1
      <4>5. pools'[f] = range
        BY <1>1, <2>1
      <4>6. QED
        BY <2>2, <3>2, <4>2, <4>3, <4>4, <4>5
    <3>3. QED
      BY <3>1, <3>2
  <2>9. QED
    BY <2>3, <2>4, <2>5, <2>6, <2>7, <2>8 DEF AllocIInv
<1>5. QED
  BY <1>3, <1>4

LEMMA LocalsDoneInv == AllocIInv /\ LocalsDone => AllocIInv'
BY DEF LocalsDone, AllocIInv, AllocTyped, AllocPhase, Started, OrderInv, RangeInv, SlotsDisjoint, PoolsDisjoint

LEMMA SlotsDoneInv == AllocIInv /\ SlotsDone => AllocIInv'
BY DEF SlotsDone, AllocIInv, AllocTyped, AllocPhase, Started, OrderInv, RangeInv, SlotsDisjoint, PoolsDisjoint

(* Steps of the two allocators, on any program.                            *)
AllocNext ==
  \/ BuildCallgraph
  \/ \E f \in Names : AllocateSlots(f)
  \/ SlotsDone
  \/ \E f \in Names : AllocateLocals(f)
  \/ LocalsDone

LEMMA AllocStepInv == AllocIInv /\ AllocNext => AllocIInv'
BY BuildCallgraphInv, AllocateSlotsInv, SlotsDoneInv, AllocateLocalsInv, LocalsDoneInv DEF AllocNext

-----------------------------------------------------------------------------
(* The compiler's own pipeline: the verdict of select_abi is final.        *)

PhaseInv ==
  /\ phase \in Phases /\ phase # "CycleError" /\ prog \in Programs
  /\ phase \notin {"select_abi", "AbiSelectionError"} => abi = SelectedAbi(prog)

PlanIInv == AllocIInv /\ PhaseInv

LEMMA PlanInitInv == PlanInit => PlanIInv
<1> SUFFICES ASSUME PlanInit PROVE PlanIInv
  OBVIOUS
<1>1. prog \in Programs /\ IsProgram(prog)
  BY ProgramsAssumption DEF PlanInit
<1>2. AllocTyped /\ AllocPhase
  BY <1>1 DEF PlanInit, AllocTyped, AllocPhase, Started
<1>3. OrderInv /\ RangeInv /\ SlotsDisjoint /\ PoolsDisjoint
  BY DEF PlanInit, OrderInv, RangeInv, SlotsDisjoint, PoolsDisjoint
<1>4. QED
  BY <1>1, <1>2, <1>3 DEF PlanInit, PlanIInv, AllocIInv, PhaseInv, Phases

(* select_abi: nothing is placed yet, so its verdict disturbs nothing.     *)
LEMMA SelectAbiInv == PlanIInv /\ SelectAbi => PlanIInv'
<1> SUFFICES ASSUME PlanIInv, SelectAbi PROVE PlanIInv'
  OBVIOUS
<1>1. phase = "select_abi" /\ UNCHANGED <<prog, placed, slots, pooled, pools>>
  BY DEF SelectAbi
<1>2. \/ phase' = "AbiSelectionError" /\ abi' = abi
      \/ phase' = "callgraph" /\ abi' = SelectedAbi(prog)
  BY DEF SelectAbi
<1>3. abi' \in [Names -> {"zp", "soft"}] /\ IsProgram(prog')
  BY <1>1, <1>2 DEF PlanIInv, AllocIInv, AllocTyped, SelectedAbi
<1>4. AllocIInv'
  BY <1>1, <1>2, <1>3, NotStartedInv DEF PlanIInv, Started
<1>5. PhaseInv'
  BY <1>1, <1>2 DEF PlanIInv, PhaseInv, Phases, Errors
<1>6. QED
  BY <1>4, <1>5 DEF PlanIInv

(* The allocators keep the program and its conventions, and the graph of   *)
(* zp_abi functions has no cycle.                                          *)
LEMMA PlanAllocInv == PlanIInv /\ AllocNext => PlanIInv'
<1> SUFFICES ASSUME PlanIInv, AllocNext PROVE PlanIInv'
  OBVIOUS
<1>1. AllocIInv'
  BY AllocStepInv DEF PlanIInv
<1>2. UNCHANGED <<prog, abi>> /\ phase \notin {"select_abi", "AbiSelectionError"}
      /\ phase' \notin {"select_abi", "AbiSelectionError"} /\ phase' \in Phases
  BY DEF AllocNext, BuildCallgraph, AllocateSlots, SlotsDone, AllocateLocals, LocalsDone, Phases, Errors
<1>3. phase' # "CycleError"
  <2>1. IsProgram(prog) /\ abi = SelectedAbi(prog)
    BY <1>2 DEF PlanIInv, AllocIInv, AllocTyped, PhaseInv
  <2>2. \A f \in ZpNames(abi) : f \notin Ancestors(ZpCalls(prog, abi), f)
    BY <2>1, NoZpCycle
  <2>3. QED
    BY <2>2 DEF AllocNext, BuildCallgraph, AllocateSlots, SlotsDone, AllocateLocals, LocalsDone,
                PlanIInv, PhaseInv
<1>4. QED
  BY <1>1, <1>2, <1>3 DEF PlanIInv, PhaseInv

(* Every step of the pipeline preserves the invariant.                     *)
LEMMA PlanStepInv == PlanIInv /\ [PlanNext]_planVars => PlanIInv'
<1> SUFFICES ASSUME PlanIInv, [PlanNext]_planVars PROVE PlanIInv'
  OBVIOUS
<1>1. CASE SelectAbi
  BY <1>1, SelectAbiInv
<1>2. CASE AllocNext
  BY <1>2, PlanAllocInv
<1>3. CASE UNCHANGED planVars
  BY <1>3 DEF planVars, PlanIInv, PhaseInv, AllocIInv, AllocTyped, AllocPhase, Started, OrderInv, RangeInv,
              SlotsDisjoint, PoolsDisjoint
<1>4. QED
  BY <1>1, <1>2, <1>3 DEF PlanNext, AllocNext

(* While a function is left, one of them has all its callers placed.       *)
LEMMA InvNeverStuck == PlanIInv => OrderNeverStuck
<1> SUFFICES ASSUME PlanIInv PROVE OrderNeverStuck
  OBVIOUS
<1>1. IsProgram(prog) /\ OrderInv
  BY DEF PlanIInv, AllocIInv, AllocTyped
<1>2. ASSUME phase = "slots", placed # ZpNames(abi) PROVE \E f \in Names : SlotsReady(f)
  <2> DEFINE E == ZpCalls(prog, abi)
             U == ZpNames(abi) \ placed
  <2>1. U # {} /\ U \in SUBSET Names /\ E \in SUBSET (Names \X Names)
    BY <1>1, <1>2, GraphTypes DEF OrderInv, ZpNames
  <2>2. \A f \in U : f \notin Ancestors(E, f)
    BY <1>2 DEF PlanIInv, AllocIInv, AllocPhase, Started
  <2>3. PICK f \in U : Callers(E, f) \cap U = {}
    <3> HIDE DEF E, U
    <3>1. QED
      BY <2>1, <2>2, AcyclicHasSource
  <2>4. Callers(E, f) \subseteq ZpNames(abi)
    BY <1>1, GraphTypes DEF Callers, ZpCalls
  <2>5. QED
    BY <2>1, <2>3, <2>4 DEF SlotsReady
<1>3. ASSUME phase = "locals", pooled # Eligible(prog, abi) PROVE \E f \in Names : PoolReady(f)
  <2> DEFINE E == EligibleCalls(prog, abi)
             U == Eligible(prog, abi) \ pooled
  <2>1. U # {} /\ U \in SUBSET Names /\ E \in SUBSET (Names \X Names)
    BY <1>1, <1>3, GraphTypes, NoEligibleCycle DEF OrderInv
  <2>2. \A f \in U : f \notin Ancestors(E, f)
    BY <1>1, NoEligibleCycle
  <2>3. PICK f \in U : Callers(E, f) \cap U = {}
    <3> HIDE DEF E, U
    <3>1. QED
      BY <2>1, <2>2, AcyclicHasSource
  <2>4. Callers(E, f) \subseteq Eligible(prog, abi)
    BY DEF Callers, EligibleCalls
  <2>5. QED
    BY <2>1, <2>3, <2>4 DEF PoolReady
<1>4. QED
  BY <1>2, <1>3 DEF OrderNeverStuck, PlanIInv, PhaseInv

-----------------------------------------------------------------------------
(* The invariant holds in every state of the pipeline.                     *)
THEOREM PlanInvariant == PlanSpec => []PlanIInv
BY PlanInitInv, PlanStepInv, PTL DEF PlanSpec

LEMMA PlanInvTyped == PlanIInv => PlanTypeOK
BY DEF PlanIInv, PhaseInv, AllocIInv, AllocTyped, PlanTypeOK

(* The plan is well typed: ranges are inside the window or the spill       *)
(* region, whatever the program and the pool.                              *)
THEOREM PlanTyped == PlanSpec => []PlanTypeOK
BY PlanInvTyped, PlanInvariant, PTL

(* allocate_zp_slots: parameter slots are disjoint along every chain of    *)
(* zp_abi calls.                                                           *)
THEOREM SlotsAlwaysDisjoint == PlanSpec => []SlotsDisjoint
<1>1. PlanIInv => SlotsDisjoint
  BY DEF PlanIInv, AllocIInv
<1>2. QED
  BY <1>1, PlanInvariant, PTL

(* allocate_function_locals: pools are disjoint along every chain of calls *)
(* of eligible functions and avoid the slots that are active with them.    *)
THEOREM PoolsAlwaysDisjoint == PlanSpec => []PoolsDisjoint
<1>1. PlanIInv => PoolsDisjoint
  BY DEF PlanIInv, AllocIInv
<1>2. QED
  BY <1>1, PlanInvariant, PTL

(* The allocators' "internal error" on a cycle cannot happen, and both     *)
(* topological orders reach every function.                                *)
THEOREM OrderAlwaysExists == PlanSpec => []OrderNeverStuck
BY InvNeverStuck, PlanInvariant, PTL
=============================================================================
