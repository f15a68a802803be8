------------------------------ MODULE ZpSlots ------------------------------
(***************************************************************************)
(* The back end's memory plan for a whole program: select_abi, then        *)
(* allocate_zp_slots (one range of parameter slots per zp_abi function),   *)
(* then allocate_function_locals (one private pool per eligible function). *)
(*                                                                         *)
(* The two allocators place one function per step. This specification      *)
(* takes any order in which callers come before callees; KahnSlots has     *)
(* the order and the search of the code and is shown to implement it.      *)
(***************************************************************************)
EXTENDS ZpProgram

CONSTANT Programs  \* the programs considered

ASSUME ProgramsAssumption == \A p \in Programs : IsProgram(p)

VARIABLES
  prog,    \* the program being compiled
  phase,   \* how far the pipeline is, or the error that ended it
  abi,     \* select_abi's verdict: "zp" or "soft" for every name
  placed,  \* zp_abi functions whose slots are allocated
  slots,   \* the addresses of a function's parameter slots
  pooled,  \* eligible functions whose pool is allocated
  pools    \* the addresses of a function's private pool

planVars == <<prog, phase, abi, placed, slots, pooled, pools>>

Errors == {"AbiSelectionError", "CycleError", "SlotAllocationError", "LocalAllocationError"}
Phases == {"select_abi", "callgraph", "slots", "locals", "done"} \cup Errors

PlanInit ==
  /\ prog \in Programs
  /\ phase = "select_abi"
  /\ abi = [f \in Names |-> "soft"]
  /\ placed = {} /\ slots = [f \in Names |-> {}]
  /\ pooled = {} /\ pools = [f \in Names |-> {}]

-----------------------------------------------------------------------------
SelectAbi ==
  /\ phase = "select_abi"
  /\ IF AbiError(prog)
       THEN phase' = "AbiSelectionError" /\ abi' = abi
       ELSE phase' = "callgraph" /\ abi' = SelectedAbi(prog)
  /\ UNCHANGED <<prog, placed, slots, pooled, pools>>

(* _topological_order raises before any range is chosen if the graph of    *)
(* zp_abi functions has a cycle.                                           *)
BuildCallgraph ==
  /\ phase = "callgraph"
  /\ phase' = IF \E f \in ZpNames(abi) : f \in Ancestors(ZpCalls(prog, abi), f)
                THEN "CycleError" ELSE "slots"
  /\ UNCHANGED <<prog, abi, placed, slots, pooled, pools>>

(* Mutant: only direct callers are avoided. *)
SlotsForbiddenDirect(f) == UNION {slots[a] : a \in Callers(ZpCalls(prog, abi), f)}

(* The ranges f's own range must avoid: those of its zp_abi ancestors.     *)
SlotsForbidden(f) == UNION {slots[a] : a \in Ancestors(ZpCalls(prog, abi), f)}

(* f is next in a caller-before-callee order. *)
SlotsReady(f) ==
  /\ f \in ZpNames(abi) \ placed
  /\ Callers(ZpCalls(prog, abi), f) \subseteq placed

AllocateSlots(f) ==
  /\ phase = "slots"
  /\ SlotsReady(f)
  /\ IF CanPlace(SlotsForbidden(f), prog.params[f])
       THEN /\ slots' = [slots EXCEPT ![f] = FreeRange(SlotsForbidden(f), prog.params[f])]
            /\ placed' = placed \cup {f}
            /\ phase' = phase
       ELSE phase' = "SlotAllocationError" /\ UNCHANGED <<slots, placed>>
  /\ UNCHANGED <<prog, abi, pooled, pools>>

SlotsDone ==
  /\ phase = "slots" /\ placed = ZpNames(abi)
  /\ phase' = "locals"
  /\ UNCHANGED <<prog, abi, placed, slots, pooled, pools>>

(* Mutant: the slots of other functions are not avoided. *)
PoolForbiddenOwn(f) ==
  slots[f] \cup UNION {pools[a] : a \in Ancestors(EligibleCalls(prog, abi), f)}

PoolForbidden(f) ==
  (UNION {pools[a] : a \in Ancestors(EligibleCalls(prog, abi), f)})
    \cup (UNION {slots[g] : g \in CoexistingZp(prog, abi, f)})
    \cup slots[f]

PoolReady(f) ==
  /\ f \in Eligible(prog, abi) \ pooled
  /\ Callers(EligibleCalls(prog, abi), f) \subseteq pooled

AllocateLocals(f) ==
  /\ phase = "locals"
  /\ PoolReady(f)
  /\ IF CanPlace(PoolForbidden(f), LocalBytes(prog, f))
       THEN /\ pools' = [pools EXCEPT ![f] = FreeRange(PoolForbidden(f), LocalBytes(prog, f))]
            /\ pooled' = pooled \cup {f}
            /\ phase' = phase
       ELSE phase' = "LocalAllocationError" /\ UNCHANGED <<pools, pooled>>
  /\ UNCHANGED <<prog, abi, placed, slots>>

LocalsDone ==
  /\ phase = "locals" /\ pooled = Eligible(prog, abi)
  /\ phase' = "done"
  /\ UNCHANGED <<prog, abi, placed, slots, pooled, pools>>

PlanNext ==
  \/ SelectAbi
  \/ BuildCallgraph
  \/ \E f \in Names : AllocateSlots(f)
  \/ SlotsDone
  \/ \E f \in Names : AllocateLocals(f)
  \/ LocalsDone

PlanSpec == PlanInit /\ [][PlanNext]_planVars

-----------------------------------------------------------------------------
PlanTypeOK ==
  /\ prog \in Programs
  /\ phase \in Phases
  /\ abi \in [Names -> {"zp", "soft"}]
  /\ placed \subseteq Names
  /\ slots \in [Names -> SUBSET Addresses]
  /\ pooled \subseteq Names
  /\ pools \in [Names -> SUBSET Addresses]

(* The module docstring of zp_slot_allocation.py, for the chains of calls  *)
(* the allocator sees: a function's slots are disjoint from those of every *)
(* zp_abi function that calls it through zp_abi functions.                 *)
SlotsDisjoint ==
  \A f, g \in placed : f \in Ancestors(ZpCalls(prog, abi), g) => slots[f] \cap slots[g] = {}

(* The module docstring of zp_local_allocation.py: a pool is disjoint from *)
(* the pools of the transitive callers and from the slots of the function  *)
(* itself and of every zp_abi function that can be on the stack with it.   *)
PoolsDisjoint ==
  \A g \in pooled :
    /\ \A f \in pooled : f \in Ancestors(EligibleCalls(prog, abi), g) => pools[f] \cap pools[g] = {}
    /\ \A f \in CoexistingZp(prog, abi, g) \cup {g} : slots[f] \cap pools[g] = {}

(* _topological_order: "select_abi should have rejected this; internal     *)
(* error" is never reached, and an order never gets stuck half way.        *)
OrderNeverStuck ==
  /\ phase # "CycleError"
  /\ phase = "slots" /\ placed # ZpNames(abi) => \E f \in Names : SlotsReady(f)
  /\ phase = "locals" /\ pooled # Eligible(prog, abi) => \E f \in Names : PoolReady(f)
=============================================================================
