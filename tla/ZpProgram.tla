----------------------------- MODULE ZpProgram -----------------------------
(***************************************************************************)
(* A C program as the zero-page passes of c6502 see it, and the pure       *)
(* analyses they run on it: which functions get the zero-page calling      *)
(* convention (passes/abi_selection.py) and which get a private pool of    *)
(* body locals (passes/zp_local_allocation.py).                            *)
(*                                                                         *)
(* A program is a record:                                                  *)
(*   defined   functions with a body in the translation unit; the other    *)
(*             names are externs declared in it                            *)
(*   calls     <<g, f>>: the body of g has a FunctionCall of f             *)
(*   indirect  functions whose body has an IndirectCall                    *)
(*   taken     <<g, f>>: an instruction of g reads Var(name=f)             *)
(*   inits     functions whose address is in a static initializer          *)
(*   refused   functions whose declaration alone rules zp_abi out (struct  *)
(*             or union return, `register` markers that do not fit A, X)   *)
(*   strict    functions annotated zp_abi or with a `register` object:     *)
(*             ineligibility is an error instead of a fallback             *)
(*   params    parameter bytes of each function                            *)
(*   temps     body bytes of each function that are dead at its calls      *)
(*   across    body bytes of each function that live across its calls      *)
(***************************************************************************)
EXTENDS Naturals, FiniteSets

CONSTANTS
  Names,       \* the function names of the program
  PoolStart,   \* first zero-page byte of the pool ($80)
  PoolEnd,     \* one past its last byte ($100)
  SpillStart,  \* the region used when the window is full ($0200)
  SpillEnd     \* one past its last byte ($10000)

(* Pool.mid: the pool is split in two halves of equal size. *)
Mid == PoolEnd \div 2 + PoolStart \div 2

CallerSaved == PoolStart .. (Mid - 1)
CalleeSaved == Mid .. (PoolEnd - 1)
Addresses == PoolStart .. (SpillEnd - 1)

(* Pool.validate: the start is even and inside zero page; the spill region *)
(* lies above zero page.                                                   *)
ASSUME PoolAssumption ==
  /\ PoolStart \in Nat /\ PoolEnd \in Nat /\ SpillStart \in Nat /\ SpillEnd \in Nat
  /\ PoolStart % 2 = 0 /\ PoolEnd % 2 = 0
  /\ PoolStart < PoolEnd /\ PoolEnd <= SpillStart /\ SpillStart <= SpillEnd

ASSUME NamesAssumption == IsFiniteSet(Names)

IsProgram(p) ==
  /\ p.defined \subseteq Names
  /\ p.calls \subseteq p.defined \X Names
  /\ p.indirect \subseteq p.defined
  /\ p.taken \subseteq p.defined \X Names
  /\ p.inits \subseteq Names
  /\ p.refused \subseteq Names
  /\ p.strict \subseteq Names
  /\ p.params \in [Names -> Nat]
  /\ p.temps \in [Names -> Nat]
  /\ p.across \in [Names -> Nat]

-----------------------------------------------------------------------------
(* Call graphs, as sets of edges <<caller, callee>>.                       *)

Callers(E, f) == {g \in Names : <<g, f>> \in E}
Callees(E, g) == {f \in Names : <<g, f>> \in E}

(* S holds the callers of f and, with a function, all of its callers.      *)
CallerClosed(E, f, S) ==
  /\ Callers(E, f) \subseteq S
  /\ \A e \in E : e[2] \in S => e[1] \in S

(* The transitive callers of f: the least set closed under callers. f is   *)
(* among them exactly when it is on a cycle.                               *)
Ancestors(E, f) ==
  {a \in Names : \A S \in SUBSET Names : CallerClosed(E, f, S) => a \in S}

Descendants(E, g) == {f \in Names : g \in Ancestors(E, f)}

-----------------------------------------------------------------------------
(* passes/abi_selection.py                                                 *)

(* _build_callgraph: calls to externs cannot reenter this unit.            *)
DefinedCalls(p) == {e \in p.calls : e[2] \in p.defined}

(* _address_taken: names of functions defined here, read by an instruction *)
(* of another function. A function's own name, externs and static          *)
(* initializers are not looked at.                                         *)
AddressTaken(p) ==
  {f \in p.defined : \E g \in p.defined : <<g, f>> \in p.taken /\ g # f}

(* Mutant: only direct recursion is noticed. *)
OnCycleDirect(p, f) == <<f, f>> \in DefinedCalls(p)

OnCycle(p, f) == f \in Ancestors(DefinedCalls(p), f)

(* Mutant: the address-taken check is dropped. *)
ValidatesZpAbiTaken(p, f) ==
  /\ f \notin p.refused
  /\ f \in p.defined => f \notin p.indirect /\ ~OnCycle(p, f)
  /\ p.params[f] <= Mid - PoolStart

(* _validate_zp_abi and, for a name without a body, _validate_zp_abi_extern *)
ValidatesZpAbi(p, f) ==
  /\ f \notin p.refused
  /\ f \in p.defined => f \notin p.indirect /\ ~OnCycle(p, f)
  /\ f \notin AddressTaken(p)
  /\ p.params[f] <= Mid - PoolStart

(* select_abi: an AbiSelectionError if a strict function does not qualify. *)
AbiError(p) == \E f \in p.strict : ~ValidatesZpAbi(p, f)

(* "soft" also stands for an extern left out of the dict: the call site    *)
(* treats both as SoftStackLayout.                                         *)
SelectedAbi(p) == [f \in Names |-> IF ValidatesZpAbi(p, f) THEN "zp" ELSE "soft"]

ZpNames(abi) == {f \in Names : abi[f] = "zp"}

-----------------------------------------------------------------------------
(* passes/zp_slot_allocation.py, _build_callgraph: only edges between two  *)
(* zp_abi functions are recorded.                                          *)
ZpCalls(p, abi) == {e \in p.calls : e[1] \in ZpNames(abi) /\ e[2] \in ZpNames(abi)}

-----------------------------------------------------------------------------
(* passes/zp_local_allocation.py                                           *)

(* The functions of _determine_eligibility that are ineligible on their    *)
(* own account: indirect calls, a call of an extern that is not zp_abi,    *)
(* membership of a cycle.                                                  *)
IneligibleSeeds(p, abi) ==
  p.indirect
    \cup {g \in p.defined : \E f \in Callees(p.calls, g) : f \notin p.defined /\ abi[f] # "zp"}
    \cup {f \in p.defined : OnCycle(p, f)}

(* Mutant: ineligibility does not spread to callers. *)
EligibleSeedsOnly(p, abi) == p.defined \ IneligibleSeeds(p, abi)

(* ... and their transitive callers with them. *)
Eligible(p, abi) ==
  {f \in p.defined : \A s \in IneligibleSeeds(p, abi) :
                       f # s /\ f \notin Ancestors(DefinedCalls(p), s)}

EligibleCalls(p, abi) ==
  {e \in DefinedCalls(p) : e[1] \in Eligible(p, abi) /\ e[2] \in Eligible(p, abi)}

(* _coexisting_zp_functions: zp_abi functions above or below f in the full *)
(* graph, and the externs called from f or from below it.                  *)
CoexistingZp(p, abi, f) ==
  LET E == DefinedCalls(p)
      below == {f} \cup Descendants(E, f)
      externs == {x \in Names \ p.defined : \E g \in below : <<g, x>> \in p.calls}
  IN  ZpNames(abi) \cap (Ancestors(E, f) \cup Descendants(E, f) \cup externs)

(* compute_local_bytes: the bytes the preliminary regalloc used.           *)
LocalBytes(p, f) == p.temps[f] + p.across[f]

-----------------------------------------------------------------------------
(* _find_free_range, stated by its result: the lowest start of n free      *)
(* bytes of lo .. hi-1, in the window first, then in the spill region.     *)

(* Mutant: a range may end one byte past the region. *)
FreeStartsPastEnd(forbidden, n, lo, hi) ==
  {c \in lo .. hi : c + n <= hi + 1 /\ (c .. (c + n - 1)) \cap forbidden = {}}

FreeStarts(forbidden, n, lo, hi) ==
  {c \in lo .. hi : c + n <= hi /\ (c .. (c + n - 1)) \cap forbidden = {}}

Least(S) == CHOOSE m \in S : \A x \in S : m <= x

WindowStarts(forbidden, n) == FreeStarts(forbidden, n, PoolStart, Mid)
SpillStarts(forbidden, n) == FreeStarts(forbidden, n, SpillStart, SpillEnd)

CanPlace(forbidden, n) ==
  n = 0 \/ WindowStarts(forbidden, n) # {} \/ SpillStarts(forbidden, n) # {}

FreeRange(forbidden, n) ==
  LET starts == IF WindowStarts(forbidden, n) # {} THEN WindowStarts(forbidden, n)
                                                   ELSE SpillStarts(forbidden, n)
  IN  IF n = 0 THEN {} ELSE Least(starts) .. (Least(starts) + n - 1)
=============================================================================
