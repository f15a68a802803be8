------------------------------- MODULE ZpLink -------------------------------
(***************************************************************************)
(* Separate compilation. Each translation unit is compiled on its own and  *)
(* describes itself in a metadata block (passes/zp_link_metadata.py); the  *)
(* linker (passes/linker.py) merges the blocks, refuses what it cannot     *)
(* link, makes a program out of the rest and runs the two allocators of    *)
(* ZpSlots on it, to give every slot symbol its final address.             *)
(*                                                                         *)
(* A unit is a program in which `declared` are the externs it declares.    *)
(***************************************************************************)
EXTENDS ZpSlots, Sequences

CONSTANT Links  \* the sequences of units considered

IsUnit(u) ==
  /\ IsProgram(u)
  /\ u.declared \subseteq Names \ u.defined
  /\ u.calls \subseteq u.defined \X (u.defined \cup u.declared)
  /\ ~AbiError(u)

ASSUME LinksAssumption ==
  \A link \in Links : Len(link) \in Nat \ {0} /\ \A i \in 1 .. Len(link) : IsUnit(link[i])

VARIABLES
  units,   \* the translation units
  metas,   \* the metadata blocks of those compiled so far
  merged   \* their union

linkVars == <<prog, phase, abi, placed, slots, pooled, pools, units, metas, merged>>

-----------------------------------------------------------------------------
(* Mutant: edges to externs are left out. *)
RecordedCallsDefined(u) == DefinedCalls(u)

(* Every direct call edge, to externs as well. *)
RecordedCalls(u) == u.calls

(* build_metadata. A function without a pool addresses its locals by       *)
(* number: it has no symbols for them.                                     *)
Metadata(u) ==
  LET verdict == SelectedAbi(u)
  IN  [defs     |-> u.defined,
       externs  |-> {f \in u.declared : verdict[f] = "zp"},
       params   |-> [f \in Names |-> IF verdict[f] = "zp" THEN u.params[f] ELSE 0],
       locals   |-> [f \in Names |-> IF f \in Eligible(u, verdict) THEN LocalBytes(u, f) ELSE 0],
       indirect |-> u.indirect,
       in_cycle |-> {f \in u.defined : OnCycle(u, f)},
       calls    |-> RecordedCalls(u)]

NoMetadata ==
  [defs |-> {}, externs |-> {}, def_params |-> [f \in Names |-> 0],
   ext_params |-> [f \in Names |-> 0], locals |-> [f \in Names |-> 0],
   indirect |-> {}, in_cycle |-> {}, calls |-> {}]

Defining(f) == {i \in 1 .. Len(metas) : f \in metas[i].defs}
Declaring(f) == {i \in 1 .. Len(metas) : f \in metas[i].externs}

(* The two errors _merge raises. That the definition of a function agrees  *)
(* with the declarations of the other units is not looked at.              *)
DuplicateDefs == \E f \in Names : \E i, j \in Defining(f) : i # j
ExternConflicts ==
  \E f \in Names : \E i, j \in Declaring(f) : metas[i].params[f] # metas[j].params[f]

(* _merge: the first block that mentions a function speaks for it. *)
Merged ==
  LET blocks == {metas[i] : i \in 1 .. Len(metas)}
      first(S, bytes) == IF S = {} THEN 0 ELSE bytes[Least(S)]
      params(f) == [i \in 1 .. Len(metas) |-> metas[i].params[f]]
      locals(f) == [i \in 1 .. Len(metas) |-> metas[i].locals[f]]
  IN  [defs       |-> UNION {m.defs : m \in blocks},
       externs    |-> UNION {m.externs : m \in blocks},
       def_params |-> [f \in Names |-> first(Defining(f), params(f))],
       ext_params |-> [f \in Names |-> first(Declaring(f), params(f))],
       locals     |-> [f \in Names |-> first(Defining(f), locals(f))],
       indirect   |-> UNION {m.indirect : m \in blocks},
       in_cycle   |-> UNION {m.in_cycle : m \in blocks},
       calls      |-> UNION {m.calls : m \in blocks}]

(* Mutant: recursion inside a unit is not refused. *)
EligibleToLinkNoCycle ==
  /\ merged.indirect = {}
  /\ \A e \in merged.calls : e[2] \in merged.defs \cup merged.externs

(* _validate_eligibility *)
EligibleToLink ==
  /\ merged.indirect = {}
  /\ merged.in_cycle = {}
  /\ \A e \in merged.calls : e[2] \in merged.defs \cup merged.externs

-----------------------------------------------------------------------------
(* _synthesize: an extern declaration has precedence over the definition;  *)
(* a function defined without parameter symbols gets SoftStackLayout.      *)

(* Mutant: extern declarations do not count for functions defined in a     *)
(* linked unit.                                                            *)
LinkedAbiDefs ==
  [f \in Names |-> IF IF f \in merged.defs THEN merged.def_params[f] > 0 ELSE f \in merged.externs
                     THEN "zp" ELSE "soft"]

LinkedAbi ==
  [f \in Names |-> IF f \in merged.externs \/ (f \in merged.defs /\ merged.def_params[f] > 0)
                     THEN "zp" ELSE "soft"]

(* Mutant: only declarations say how many bytes there are. *)
LinkedParamBytesDeclared(f) == merged.ext_params[f]

LinkedParamBytes(f) ==
  IF f \in merged.externs THEN merged.ext_params[f] ELSE merged.def_params[f]

Synthesized ==
  [defined |-> merged.defs, calls |-> merged.calls,
   indirect |-> {}, taken |-> {}, inits |-> {}, refused |-> {}, strict |-> {},
   params |-> [f \in Names |-> LinkedParamBytes(f)],
   temps |-> merged.locals, across |-> [f \in Names |-> 0]]

-----------------------------------------------------------------------------
LinkInit ==
  /\ units \in Links /\ metas = <<>> /\ merged = NoMetadata
  /\ phase = "compile"
  /\ prog = [defined |-> {}, calls |-> {}, indirect |-> {}, taken |-> {}, inits |-> {},
             refused |-> {}, strict |-> {}, params |-> [f \in Names |-> 0],
             temps |-> [f \in Names |-> 0], across |-> [f \in Names |-> 0]]
  /\ abi = [f \in Names |-> "soft"]
  /\ placed = {} /\ slots = [f \in Names |-> {}]
  /\ pooled = {} /\ pools = [f \in Names |-> {}]

(* compile.py on the next unit. *)
CompileUnit ==
  /\ phase = "compile" /\ Len(metas) < Len(units)
  /\ metas' = Append(metas, Metadata(units[Len(metas) + 1]))
  /\ UNCHANGED <<planVars, units, merged>>

Merge ==
  /\ phase = "compile" /\ Len(metas) = Len(units)
  /\ IF DuplicateDefs \/ ExternConflicts
       THEN phase' = "LinkError" /\ merged' = merged
       ELSE phase' = "validate" /\ merged' = Merged
  /\ UNCHANGED <<prog, abi, placed, slots, pooled, pools, units, metas>>

ValidateAndSynthesize ==
  /\ phase = "validate"
  /\ IF EligibleToLink
       THEN phase' = "callgraph" /\ prog' = Synthesized /\ abi' = LinkedAbi
       ELSE phase' = "LinkError" /\ UNCHANGED <<prog, abi>>
  /\ UNCHANGED <<placed, slots, pooled, pools, units, metas, merged>>

(* allocate_zp_slots and allocate_function_locals on the synthetic program *)
Allocate ==
  /\ \/ BuildCallgraph
     \/ \E f \in Names : AllocateSlots(f)
     \/ SlotsDone
     \/ \E f \in Names : AllocateLocals(f)
     \/ LocalsDone
  /\ UNCHANGED <<units, metas, merged>>

LinkNext == CompileUnit \/ Merge \/ ValidateAndSynthesize \/ Allocate

LinkSpec == LinkInit /\ [][LinkNext]_linkVars

-----------------------------------------------------------------------------
(* The program as it was written: all units together.                      *)

AllUnits == {units[i] : i \in 1 .. Len(units)}
SourceCalls == UNION {u.calls : u \in AllUnits}
Above(g) == Ancestors(SourceCalls, g)

(* The units declare functions alike, and none stores a function's address *)
SameDeclarations ==
  \A u, v \in AllUnits :
    u.refused = v.refused /\ u.params = v.params /\ u.taken = {} /\ u.inits = {}

(* Every function was given symbols for its locals when it was compiled.   *)
AllSymbolic == \A u \in AllUnits : u.defined \subseteq Eligible(u, SelectedAbi(u))

Recursive == \E f \in Names : f \in Above(f)

(* Every called function is zp_abi in a unit that declares it, or that     *)
(* defines it and gives it parameter symbols.                              *)
AllShared ==
  \A e \in SourceCalls : \E u \in AllUnits :
    /\ SelectedAbi(u)[e[2]] = "zp"
    /\ e[2] \in u.declared \/ (e[2] \in u.defined /\ u.params[e[2]] > 0)

-----------------------------------------------------------------------------
LinkTypeOK ==
  /\ units \in Links /\ Len(metas) <= Len(units)
  /\ phase \in Phases \cup {"compile", "validate", "LinkError"}
  /\ abi \in [Names -> {"zp", "soft"}]
  /\ placed \subseteq Names /\ slots \in [Names -> SUBSET Addresses]
  /\ pooled \subseteq Names /\ pools \in [Names -> SUBSET Addresses]

(* linker.py, "The output is the global address binding for every slot     *)
(* symbol": in a program without recursion, each function gets as many     *)
(* bytes as its unit has symbols for, for its parameters and its locals.   *)
EverySymbolBound ==
  phase = "done" /\ SameDeclarations /\ ~Recursive =>
    \A i \in 1 .. Len(units) : \A f \in units[i].defined :
      /\ Cardinality(pools[f]) = metas[i].locals[f]
      /\ Cardinality(slots[f]) = metas[i].params[f]

(* What a function of the linked program keeps in its pool is written by   *)
(* no function below it, in whatever unit, and by no argument it receives. *)
LinkedLocalsKept ==
  phase = "done" =>
    \A g \in pooled : \A f \in Above(g) \cap pooled :
      /\ pools[f] \cap (pools[g] \cup slots[g]) = {}
      /\ slots[f] \cap pools[g] = {}

(* A function's parameters survive the calls below it, if every function   *)
(* in between takes part in the slot allocator's graph.                    *)
SharedParamsKept ==
  phase = "done" /\ AllShared =>
    \A g \in Names : \A f \in Above(g) : slots[f] \cap slots[g] = {}

(* Caller and callee agree on where the arguments are, although they were  *)
(* compiled apart.                                                         *)
LinkedConventionsAgree ==
  phase = "done" /\ SameDeclarations =>
    \A u, v \in AllUnits : \A e \in u.calls :
      e[2] \in v.defined => SelectedAbi(u)[e[2]] = SelectedAbi(v)[e[2]]

(* zp_slot_allocation.py's promise for the linked program: "B's call-site  *)
(* arg writes would clobber A's still-live params". Not so when a function *)
(* without parameters, called in its own unit only, is between the two:    *)
(* the linker gives it SoftStackLayout and the chain of calls is lost.     *)
LinkedParamsKept ==
  phase = "done" /\ SameDeclarations /\ AllSymbolic =>
    \A g \in Names : \A f \in Above(g) : slots[f] \cap slots[g] = {}

(* linker.py, "Detects cross-TU recursion that no per-TU compile could     *)
(* have seen".                                                             *)
RecursionRejected == phase = "done" => ~Recursive
=============================================================================
