---------------------------- MODULE ZpLinkProofs ----------------------------
(***************************************************************************)
(* Proofs about linking, for every number of units, every program they     *)
(* make up and every pool: the addresses the linker binds keep what the    *)
(* units were promised when they were compiled apart.                      *)
(***************************************************************************)
EXTENDS ZpLink, ZpSlotsProofs, SequenceTheorems

(* The blocks are those of the units compiled so far.                      *)
MetasInv ==
  /\ units \in Links /\ Len(metas) <= Len(units)
  /\ metas \in Seq({Metadata(units[i]) : i \in 1 .. Len(units)})
  /\ \A i \in 1 .. Len(metas) : metas[i] = Metadata(units[i])

Linked == phase \in {"callgraph", "CycleError"} \/ Started

(* What the steps before an allocator leave to it.                         *)
LinkPhaseInv ==
  /\ phase \in Phases \cup {"compile", "validate", "LinkError"}
  /\ phase = "validate" \/ Linked =>
       Len(metas) = Len(units) /\ ~DuplicateDefs /\ merged = Merged
  /\ Linked => EligibleToLink /\ prog = Synthesized /\ abi = LinkedAbi

LinkIInv == AllocIInv /\ MetasInv /\ LinkPhaseInv

-----------------------------------------------------------------------------
(* A block says of its unit what build_metadata reads off it.              *)
LEMMA BlockParts ==
  ASSUME MetasInv, NEW i \in 1 .. Len(metas)
  PROVE  /\ i \in 1 .. Len(units) /\ i \in Nat /\ IsUnit(units[i]) /\ IsProgram(units[i])
         /\ metas[i].defs = units[i].defined /\ metas[i].calls = units[i].calls
         /\ metas[i].externs = {f \in units[i].declared : SelectedAbi(units[i])[f] = "zp"}
         /\ metas[i].indirect = units[i].indirect
         /\ metas[i].in_cycle = {f \in units[i].defined : OnCycle(units[i], f)}
         /\ \A f \in Names :
              /\ metas[i].params[f] = IF SelectedAbi(units[i])[f] = "zp" THEN units[i].params[f] ELSE 0
              /\ metas[i].params[f] \in Nat /\ metas[i].locals[f] \in Nat
<1> DEFINE u == units[i]
<1>1. Len(metas) \in Nat /\ Len(units) \in Nat /\ Len(metas) <= Len(units)
  BY LinksAssumption DEF MetasInv
<1>2. i \in 1 .. Len(units) /\ i \in Nat
  BY <1>1
<1>3. IsUnit(u) /\ IsProgram(u)
  BY <1>2, LinksAssumption DEF MetasInv, IsUnit
<1>4. metas[i] = Metadata(u)
  BY DEF MetasInv
<1> HIDE DEF u
<1>5. \A f \in Names : LocalBytes(u, f) \in Nat /\ u.params[f] \in Nat
  BY <1>3, ProgramParts DEF LocalBytes
<1>6. \A f \in Names :
        /\ Metadata(u).params[f] = IF SelectedAbi(u)[f] = "zp" THEN u.params[f] ELSE 0
        /\ Metadata(u).locals[f] = IF f \in Eligible(u, SelectedAbi(u)) THEN LocalBytes(u, f) ELSE 0
  BY DEF Metadata
<1>7. /\ Metadata(u).defs = u.defined /\ Metadata(u).calls = u.calls
      /\ Metadata(u).externs = {f \in u.declared : SelectedAbi(u)[f] = "zp"}
      /\ Metadata(u).indirect = u.indirect
      /\ Metadata(u).in_cycle = {f \in u.defined : OnCycle(u, f)}
  BY DEF Metadata, RecordedCalls
<1>8. QED
  BY <1>2, <1>3, <1>4, <1>5, <1>6, <1>7 DEF u

(* The block that speaks for a function is one that mentions it.           *)
LEMMA SpeakerOf ==
  ASSUME MetasInv, NEW f
  PROVE  /\ Defining(f) # {} => Least(Defining(f)) \in 1 .. Len(metas) /\ f \in metas[Least(Defining(f))].defs
         /\ Declaring(f) # {} => Least(Declaring(f)) \in 1 .. Len(metas) /\ f \in metas[Least(Declaring(f))].externs
<1>1. Defining(f) \in SUBSET Nat /\ Declaring(f) \in SUBSET Nat
  BY DEF Defining, Declaring
<1>2. QED
  BY <1>1, LeastMember DEF Defining, Declaring

(* What _merge makes of the blocks, in terms of the units.                 *)
LEMMA MergedParts ==
  ASSUME MetasInv, merged = Merged
  PROVE  /\ \A f : f \in merged.defs <=> \E i \in 1 .. Len(metas) : f \in units[i].defined
         /\ \A e : e \in merged.calls <=> \E i \in 1 .. Len(metas) : e \in units[i].calls
         /\ \A f : f \in merged.externs <=>
                   \E i \in 1 .. Len(metas) : f \in units[i].declared /\ SelectedAbi(units[i])[f] = "zp"
         /\ \A f : f \in merged.indirect <=> \E i \in 1 .. Len(metas) : f \in units[i].indirect
         /\ \A f : f \in merged.in_cycle <=>
                   \E i \in 1 .. Len(metas) : f \in units[i].defined /\ OnCycle(units[i], f)
         /\ \A f \in Names :
              /\ merged.def_params[f] = IF Defining(f) = {} THEN 0 ELSE metas[Least(Defining(f))].params[f]
              /\ merged.ext_params[f] = IF Declaring(f) = {} THEN 0 ELSE metas[Least(Declaring(f))].params[f]
              /\ merged.locals[f] = IF Defining(f) = {} THEN 0 ELSE metas[Least(Defining(f))].locals[f]
         /\ merged.locals = [f \in Names |-> merged.locals[f]]
<1>1. /\ merged.defs = UNION {metas[i].defs : i \in 1 .. Len(metas)}
      /\ merged.externs = UNION {metas[i].externs : i \in 1 .. Len(metas)}
      /\ merged.indirect = UNION {metas[i].indirect : i \in 1 .. Len(metas)}
      /\ merged.in_cycle = UNION {metas[i].in_cycle : i \in 1 .. Len(metas)}
      /\ merged.calls = UNION {metas[i].calls : i \in 1 .. Len(metas)}
  BY DEF Merged
<1>2. /\ \A f : f \in merged.defs <=> \E i \in 1 .. Len(metas) : f \in metas[i].defs
      /\ \A e : e \in merged.calls <=> \E i \in 1 .. Len(metas) : e \in metas[i].calls
      /\ \A f : f \in merged.externs <=> \E i \in 1 .. Len(metas) : f \in metas[i].externs
      /\ \A f : f \in merged.indirect <=> \E i \in 1 .. Len(metas) : f \in metas[i].indirect
      /\ \A f : f \in merged.in_cycle <=> \E i \in 1 .. Len(metas) : f \in metas[i].in_cycle
  BY <1>1
<1>3. \A i \in 1 .. Len(metas) :
        /\ metas[i].defs = units[i].defined /\ metas[i].calls = units[i].calls
        /\ metas[i].externs = {f \in units[i].declared : SelectedAbi(units[i])[f] = "zp"}
        /\ metas[i].indirect = units[i].indirect
        /\ metas[i].in_cycle = {f \in units[i].defined : OnCycle(units[i], f)}
  BY BlockParts
<1>4. \A f : /\ Defining(f) # {} => Least(Defining(f)) \in 1 .. Len(metas)
             /\ Declaring(f) # {} => Least(Declaring(f)) \in 1 .. Len(metas)
  BY SpeakerOf
<1>5. ASSUME NEW f \in Names
      PROVE  /\ merged.def_params[f] = IF Defining(f) = {} THEN 0 ELSE metas[Least(Defining(f))].params[f]
             /\ merged.ext_params[f] = IF Declaring(f) = {} THEN 0 ELSE metas[Least(Declaring(f))].params[f]
             /\ merged.locals[f] = IF Defining(f) = {} THEN 0 ELSE metas[Least(Defining(f))].locals[f]
  BY <1>4 DEF Merged
<1>6. merged.locals = [f \in Names |-> merged.locals[f]]
  BY DEF Merged
<1>7. QED
  BY <1>2, <1>3, <1>5, <1>6

(* _synthesize makes a program of the merged blocks.                       *)
LEMMA SynthesizedProgram ==
  ASSUME MetasInv, merged = Merged
  PROVE  IsProgram(Synthesized) /\ LinkedAbi \in [Names -> {"zp", "soft"}]
<1>1. ASSUME NEW f \in Names
      PROVE  merged.def_params[f] \in Nat /\ merged.ext_params[f] \in Nat /\ merged.locals[f] \in Nat
  BY MergedParts, SpeakerOf, BlockParts
<1>2. merged.defs \subseteq Names
  BY MergedParts, BlockParts DEF IsUnit, IsProgram
<1>3. ASSUME NEW e \in merged.calls PROVE e \in merged.defs \X Names
  <2>1. PICK i \in 1 .. Len(metas) : e \in units[i].calls
    BY MergedParts
  <2>2. e \in units[i].defined \X Names
    BY <2>1, BlockParts DEF IsProgram
  <2>3. QED
    BY <2>1, <2>2, MergedParts
<1>4. merged.locals \in [Names -> Nat]
  BY <1>1, MergedParts
<1>5. [f \in Names |-> LinkedParamBytes(f)] \in [Names -> Nat]
  BY <1>1 DEF LinkedParamBytes
<1>6. IsProgram(Synthesized)
  BY <1>2, <1>3, <1>4, <1>5 DEF IsProgram, Synthesized
<1>7. QED
  BY <1>6 DEF LinkedAbi

-----------------------------------------------------------------------------
LEMMA LinkInitInv == LinkInit => LinkIInv
<1> SUFFICES ASSUME LinkInit PROVE LinkIInv
  OBVIOUS
<1>1. AllocTyped /\ AllocPhase
  BY DEF LinkInit, AllocTyped, AllocPhase, Started, IsProgram
<1>2. OrderInv /\ RangeInv /\ SlotsDisjoint /\ PoolsDisjoint
  BY DEF LinkInit, OrderInv, RangeInv, SlotsDisjoint, PoolsDisjoint
<1>3. MetasInv
  <2>1. metas = <<>> /\ Len(metas) = 0 /\ units \in Links /\ Len(units) \in Nat \ {0}
    BY LinksAssumption DEF LinkInit
  <2>2. QED
    BY <2>1 DEF MetasInv
<1>4. LinkPhaseInv
  BY DEF LinkInit, LinkPhaseInv, Linked, Started
<1>5. QED
  BY <1>1, <1>2, <1>3, <1>4 DEF LinkIInv, AllocIInv

(* compile.py adds the block of the next unit.                             *)
LEMMA CompileUnitInv == LinkIInv /\ CompileUnit => LinkIInv'
<1> SUFFICES ASSUME LinkIInv, CompileUnit PROVE LinkIInv'
  OBVIOUS
<1> DEFINE Blocks == {Metadata(units[i]) : i \in 1 .. Len(units)}
           n == Len(metas)
<1>1. /\ phase = "compile" /\ n < Len(units) /\ metas' = Append(metas, Metadata(units[n + 1]))
      /\ UNCHANGED <<prog, phase, abi, placed, slots, pooled, pools, units, merged>>
  BY DEF CompileUnit, planVars
<1>2. metas \in Seq(Blocks) /\ n \in Nat /\ Len(units) \in Nat /\ units \in Links
  BY LinksAssumption DEF LinkIInv, MetasInv
<1>3. Metadata(units[n + 1]) \in Blocks
  BY <1>1, <1>2
<1> HIDE DEF Blocks
<1>4. /\ metas' \in Seq(Blocks) /\ Len(metas') = n + 1
      /\ \A i \in 1 .. n : metas'[i] = metas[i]
      /\ metas'[n + 1] = Metadata(units[n + 1])
  BY <1>1, <1>2, <1>3, AppendProperties
<1>5. \A i \in 1 .. (n + 1) : metas'[i] = Metadata(units[i])
  BY <1>2, <1>4 DEF LinkIInv, MetasInv
<1>6. MetasInv'
  BY <1>1, <1>2, <1>4, <1>5 DEF MetasInv, Blocks
<1>7. AllocIInv'
  BY <1>1 DEF LinkIInv, AllocIInv, AllocTyped, AllocPhase, Started, OrderInv, RangeInv, SlotsDisjoint,
              PoolsDisjoint
<1>8. LinkPhaseInv'
  BY <1>1 DEF LinkIInv, LinkPhaseInv, Linked, Started
<1>9. QED
  BY <1>6, <1>7, <1>8 DEF LinkIInv

(* _merge goes on only without a second definition of a function.          *)
LEMMA MergeInv == LinkIInv /\ Merge => LinkIInv'
<1> SUFFICES ASSUME LinkIInv, Merge PROVE LinkIInv'
  OBVIOUS
<1>1. /\ phase = "compile" /\ Len(metas) = Len(units)
      /\ UNCHANGED <<prog, abi, placed, slots, pooled, pools, units, metas>>
      /\ \/ phase' = "LinkError"
         \/ phase' = "validate" /\ merged' = Merged /\ ~DuplicateDefs
  BY DEF Merge
<1>2. AllocIInv'
  BY <1>1, NotStartedInv DEF LinkIInv, Started, AllocIInv, AllocTyped
<1>3. MetasInv'
  BY <1>1 DEF LinkIInv, MetasInv
<1>4. Merged' = Merged /\ (DuplicateDefs' <=> DuplicateDefs)
  <2>1. metas' = metas
    BY <1>1
  <2>2. QED
    BY ONLY <2>1 DEF Merged, DuplicateDefs, Defining, Declaring
<1>5. LinkPhaseInv'
  BY <1>1, <1>4 DEF LinkPhaseInv, Linked, Started
<1>6. QED
  BY <1>2, <1>3, <1>5 DEF LinkIInv

(* _synthesize hands a program to the allocators.                          *)
LEMMA SynthesizeInv == LinkIInv /\ ValidateAndSynthesize => LinkIInv'
<1> SUFFICES ASSUME LinkIInv, ValidateAndSynthesize PROVE LinkIInv'
  OBVIOUS
<1>1. /\ phase = "validate" /\ UNCHANGED <<placed, slots, pooled, pools, units, metas, merged>>
      /\ \/ phase' = "LinkError" /\ UNCHANGED <<prog, abi>>
         \/ EligibleToLink /\ phase' = "callgraph" /\ prog' = Synthesized /\ abi' = LinkedAbi
  BY DEF ValidateAndSynthesize
<1>2. MetasInv /\ merged = Merged /\ ~DuplicateDefs /\ Len(metas) = Len(units)
  BY <1>1 DEF LinkIInv, LinkPhaseInv
<1>3. IsProgram(prog') /\ abi' \in [Names -> {"zp", "soft"}]
  BY <1>1, <1>2, SynthesizedProgram DEF LinkIInv, AllocIInv, AllocTyped
<1>4. AllocIInv'
  BY <1>1, <1>3, NotStartedInv DEF LinkIInv, Started
<1>5. MetasInv'
  BY <1>1, <1>2 DEF MetasInv
<1>6. /\ Merged' = Merged /\ (DuplicateDefs' <=> DuplicateDefs) /\ (EligibleToLink' <=> EligibleToLink)
      /\ Synthesized' = Synthesized /\ LinkedAbi' = LinkedAbi
  BY <1>1 DEF Merged, DuplicateDefs, Defining, Declaring, EligibleToLink, Synthesized, LinkedAbi,
              LinkedParamBytes
<1>7. LinkPhaseInv'
  BY <1>1, <1>2, <1>6 DEF LinkPhaseInv, Linked, Started, Phases
<1>8. QED
  BY <1>4, <1>5, <1>7 DEF LinkIInv

(* The allocators leave the blocks, the program and its conventions alone. *)
LEMMA AllocateInv == LinkIInv /\ Allocate => LinkIInv'
<1> SUFFICES ASSUME LinkIInv, Allocate PROVE LinkIInv'
  OBVIOUS
<1>1. AllocNext /\ UNCHANGED <<units, metas, merged>>
  BY DEF Allocate, AllocNext
<1>2. AllocIInv'
  BY <1>1, AllocStepInv DEF LinkIInv
<1>3. Linked /\ phase' \in Phases /\ UNCHANGED <<prog, abi>>
  BY <1>1 DEF AllocNext, BuildCallgraph, AllocateSlots, SlotsDone, AllocateLocals, LocalsDone, Linked,
              Started, Phases, Errors
<1>4. MetasInv'
  BY <1>1 DEF LinkIInv, MetasInv
<1>5. /\ Merged' = Merged /\ (DuplicateDefs' <=> DuplicateDefs) /\ (EligibleToLink' <=> EligibleToLink)
      /\ Synthesized' = Synthesized /\ LinkedAbi' = LinkedAbi
  BY <1>1 DEF Merged, DuplicateDefs, Defining, Declaring, EligibleToLink, Synthesized, LinkedAbi,
              LinkedParamBytes
<1>6. LinkPhaseInv'
  BY <1>1, <1>3, <1>5 DEF LinkIInv, LinkPhaseInv
<1>7. QED
  BY <1>2, <1>4, <1>6 DEF LinkIInv

LEMMA LinkStepInv == LinkIInv /\ [LinkNext]_linkVars => LinkIInv'
<1> SUFFICES ASSUME LinkIInv, [LinkNext]_linkVars PROVE LinkIInv'
  OBVIOUS
<1>1. CASE UNCHANGED linkVars
  <2>1. UNCHANGED <<prog, phase, abi, placed, slots, pooled, pools, units, metas, merged>>
    BY <1>1 DEF linkVars
  <2>2. AllocIInv' /\ MetasInv'
    BY <2>1 DEF LinkIInv, AllocIInv, AllocTyped, AllocPhase, Started, OrderInv, RangeInv, SlotsDisjoint,
                PoolsDisjoint, MetasInv
  <2>3. /\ Merged' = Merged /\ (DuplicateDefs' <=> DuplicateDefs) /\ (EligibleToLink' <=> EligibleToLink)
        /\ Synthesized' = Synthesized /\ LinkedAbi' = LinkedAbi
    BY <2>1 DEF Merged, DuplicateDefs, Defining, Declaring, EligibleToLink, Synthesized, LinkedAbi,
                LinkedParamBytes
  <2>4. LinkPhaseInv'
    BY <2>1, <2>3 DEF LinkIInv, LinkPhaseInv, Linked, Started
  <2>5. QED
    BY <2>2, <2>4 DEF LinkIInv
<1>2. QED
  BY <1>1, CompileUnitInv, MergeInv, SynthesizeInv, AllocateInv DEF LinkNext

(* The inductive invariant of linking.                                     *)
THEOREM LinkInvariant == LinkSpec => []LinkIInv
BY LinkInitInv, LinkStepInv, PTL DEF LinkSpec

(* The variables of the linker and of the allocators it runs keep their    *)
(* types.                                                                  *)
THEOREM LinkTyped == LinkSpec => []LinkTypeOK
<1>1. LinkIInv => LinkTypeOK
  BY DEF LinkIInv, AllocIInv, AllocTyped, MetasInv, LinkPhaseInv, LinkTypeOK
<1>2. QED
  BY <1>1, LinkInvariant, PTL

-----------------------------------------------------------------------------
(* The program the allocators get is the program as it was written: the    *)
(* same functions, the same calls.                                         *)
LEMMA LinkedProgram ==
  ASSUME LinkIInv, Linked
  PROVE  /\ MetasInv /\ merged = Merged /\ Len(metas) = Len(units) /\ ~DuplicateDefs
         /\ EligibleToLink /\ IsProgram(prog) /\ abi = LinkedAbi
         /\ prog.calls = SourceCalls /\ prog.defined = merged.defs
         /\ \A i \in 1 .. Len(units) : units[i].defined \subseteq prog.defined
<1>1. /\ MetasInv /\ merged = Merged /\ Len(metas) = Len(units) /\ ~DuplicateDefs
      /\ EligibleToLink /\ IsProgram(prog) /\ abi = LinkedAbi /\ prog = Synthesized
  BY DEF LinkIInv, LinkPhaseInv, AllocIInv, AllocTyped
<1>2. prog.calls = merged.calls /\ prog.defined = merged.defs
  BY <1>1 DEF Synthesized
<1>3. \A e : e \in SourceCalls <=> \E i \in 1 .. Len(units) : e \in units[i].calls
  BY DEF SourceCalls, AllUnits
<1>4. prog.calls = SourceCalls
  BY <1>1, <1>2, <1>3, MergedParts
<1>5. \A i \in 1 .. Len(units) : units[i].defined \subseteq prog.defined
  BY <1>1, <1>2, MergedParts
<1>6. QED
  BY <1>1, <1>2, <1>4, <1>5

(* The one unit that defines a function speaks for it.                     *)
LEMMA DefinerSpeaks ==
  ASSUME MetasInv, ~DuplicateDefs, NEW i \in 1 .. Len(metas), NEW f \in units[i].defined, f \in Names
  PROVE  Defining(f) # {} /\ Least(Defining(f)) = i
<1>1. i \in Defining(f)
  BY BlockParts DEF Defining
<1>2. Defining(f) \in SUBSET Nat
  BY DEF Defining
<1>3. Least(Defining(f)) \in Defining(f)
  BY <1>1, <1>2, LeastMember
<1>4. QED
  BY <1>1, <1>3 DEF DuplicateDefs

(* A caller of a function defined somewhere calls it through functions     *)
(* defined somewhere.                                                      *)
LEMMA AboveDefined ==
  ASSUME NEW p, IsProgram(p), NEW g \in p.defined
  PROVE  Ancestors(p.calls, g) \subseteq Ancestors(DefinedCalls(p), g)
<1> DEFINE S == Ancestors(DefinedCalls(p), g)
           D == DefinedCalls(p)
<1>1. g \in Names /\ p.calls \in SUBSET (p.defined \X Names) /\ D \in SUBSET (Names \X Names)
  BY ProgramParts, GraphTypes
<1>2. ASSUME NEW e \in p.calls, e[2] \in p.defined PROVE <<e[1], e[2]>> \in D /\ e[1] \in Names /\ e[2] \in Names
  BY <1>1, <1>2, ProgramParts DEF DefinedCalls
<1>3. S \in SUBSET p.defined
  <2>1. \A b \in Names : \A x : <<x, b>> \in D => x \in p.defined
    BY <1>1 DEF DefinedCalls
  <2> HIDE DEF D
  <2>2. \A x \in Ancestors(D, g) : x \in p.defined
    BY <1>1, <2>1, AncestorsCall
  <2>3. QED
    BY <2>2 DEF D
<1>4. Callers(p.calls, g) \subseteq S
  <2>1. \A c \in Callers(p.calls, g) : c \in Names /\ <<c, g>> \in D
    BY <1>2 DEF Callers
  <2>2. QED
    BY <1>1, <2>1, CallerIsAncestor
<1>5. ASSUME NEW e \in p.calls, e[2] \in S PROVE e[1] \in S
  <2>1. <<e[1], e[2]>> \in D /\ e[1] \in Names /\ e[2] \in Names
    BY <1>2, <1>3, <1>5
  <2>2. e[1] \in Ancestors(D, e[2])
    BY <2>1, CallerIsAncestor
  <2>3. QED
    BY <1>1, <1>5, <2>2, AncestorsTransitive
<1>6. QED
  <2>1. S \in SUBSET Names /\ CallerClosed(p.calls, g, S)
    BY <1>4, <1>5 DEF CallerClosed, Ancestors
  <2>2. QED
    BY <1>1, <2>1, AncestorsLeast

(* Two pooled functions one of which is above the other, in whatever unit, *)
(* are so in the graph the pools were laid out along.                      *)
LEMMA AbovePooled ==
  ASSUME NEW p, IsProgram(p), NEW A, NEW g \in Eligible(p, A),
         NEW f \in Eligible(p, A) \cap Ancestors(p.calls, g)
  PROVE  /\ f \in Ancestors(EligibleCalls(p, A), g)
         /\ g \in Descendants(DefinedCalls(p), f) /\ f \in Ancestors(DefinedCalls(p), g)
<1> DEFINE P == Eligible(p, A)
           D == DefinedCalls(p)
           F == EligibleCalls(p, A)
<1>1. /\ g \in p.defined /\ g \in Names /\ f \in Names /\ f \in p.defined
      /\ D \in SUBSET (Names \X Names)
  BY ProgramParts, GraphTypes DEF Eligible
<1>2. f \in Ancestors(D, g)
  BY <1>1, AboveDefined
<1>3. \A e \in D : e[1] \in P /\ e[2] \in P => e \in F
  BY DEF EligibleCalls
<1>4. ASSUME NEW e \in D, e[1] \in P PROVE e[2] \in P
  <2>1. e = <<e[1], e[2]>> /\ e[2] \in Names
    BY <1>1
  <2>2. <<e[1], e[2]>> \in p.calls /\ e[2] \in p.defined
    BY <2>1 DEF DefinedCalls
  <2>3. QED
    BY <1>4, <2>1, <2>2, EligibleCallee
<1>5. g \in P \cap Names /\ f \in Ancestors(D, g) \cap P
  BY <1>1, <1>2
<1> HIDE DEF P, D, F
<1>6. f \in Ancestors(F, g)
  BY <1>1, <1>3, <1>4, <1>5, AncestorsWithin
<1>7. QED
  BY <1>1, <1>2, <1>6 DEF Descendants, D, F

(* What a function of the linked program keeps in its pool is written by   *)
(* no function below it, in whatever unit, and by no argument it receives. *)
THEOREM LinkedLocalsAlwaysKept == LinkSpec => []LinkedLocalsKept
<1>1. ASSUME LinkIInv PROVE LinkedLocalsKept
  <2> SUFFICES ASSUME phase = "done", NEW g \in pooled, NEW f \in Above(g) \cap pooled
               PROVE  pools[f] \cap (pools[g] \cup slots[g]) = {} /\ slots[f] \cap pools[g] = {}
    BY DEF LinkedLocalsKept
  <2>1. IsProgram(prog) /\ prog.calls = SourceCalls
    BY <1>1, LinkedProgram DEF Linked, Started
  <2>2. /\ pooled = Eligible(prog, abi) /\ placed = ZpNames(abi) /\ pooled \subseteq Names
        /\ \A h \in Names : h \notin placed => slots[h] = {}
    BY <1>1 DEF LinkIInv, AllocIInv, AllocTyped, AllocPhase, RangeInv
  <2>3. /\ f \in Ancestors(EligibleCalls(prog, abi), g)
        /\ g \in Descendants(DefinedCalls(prog), f) /\ f \in Ancestors(DefinedCalls(prog), g)
    BY <2>1, <2>2, AbovePooled DEF Above
  <2>4. pools[f] \cap pools[g] = {}
    BY <1>1, <2>3 DEF LinkIInv, AllocIInv, PoolsDisjoint
  <2>5. ASSUME g \in placed PROVE slots[g] \cap pools[f] = {}
    <3>1. g \in CoexistingZp(prog, abi, f)
      BY <2>2, <2>3, <2>5 DEF CoexistingZp
    <3>2. QED
      BY <1>1, <3>1 DEF LinkIInv, AllocIInv, PoolsDisjoint
  <2>6. ASSUME f \in placed PROVE slots[f] \cap pools[g] = {}
    <3>1. f \in CoexistingZp(prog, abi, g)
      BY <2>2, <2>3, <2>6 DEF CoexistingZp
    <3>2. QED
      BY <1>1, <3>1 DEF LinkIInv, AllocIInv, PoolsDisjoint
  <2>7. QED
    BY <2>2, <2>4, <2>5, <2>6
<1>2. QED
  BY <1>1, LinkInvariant, PTL

(* A function some unit takes to be zp_abi keeps that convention when      *)
(* linked, unless it is defined without parameters and declared nowhere.   *)
LEMMA SharedIsZp ==
  ASSUME LinkIInv, Linked, NEW i \in 1 .. Len(units), NEW f \in Names, SelectedAbi(units[i])[f] = "zp",
         f \in units[i].declared \/ (f \in units[i].defined /\ units[i].params[f] > 0)
  PROVE  f \in ZpNames(abi)
<1>1. /\ MetasInv /\ merged = Merged /\ i \in 1 .. Len(metas) /\ ~DuplicateDefs /\ abi = LinkedAbi
  BY LinkedProgram
<1>2. CASE f \in units[i].declared
  <2>1. f \in merged.externs
    BY <1>1, <1>2, MergedParts
  <2>2. QED
    BY <1>1, <2>1 DEF LinkedAbi, ZpNames
<1>3. CASE f \in units[i].defined /\ units[i].params[f] > 0
  <2>1. f \in merged.defs
    BY <1>1, <1>3, MergedParts
  <2>2. merged.def_params[f] = metas[i].params[f]
    BY <1>1, <1>3, DefinerSpeaks, MergedParts
  <2>3. metas[i].params[f] = units[i].params[f]
    BY <1>1, BlockParts
  <2>4. QED
    BY <1>1, <1>3, <2>1, <2>2, <2>3 DEF LinkedAbi, ZpNames
<1>4. QED
  BY <1>2, <1>3

(* If every function called takes part in the allocator's graph, then a    *)
(* function's parameters survive the calls below it.                       *)
THEOREM SharedParamsAlwaysKept == LinkSpec => []SharedParamsKept
<1>1. ASSUME LinkIInv PROVE SharedParamsKept
  <2> SUFFICES ASSUME phase = "done", AllShared, NEW g \in Names, NEW f \in Above(g)
               PROVE  slots[f] \cap slots[g] = {}
    BY DEF SharedParamsKept
  <2> DEFINE P == ZpNames(abi)
             F == ZpCalls(prog, abi)
  <2>1. Linked /\ IsProgram(prog) /\ prog.calls = SourceCalls /\ prog.calls \in SUBSET (Names \X Names)
    BY <1>1, LinkedProgram, ProgramParts DEF Linked, Started
  <2>2. placed = P /\ \A h \in Names : h \notin placed => slots[h] = {}
    BY <1>1 DEF LinkIInv, AllocIInv, AllocPhase, RangeInv
  <2>3. f \in Names /\ f \in Ancestors(prog.calls, g)
    BY <2>1 DEF Above, Ancestors
  <2>4. \A e \in prog.calls : e[1] \in P /\ e[2] \in P => e \in F
    BY DEF ZpCalls
  <2>5. ASSUME NEW e \in prog.calls PROVE e[2] \in P
    <3>1. e[2] \in Names
      BY <2>1
    <3>2. PICK i \in 1 .. Len(units) :
            /\ SelectedAbi(units[i])[e[2]] = "zp"
            /\ e[2] \in units[i].declared \/ (e[2] \in units[i].defined /\ units[i].params[e[2]] > 0)
      BY <2>1 DEF AllShared, AllUnits
    <3>3. QED
      BY <1>1, <2>1, <3>1, <3>2, SharedIsZp
  <2>6. CASE f \in P /\ g \in P
    <3> HIDE DEF P, F
    <3>1. f \in Ancestors(F, g)
      BY <2>1, <2>3, <2>4, <2>5, <2>6, AncestorsWithin
    <3>2. QED
      BY <1>1, <2>2, <2>6, <3>1 DEF LinkIInv, AllocIInv, SlotsDisjoint, F
  <2>7. QED
    BY <2>2, <2>3, <2>6
<1>2. QED
  BY <1>1, LinkInvariant, PTL

-----------------------------------------------------------------------------
(* In what can be linked no unit has a reason of its own, recursion or a   *)
(* call through a pointer, to refuse a function the others take for        *)
(* zp_abi.                                                                 *)
LEMMA SameVerdict ==
  ASSUME LinkIInv, Linked, SameDeclarations, NEW i \in 1 .. Len(units), NEW j \in 1 .. Len(units),
         NEW f \in Names
  PROVE  SelectedAbi(units[i])[f] = SelectedAbi(units[j])[f]
<1>1. MetasInv /\ merged = Merged /\ Len(metas) = Len(units) /\ merged.indirect = {} /\ merged.in_cycle = {}
  BY LinkedProgram DEF EligibleToLink
<1>2. \A k \in 1 .. Len(units) : units[k] \in AllUnits
  BY DEF AllUnits
<1>3. ASSUME NEW k \in 1 .. Len(units)
      PROVE  /\ f \notin units[k].indirect
             /\ f \in units[k].defined => ~OnCycle(units[k], f)
             /\ f \notin AddressTaken(units[k])
  <2>1. units[k].taken = {}
    BY <1>2 DEF SameDeclarations
  <2>2. QED
    BY <1>1, <2>1, MergedParts DEF AddressTaken
<1>4. units[i].refused = units[j].refused /\ units[i].params = units[j].params
  BY <1>2 DEF SameDeclarations
<1>5. ValidatesZpAbi(units[i], f) <=> ValidatesZpAbi(units[j], f)
  BY <1>3, <1>4 DEF ValidatesZpAbi
<1>6. QED
  BY <1>5 DEF SelectedAbi

(* Caller and callee agree on where the arguments are, although they were  *)
(* compiled apart.                                                         *)
THEOREM LinkedConventionsAlwaysAgree == LinkSpec => []LinkedConventionsAgree
<1>1. ASSUME LinkIInv PROVE LinkedConventionsAgree
  <2> SUFFICES ASSUME phase = "done", SameDeclarations, NEW u \in AllUnits, NEW v \in AllUnits,
                      NEW e \in u.calls, e[2] \in v.defined
               PROVE  SelectedAbi(u)[e[2]] = SelectedAbi(v)[e[2]]
    BY DEF LinkedConventionsAgree
  <2>1. Linked
    BY DEF Linked, Started
  <2>2. PICK i \in 1 .. Len(units), j \in 1 .. Len(units) : u = units[i] /\ v = units[j]
    BY DEF AllUnits
  <2>3. e[2] \in Names
    BY <1>1, <2>1, <2>2, LinkedProgram, ProgramParts
  <2>4. QED
    BY <1>1, <2>1, <2>2, <2>3, SameVerdict
<1>2. QED
  BY <1>1, LinkInvariant, PTL

(* Without recursion nothing keeps a function of the linked program from   *)
(* having a pool.                                                          *)
LEMMA AllEligible ==
  ASSUME LinkIInv, Linked, ~Recursive
  PROVE  Eligible(prog, abi) = prog.defined
<1>1. /\ IsProgram(prog) /\ prog.calls = SourceCalls /\ EligibleToLink /\ abi = LinkedAbi
      /\ prog.defined = merged.defs
  BY LinkedProgram
<1>2. prog.indirect = {} /\ prog.calls = merged.calls
  BY DEF LinkIInv, LinkPhaseInv, Synthesized
<1>3. ASSUME NEW f \in prog.defined PROVE ~OnCycle(prog, f)
  <2>1. f \in Names /\ f \notin Ancestors(prog.calls, f)
    BY <1>1, ProgramParts DEF Recursive, Above
  <2>2. DefinedCalls(prog) \subseteq prog.calls
    BY DEF DefinedCalls
  <2>3. QED
    BY <2>1, <2>2, AncestorsMonotone DEF OnCycle
<1>4. ASSUME NEW g \in prog.defined, NEW f \in Callees(prog.calls, g), f \notin prog.defined
      PROVE  abi[f] = "zp"
  <2>1. <<g, f>> \in merged.calls /\ f \in Names
    BY <1>2 DEF Callees
  <2>2. f \in merged.externs
    BY <1>1, <1>4, <2>1 DEF EligibleToLink
  <2>3. QED
    BY <1>1, <2>1, <2>2 DEF LinkedAbi
<1>5. IneligibleSeeds(prog, abi) = {}
  BY <1>2, <1>3, <1>4 DEF IneligibleSeeds
<1>6. QED
  BY <1>5 DEF Eligible

(* The linker binds as many bytes as the unit that defines a function has  *)
(* symbols for.                                                            *)
LEMMA SymbolBytes ==
  ASSUME LinkIInv, Linked, SameDeclarations, NEW i \in 1 .. Len(units), NEW f \in units[i].defined
  PROVE  /\ f \in Names /\ f \in prog.defined
         /\ LocalBytes(prog, f) = metas[i].locals[f]
         /\ metas[i].params[f] = IF abi[f] = "zp" THEN prog.params[f] ELSE 0
<1>1. /\ MetasInv /\ merged = Merged /\ Len(metas) = Len(units) /\ ~DuplicateDefs
      /\ abi = LinkedAbi /\ f \in prog.defined /\ prog.defined = merged.defs /\ IsProgram(prog)
  BY LinkedProgram
<1>2. f \in Names /\ prog = Synthesized /\ i \in 1 .. Len(metas)
  BY <1>1, ProgramParts DEF LinkIInv, LinkPhaseInv
<1>3. Defining(f) # {} /\ Least(Defining(f)) = i
  BY <1>1, <1>2, DefinerSpeaks
<1>4. merged.def_params[f] = metas[i].params[f] /\ merged.locals[f] = metas[i].locals[f]
  BY <1>1, <1>2, <1>3, MergedParts
<1>5. metas[i].params[f] \in Nat /\ metas[i].locals[f] \in Nat
  BY <1>1, <1>2, BlockParts
<1>6. LocalBytes(prog, f) = metas[i].locals[f]
  <2>1. prog.temps[f] = merged.locals[f] /\ prog.across[f] = 0
    BY <1>2 DEF Synthesized
  <2>2. QED
    BY <1>4, <1>5, <2>1 DEF LocalBytes
<1>7. prog.params[f] = LinkedParamBytes(f)
  BY <1>2 DEF Synthesized
<1>8. CASE f \in merged.externs
  <2> DEFINE k == Least(Declaring(f))
  <2>1. PICK d \in 1 .. Len(metas) : f \in units[d].declared /\ SelectedAbi(units[d])[f] = "zp"
    BY <1>1, <1>8, MergedParts
  <2>2. d \in Declaring(f)
    BY <1>1, <2>1, BlockParts DEF Declaring
  <2>3. k \in 1 .. Len(metas) /\ f \in metas[k].externs
    BY <1>1, <2>2, SpeakerOf
  <2>4. merged.ext_params[f] = metas[k].params[f]
    BY <1>1, <1>2, <2>2, MergedParts
  <2> HIDE DEF k
  <2>5. SelectedAbi(units[k])[f] = "zp"
    BY <1>1, <2>3, BlockParts
  <2>6. SelectedAbi(units[i])[f] = "zp" /\ units[i].params = units[k].params
    BY <1>1, <1>2, <2>3, <2>5, SameVerdict DEF SameDeclarations, AllUnits
  <2>7. metas[k].params[f] = units[k].params[f] /\ metas[i].params[f] = units[i].params[f]
    BY <1>1, <1>2, <2>3, <2>5, <2>6, BlockParts
  <2>8. abi[f] = "zp" /\ LinkedParamBytes(f) = merged.ext_params[f]
    BY <1>1, <1>2, <1>8 DEF LinkedAbi, LinkedParamBytes
  <2>9. QED
    BY <1>1, <1>2, <1>6, <1>7, <2>4, <2>6, <2>7, <2>8
<1>9. CASE f \notin merged.externs
  <2>1. LinkedParamBytes(f) = metas[i].params[f]
    BY <1>4, <1>9 DEF LinkedParamBytes
  <2>2. abi[f] = IF metas[i].params[f] > 0 THEN "zp" ELSE "soft"
    BY <1>1, <1>2, <1>4, <1>9 DEF LinkedAbi
  <2>3. QED
    BY <1>1, <1>2, <1>5, <1>6, <1>7, <2>1, <2>2
<1>10. QED
  BY <1>8, <1>9

(* In a program without recursion each function gets as many bytes as its  *)
(* unit has symbols for, for its parameters and its locals.                *)
THEOREM EverySymbolAlwaysBound == LinkSpec => []EverySymbolBound
<1>1. ASSUME LinkIInv PROVE EverySymbolBound
  <2> SUFFICES ASSUME phase = "done", SameDeclarations, ~Recursive,
                      NEW i \in 1 .. Len(units), NEW f \in units[i].defined
               PROVE  Cardinality(pools[f]) = metas[i].locals[f] /\ Cardinality(slots[f]) = metas[i].params[f]
    BY DEF EverySymbolBound
  <2>1. Linked
    BY DEF Linked, Started
  <2>2. /\ f \in Names /\ f \in prog.defined /\ LocalBytes(prog, f) = metas[i].locals[f]
        /\ metas[i].params[f] = IF abi[f] = "zp" THEN prog.params[f] ELSE 0
    BY <1>1, <2>1, SymbolBytes
  <2>3. f \in pooled
    BY <1>1, <2>1, <2>2, AllEligible DEF LinkIInv, AllocIInv, AllocPhase
  <2>4. Cardinality(pools[f]) = metas[i].locals[f]
    BY <1>1, <2>2, <2>3 DEF LinkIInv, AllocIInv, RangeInv
  <2>5. Cardinality(slots[f]) = metas[i].params[f]
    <3>1. placed = ZpNames(abi)
      BY <1>1 DEF LinkIInv, AllocIInv, AllocPhase
    <3>2. CASE f \in placed
      BY <1>1, <2>2, <3>1, <3>2 DEF LinkIInv, AllocIInv, RangeInv, ZpNames
    <3>3. CASE f \notin placed
      <4>1. slots[f] = {} /\ abi[f] # "zp"
        BY <1>1, <2>2, <3>1, <3>3 DEF LinkIInv, AllocIInv, RangeInv, ZpNames
      <4>2. QED
        BY <2>2, <4>1, FS_EmptySet
    <3>4. QED
      BY <3>2, <3>3
  <2>6. QED
    BY <2>4, <2>5
<1>2. QED
  BY <1>1, LinkInvariant, PTL
=============================================================================
