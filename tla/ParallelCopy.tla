---------------------------- MODULE ParallelCopy ----------------------------
(***************************************************************************)
(* from_ssa lowers the Phis of a block to one list of Movs per incoming    *)
(* edge (passes/optimization_asm/ssa_destruction.py). The list is emitted  *)
(* by _order_parallel_copies: a Mov whose destination no other pending Mov *)
(* reads goes first; when there is none, a cycle is broken with a fresh    *)
(* temporary. Here every Mov is executed when it is emitted. The Movs one  *)
(* after the other implement the parallel copy of PhiEdge.                 *)
(*                                                                         *)
(* _safe_dst_xy_split sends some of the Movs through A. A is scratch to    *)
(* every Mov between memory bytes and is never the location of a Phi, so   *)
(* the detour is not visible here.                                         *)
(***************************************************************************)
EXTENDS Naturals, Sequences, FiniteSets

CONSTANTS
  Storage,     \* storage keys of operands: bytes and registers
  Immediates,  \* operands that no Mov can change
  MovLists     \* the lists of Movs considered

(* The destinations of an edge are the Phi destinations of one block: they *)
(* interfere with each other, so no two share storage. per_pred has no     *)
(* entry for an edge without Movs.                                         *)
IsMovList(list) ==
  /\ list # <<>>
  /\ list \in Seq([dst : Storage, src : Storage \cup Immediates])
  /\ \A i, j \in DOMAIN list : list[i].dst = list[j].dst => i = j

ASSUME MovListsAssumption == \A list \in MovLists : IsMovList(list)

(* cycle_counter names the temporaries; the names are fresh. *)
Tmp(k) == <<"asm_cycle_tmp", k>>

ASSUME OperandsAssumption ==
  /\ Storage \cap Immediates = {}
  /\ \A op \in Storage \cup Immediates : op \notin {"asm_cycle_tmp"} \X Nat

VARIABLES
  movs,     \* the list as from_ssa builds it
  src,      \* current source of each Mov
  pending,  \* indices of the Movs not emitted yet
  temps,    \* temporaries minted
  store     \* the value in each location

vars == <<movs, src, pending, temps, store>>

Init ==
  /\ movs \in MovLists
  /\ src = [i \in DOMAIN movs |-> movs[i].src]
  /\ pending = DOMAIN movs
  /\ temps = 0
  /\ store = [s \in Storage |-> s]

Read(op) == IF op \in Immediates THEN op ELSE store[op]

Assign(loc, v) == [l \in DOMAIN store \cup {loc} |-> IF l = loc THEN v ELSE store[l]]

Blocked(i) == \E j \in pending \ {i} : src[j] = movs[i].dst
(* Mutant: source order. *)
ReadyAny == pending

Ready == {i \in pending : ~Blocked(i)}
First(S) == CHOOSE i \in S : \A j \in S : i <= j

(* Mutant: the Mov stays in the list. *)
EmitAgain ==
  /\ Ready # {}
  /\ LET i == First(Ready) IN store' = Assign(movs[i].dst, Read(src[i]))
  /\ UNCHANGED <<movs, src, pending, temps>>

EmitReady ==
  /\ Ready # {}
  /\ LET i == First(Ready)
     IN  /\ store' = Assign(movs[i].dst, Read(src[i]))
         /\ pending' = pending \ {i}
  /\ UNCHANGED <<movs, src, temps>>

(* Mutant: the first Mov's source is saved instead of its destination. *)
BreakCycleSource ==
  /\ pending # {} /\ Ready = {}
  /\ LET i == First(pending)
         tmp == Tmp(temps + 1)
     IN  /\ store' = Assign(tmp, Read(src[i]))
         /\ src' = [j \in DOMAIN movs |->
                      IF j \in pending \ {i} /\ src[j] = movs[i].dst THEN tmp ELSE src[j]]
  /\ temps' = temps + 1
  /\ UNCHANGED <<movs, pending>>

(* Mutant: the first Mov is taken to be on a cycle when it is blocked. *)
BreakCycleEarly ==
  /\ pending # {} /\ Blocked(First(pending))
  /\ LET i == First(pending)
         tmp == Tmp(temps + 1)
     IN  /\ store' = Assign(tmp, store[movs[i].dst])
         /\ src' = [j \in DOMAIN movs |->
                      IF j \in pending \ {i} /\ src[j] = movs[i].dst THEN tmp ELSE src[j]]
  /\ temps' = temps + 1
  /\ UNCHANGED <<movs, pending>>

(* Mutant: the counter of temporaries is not advanced. *)
BreakCycleSameName ==
  /\ pending # {} /\ Ready = {}
  /\ LET i == First(pending)
         tmp == Tmp(temps + 1)
     IN  /\ store' = Assign(tmp, store[movs[i].dst])
         /\ src' = [j \in DOMAIN movs |->
                      IF j \in pending \ {i} /\ src[j] = movs[i].dst THEN tmp ELSE src[j]]
  /\ UNCHANGED <<movs, pending, temps>>

(* Every pending Mov is on a cycle: the destination of the first is saved, *)
(* and those that read it read the copy.                                   *)
BreakCycle ==
  /\ pending # {} /\ Ready = {}
  /\ LET i == First(pending)
         tmp == Tmp(temps + 1)
     IN  /\ store' = Assign(tmp, store[movs[i].dst])
         /\ src' = [j \in DOMAIN movs |->
                      IF j \in pending \ {i} /\ src[j] = movs[i].dst THEN tmp ELSE src[j]]
  /\ temps' = temps + 1
  /\ UNCHANGED <<movs, pending>>

Next == EmitReady \/ BreakCycle

(* One thread of control that runs to the end. *)
Spec == Init /\ [][Next]_vars /\ WF_vars(Next)

-----------------------------------------------------------------------------
Edge == INSTANCE PhiEdge WITH
  taken <- pending = {},
  store <- IF pending = {} THEN [s \in Storage |-> store[s]] ELSE [s \in Storage |-> s]

(* The emitted Movs have the effect of the parallel copy: no value is lost *)
(* to an earlier Mov, and no location that is not a destination changes.   *)
ImplementsEdge == Edge!EdgeSpec

(* What a pending Mov is to deliver is still where it will read it, at     *)
(* every point of the sequence (the "lost copy" of the module docstring).  *)
NoLostCopy == \A i \in pending : Read(src[i]) = movs[i].src

(* The loop ends: breaking a cycle always makes a Mov ready. *)
OrderingEnds == <>(pending = {})

(* The locations a destination's value comes from, directly or not: the    *)
(* least set closed under "is the source of".                              *)
SourceClosed(d, S) ==
  \A i \in DOMAIN movs : movs[i].dst \in S \cup {d} => movs[i].src \in S \cup Immediates
Sources(d) == {s \in Storage : \A S \in SUBSET Storage : SourceClosed(d, S) => s \in S}

(* Every cycle of two or more Movs costs one temporary, a chain costs none *)
(* and a Mov to itself costs none.                                         *)
Cycles == {Sources(movs[i].dst) : i \in {j \in DOMAIN movs :
             movs[j].dst \in Sources(movs[j].dst) /\ movs[j].src # movs[j].dst}}
OneTempPerCycle == pending = {} => temps = Cardinality(Cycles)

TypeOK ==
  /\ movs \in MovLists
  /\ pending \subseteq DOMAIN movs
  /\ temps \in Nat
  /\ DOMAIN store = Storage \cup {Tmp(k) : k \in 1 .. temps}
  /\ src \in [DOMAIN movs -> DOMAIN store \cup Immediates]
  /\ \A l \in DOMAIN store : store[l] \in Storage \cup Immediates
=============================================================================
