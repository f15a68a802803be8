------------------------- MODULE ParallelCopyProofs -------------------------
(***************************************************************************)
(* Proofs about ParallelCopy for lists of any length: the Movs emitted one *)
(* after the other have the effect of the parallel copy, and break each    *)
(* cycle exactly once.                                                     *)
(***************************************************************************)
EXTENDS ParallelCopy, FiniteSetTheorems, WellFoundedInduction, TLAPS

(* A set of naturals that is not empty has a least element: what First    *)
(* chooses.                                                                *)
LEMMA LeastNatural ==
  ASSUME NEW S \in SUBSET Nat, S # {}
  PROVE  \E m \in S : \A x \in S : m <= x
<1> DEFINE Less == {ss \in Nat \X Nat : ss[1] < ss[2]}
<1>1. IsWellFoundedOn(Less, Nat)
  BY NatLessThanWellFounded DEF OpToRel
<1> HIDE DEF Less
<1>2. PICK m \in S : \A x \in S : ~(<<x, m>> \in Less)
  BY <1>1, WFMin
<1>3. \A x \in S : ~(x < m)
  BY <1>2 DEF Less
<1>4. QED
  BY <1>3

(* The list the algorithm works on, as Init takes it.                      *)
LEMMA MovListShape ==
  ASSUME NEW list \in MovLists
  PROVE  /\ DOMAIN list \in SUBSET Nat /\ DOMAIN list # {}
         /\ \A i \in DOMAIN list : list[i].dst \in Storage /\ list[i].src \in Storage \cup Immediates
         /\ \A i, j \in DOMAIN list : list[i].dst = list[j].dst => i = j
<1> DEFINE Movs == [dst : Storage, src : Storage \cup Immediates]
<1>1. IsMovList(list)
  BY MovListsAssumption
<1>2. list \in Seq(Movs)
  BY <1>1 DEF IsMovList
<1> HIDE DEF Movs
<1>3. DOMAIN list = 1 .. Len(list) /\ Len(list) \in Nat
  BY <1>2
<1>4. \A i \in 1 .. Len(list) : list[i] \in Movs
  BY <1>2
<1>5. DOMAIN list \in SUBSET Nat /\ DOMAIN list # {}
  <2>1. Len(list) # 0
    BY <1>1, <1>2 DEF IsMovList
  <2>2. QED
    BY <1>3, <2>1
<1>6. \A i \in DOMAIN list : list[i].dst \in Storage /\ list[i].src \in Storage \cup Immediates
  BY <1>3, <1>4 DEF Movs
<1>7. \A i, j \in DOMAIN list : list[i].dst = list[j].dst => i = j
  BY <1>1 DEF IsMovList
<1>8. QED
  BY <1>5, <1>6, <1>7

(* First picks a member: the loop of _order_parallel_copies always finds   *)
(* its Mov.                                                                *)
LEMMA FirstMember ==
  ASSUME NEW S \in SUBSET Nat, S # {}
  PROVE  First(S) \in S
BY LeastNatural DEF First

(* The name minted next is not the name of a location in use.              *)
LEMMA FreshTmp ==
  ASSUME TypeOK
  PROVE  Tmp(temps + 1) \notin DOMAIN store \cup Immediates
<1>1. temps \in Nat /\ DOMAIN store = Storage \cup {Tmp(k) : k \in 1 .. temps}
  BY DEF TypeOK
<1>2. Tmp(temps + 1) \in {"asm_cycle_tmp"} \X Nat
  BY <1>1 DEF Tmp
<1>3. Tmp(temps + 1) \notin Storage \cup Immediates
  BY <1>2, OperandsAssumption
<1>4. \A k \in 1 .. temps : Tmp(temps + 1) # Tmp(k)
  BY <1>1 DEF Tmp
<1>5. QED
  BY <1>1, <1>3, <1>4

-----------------------------------------------------------------------------
(* The strengthening of NoLostCopy that the steps preserve: the Movs that  *)
(* are out have delivered, and nothing but their destinations has changed. *)
Delivered ==
  /\ \A i \in DOMAIN movs \ pending : store[movs[i].dst] = movs[i].src
  /\ \A s \in Storage : (\A i \in DOMAIN movs \ pending : movs[i].dst # s) => store[s] = s

IInv == TypeOK /\ NoLostCopy /\ Delivered

(* Init: nothing is emitted and every location holds its own value.        *)
LEMMA InitIInv == Init => IInv
<1> SUFFICES ASSUME Init PROVE IInv
  OBVIOUS
<1>0. /\ \A i \in DOMAIN movs : movs[i].dst \in Storage /\ movs[i].src \in Storage \cup Immediates
      /\ src = [i \in DOMAIN movs |-> movs[i].src]
      /\ store = [s \in Storage |-> s] /\ pending = DOMAIN movs /\ temps = 0
  BY MovListShape DEF Init
<1>1. TypeOK
  <2>1. DOMAIN store = Storage \cup {Tmp(k) : k \in 1 .. temps}
    BY <1>0
  <2>2. src \in [DOMAIN movs -> DOMAIN store \cup Immediates]
    BY <1>0
  <2>3. \A l \in DOMAIN store : store[l] \in Storage \cup Immediates
    BY <1>0
  <2>4. QED
    BY <1>0, <2>1, <2>2, <2>3 DEF Init, TypeOK
<1>2. NoLostCopy
  BY <1>0, OperandsAssumption DEF NoLostCopy, Read
<1>3. Delivered
  BY <1>0 DEF Delivered
<1>4. QED
  BY <1>1, <1>2, <1>3 DEF IInv

(* Emitting a ready Mov: no other pending Mov reads its destination.       *)
LEMMA EmitIInv == IInv /\ EmitReady => IInv'
<1> SUFFICES ASSUME IInv, EmitReady PROVE IInv'
  OBVIOUS
<1> DEFINE i == First(Ready)
           d == movs[i].dst
<1>1. /\ movs \in MovLists /\ pending \subseteq DOMAIN movs /\ temps \in Nat
      /\ DOMAIN store = Storage \cup {Tmp(k) : k \in 1 .. temps}
      /\ src \in [DOMAIN movs -> DOMAIN store \cup Immediates]
      /\ \A l \in DOMAIN store : store[l] \in Storage \cup Immediates
  BY DEF IInv, TypeOK
<1>2. /\ DOMAIN movs \in SUBSET Nat
      /\ \A j \in DOMAIN movs : movs[j].dst \in Storage /\ movs[j].src \in Storage \cup Immediates
      /\ \A j, k \in DOMAIN movs : movs[j].dst = movs[k].dst => j = k
  BY <1>1, MovListShape
<1>3. i \in Ready
  <2>1. Ready \in SUBSET Nat /\ Ready # {}
    BY <1>1, <1>2 DEF EmitReady, Ready
  <2>2. QED
    BY <2>1, FirstMember
<1>4. i \in pending /\ \A j \in pending \ {i} : src[j] # d
  BY <1>3 DEF Ready, Blocked
<1>5. /\ store' = [l \in DOMAIN store |-> IF l = d THEN Read(src[i]) ELSE store[l]]
      /\ pending' = pending \ {i} /\ movs' = movs /\ src' = src /\ temps' = temps
  <2>1. DOMAIN store \cup {d} = DOMAIN store
    BY <1>1, <1>2, <1>4
  <2>2. QED
    BY <2>1 DEF EmitReady, Assign
<1>6. Read(src[i]) = movs[i].src
  BY <1>4 DEF IInv, NoLostCopy
<1> HIDE DEF i, d
<1>7. d \in Storage /\ d = movs[i].dst
  BY <1>1, <1>2, <1>4 DEF d
<1>8. DOMAIN store' = DOMAIN store
  BY <1>5
<1>9. TypeOK'
  <2>1. \A l \in DOMAIN store : store'[l] \in Storage \cup Immediates
    BY <1>1, <1>2, <1>4, <1>5, <1>6
  <2>2. QED
    BY <1>1, <1>5, <1>8, <2>1 DEF TypeOK
<1>10. NoLostCopy'
  <2> SUFFICES ASSUME NEW j \in pending'
               PROVE  (IF src'[j] \in Immediates THEN src'[j] ELSE store'[src'[j]]) = movs'[j].src
    BY DEF NoLostCopy, Read
  <2>1. j \in pending /\ j # i /\ src[j] # d /\ Read(src[j]) = movs[j].src
    BY <1>4, <1>5 DEF IInv, NoLostCopy
  <2>2. src[j] \in DOMAIN store \cup Immediates
    BY <1>1, <2>1
  <2>3. QED
    BY <1>5, <2>1, <2>2 DEF Read
<1>11. Delivered'
  <2>1. ASSUME NEW j \in DOMAIN movs \ (pending \ {i}) PROVE store'[movs[j].dst] = movs[j].src
    <3>1. CASE j = i
      BY <1>1, <1>5, <1>6, <1>7, <3>1
    <3>2. CASE j # i
      <4>1. j \in DOMAIN movs \ pending /\ movs[j].dst # d
        BY <1>1, <1>2, <1>4, <1>7, <3>2
      <4>2. store[movs[j].dst] = movs[j].src /\ movs[j].dst \in DOMAIN store
        BY <1>1, <1>2, <4>1 DEF IInv, Delivered
      <4>3. QED
        BY <1>5, <4>1, <4>2
    <3>3. QED
      BY <3>1, <3>2
  <2>2. ASSUME NEW s \in Storage, \A j \in DOMAIN movs \ (pending \ {i}) : movs[j].dst # s
        PROVE  store'[s] = s
    <3>1. s # d
      BY <1>1, <1>4, <1>7, <2>2
    <3>2. store[s] = s
      BY <2>2 DEF IInv, Delivered
    <3>3. QED
      BY <1>1, <1>5, <3>1, <3>2
  <2>3. QED
    BY <1>5, <2>1, <2>2 DEF Delivered
<1>12. QED
  BY <1>9, <1>10, <1>11 DEF IInv

(* Breaking a cycle: the temporary is a new location, and those that read  *)
(* it find there what they would have read.                                *)
LEMMA BreakIInv == IInv /\ BreakCycle => IInv'
<1> SUFFICES ASSUME IInv, BreakCycle PROVE IInv'
  OBVIOUS
<1> DEFINE i == First(pending)
           d == movs[i].dst
           tmp == Tmp(temps + 1)
<1>1. /\ movs \in MovLists /\ pending \subseteq DOMAIN movs /\ temps \in Nat
      /\ DOMAIN store = Storage \cup {Tmp(k) : k \in 1 .. temps}
      /\ src \in [DOMAIN movs -> DOMAIN store \cup Immediates]
      /\ \A l \in DOMAIN store : store[l] \in Storage \cup Immediates
  BY DEF IInv, TypeOK
<1>2. /\ DOMAIN movs \in SUBSET Nat
      /\ \A j \in DOMAIN movs : movs[j].dst \in Storage
  BY <1>1, MovListShape
<1>3. i \in pending
  BY <1>1, <1>2, FirstMember DEF BreakCycle
<1>4. tmp \notin DOMAIN store \cup Immediates
  BY FreshTmp DEF IInv
<1>5. /\ store' = [l \in DOMAIN store \cup {tmp} |-> IF l = tmp THEN store[d] ELSE store[l]]
      /\ src' = [j \in DOMAIN movs |-> IF j \in pending \ {i} /\ src[j] = d THEN tmp ELSE src[j]]
      /\ temps' = temps + 1 /\ movs' = movs /\ pending' = pending
  BY DEF BreakCycle, Assign
<1>6. d \in Storage /\ d \in DOMAIN store
  BY <1>1, <1>2, <1>3
<1>7. tmp = Tmp(temps + 1)
  OBVIOUS
<1> HIDE DEF i, d, tmp
<1>8. TypeOK'
  <2>1. DOMAIN store' = Storage \cup {Tmp(k) : k \in 1 .. temps'}
    <3>1. 1 .. temps' = (1 .. temps) \cup {temps + 1}
      BY <1>1, <1>5
    <3>2. QED
      BY <1>1, <1>5, <1>7, <3>1
  <2>2. src' \in [DOMAIN movs -> DOMAIN store' \cup Immediates]
    BY <1>1, <1>5
  <2>3. \A l \in DOMAIN store' : store'[l] \in Storage \cup Immediates
    BY <1>1, <1>5, <1>6
  <2>4. temps' \in Nat
    BY <1>1, <1>5
  <2>5. QED
    BY <1>1, <1>5, <2>1, <2>2, <2>3, <2>4 DEF TypeOK
<1>9. NoLostCopy'
  <2> SUFFICES ASSUME NEW j \in pending
               PROVE  (IF src'[j] \in Immediates THEN src'[j] ELSE store'[src'[j]]) = movs[j].src
    BY <1>5 DEF NoLostCopy, Read
  <2>1. j \in DOMAIN movs /\ src[j] \in DOMAIN store \cup Immediates /\ Read(src[j]) = movs[j].src
    BY <1>1 DEF IInv, NoLostCopy
  <2>2. CASE j # i /\ src[j] = d
    <3>1. src'[j] = tmp /\ store'[tmp] = store[d] /\ tmp \notin Immediates
      BY <1>4, <1>5, <2>1, <2>2
    <3>2. d \notin Immediates
      BY <1>6, OperandsAssumption
    <3>3. QED
      BY <2>1, <2>2, <3>1, <3>2 DEF Read
  <2>3. CASE ~(j # i /\ src[j] = d)
    <3>1. src'[j] = src[j] /\ src[j] # tmp
      BY <1>4, <1>5, <2>1, <2>3
    <3>2. QED
      BY <1>5, <2>1, <3>1 DEF Read
  <2>4. QED
    BY <2>2, <2>3
<1>10. Delivered'
  <2>1. \A s \in Storage : store'[s] = store[s]
    BY <1>1, <1>4, <1>5
  <2>2. QED
    BY <1>2, <1>5, <2>1 DEF IInv, Delivered
<1>11. QED
  BY <1>8, <1>9, <1>10 DEF IInv

(* Every reachable state satisfies the strengthening.                      *)
THEOREM Correct == Spec => []IInv
<1>1. IInv /\ [Next]_vars => IInv'
  <2> SUFFICES ASSUME IInv, [Next]_vars PROVE IInv'
    OBVIOUS
  <2>1. CASE EmitReady
    BY <2>1, EmitIInv
  <2>2. CASE BreakCycle
    BY <2>2, BreakIInv
  <2>3. CASE UNCHANGED vars
    BY <2>3 DEF vars, IInv, TypeOK, NoLostCopy, Delivered, Read
  <2>4. QED
    BY <2>1, <2>2, <2>3 DEF Next
<1>2. QED
  BY <1>1, InitIInv, PTL DEF Spec

(* The variables keep their types: in particular a Mov never reads a       *)
(* temporary that has not been written.                                    *)
THEOREM TypeCorrect == Spec => []TypeOK
<1>1. IInv => TypeOK
  BY DEF IInv
<1>2. QED
  BY <1>1, Correct, PTL

(* No Mov of an edge overwrites a value another one has still to read      *)
(* ("lost copy" of the docstring of ssa_destruction.py).                   *)
THEOREM CopiesNotLost == Spec => []NoLostCopy
<1>1. IInv => NoLostCopy
  BY DEF IInv
<1>2. QED
  BY <1>1, Correct, PTL
-----------------------------------------------------------------------------
(* While a Mov is pending the edge is not taken; the Mov that empties the  *)
(* list takes it.                                                          *)
LEMMA StepTakesEdge == IInv /\ IInv' /\ [Next]_vars => [Edge!TakeEdge]_Edge!edgeVars
<1> SUFFICES ASSUME IInv, IInv', [Next]_vars
             PROVE  Edge!TakeEdge \/ UNCHANGED Edge!edgeVars
  OBVIOUS
<1> USE DEF Edge!edgeVars
<1>1. CASE UNCHANGED vars
  BY <1>1 DEF vars
<1>2. CASE BreakCycle
  BY <1>2 DEF BreakCycle
<1>3. CASE EmitReady /\ pending' # {}
  BY <1>3 DEF EmitReady, Ready
<1>4. CASE EmitReady /\ pending' = {}
  <2>1. pending # {} /\ movs' = movs
    BY <1>4 DEF EmitReady, Ready
  <2>2. /\ movs \in MovLists /\ Storage \subseteq DOMAIN store'
        /\ \A i \in DOMAIN movs : movs[i].dst \in Storage
        /\ \A i, j \in DOMAIN movs : movs[i].dst = movs[j].dst => i = j
    BY MovListShape DEF IInv, TypeOK
  <2>3. /\ \A i \in DOMAIN movs : store'[movs[i].dst] = movs[i].src
        /\ \A s \in Storage : (\A i \in DOMAIN movs : movs[i].dst # s) => store'[s] = s
    BY <1>4, <2>1 DEF IInv, Delivered
  <2>4. [s \in Storage |-> store'[s]] = Edge!Outcome
    <3>1. ASSUME NEW s \in Storage
          PROVE  store'[s] = IF \E i \in DOMAIN movs : movs[i].dst = s
                               THEN movs[CHOOSE i \in DOMAIN movs : movs[i].dst = s].src ELSE s
      BY <2>2, <2>3
    <3>2. QED
      BY <3>1 DEF Edge!Outcome
  <2>5. QED
    BY <1>4, <2>1, <2>4 DEF Edge!TakeEdge
<1>5. QED
  BY <1>1, <1>2, <1>3, <1>4 DEF Next

(* The emitted sequence of Movs implements the parallel copy that the Phis *)
(* of the block stand for on this edge.                                    *)
THEOREM Implements == Spec => ImplementsEdge
<1>1. Init => Edge!EdgeInit
  <2> SUFFICES ASSUME Init PROVE Edge!EdgeInit
    OBVIOUS
  <2>1. movs \in MovLists /\ pending # {} /\ store = [s \in Storage |-> s]
    BY MovListShape DEF Init
  <2>2. QED
    BY <2>1 DEF Edge!EdgeInit
<1>2. QED
  BY <1>1, StepTakesEdge, Correct, PTL DEF Spec, ImplementsEdge, Edge!EdgeSpec

-----------------------------------------------------------------------------
(* The cycles that have cost their temporary or are being emitted: a Mov   *)
(* of theirs is out, or reads a temporary.                                 *)
Broken ==
  {C \in Cycles : \E j \in DOMAIN movs :
     movs[j].dst \in C /\ (j \notin pending \/ src[j] # movs[j].src)}

TempsInv ==
  /\ \A j \in DOMAIN movs : src[j] = movs[j].src \/ src[j] \notin Storage
  /\ IsFiniteSet(Broken) /\ temps = Cardinality(Broken)

-----------------------------------------------------------------------------
(* The shape of the list in a state, as the lemmas on Sources use it.      *)
Shaped ==
  /\ \A i \in DOMAIN movs : movs[i].dst \in Storage /\ movs[i].src \in Storage \cup Immediates
  /\ \A i, j \in DOMAIN movs : movs[i].dst = movs[j].dst => i = j
  /\ Storage \cap Immediates = {}

LEMMA InvShaped == TypeOK => Shaped
BY MovListShape, OperandsAssumption DEF TypeOK, Shaped

(* Sources(d) is closed under "is the source of", and in every closed set. *)
LEMMA SourcesClosed ==
  ASSUME Shaped, NEW d \in Storage
  PROVE  /\ Sources(d) \subseteq Storage
         /\ SourceClosed(d, Sources(d))
<1>1. ASSUME NEW i \in DOMAIN movs, movs[i].dst \in Sources(d) \cup {d}, movs[i].src \notin Immediates
      PROVE  movs[i].src \in Sources(d)
  <2> SUFFICES ASSUME NEW S \in SUBSET Storage, SourceClosed(d, S)
               PROVE  movs[i].src \in S
    BY <1>1 DEF Sources, Shaped
  <2>1. movs[i].dst \in S \cup {d}
    BY <1>1 DEF Sources
  <2>2. QED
    BY <1>1, <2>1 DEF SourceClosed
<1>2. QED
  BY <1>1 DEF Sources, SourceClosed

LEMMA SourcesLeast ==
  ASSUME NEW d, NEW S \in SUBSET Storage, SourceClosed(d, S)
  PROVE  Sources(d) \subseteq S
BY DEF Sources

(* The sources of a source are sources.                                    *)
LEMMA SourcesTransitive ==
  ASSUME Shaped, NEW d \in Storage, NEW x \in Sources(d)
  PROVE  Sources(x) \subseteq Sources(d)
<1>1. SourceClosed(x, Sources(d)) /\ Sources(d) \in SUBSET Storage
  BY SourcesClosed DEF SourceClosed
<1>2. QED
  BY <1>1, SourcesLeast

(* A source of x is what x is copied from, or a source of that.            *)
LEMMA SourcesUnfold ==
  ASSUME Shaped, NEW x \in Storage, NEW y \in Sources(x)
  PROVE  \E i \in DOMAIN movs : /\ movs[i].dst = x
                                /\ y = movs[i].src \/ (movs[i].src \in Storage /\ y \in Sources(movs[i].src))
<1> DEFINE From(i) == {movs[i].src} \cup IF movs[i].src \in Storage THEN Sources(movs[i].src) ELSE {}
           U == {s \in Storage : \E i \in DOMAIN movs : movs[i].dst = x /\ s \in From(i)}
<1>1. SourceClosed(x, U)
  <2> SUFFICES ASSUME NEW k \in DOMAIN movs, movs[k].dst \in U \cup {x}, movs[k].src \notin Immediates
               PROVE  movs[k].src \in U
    BY DEF SourceClosed
  <2>1. movs[k].src \in Storage
    BY DEF Shaped
  <2>2. CASE movs[k].dst = x
    BY <2>1, <2>2
  <2>3. CASE movs[k].dst \in U
    <3>1. PICK i \in DOMAIN movs : movs[i].dst = x /\ movs[k].dst \in From(i)
      BY <2>3
    <3>2. movs[i].src \in Storage
      <4>1. movs[k].dst \in Storage
        BY DEF Shaped
      <4>2. QED
        BY <3>1, <4>1
    <3>3. movs[k].src \in Sources(movs[i].src)
      BY <2>1, <3>1, <3>2, SourcesClosed DEF SourceClosed
    <3>4. QED
      BY <2>1, <3>1, <3>2, <3>3
  <2>4. QED
    BY <2>2, <2>3
<1>2. U \in SUBSET Storage
  OBVIOUS
<1> HIDE DEF U
<1>3. y \in U
  BY <1>1, <1>2, SourcesLeast
<1>4. PICK i \in DOMAIN movs : movs[i].dst = x /\ y \in From(i)
  BY <1>3 DEF U
<1>5. QED
  BY <1>4

(* The locations of a cycle: each one's sources are the whole cycle.       *)
OnCycle(d) == d \in Sources(d)

LEMMA CycleShared ==
  ASSUME Shaped, NEW e \in Storage, OnCycle(e), NEW d \in Sources(e)
  PROVE  Sources(d) = Sources(e)
<1> DEFINE S == {x \in Sources(e) : e \in Sources(x)}
<1>1. Sources(e) \subseteq Storage /\ SourceClosed(e, Sources(e)) /\ e \in Sources(e)
  BY SourcesClosed DEF OnCycle
<1>2. SourceClosed(e, S)
  <2> SUFFICES ASSUME NEW k \in DOMAIN movs, movs[k].dst \in S \cup {e}, movs[k].src \notin Immediates
               PROVE  movs[k].src \in S
    BY DEF SourceClosed
  <2>1. e \in Sources(movs[k].dst) /\ movs[k].dst \in Storage /\ movs[k].dst \in Sources(e) \cup {e}
    BY <1>1
  <2>2. movs[k].src \in Sources(e)
    BY <1>1, <2>1 DEF SourceClosed
  <2>3. PICK i \in DOMAIN movs : /\ movs[i].dst = movs[k].dst
                                 /\ e = movs[i].src \/ (movs[i].src \in Storage /\ e \in Sources(movs[i].src))
    BY <2>1, SourcesUnfold
  <2>4. i = k
    BY <2>3 DEF Shaped
  <2>5. e \in Sources(movs[k].src)
    BY <1>1, <2>3, <2>4
  <2>6. QED
    BY <2>2, <2>5
<1>3. S \in SUBSET Storage
  BY <1>1
<1>4. d \in S
  <2> HIDE DEF S
  <2>1. QED
    BY <1>2, <1>3, SourcesLeast
<1>5. Sources(d) \subseteq Sources(e) /\ Sources(e) \subseteq Sources(d)
  BY <1>1, <1>4, SourcesTransitive
<1>6. QED
  BY <1>5

(* Every location of a cycle is read by a Mov of the cycle.                *)
LEMMA CycleReader ==
  ASSUME Shaped, NEW d \in Storage, OnCycle(d)
  PROVE  \E k \in DOMAIN movs : movs[k].src = d /\ movs[k].dst \in Sources(d)
<1> SUFFICES ASSUME \A k \in DOMAIN movs : movs[k].dst \in Sources(d) => movs[k].src # d
             PROVE  FALSE
  OBVIOUS
<1> DEFINE S == Sources(d) \ {d}
<1>1. Sources(d) \subseteq Storage /\ SourceClosed(d, Sources(d)) /\ d \in Sources(d)
  BY SourcesClosed DEF OnCycle
<1>2. SourceClosed(d, S)
  BY <1>1 DEF SourceClosed
<1>3. Sources(d) \subseteq S
  BY <1>1, <1>2, SourcesLeast
<1>4. QED
  BY <1>1, <1>3

(* When no pending Mov is ready, each destination is read by exactly one   *)
(* pending Mov, and what a pending Mov reads is the destination of one:    *)
(* the pending Movs permute their destinations. (On a finite set, to find  *)
(* a reader for everybody is to be the reader of somebody.)                *)
LEMMA StuckPermutes ==
  ASSUME Shaped, TypeOK, Ready = {}
  PROVE  /\ IsFiniteSet(pending)
         /\ \A j \in pending : \E k \in pending : k # j /\ src[j] = movs[k].dst
         /\ \A j, k \in pending : src[j] = src[k] => j = k
<1> DEFINE reader == [k \in pending |-> CHOOSE j \in pending \ {k} : src[j] = movs[k].dst]
<1>0. pending \subseteq DOMAIN movs /\ movs \in MovLists
  BY DEF TypeOK
<1>1. IsFiniteSet(pending)
  <2>1. DOMAIN movs = 1 .. Len(movs) /\ Len(movs) \in Nat
    BY <1>0, MovListsAssumption DEF IsMovList
  <2>2. IsFiniteSet(DOMAIN movs)
    BY <2>1, FS_Interval
  <2>3. QED
    BY <1>0, <2>2, FS_Subset
<1>2. ASSUME NEW k \in pending
      PROVE  reader[k] \in pending /\ reader[k] # k /\ src[reader[k]] = movs[k].dst
  <2>1. \E j \in pending \ {k} : src[j] = movs[k].dst
    BY <1>2 DEF Ready, Blocked
  <2>2. QED
    BY <2>1
<1>3. DOMAIN reader = pending
  OBVIOUS
<1> HIDE DEF reader
<1>4. \A j, k \in pending : reader[j] = reader[k] => j = k
  BY <1>0, <1>2 DEF Shaped
<1>5. reader \in [pending -> pending]
  <2>1. reader = [k \in pending |-> reader[k]]
    BY <1>3 DEF reader
  <2>2. QED
    BY <1>2, <2>1
<1>6. reader \in Injection(pending, pending)
  BY <1>4, <1>5 DEF Injection, IsInjective
<1>7. reader \in Surjection(pending, pending)
  BY <1>1, <1>6, FS_Injection
<1>8. ASSUME NEW j \in pending PROVE \E k \in pending : reader[k] = j
  BY <1>7, <1>8 DEF Surjection
<1>9. \A j \in pending : \E k \in pending : k # j /\ src[j] = movs[k].dst
  BY <1>2, <1>8
<1>10. ASSUME NEW j \in pending, NEW k \in pending, src[j] = src[k] PROVE j = k
  <2>1. PICK a \in pending : reader[a] = j
    BY <1>8
  <2>2. PICK b \in pending : reader[b] = k
    BY <1>8
  <2>3. movs[a].dst = movs[b].dst
    BY <1>2, <1>10, <2>1, <2>2
  <2>4. a = b
    BY <1>0, <2>3 DEF Shaped
  <2>5. QED
    BY <2>1, <2>2, <2>4
<1>11. QED
  BY <1>1, <1>9, <1>10

(* So when no pending Mov is ready, every pending Mov is on a cycle of     *)
(* pending Movs (the comment at the break in _order_parallel_copies).      *)
LEMMA StuckOnCycle ==
  ASSUME Shaped, TypeOK, TempsInv, Ready = {}, NEW i \in pending
  PROVE  /\ OnCycle(movs[i].dst) /\ movs[i].src # movs[i].dst
         /\ \A j \in DOMAIN movs : movs[j].dst \in Sources(movs[i].dst) => j \in pending /\ src[j] = movs[j].src
<1> DEFINE d == movs[i].dst
           P == {movs[j].dst : j \in pending}
<1>1. /\ pending \subseteq DOMAIN movs /\ IsFiniteSet(pending)
      /\ \A j \in pending : \E k \in pending : k # j /\ src[j] = movs[k].dst
      /\ \A j, k \in pending : src[j] = src[k] => j = k
  BY StuckPermutes DEF TypeOK
<1>2. \A j \in pending : src[j] = movs[j].src /\ movs[j].src \in P
  BY <1>1 DEF TempsInv, Shaped
<1>3. d \in P /\ d \in Storage /\ P \in SUBSET Storage
  BY <1>1 DEF Shaped
<1>4. \A j \in DOMAIN movs : movs[j].dst \in P => j \in pending
  BY <1>1 DEF Shaped
<1>5. Sources(d) \subseteq P
  <2>1. SourceClosed(d, P)
    BY <1>2, <1>3, <1>4 DEF SourceClosed
  <2>2. QED
    BY <1>3, <2>1, SourcesLeast
<1>6. movs[i].src # movs[i].dst
  BY <1>1, <1>2 DEF Shaped
<1>7. SourceClosed(d, Sources(d))
  BY <1>3, SourcesClosed
<1>8. OnCycle(d)
  <2> DEFINE In == {j \in pending : movs[j].dst \in Sources(d)}
             All == In \cup {i}
             f == [j \in All |-> CHOOSE k \in In : movs[k].dst = movs[j].src]
  <2> SUFFICES ASSUME d \notin Sources(d) PROVE FALSE
    BY DEF OnCycle
  <2>1. In \subseteq pending /\ i \notin In
    OBVIOUS
  <2>2. IsFiniteSet(In) /\ IsFiniteSet(All) /\ Cardinality(All) = Cardinality(In) + 1 /\ Cardinality(In) \in Nat
    <3> HIDE DEF In
    <3>1. IsFiniteSet(In)
      BY <1>1, <2>1, FS_Subset
    <3>2. QED
      BY <2>1, <3>1, FS_AddElement, FS_CardinalityType
  <2>3. ASSUME NEW j \in All PROVE f[j] \in In /\ movs[f[j]].dst = movs[j].src
    <3>1. j \in pending /\ movs[j].dst \in Sources(d) \cup {d}
      OBVIOUS
    <3>2. movs[j].src \notin Immediates
      BY <1>2, <1>3, <3>1 DEF Shaped
    <3>3. movs[j].src \in Sources(d)
      BY <1>1, <1>7, <3>1, <3>2 DEF SourceClosed
    <3>4. \E k \in In : movs[k].dst = movs[j].src
      BY <1>2, <1>4, <3>1, <3>3
    <3>5. QED
      BY <3>4
  <2>4. f \in [All -> In]
    BY <2>3
  <2>5. Cardinality(In) < Cardinality(All)
    BY <2>2
  <2> HIDE DEF f, In
  <2>6. PICK x, y \in All : x # y /\ f[x] = f[y]
    BY <2>2, <2>4, <2>5, FS_PigeonHole
  <2>7. x \in pending /\ y \in pending /\ movs[x].src = movs[y].src
    BY <2>1, <2>3, <2>6
  <2>8. QED
    BY <1>1, <1>2, <2>6, <2>7
<1>9. QED
  BY <1>2, <1>4, <1>5, <1>6, <1>8

-----------------------------------------------------------------------------
(* No step changes the list, so the cycles stay what they are.             *)
LEMMA CyclesFixed ==
  ASSUME movs' = movs
  PROVE  Cycles' = Cycles
BY DEF Cycles, Sources, SourceClosed

(* A cycle is Sources of each of its locations.                            *)
LEMMA CycleOf ==
  ASSUME Shaped, NEW C \in Cycles, NEW d \in C
  PROVE  /\ d \in Storage /\ OnCycle(d) /\ C = Sources(d)
         /\ \E i \in DOMAIN movs : movs[i].dst \in C /\ movs[i].src # movs[i].dst
<1>1. PICK i \in DOMAIN movs : /\ movs[i].dst \in Sources(movs[i].dst) /\ movs[i].src # movs[i].dst
                               /\ C = Sources(movs[i].dst)
  BY DEF Cycles
<1>2. movs[i].dst \in Storage /\ OnCycle(movs[i].dst)
  BY <1>1 DEF Shaped, OnCycle
<1>3. C = Sources(d) /\ d \in Storage
  BY <1>1, <1>2, CycleShared, SourcesClosed
<1>4. OnCycle(d)
  BY <1>3 DEF OnCycle
<1>5. QED
  BY <1>1, <1>3, <1>4

(* At first nothing is out and no Mov reads a temporary.                   *)
LEMMA InitTemps == Init => TempsInv
<1> SUFFICES ASSUME Init PROVE TempsInv
  OBVIOUS
<1>1. /\ \A j \in DOMAIN movs : src[j] = movs[j].src
      /\ pending = DOMAIN movs /\ temps = 0
  BY DEF Init
<1>2. Broken = {}
  BY <1>1 DEF Broken
<1>3. QED
  BY <1>1, <1>2, FS_EmptySet DEF TempsInv

(* A ready Mov that is on a cycle belongs to one that is broken already,   *)
(* or to itself alone: nobody else reads its destination.                  *)
LEMMA EmitTemps == IInv /\ TempsInv /\ EmitReady => TempsInv'
<1> SUFFICES ASSUME IInv, TempsInv, EmitReady PROVE TempsInv'
  OBVIOUS
<1> DEFINE i == First(Ready)
<1>1. Shaped /\ movs \in MovLists /\ pending \subseteq DOMAIN movs
  BY InvShaped DEF IInv, TypeOK
<1>2. i \in Ready
  <2>1. Ready \in SUBSET Nat /\ Ready # {}
    BY <1>1, MovListShape DEF EmitReady, Ready
  <2>2. QED
    BY <2>1, FirstMember
<1>3. /\ i \in pending /\ i \in DOMAIN movs
      /\ \A j \in pending : j # i => src[j] # movs[i].dst
  BY <1>1, <1>2 DEF Ready, Blocked
<1>4. pending' = pending \ {i} /\ movs' = movs /\ src' = src /\ temps' = temps
  BY DEF EmitReady
<1> HIDE DEF i
<1>5. ASSUME NEW C \in Cycles, movs[i].dst \in C PROVE C \in Broken
  <2> SUFFICES ASSUME C \notin Broken PROVE FALSE
    OBVIOUS
  <2>1. \A j \in DOMAIN movs : movs[j].dst \in C => j \in pending /\ src[j] = movs[j].src
    BY DEF Broken
  <2>2. /\ movs[i].dst \in Storage /\ OnCycle(movs[i].dst) /\ C = Sources(movs[i].dst)
        /\ \E j \in DOMAIN movs : movs[j].dst \in C /\ movs[j].src # movs[j].dst
    BY <1>1, <1>5, CycleOf
  <2>3. PICK k \in DOMAIN movs : movs[k].src = movs[i].dst /\ movs[k].dst \in C
    BY <1>1, <2>2, CycleReader
  <2>4. k = i
    BY <1>3, <2>1, <2>3
  <2>5. SourceClosed(movs[i].dst, {movs[i].dst})
    BY <1>1, <1>3, <2>3, <2>4 DEF SourceClosed, Shaped
  <2>6. C \subseteq {movs[i].dst}
    BY <2>2, <2>5, SourcesLeast
  <2>7. QED
    BY <1>1, <1>3, <2>2, <2>3, <2>4, <2>6 DEF Shaped
<1>6. Cycles' = Cycles
  BY <1>4, CyclesFixed
<1>7. Broken' = Broken
  <2>1. Broken' = {C \in Cycles : \E j \in DOMAIN movs :
                     movs[j].dst \in C /\ (j \notin pending \ {i} \/ src[j] # movs[j].src)}
    BY <1>4, <1>6 DEF Broken
  <2>2. QED
    BY <1>5, <2>1 DEF Broken
<1>8. QED
  BY <1>4, <1>7 DEF TempsInv

(* Breaking a cycle: that of the first pending Mov, and only that, is      *)
(* broken from now on, and it was not before.                              *)
LEMMA BreakTemps == IInv /\ TempsInv /\ BreakCycle => TempsInv'
<1> SUFFICES ASSUME IInv, TempsInv, BreakCycle PROVE TempsInv'
  OBVIOUS
<1> DEFINE i == First(pending)
           d == movs[i].dst
           tmp == Tmp(temps + 1)
<1>1. Shaped /\ TypeOK /\ movs \in MovLists /\ pending \subseteq DOMAIN movs
  BY InvShaped DEF IInv, TypeOK
<1>2. i \in pending /\ Ready = {}
  BY <1>1, MovListShape, FirstMember DEF BreakCycle
<1>3. tmp \notin Storage /\ \A j \in DOMAIN movs : src[j] # tmp
  <2>1. tmp \notin DOMAIN store \cup Immediates
    BY <1>1, FreshTmp
  <2>2. QED
    BY <1>1, <2>1 DEF TypeOK
<1>4. /\ src' = [j \in DOMAIN movs |-> IF j \in pending \ {i} /\ src[j] = d THEN tmp ELSE src[j]]
      /\ temps' = temps + 1 /\ movs' = movs /\ pending' = pending
  BY DEF BreakCycle
<1> HIDE DEF i, tmp
<1>5. /\ OnCycle(d) /\ movs[i].src # d
      /\ \A j \in DOMAIN movs : movs[j].dst \in Sources(d) => j \in pending /\ src[j] = movs[j].src
  BY <1>1, <1>2, StuckOnCycle
<1>6. d \in Storage /\ i \in DOMAIN movs
  BY <1>1, <1>2 DEF Shaped
<1>7. Sources(d) \in Cycles /\ Sources(d) \notin Broken
  <2>1. Sources(d) \in Cycles
    BY <1>5, <1>6 DEF Cycles, OnCycle
  <2>2. QED
    BY <1>5, <2>1 DEF Broken
<1>8. PICK k \in DOMAIN movs : movs[k].src = d /\ movs[k].dst \in Sources(d)
  BY <1>1, <1>5, <1>6, CycleReader
<1>9. k \in pending \ {i} /\ src[k] = d /\ src'[k] # movs[k].src
  <2>1. k \in pending \ {i} /\ src[k] = d
    BY <1>5, <1>8
  <2>2. QED
    BY <1>3, <1>4, <1>6, <1>8, <2>1
<1>10. ASSUME NEW C \in Cycles, NEW j \in DOMAIN movs, movs[j].dst \in C,
              src'[j] # movs[j].src, src[j] = movs[j].src
       PROVE  C = Sources(d)
  <2>1. movs[j].src = d
    BY <1>4, <1>10
  <2>2. C = Sources(movs[j].dst) /\ movs[j].dst \in Storage
    BY <1>1, <1>10, CycleOf
  <2>3. d \in C
    BY <1>1, <1>6, <1>10, <2>1, <2>2, SourcesClosed DEF SourceClosed, Shaped
  <2>4. QED
    BY <1>1, <1>10, <2>3, CycleOf
<1>11. ASSUME NEW j \in DOMAIN movs, src[j] # movs[j].src PROVE src'[j] # movs[j].src
  BY <1>1, <1>3, <1>4, <1>6, <1>11 DEF TempsInv, Shaped
<1>12. Cycles' = Cycles
  BY <1>4, CyclesFixed
<1>13. Broken' = Broken \cup {Sources(d)}
  <2>1. Broken' = {C \in Cycles : \E j \in DOMAIN movs :
                     movs[j].dst \in C /\ (j \notin pending \/ src'[j] # movs[j].src)}
    BY <1>4, <1>12 DEF Broken
  <2>2. Sources(d) \in Broken'
    BY <1>7, <1>8, <1>9, <2>1
  <2>3. Broken \subseteq Broken'
    BY <1>11, <2>1 DEF Broken
  <2>4. Broken' \subseteq Broken \cup {Sources(d)}
    BY <1>10, <2>1 DEF Broken
  <2>5. QED
    BY <2>2, <2>3, <2>4
<1>14. IsFiniteSet(Broken') /\ Cardinality(Broken') = Cardinality(Broken) + 1
  BY <1>7, <1>13, FS_AddElement DEF TempsInv
<1>15. \A j \in DOMAIN movs : src'[j] = movs[j].src \/ src'[j] \notin Storage
  BY <1>3, <1>4 DEF TempsInv
<1>16. QED
  BY <1>4, <1>14, <1>15 DEF TempsInv

(* The temporaries minted are one for each broken cycle, at every moment.  *)
THEOREM TempsCounted == Spec => []TempsInv
<1>1. IInv /\ TempsInv /\ [Next]_vars => TempsInv'
  <2> SUFFICES ASSUME IInv, TempsInv, [Next]_vars PROVE TempsInv'
    OBVIOUS
  <2>1. CASE EmitReady
    BY <2>1, EmitTemps
  <2>2. CASE BreakCycle
    BY <2>2, BreakTemps
  <2>3. CASE UNCHANGED vars
    <3>1. movs' = movs /\ src' = src /\ pending' = pending /\ temps' = temps
      BY <2>3 DEF vars
    <3>2. Broken' = Broken
      BY <3>1, CyclesFixed DEF Broken
    <3>3. QED
      BY <3>1, <3>2 DEF TempsInv
  <2>4. QED
    BY <2>1, <2>2, <2>3 DEF Next
<1>2. QED
  BY <1>1, InitTemps, Correct, PTL DEF Spec

(* Copies are cheap: when all Movs are out, every cycle of two or more has *)
(* cost one temporary, and nothing else has cost any.                      *)
THEOREM OneTempForEachCycle == Spec => []OneTempPerCycle
<1>1. IInv /\ TempsInv => OneTempPerCycle
  <2> SUFFICES ASSUME IInv, TempsInv, pending = {} PROVE temps = Cardinality(Cycles)
    BY DEF OneTempPerCycle
  <2>1. Cycles \subseteq Broken
    BY DEF Broken, Cycles
  <2>2. Broken = Cycles
    BY <2>1 DEF Broken
  <2>3. QED
    BY <2>2 DEF TempsInv
<1>2. QED
  BY <1>1, Correct, TempsCounted, PTL
=============================================================================
