--------------------------- MODULE ZpGraphProofs ----------------------------
(***************************************************************************)
(* Facts about call graphs and about the search for a free range, for      *)
(* every set of names and every pool.                                      *)
(***************************************************************************)
EXTENDS ZpProgram, WellFoundedInduction, FiniteSetTheorems, TLAPS

(* A set of naturals that is not empty has a least element: what Least    *)
(* chooses.                                                                *)
LEMMA LeastNatural ==
  ASSUME NEW S \in SUBSET Nat, S # {}
  PROVE  \E m \in S : \A x \in S : m <= x
<1> DEFINE Less == {ss \in Nat \X Nat : ss[1] < ss[2]}
<1>1. IsWellFoundedOn(Less, Nat)
  BY NatLessThanWellFounded DEF OpToRel
<1> HIDE DEF Less
<1>2. PICK m \in S : \A x \in S : ~(<<x, m>> \in Less)
  BY <1>1, WFMin
<1>3. \A x \in S : ~(x < m)
  BY <1>2 DEF Less
<1>4. QED
  BY <1>3

(* An edge of the call graph puts the caller among the ancestors.          *)
LEMMA CallerIsAncestor ==
  ASSUME NEW E, NEW f \in Names, NEW g \in Names, <<g, f>> \in E
  PROVE  g \in Ancestors(E, f)
BY DEF Ancestors, CallerClosed, Callers

(* A set that holds the callers of f, and with a function its callers,     *)
(* holds all ancestors of f.                                               *)
LEMMA AncestorsLeast ==
  ASSUME NEW E, NEW f \in Names, NEW S \in SUBSET Names, CallerClosed(E, f, S)
  PROVE  Ancestors(E, f) \subseteq S
BY DEF Ancestors

(* The ancestors of a caller, and of an ancestor, are ancestors.           *)
LEMMA AncestorsTransitive ==
  ASSUME NEW E \in SUBSET (Names \X Names), NEW f \in Names, NEW g \in Ancestors(E, f)
  PROVE  Ancestors(E, g) \subseteq Ancestors(E, f)
<1> SUFFICES ASSUME NEW S \in SUBSET Names, CallerClosed(E, f, S)
             PROVE  Ancestors(E, g) \subseteq S
  BY DEF Ancestors
<1>1. g \in S /\ g \in Names
  BY DEF Ancestors
<1>2. CallerClosed(E, g, S)
  BY <1>1 DEF CallerClosed, Callers
<1>3. QED
  BY <1>1, <1>2, AncestorsLeast

(* More edges, more ancestors.                                             *)
LEMMA AncestorsMonotone ==
  ASSUME NEW E, NEW F, E \subseteq F, NEW f \in Names
  PROVE  Ancestors(E, f) \subseteq Ancestors(F, f)
BY DEF Ancestors, CallerClosed, Callers

(* An ancestor calls something.                                            *)
LEMMA AncestorsCall ==
  ASSUME NEW E \in SUBSET (Names \X Names), NEW f \in Names, NEW a \in Ancestors(E, f)
  PROVE  \E b \in Names : <<a, b>> \in E
<1> DEFINE S == {x \in Names : \E b \in Names : <<x, b>> \in E}
<1>1. CallerClosed(E, f, S)
  <2>1. Callers(E, f) \subseteq S
    BY DEF Callers
  <2>2. ASSUME NEW e \in E PROVE e[1] \in S
    BY <2>2
  <2>3. QED
    BY <2>1, <2>2 DEF CallerClosed
<1>2. a \in S
  BY <1>1, AncestorsLeast
<1>3. QED
  BY <1>2

(* In a graph without cycles, a set of functions that is not empty has one *)
(* none of whose callers is in the set: Kahn's queue never runs dry.       *)
LEMMA AcyclicHasSource ==
  ASSUME NEW E \in SUBSET (Names \X Names), NEW U \in SUBSET Names, U # {},
         \A f \in U : f \notin Ancestors(E, f)
  PROVE  \E f \in U : Callers(E, f) \cap U = {}
<1> DEFINE Less == StrictSubsetOrdering(Names)
           T == {Ancestors(E, f) : f \in U}
<1>1. IsWellFoundedOn(Less, SUBSET Names)
  BY FS_StrictSubsetOrderingWellFounded, FS_FiniteSubsetsOfFinite, NamesAssumption
<1>2. T \subseteq SUBSET Names /\ T # {}
  BY DEF Ancestors
<1> HIDE DEF Less, T
<1>3. PICK A \in T : \A B \in T : ~(<<B, A>> \in Less)
  BY <1>1, <1>2, WFMin
<1>4. PICK f \in U : A = Ancestors(E, f)
  BY <1>3 DEF T
<1>5. ASSUME NEW g \in Callers(E, f) \cap U PROVE FALSE
  <2>1. g \in Ancestors(E, f) /\ g \notin Ancestors(E, g)
    BY <1>5, CallerIsAncestor DEF Callers
  <2>2. Ancestors(E, g) \subseteq Ancestors(E, f)
    BY <2>1, AncestorsTransitive
  <2>3. Ancestors(E, f) \in SUBSET Names /\ Ancestors(E, g) \in SUBSET Names
    BY DEF Ancestors
  <2>4. <<Ancestors(E, g), A>> \in Less
    BY <1>4, <2>1, <2>2, <2>3 DEF Less, StrictSubsetOrdering
  <2>5. Ancestors(E, g) \in T
    BY <1>5 DEF T
  <2>6. QED
    BY <1>3, <2>4, <2>5
<1>6. QED
  BY <1>5

(* The direct callers, and their ancestors, are all the ancestors: what    *)
(* _build_callgraph computes along the topological order.                  *)
LEMMA AncestorsUnfold ==
  ASSUME NEW E \in SUBSET (Names \X Names), NEW f \in Names
  PROVE  Ancestors(E, f) = Callers(E, f) \cup UNION {Ancestors(E, c) : c \in Callers(E, f)}
<1> DEFINE S == Callers(E, f) \cup UNION {Ancestors(E, c) : c \in Callers(E, f)}
<1>1. S \in SUBSET Names
  BY DEF Callers, Ancestors
<1>2. S \subseteq Ancestors(E, f)
  <2>1. \A c \in Callers(E, f) : c \in Ancestors(E, f)
    BY CallerIsAncestor DEF Callers
  <2>2. \A c \in Callers(E, f) : Ancestors(E, c) \subseteq Ancestors(E, f)
    BY <2>1, AncestorsTransitive
  <2>3. QED
    BY <2>1, <2>2
<1>3. ASSUME NEW e \in E, e[2] \in S PROVE e[1] \in S
  <2>1. e[1] \in Names /\ e[2] \in Names /\ <<e[1], e[2]>> \in E
    BY <1>3
  <2>2. e[1] \in Ancestors(E, e[2])
    BY <2>1, CallerIsAncestor
  <2>3. CASE e[2] \in Callers(E, f)
    BY <2>2, <2>3
  <2>4. ASSUME NEW c \in Callers(E, f), e[2] \in Ancestors(E, c) PROVE e[1] \in S
    <3>1. c \in Names
      BY DEF Callers
    <3>2. Ancestors(E, e[2]) \subseteq Ancestors(E, c)
      BY <2>4, <3>1, AncestorsTransitive
    <3>3. QED
      BY <2>2, <2>4, <3>2
  <2>5. QED
    BY <1>3, <2>3, <2>4
<1>4. CallerClosed(E, f, S)
  BY <1>3 DEF CallerClosed
<1> HIDE DEF S
<1>5. Ancestors(E, f) \subseteq S
  BY <1>1, <1>4, AncestorsLeast
<1>6. QED
  BY <1>2, <1>5 DEF S

(* A chain of calls is a chain in the graph of the functions that satisfy  *)
(* P, if with f everything the chain passes through does.                  *)
LEMMA AncestorsWithin ==
  ASSUME NEW E \in SUBSET (Names \X Names), NEW F, NEW P,
         \A e \in E : e[1] \in P /\ e[2] \in P => e \in F,
         \A e \in E : e[1] \in P => e[2] \in P,
         NEW f \in P \cap Names, NEW a \in Ancestors(E, f) \cap P
  PROVE  a \in Ancestors(F, f)
<1> DEFINE S == {x \in Names : x \in P => x \in Ancestors(F, f)}
<1>1. Callers(E, f) \subseteq S
  <2> SUFFICES ASSUME NEW c \in Callers(E, f), c \in P PROVE c \in Ancestors(F, f)
    BY DEF Callers
  <2>1. c \in Names /\ <<c, f>> \in E
    BY DEF Callers
  <2>2. <<c, f>> \in F
    BY <2>1
  <2>3. QED
    BY <2>1, <2>2, CallerIsAncestor
<1>2. ASSUME NEW e \in E, e[2] \in S, e[1] \in P PROVE e[1] \in Ancestors(F, f)
  <2>1. e[1] \in Names /\ e[2] \in Names /\ e = <<e[1], e[2]>>
    BY <1>2
  <2>2. e[2] \in Ancestors(F, f) /\ e \in F
    BY <1>2
  <2>3. QED
    BY <2>1, <2>2 DEF Ancestors, CallerClosed
<1>3. CallerClosed(E, f, S)
  BY <1>1, <1>2 DEF CallerClosed
<1>4. a \in S
  BY <1>3, AncestorsLeast
<1>5. QED
  BY <1>4

-----------------------------------------------------------------------------
(* The parts of a program are what IsProgram says.                         *)
LEMMA ProgramParts ==
  ASSUME NEW p, IsProgram(p)
  PROVE  /\ p.defined \in SUBSET Names /\ p.calls \in SUBSET (p.defined \X Names)
         /\ p.calls \in SUBSET (Names \X Names) /\ p.indirect \subseteq p.defined
         /\ p.params \in [Names -> Nat] /\ p.temps \in [Names -> Nat] /\ p.across \in [Names -> Nat]
BY DEF IsProgram

(* The graphs of both allocators are graphs on Names.                      *)
LEMMA GraphTypes ==
  ASSUME NEW p, IsProgram(p), NEW A
  PROVE  /\ ZpCalls(p, A) \in SUBSET (Names \X Names)
         /\ DefinedCalls(p) \in SUBSET (Names \X Names)
         /\ EligibleCalls(p, A) \in SUBSET (Names \X Names)
         /\ EligibleCalls(p, A) \subseteq DefinedCalls(p)
BY ProgramParts DEF ZpCalls, DefinedCalls, EligibleCalls

(* select_abi refuses zp_abi to every function on a cycle: what the        *)
(* CycleError of allocate_zp_slots calls an internal error cannot happen.  *)
LEMMA NoZpCycle ==
  ASSUME NEW p, IsProgram(p), NEW f \in ZpNames(SelectedAbi(p))
  PROVE  f \notin Ancestors(ZpCalls(p, SelectedAbi(p)), f)
<1> DEFINE E == ZpCalls(p, SelectedAbi(p))
           F == DefinedCalls(p)
<1> SUFFICES ASSUME f \in Ancestors(E, f) PROVE FALSE
  OBVIOUS
<1>1. f \in Names /\ ValidatesZpAbi(p, f)
  BY DEF ZpNames, SelectedAbi
<1>2. f \in p.defined
  <2>1. PICK b \in Names : <<f, b>> \in E
    BY <1>1, GraphTypes, AncestorsCall
  <2>2. QED
    BY <2>1, ProgramParts DEF ZpCalls
<1>3. Ancestors(E, f) \subseteq Ancestors(F, f)
  <2> SUFFICES ASSUME NEW S \in SUBSET Names, CallerClosed(F, f, S)
               PROVE  Ancestors(E, f) \subseteq S
    BY DEF Ancestors
  <2> DEFINE T == S \cap p.defined
  <2>1. Callers(E, f) \subseteq T
    BY <1>2, ProgramParts DEF CallerClosed, Callers, ZpCalls, DefinedCalls
  <2>2. ASSUME NEW e \in E, e[2] \in T PROVE e[1] \in T
    <3>1. e \in p.calls /\ e \in F
      BY <2>2 DEF ZpCalls, DefinedCalls
    <3>2. e[1] \in p.defined
      BY <3>1, ProgramParts
    <3>3. QED
      BY <2>2, <3>1, <3>2 DEF CallerClosed
  <2>3. CallerClosed(E, f, T)
    BY <2>1, <2>2 DEF CallerClosed
  <2>4. QED
    BY <1>1, <2>3, AncestorsLeast
<1>4. f \in Ancestors(F, f)
  BY <1>3
<1>5. QED
  BY <1>1, <1>2, <1>4 DEF ValidatesZpAbi, OnCycle

(* An eligible function is on no cycle: _topological_order of              *)
(* zp_local_allocation.py places every eligible function.                  *)
LEMMA NoEligibleCycle ==
  ASSUME NEW p, IsProgram(p), NEW A, NEW f \in Eligible(p, A)
  PROVE  f \in Names /\ f \notin Ancestors(EligibleCalls(p, A), f)
<1>1. f \in p.defined /\ f \in Names /\ f \notin IneligibleSeeds(p, A)
  BY ProgramParts DEF Eligible
<1>2. f \notin Ancestors(DefinedCalls(p), f)
  BY <1>1 DEF IneligibleSeeds, OnCycle
<1>3. QED
  BY <1>1, <1>2, GraphTypes, AncestorsMonotone

(* A function an eligible one calls is eligible, or a zp_abi extern.       *)
LEMMA EligibleCallee ==
  ASSUME NEW p, IsProgram(p), NEW A, NEW g \in Eligible(p, A), NEW f \in Names, <<g, f>> \in p.calls
  PROVE  /\ f \in p.defined => f \in Eligible(p, A) /\ <<g, f>> \in EligibleCalls(p, A)
         /\ f \notin p.defined => A[f] = "zp"
         /\ g \notin p.indirect
<1>1. g \in p.defined /\ g \in Names
  BY ProgramParts DEF Eligible
<1>2. g \notin IneligibleSeeds(p, A)
  BY DEF Eligible
<1>3. g \notin p.indirect /\ (f \notin p.defined => A[f] = "zp")
  BY <1>1, <1>2 DEF IneligibleSeeds, Callees
<1>4. ASSUME f \in p.defined PROVE f \in Eligible(p, A)
  <2> SUFFICES ASSUME NEW s \in IneligibleSeeds(p, A), f = s \/ f \in Ancestors(DefinedCalls(p), s)
               PROVE  FALSE
    BY <1>4 DEF Eligible
  <2>1. s \in Names
    BY ProgramParts DEF IneligibleSeeds
  <2>2. <<g, f>> \in DefinedCalls(p)
    BY <1>4 DEF DefinedCalls
  <2>3. g \in Ancestors(DefinedCalls(p), f)
    BY <1>1, <2>2, CallerIsAncestor
  <2>4. g \in Ancestors(DefinedCalls(p), s)
    BY <2>1, <2>3, GraphTypes, AncestorsTransitive
  <2>5. QED
    BY <2>4 DEF Eligible
<1>5. f \in p.defined => <<g, f>> \in EligibleCalls(p, A)
  BY <1>4 DEF EligibleCalls, DefinedCalls
<1>6. QED
  BY <1>3, <1>4, <1>5

-----------------------------------------------------------------------------
(* Mid splits the pool.                                                    *)
LEMMA MidBounds ==
  /\ Mid \in Nat /\ PoolStart \in Nat /\ PoolEnd \in Nat /\ SpillStart \in Nat /\ SpillEnd \in Nat
  /\ PoolStart <= Mid /\ Mid <= PoolEnd /\ PoolEnd <= SpillStart /\ SpillStart <= SpillEnd
BY PoolAssumption DEF Mid

(* Least picks the least member.                                           *)
LEMMA LeastMember ==
  ASSUME NEW S \in SUBSET Nat, S # {}
  PROVE  Least(S) \in S /\ \A x \in S : Least(S) <= x
BY LeastNatural DEF Least

(* What _find_free_range returns is in the window or in the spill region   *)
(* and avoids the forbidden bytes; it has the bytes that were asked for.   *)
LEMMA FreeRangeSound ==
  ASSUME NEW forbidden, NEW n \in Nat, CanPlace(forbidden, n)
  PROVE  /\ FreeRange(forbidden, n) \subseteq Addresses \ CalleeSaved
         /\ FreeRange(forbidden, n) \cap forbidden = {}
         /\ Cardinality(FreeRange(forbidden, n)) = n
<1>1. CASE n = 0
  BY <1>1, FS_EmptySet DEF FreeRange
<1>2. CASE n # 0
  <2> DEFINE starts == IF WindowStarts(forbidden, n) # {} THEN WindowStarts(forbidden, n)
                                                         ELSE SpillStarts(forbidden, n)
             c == Least(starts)
  <2>1. starts \in SUBSET Nat /\ starts # {}
    BY <1>2, MidBounds DEF CanPlace, WindowStarts, SpillStarts, FreeStarts
  <2>2. c \in starts
    BY <2>1, LeastNatural DEF Least
  <2>3. FreeRange(forbidden, n) = c .. (c + n - 1)
    BY <1>2 DEF FreeRange
  <2>4. /\ (c .. (c + n - 1)) \cap forbidden = {}
        /\ \/ c \in PoolStart .. Mid /\ c + n <= Mid
           \/ c \in SpillStart .. SpillEnd /\ c + n <= SpillEnd
    BY <2>2 DEF WindowStarts, SpillStarts, FreeStarts
  <2> HIDE DEF c
  <2>5. c .. (c + n - 1) \subseteq Addresses \ CalleeSaved
    BY <2>4, MidBounds DEF Addresses, CalleeSaved
  <2>6. Cardinality(c .. (c + n - 1)) = n
    <3>1. c \in Int /\ c + n - 1 \in Int
      BY <2>1, <2>2 DEF c
    <3>2. Cardinality(c .. (c + n - 1)) = IF c > c + n - 1 THEN 0 ELSE c + n - 1 - c + 1
      BY <3>1, FS_Interval
    <3>3. QED
      BY <1>2, <3>1, <3>2
  <2>7. QED
    BY <2>3, <2>4, <2>5, <2>6
<1>3. QED
  BY <1>1, <1>2
=============================================================================
