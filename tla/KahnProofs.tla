----------------------------- MODULE KahnProofs -----------------------------
(***************************************************************************)
(* Proofs about allocate_zp_slots as it is written, for every program and  *)
(* pool: the queue gives an order, the sets built along it are the         *)
(* transitive callers, and the scan finds the lowest free range, so the    *)
(* code implements the plan of ZpSlots.                                    *)
(***************************************************************************)
EXTENDS KahnSlots, ZpGraphProofs, SequenceTheorems

Elems(s) == {s[i] : i \in 1 .. Len(s)}
Distinct(s) == \A i, j \in 1 .. Len(s) : s[i] = s[j] => i = j
Before(i) == {out[j] : j \in 1 .. (i - 1)}

Graph == ZpCalls(prog, abi)

OrderFound == {"ancestors", "search", "locals", "SlotAllocationError"}

KahnTyped ==
  /\ prog \in Programs /\ abi \in [Names -> {"zp", "soft"}]
  /\ pc \in {"select_abi", "order", "AbiSelectionError"} \cup OrderFound
  /\ queue \in Seq(Names) /\ out \in Seq(Names) /\ inDegree \in [Names -> Nat]
  /\ k \in 1 .. (Len(out) + 1) /\ ancestors \in [Names -> SUBSET Names]
  /\ cur \in Nat /\ hi \in {Mid, SpillEnd}
  /\ placed \subseteq Names /\ slots \in [Names -> SUBSET Nat]

(* What the loops before a phase leave to it.                              *)
KahnPhase ==
  /\ pc = "order" \/ pc \in OrderFound => abi = SelectedAbi(prog)
  /\ pc \in {"select_abi", "AbiSelectionError"} => out = <<>>
  /\ pc \in {"select_abi", "order", "AbiSelectionError"} => k = 1
  /\ pc \notin {"search", "locals", "SlotAllocationError"} =>
       placed = {} /\ slots = [f \in Names |-> {}] /\ cur = PoolStart /\ hi = Mid

(* Each function comes after its callers.                                  *)
CallersFirst == \A i \in 1 .. Len(out) : Callers(Graph, out[i]) \subseteq Before(i)

(* The loop of _topological_order: in_degree counts the callers that are   *)
(* not out, and every function without such callers is out or queued.      *)
QueueInv ==
  pc = "order" =>
    /\ Elems(queue) \cup Elems(out) \subseteq ZpFunctions
    /\ Elems(queue) \cap Elems(out) = {} /\ Distinct(queue) /\ Distinct(out)
    /\ \A f \in Names : inDegree[f] = Cardinality(Callers(Graph, f) \ Elems(out))
    /\ \A f \in ZpFunctions :
         f \in Elems(queue) \cup Elems(out) <=> Callers(Graph, f) \subseteq Elems(out)

OutComplete == pc \in OrderFound => Elems(out) = ZpFunctions /\ Distinct(out)

(* The sets of the functions reached are their transitive callers.         *)
AncestorsInv ==
  /\ pc = "ancestors" => \A i \in 1 .. (k - 1) : ancestors[out[i]] = Ancestors(Graph, out[i])
  /\ pc \in OrderFound \ {"ancestors"} =>
       \A i \in 1 .. Len(out) : ancestors[out[i]] = Ancestors(Graph, out[i])

(* The scan of _find_free_range has passed no start it could have used.    *)
ScanInv ==
  pc = "search" /\ k <= Len(out) =>
    \/ /\ hi = Mid /\ PoolStart <= cur
       /\ \A c \in WindowStarts(Forbidden, Bytes) : cur <= c
       /\ Bytes = 0 => cur = PoolStart
    \/ /\ hi = SpillEnd /\ SpillStart <= cur /\ Bytes # 0
       /\ WindowStarts(Forbidden, Bytes) = {}
       /\ \A c \in SpillStarts(Forbidden, Bytes) : cur <= c

PlacedInv ==
  /\ pc = "search" => placed = Before(k) /\ \A f \in Names \ placed : slots[f] = {}
  /\ pc = "locals" => placed = ZpFunctions

KahnIInv ==
  /\ KahnTyped /\ KahnPhase /\ CallersFirst /\ QueueInv /\ OutComplete /\ AncestorsInv
  /\ ScanInv /\ PlacedInv

-----------------------------------------------------------------------------
(* Sequences and the sets of their elements.                               *)

LEMMA ElemsOfAppend ==
  ASSUME NEW S, NEW s \in Seq(S), NEW e \in S
  PROVE  Elems(Append(s, e)) = Elems(s) \cup {e}
<1> DEFINE t == Append(s, e)
           n == Len(s)
<1>1. n \in Nat /\ Len(t) = n + 1 /\ t[n + 1] = e /\ \A i \in 1 .. n : t[i] = s[i]
  BY AppendProperties, LenProperties
<1> HIDE DEF t, n
<1>2. 1 .. (n + 1) = (1 .. n) \cup {n + 1}
  BY <1>1
<1>3. Elems(t) = {t[i] : i \in 1 .. n} \cup {t[n + 1]}
  BY <1>1, <1>2 DEF Elems
<1>4. {t[i] : i \in 1 .. n} = {s[i] : i \in 1 .. n}
  BY <1>1
<1>5. QED
  BY <1>1, <1>3, <1>4 DEF Elems, n, t

LEMMA ElemsOfConcat ==
  ASSUME NEW S, NEW s \in Seq(S), NEW t \in Seq(S)
  PROVE  Elems(s \o t) = Elems(s) \cup Elems(t)
<1> DEFINE u == s \o t
           m == Len(s)
           n == Len(t)
<1>1. /\ m \in Nat /\ n \in Nat /\ Len(u) = m + n
      /\ \A i \in 1 .. m + n : u[i] = IF i <= m THEN s[i] ELSE t[i - m]
  BY ConcatProperties, LenProperties
<1> HIDE DEF u, m, n
<1>2. ASSUME NEW x \in Elems(u) PROVE x \in Elems(s) \cup Elems(t)
  <2>1. PICK i \in 1 .. m + n : x = u[i]
    BY <1>1 DEF Elems
  <2>2. CASE i <= m
    BY <1>1, <2>1, <2>2 DEF Elems, m
  <2>3. CASE ~(i <= m)
    <3>1. i - m \in 1 .. n /\ x = t[i - m]
      BY <1>1, <2>1, <2>3
    <3>2. QED
      BY <3>1 DEF Elems, n
  <2>4. QED
    BY <2>2, <2>3
<1>3. ASSUME NEW x \in Elems(s) PROVE x \in Elems(u)
  <2>1. PICK i \in 1 .. m : x = s[i]
    BY DEF Elems, m
  <2>2. i \in 1 .. m + n /\ u[i] = x
    BY <1>1, <2>1
  <2>3. QED
    BY <1>1, <2>2 DEF Elems
<1>4. ASSUME NEW x \in Elems(t) PROVE x \in Elems(u)
  <2>1. PICK i \in 1 .. n : x = t[i]
    BY DEF Elems, n
  <2>2. i + m \in 1 .. m + n /\ ~(i + m <= m) /\ (i + m) - m = i
    BY <1>1
  <2>3. u[i + m] = x
    BY <1>1, <2>1, <2>2
  <2>4. QED
    BY <1>1, <2>2, <2>3 DEF Elems
<1>5. QED
  BY <1>2, <1>3, <1>4 DEF u

LEMMA DistinctConcat ==
  ASSUME NEW S, NEW s \in Seq(S), NEW t \in Seq(S), Distinct(s), Distinct(t), Elems(s) \cap Elems(t) = {}
  PROVE  Distinct(s \o t)
<1> DEFINE u == s \o t
           m == Len(s)
           n == Len(t)
<1>1. /\ m \in Nat /\ n \in Nat /\ Len(u) = m + n
      /\ \A i \in 1 .. m + n : u[i] = IF i <= m THEN s[i] ELSE t[i - m]
  BY ConcatProperties, LenProperties
<1> HIDE DEF u, m, n
<1> SUFFICES ASSUME NEW i \in 1 .. m + n, NEW j \in 1 .. m + n, u[i] = u[j] PROVE i = j
  BY <1>1 DEF Distinct, u
<1>2. \A a \in 1 .. m, b \in 1 .. n : s[a] # t[b]
  BY DEF Elems, m, n
<1>3. CASE i <= m /\ j <= m
  BY <1>1, <1>3 DEF Distinct, m
<1>4. CASE i > m /\ j > m
  <2>1. i - m \in 1 .. n /\ j - m \in 1 .. n /\ t[i - m] = t[j - m]
    BY <1>1, <1>4
  <2>2. i - m = j - m
    BY <2>1 DEF Distinct, n
  <2>3. QED
    BY <1>1, <2>2
<1>5. CASE i <= m /\ j > m
  <2>1. i \in 1 .. m /\ j - m \in 1 .. n /\ s[i] = t[j - m]
    BY <1>1, <1>5
  <2>2. QED
    BY <1>2, <2>1
<1>6. CASE i > m /\ j <= m
  <2>1. j \in 1 .. m /\ i - m \in 1 .. n /\ s[j] = t[i - m]
    BY <1>1, <1>6
  <2>2. QED
    BY <1>2, <2>1
<1>7. QED
  BY <1>1, <1>3, <1>4, <1>5, <1>6

LEMMA DistinctAppend ==
  ASSUME NEW S, NEW s \in Seq(S), NEW e \in S, Distinct(s), e \notin Elems(s)
  PROVE  Distinct(Append(s, e))
<1> DEFINE t == Append(s, e)
           n == Len(s)
<1>1. n \in Nat /\ Len(t) = n + 1 /\ t[n + 1] = e /\ \A i \in 1 .. n : t[i] = s[i]
  BY AppendProperties, LenProperties
<1> HIDE DEF t, n
<1>2. \A i \in 1 .. n : t[i] # e
  BY <1>1 DEF Elems, n
<1>3. ASSUME NEW i \in 1 .. (n + 1), NEW j \in 1 .. (n + 1), t[i] = t[j] PROVE i = j
  <2>1. CASE i \in 1 .. n /\ j \in 1 .. n
    BY <1>1, <1>3, <2>1 DEF Distinct, n
  <2>2. CASE i = n + 1 \/ j = n + 1
    BY <1>1, <1>2, <1>3, <2>2
  <2>3. QED
    BY <1>1, <2>1, <2>2
<1>4. QED
  BY <1>1, <1>3 DEF Distinct, t

LEMMA TailOfDistinct ==
  ASSUME NEW S, NEW s \in Seq(S), s # <<>>, Distinct(s)
  PROVE  /\ Head(s) \in Elems(s) /\ Distinct(Tail(s)) /\ Tail(s) \in Seq(S)
         /\ Elems(Tail(s)) = Elems(s) \ {Head(s)}
<1> DEFINE t == Tail(s)
           n == Len(s)
<1>1. /\ n \in Nat \ {0} /\ Len(t) = n - 1 /\ t \in Seq(S) /\ Head(s) = s[1]
      /\ \A i \in 1 .. (n - 1) : t[i] = s[i + 1]
  BY EmptySeq, HeadTailProperties
<1> HIDE DEF t, n
<1>2. \A i \in 1 .. (n - 1) : i + 1 \in 1 .. n /\ i + 1 # 1
  BY <1>1
<1>3. 1 \in 1 .. n
  BY <1>1
<1>4. Head(s) \in Elems(s)
  BY <1>1, <1>3 DEF Elems, n
<1>5. Distinct(t)
  <2> SUFFICES ASSUME NEW i \in 1 .. (n - 1), NEW j \in 1 .. (n - 1), t[i] = t[j] PROVE i = j
    BY <1>1 DEF Distinct
  <2>1. s[i + 1] = s[j + 1] /\ i + 1 \in 1 .. n /\ j + 1 \in 1 .. n
    BY <1>1, <1>2
  <2>2. i + 1 = j + 1
    BY <2>1 DEF Distinct, n
  <2>3. QED
    BY <2>2
<1>6. ASSUME NEW x \in Elems(t) PROVE x \in Elems(s) /\ x # Head(s)
  <2>1. PICK i \in 1 .. (n - 1) : x = t[i]
    BY <1>1 DEF Elems
  <2>2. x = s[i + 1] /\ i + 1 \in 1 .. n /\ i + 1 # 1
    BY <1>1, <1>2, <2>1
  <2>3. QED
    BY <1>1, <1>3, <2>2 DEF Elems, Distinct, n
<1>7. ASSUME NEW x \in Elems(s), x # Head(s) PROVE x \in Elems(t)
  <2>1. PICK i \in 1 .. n : x = s[i]
    BY DEF Elems, n
  <2>2. i # 1
    BY <1>1, <1>7, <2>1
  <2>3. i - 1 \in 1 .. (n - 1) /\ (i - 1) + 1 = i
    BY <1>1, <2>2
  <2>4. t[i - 1] = x
    BY <1>1, <2>1, <2>3
  <2>5. QED
    BY <1>1, <2>3, <2>4 DEF Elems
<1>8. QED
  BY <1>1, <1>4, <1>5, <1>6, <1>7 DEF t

(* A sequence without repetitions is as long as its set of elements.       *)
LEMMA DistinctLength ==
  ASSUME NEW S, NEW s \in Seq(S), Distinct(s)
  PROVE  IsFiniteSet(Elems(s)) /\ Cardinality(Elems(s)) = Len(s)
<1>1. Len(s) \in Nat /\ s \in [1 .. Len(s) -> S]
  BY LenProperties
<1>2. s \in Surjection(1 .. Len(s), Elems(s)) /\ s \in Injection(1 .. Len(s), Elems(s))
  BY <1>1 DEF Surjection, Injection, IsInjective, Elems, Distinct
<1>3. IsFiniteSet(1 .. Len(s)) /\ Cardinality(1 .. Len(s)) = Len(s)
  BY <1>1, FS_Interval
<1>4. QED
  BY <1>2, <1>3, FS_Surjection

-----------------------------------------------------------------------------
(* sorted: a finite set of names can be listed in ascending order, its     *)
(* least member first.                                                     *)

Ascending(S, s) ==
  s \in [1 .. Cardinality(S) -> S] /\ \A i, j \in DOMAIN s : i < j => s[i] < s[j]

LEMMA AscendingStep ==
  ASSUME NEW S \in SUBSET Nat, IsFiniteSet(S), NEW m \in S, \A x \in S : m <= x,
         NEW t, Ascending(S \ {m}, t)
  PROVE  \E s : Ascending(S, s)
<1> DEFINE n == Cardinality(S)
           s == [i \in 1 .. n |-> IF i = 1 THEN m ELSE t[i - 1]]
<1>1. n \in Nat /\ Cardinality(S \ {m}) = n - 1
  BY FS_CardinalityType, FS_RemoveElement
<1>2. t \in [1 .. (n - 1) -> S \ {m}] /\ \A i, j \in 1 .. (n - 1) : i < j => t[i] < t[j]
  BY <1>1 DEF Ascending
<1> HIDE DEF n
<1>3. \A i \in 1 .. n : i # 1 => i - 1 \in 1 .. (n - 1) /\ t[i - 1] \in S /\ t[i - 1] # m
  BY <1>1, <1>2
<1>4. s \in [1 .. n -> S]
  BY <1>3
<1>5. ASSUME NEW i \in 1 .. n, NEW j \in 1 .. n, i < j PROVE s[i] < s[j]
  <2>1. j # 1 /\ s[j] = t[j - 1]
    BY <1>1, <1>5
  <2>2. CASE i = 1
    <3>1. s[i] = m /\ m <= s[j] /\ m # s[j] /\ m \in Nat /\ s[j] \in Nat
      BY <1>3, <2>1, <2>2
    <3>2. QED
      BY <3>1
  <2>3. CASE i # 1
    <3>1. i - 1 \in 1 .. (n - 1) /\ j - 1 \in 1 .. (n - 1) /\ i - 1 < j - 1
      BY <1>1, <1>5, <2>3
    <3>2. s[i] = t[i - 1]
      BY <2>3
    <3>3. QED
      BY <1>2, <2>1, <3>1, <3>2
  <2>4. QED
    BY <2>2, <2>3
<1>6. Ascending(S, s)
  BY <1>4, <1>5 DEF Ascending, n
<1>7. QED
  BY <1>6

LEMMA AscendingExists ==
  ASSUME NEW S \in SUBSET Names
  PROVE  \E s : Ascending(S, s)
<1> DEFINE Less == StrictSubsetOrdering(Names)
           T == {U \in SUBSET Names : ~ \E s : Ascending(U, s)}
<1> SUFFICES ASSUME T # {} PROVE FALSE
  OBVIOUS
<1>1. IsWellFoundedOn(Less, SUBSET Names)
  BY FS_StrictSubsetOrderingWellFounded, FS_FiniteSubsetsOfFinite, NamesAssumption
<1>2. T \subseteq SUBSET Names
  OBVIOUS
<1>3. \A U \in SUBSET Names : U \in T <=> ~ \E s : Ascending(U, s)
  OBVIOUS
<1> HIDE DEF Less, T
<1>4. PICK A \in T : \A B \in T : ~(<<B, A>> \in Less)
  BY <1>1, <1>2, WFMin
<1>5. A \in SUBSET Names /\ A \in SUBSET Nat /\ IsFiniteSet(A)
  BY <1>2, <1>4, OrderAssumption, NamesAssumption, FS_Subset
<1>6. CASE A = {}
  <2>1. Cardinality(A) = 0
    BY <1>6, FS_EmptySet
  <2>2. Ascending(A, [i \in 1 .. 0 |-> 0])
    BY <1>6, <2>1 DEF Ascending
  <2>3. QED
    BY <1>3, <1>4, <1>5, <2>2
<1>7. CASE A # {}
  <2>1. PICK m \in A : \A x \in A : m <= x
    BY <1>5, <1>7, LeastNatural
  <2>2. A \ {m} \in SUBSET Names /\ <<A \ {m}, A>> \in Less
    BY <1>5, <2>1 DEF Less, StrictSubsetOrdering
  <2>3. PICK t : Ascending(A \ {m}, t)
    BY <1>3, <1>4, <2>2
  <2>4. \E s : Ascending(A, s)
    BY <1>5, <2>1, <2>3, AscendingStep
  <2>5. QED
    BY <1>3, <1>4, <1>5, <2>4
<1>8. QED
  BY <1>6, <1>7

LEMMA SortedList ==
  ASSUME NEW S \in SUBSET Names
  PROVE  Sorted(S) \in Seq(Names) /\ Elems(Sorted(S)) = S /\ Distinct(Sorted(S))
<1> DEFINE s == Sorted(S)
           n == Cardinality(S)
<1>1. IsFiniteSet(S) /\ n \in Nat /\ S \in SUBSET Nat
  BY NamesAssumption, OrderAssumption, FS_Subset, FS_CardinalityType
<1>2. s \in [1 .. n -> S] /\ \A i, j \in DOMAIN s : i < j => s[i] < s[j]
  BY AscendingExists DEF Ascending, Sorted
<1> HIDE DEF s, n
<1>3. s \in Seq(S) /\ Len(s) = n
  BY <1>1, <1>2
<1>4. ASSUME NEW i \in 1 .. n, NEW j \in 1 .. n, s[i] = s[j] PROVE i = j
  <2>1. ~(i < j) /\ ~(j < i)
    <3>1. DOMAIN s = 1 .. n /\ s[i] \in Nat /\ s[j] \in Nat
      BY <1>1, <1>2
    <3>2. QED
      BY <1>2, <1>4, <3>1
  <2>2. QED
    BY <2>1
<1>5. Distinct(s)
  BY <1>3, <1>4 DEF Distinct
<1>6. Elems(s) = S
  <2>1. Elems(s) \in SUBSET S
    BY <1>2, <1>3 DEF Elems
  <2>2. Cardinality(Elems(s)) = n
    BY <1>3, <1>5, DistinctLength
  <2>3. QED
    BY <1>1, <2>1, <2>2, FS_Subset DEF n
<1>7. s \in Seq(Names)
  BY <1>3, SeqMonotonic
<1>8. QED
  BY <1>5, <1>6, <1>7 DEF s

-----------------------------------------------------------------------------
(* The graph of zp_abi functions.                                          *)
LEMMA KahnGraph ==
  ASSUME KahnTyped
  PROVE  /\ IsProgram(prog) /\ Graph \in SUBSET (Names \X Names) /\ ZpFunctions \in SUBSET Names
         /\ \A f \in Names : /\ Callers(Graph, f) \in SUBSET ZpFunctions
                             /\ Callees(Graph, f) \in SUBSET ZpFunctions
                             /\ \A g \in Names : g \in Callers(Graph, f) <=> f \in Callees(Graph, g)
         /\ \A S \in SUBSET Names : IsFiniteSet(S)
<1>1. IsProgram(prog) /\ Graph \in SUBSET (Names \X Names)
  BY ProgramsAssumption, GraphTypes DEF KahnTyped, Graph
<1>2. ZpFunctions \in SUBSET Names
  BY DEF ZpFunctions, ZpNames
<1>3. \A e \in Graph : e[1] \in ZpFunctions /\ e[2] \in ZpFunctions
  BY DEF Graph, ZpCalls, ZpFunctions
<1>4. \A S \in SUBSET Names : IsFiniteSet(S)
  BY NamesAssumption, FS_Subset
<1>5. QED
  BY <1>1, <1>2, <1>3, <1>4 DEF Callers, Callees

LEMMA KahnInitInv == Init => KahnIInv
<1> SUFFICES ASSUME Init PROVE KahnIInv
  OBVIOUS
<1>1. /\ prog \in Programs /\ abi = [f \in Names |-> "soft"] /\ pc = "select_abi"
      /\ queue = <<>> /\ inDegree = [f \in Names |-> 0] /\ out = <<>>
      /\ k = 1 /\ ancestors = [f \in Names |-> {}] /\ cur = PoolStart /\ hi = Mid
      /\ placed = {} /\ slots = [f \in Names |-> {}]
  BY DEF Init
<1>2. Len(out) = 0
  BY <1>1
<1>3. KahnTyped
  BY <1>1, <1>2, MidBounds DEF KahnTyped
<1>4. CallersFirst /\ QueueInv /\ OutComplete /\ AncestorsInv /\ ScanInv /\ PlacedInv
  BY <1>1, <1>2 DEF CallersFirst, QueueInv, OutComplete, OrderFound, AncestorsInv, ScanInv, PlacedInv
<1>5. KahnPhase
  BY <1>1 DEF KahnPhase, OrderFound
<1>6. QED
  BY <1>3, <1>4, <1>5 DEF KahnIInv

(* The first queue holds the functions without callers.                    *)
LEMMA SelectAbiInv == KahnIInv /\ SelectAbi => KahnIInv'
<1> SUFFICES ASSUME KahnIInv, SelectAbi PROVE KahnIInv'
  OBVIOUS
<1>1. /\ pc = "select_abi" /\ out = <<>> /\ Len(out) = 0 /\ k = 1
      /\ UNCHANGED <<prog, out, k, ancestors, cur, hi, placed, slots>>
  BY DEF SelectAbi, KahnIInv, KahnPhase
<1>2. CASE AbiError(prog)
  <2>1. pc' = "AbiSelectionError" /\ UNCHANGED <<abi, inDegree, queue>>
    BY <1>2 DEF SelectAbi
  <2>2. KahnTyped' /\ KahnPhase'
    BY <1>1, <2>1 DEF KahnIInv, KahnTyped, KahnPhase, OrderFound
  <2>3. QED
    BY <1>1, <2>1, <2>2 DEF KahnIInv, CallersFirst, QueueInv, OutComplete, OrderFound, AncestorsInv, ScanInv,
                            PlacedInv
<1>3. CASE ~AbiError(prog)
  <2> DEFINE E == ZpCalls(prog, SelectedAbi(prog))
             Z == ZpNames(SelectedAbi(prog))
             degree == [f \in Names |-> Cardinality(Callers(E, f))]
             ready == {f \in Z : degree[f] = 0}
  <2>1. pc' = "order" /\ abi' = SelectedAbi(prog) /\ inDegree' = degree /\ queue' = Sorted(ready)
    BY <1>3 DEF SelectAbi
  <2>2. Graph' = E /\ ZpFunctions' = Z /\ Z \in SUBSET Names
    BY <1>1, <2>1 DEF Graph, ZpFunctions, ZpNames
  <2>3. \A f \in Names : IsFiniteSet(Callers(E, f)) /\ degree[f] \in Nat /\ (degree[f] = 0 <=> Callers(E, f) = {})
    BY NamesAssumption, FS_Subset, FS_CardinalityType, FS_EmptySet DEF Callers
  <2>4. /\ Elems(queue') = ready /\ Distinct(queue') /\ queue' \in Seq(Names)
        /\ ready \in SUBSET Names /\ ready \subseteq Z
    BY <2>1, <2>2, SortedList
  <2>5. Elems(out') = {} /\ Distinct(out')
    BY <1>1 DEF Elems, Distinct
  <2>6. abi' \in [Names -> {"zp", "soft"}]
    BY <2>1 DEF SelectedAbi
  <2>7. KahnTyped'
    BY <1>1, <2>1, <2>3, <2>4, <2>6 DEF KahnIInv, KahnTyped
  <2>8. KahnPhase'
    BY <1>1, <2>1 DEF KahnIInv, KahnPhase, OrderFound
  <2>9. QueueInv'
    <3> DEFINE q == queue'
               o == out'
    <3>1. \A f \in Names : Callers(E, f) \ {} = Callers(E, f)
      OBVIOUS
    <3>2. \A f \in Names : inDegree'[f] = Cardinality(Callers(E, f) \ Elems(o))
      BY <2>1, <2>5, <3>1
    <3>3. \A f \in Z : f \in ready <=> Callers(E, f) = {}
      BY <2>2, <2>3
    <3>4. QED
      BY <2>2, <2>4, <2>5, <3>2, <3>3 DEF QueueInv, Elems, Distinct
  <2>10. QED
    BY <1>1, <2>1, <2>7, <2>8, <2>9 DEF KahnIInv, CallersFirst, OutComplete, OrderFound, AncestorsInv, ScanInv,
                                        PlacedInv
<1>4. QED
  BY <1>2, <1>3

(* in_degree after the callees of n are counted down: n is out, and those  *)
(* for which it was the last caller are released.                          *)
LEMMA CountDown ==
  ASSUME KahnIInv, pc = "order", NEW n \in ZpFunctions, n \notin Elems(out), NEW c \in Names
  PROVE  LET rest == Callers(Graph, c) \ Elems(out)
         IN  /\ IsFiniteSet(rest) /\ inDegree[c] = Cardinality(rest) /\ inDegree[c] \in Nat
             /\ Callers(Graph, c) \ (Elems(out) \cup {n}) = rest \ {n}
             /\ c \in Callees(Graph, n) => Cardinality(rest \ {n}) = inDegree[c] - 1 /\ inDegree[c] # 0
             /\ c \notin Callees(Graph, n) => rest \ {n} = rest
             /\ c \in Callees(Graph, n) => (inDegree[c] = 1 <=> rest \ {n} = {})
<1> DEFINE rest == Callers(Graph, c) \ Elems(out)
<1>1. KahnTyped /\ n \in Names
  BY KahnGraph DEF KahnIInv
<1>2. IsFiniteSet(rest) /\ inDegree[c] = Cardinality(rest) /\ inDegree[c] \in Nat
  <2>1. rest \in SUBSET Names
    BY DEF Callers
  <2>2. QED
    BY <1>1, <2>1, KahnGraph DEF KahnIInv, KahnTyped, QueueInv
<1>3. n \in Callers(Graph, c) <=> c \in Callees(Graph, n)
  BY <1>1, KahnGraph
<1>4. n \in rest <=> c \in Callees(Graph, n)
  BY <1>3
<1>5. Callers(Graph, c) \ (Elems(out) \cup {n}) = rest \ {n}
  OBVIOUS
<1> HIDE DEF rest
<1>6. c \in Callees(Graph, n) =>
        /\ Cardinality(rest \ {n}) = inDegree[c] - 1 /\ inDegree[c] # 0
        /\ inDegree[c] = 1 <=> rest \ {n} = {}
  <2> SUFFICES ASSUME c \in Callees(Graph, n)
               PROVE  /\ Cardinality(rest \ {n}) = inDegree[c] - 1 /\ inDegree[c] # 0
                      /\ inDegree[c] = 1 <=> rest \ {n} = {}
    OBVIOUS
  <2>1. Cardinality(rest \ {n}) = inDegree[c] - 1 /\ IsFiniteSet(rest \ {n})
    BY <1>2, <1>4, FS_RemoveElement
  <2>2. inDegree[c] # 0
    BY <1>2, <1>4, FS_EmptySet
  <2>3. Cardinality(rest \ {n}) = 0 <=> rest \ {n} = {}
    BY <2>1, FS_EmptySet
  <2>4. QED
    BY <1>2, <2>1, <2>2, <2>3
<1>7. c \notin Callees(Graph, n) => rest \ {n} = rest
  BY <1>4
<1>8. QED
  BY <1>2, <1>5, <1>6, <1>7 DEF rest

(* One turn of the loop keeps the queue what it is.                        *)
LEMMA PopReadyInv == KahnIInv /\ PopReady => KahnIInv'
<1> SUFFICES ASSUME KahnIInv, PopReady PROVE KahnIInv'
  OBVIOUS
<1> DEFINE n == Head(queue)
           released == {c \in Callees(Graph, n) : inDegree[c] = 1}
<1>1. /\ pc = "order" /\ queue # <<>> /\ out' = Append(out, n)
      /\ inDegree' = [c \in Names |-> IF c \in Callees(Graph, n) THEN inDegree[c] - 1 ELSE inDegree[c]]
      /\ queue' = Tail(queue) \o Sorted(released)
      /\ UNCHANGED <<prog, abi, pc, k, ancestors, cur, hi, placed, slots>>
  BY DEF PopReady, CalleesOf, Graph
<1>2. Graph' = Graph /\ ZpFunctions' = ZpFunctions
  BY <1>1 DEF Graph, ZpFunctions
<1>3. /\ queue \in Seq(Names) /\ out \in Seq(Names)
      /\ Elems(queue) \subseteq ZpFunctions /\ Elems(out) \subseteq ZpFunctions
      /\ Elems(queue) \cap Elems(out) = {} /\ Distinct(queue) /\ Distinct(out)
      /\ \A f \in ZpFunctions : f \in Elems(queue) \cup Elems(out) <=> Callers(Graph, f) \subseteq Elems(out)
      /\ KahnTyped
  BY <1>1 DEF KahnIInv, KahnTyped, QueueInv
<1>4. /\ n \in Elems(queue) /\ Distinct(Tail(queue)) /\ Tail(queue) \in Seq(Names)
      /\ Elems(Tail(queue)) = Elems(queue) \ {n}
  BY <1>1, <1>3, TailOfDistinct
<1>5. n \in ZpFunctions /\ n \in Names /\ n \notin Elems(out) /\ Callers(Graph, n) \subseteq Elems(out)
  BY <1>3, <1>4, KahnGraph
<1>6. released \subseteq ZpFunctions /\ released \in SUBSET Names
  BY <1>3, <1>5, KahnGraph
<1>7. Sorted(released) \in Seq(Names) /\ Elems(Sorted(released)) = released /\ Distinct(Sorted(released))
  BY <1>6, SortedList
<1>8. Elems(out') = Elems(out) \cup {n} /\ Distinct(out') /\ out' \in Seq(Names) /\ Len(out') = Len(out) + 1
  BY <1>1, <1>3, <1>5, ElemsOfAppend, DistinctAppend, AppendProperties
<1>9. ASSUME NEW c \in released PROVE c \notin Elems(queue) \cup Elems(out)
  <2>1. n \in Callers(Graph, c) /\ c \in ZpFunctions /\ c \in Names
    BY <1>3, <1>5, <1>6, KahnGraph
  <2>2. QED
    BY <1>3, <1>5, <2>1
<1> HIDE DEF n, released
<1>10. /\ Elems(queue') = (Elems(queue) \ {n}) \cup released /\ Distinct(queue')
       /\ queue' \in Seq(Names)
  <2> DEFINE s == Tail(queue)
             t == Sorted(released)
  <2>1. /\ s \in Seq(Names) /\ t \in Seq(Names) /\ Distinct(s) /\ Distinct(t)
        /\ Elems(s) = Elems(queue) \ {n} /\ Elems(t) = released /\ queue' = s \o t
    BY <1>1, <1>4, <1>7
  <2>2. Elems(s) \cap Elems(t) = {}
    BY <1>9, <2>1
  <2> HIDE DEF s, t
  <2>3. Elems(s \o t) = Elems(s) \cup Elems(t) /\ Distinct(s \o t) /\ s \o t \in Seq(Names)
    BY <2>1, <2>2, ElemsOfConcat, DistinctConcat, ConcatProperties
  <2>4. QED
    <3>1. Elems(queue') = Elems(s \o t) /\ (Distinct(queue') <=> Distinct(s \o t))
      BY ONLY <2>1
    <3>2. QED
      BY ONLY <2>1, <2>3, <3>1
<1>11. \A c \in Names : inDegree'[c] = Cardinality(Callers(Graph, c) \ Elems(out')) /\ inDegree'[c] \in Nat
  <2> SUFFICES ASSUME NEW c \in Names
               PROVE  inDegree'[c] = Cardinality(Callers(Graph, c) \ Elems(out')) /\ inDegree'[c] \in Nat
    OBVIOUS
  <2> DEFINE rest == Callers(Graph, c) \ Elems(out)
  <2>1. /\ inDegree[c] = Cardinality(rest) /\ inDegree[c] \in Nat
        /\ Callers(Graph, c) \ (Elems(out) \cup {n}) = rest \ {n}
        /\ c \in Callees(Graph, n) => Cardinality(rest \ {n}) = inDegree[c] - 1 /\ inDegree[c] # 0
        /\ c \notin Callees(Graph, n) => rest \ {n} = rest
    BY <1>1, <1>5, CountDown
  <2>2. Cardinality(Callers(Graph, c) \ Elems(out')) = Cardinality(rest \ {n})
    <3>1. Callers(Graph, c) \ Elems(out') = rest \ {n}
      BY <1>8
    <3>2. QED
      BY ONLY <3>1
  <2> HIDE DEF rest
  <2>3. CASE c \in Callees(Graph, n)
    <3>1. inDegree'[c] = inDegree[c] - 1
      BY <1>1, <2>3
    <3>2. QED
      BY <2>1, <2>2, <2>3, <3>1
  <2>4. CASE c \notin Callees(Graph, n)
    <3>1. inDegree'[c] = inDegree[c]
      BY <1>1, <2>4
    <3>2. QED
      BY <2>1, <2>2, <2>4, <3>1
  <2>5. QED
    BY <2>3, <2>4
<1>12. inDegree' \in [Names -> Nat]
  BY <1>1, <1>11
<1>13. ASSUME NEW f \in ZpFunctions
       PROVE  f \in Elems(queue') \cup Elems(out') <=> Callers(Graph, f) \subseteq Elems(out')
  <2>1. f \in Elems(queue') \cup Elems(out') <=> f \in Elems(queue) \cup Elems(out) \cup released
    BY <1>4, <1>8, <1>10
  <2>2. f \in released <=> f \in Callees(Graph, n) /\ inDegree[f] = 1
    BY DEF released
  <2>3. f \in Names
    BY <1>3, KahnGraph
  <2>4. /\ f \in Callees(Graph, n) => (inDegree[f] = 1 <=> Callers(Graph, f) \subseteq Elems(out) \cup {n})
        /\ f \notin Callees(Graph, n) =>
             (Callers(Graph, f) \subseteq Elems(out) \cup {n} <=> Callers(Graph, f) \subseteq Elems(out))
    <3> DEFINE rest == Callers(Graph, f) \ Elems(out)
    <3>1. /\ f \in Callees(Graph, n) => (inDegree[f] = 1 <=> rest \ {n} = {})
          /\ f \notin Callees(Graph, n) => rest \ {n} = rest
      BY <1>1, <1>5, <2>3, CountDown
    <3>2. /\ rest \ {n} = {} <=> Callers(Graph, f) \subseteq Elems(out) \cup {n}
          /\ rest = {} <=> Callers(Graph, f) \subseteq Elems(out)
      OBVIOUS
    <3> HIDE DEF rest
    <3>3. QED
      BY <3>1, <3>2
  <2>5. f \in Callees(Graph, n) => f \notin Elems(queue) \cup Elems(out)
    BY <1>3, <1>5, <2>3, KahnGraph
  <2>6. QED
    BY <1>3, <1>8, <2>1, <2>2, <2>4, <2>5
<1>14. QueueInv'
  <2>1. Elems(queue') \cup Elems(out') \subseteq ZpFunctions
    BY <1>3, <1>5, <1>6, <1>8, <1>10
  <2>2. Elems(queue') \cap Elems(out') = {}
    BY <1>3, <1>4, <1>5, <1>8, <1>9, <1>10
  <2>3. QED
    BY <1>2, <1>8, <1>10, <1>11, <1>13, <2>1, <2>2 DEF QueueInv, Elems, Distinct
<1>15. CallersFirst'
  <2>1. \A i \in 1 .. Len(out) : out'[i] = out[i]
    BY <1>1, <1>3, <1>5, AppendProperties
  <2>2. out'[Len(out) + 1] = n /\ Len(out) \in Nat
    BY <1>1, <1>3, <1>5, AppendProperties, LenProperties
  <2>3. ASSUME NEW i \in 1 .. (Len(out) + 1)
        PROVE  Callers(Graph, out'[i]) \subseteq {out'[j] : j \in 1 .. (i - 1)}
    <3>1. {out'[j] : j \in 1 .. (i - 1)} = {out[j] : j \in 1 .. (i - 1)}
      BY <2>1, <2>2
    <3>2. CASE i \in 1 .. Len(out)
      BY <2>1, <3>1, <3>2 DEF KahnIInv, CallersFirst, Before
    <3>3. CASE i = Len(out) + 1
      <4>1. Elems(out) = {out[j] : j \in 1 .. (i - 1)}
        BY <2>2, <3>3 DEF Elems
      <4>2. QED
        BY <1>5, <2>2, <3>1, <3>3, <4>1
    <3>4. QED
      BY <2>2, <3>2, <3>3
  <2>4. QED
    BY <1>2, <1>8, <2>3 DEF CallersFirst, Before
<1>16. KahnTyped'
  <2>1. k' \in 1 .. (Len(out') + 1)
    <3>1. k' = k /\ k \in 1 .. (Len(out) + 1) /\ Len(out) \in Nat
      BY <1>1, <1>3, LenProperties DEF KahnTyped
    <3>2. QED
      BY <1>8, <3>1
  <2>2. QED
    BY <1>1, <1>3, <1>8, <1>10, <1>12, <2>1 DEF KahnTyped
<1>17. QED
  BY <1>1, <1>14, <1>15, <1>16 DEF KahnIInv, KahnPhase, OutComplete, OrderFound, AncestorsInv, ScanInv, PlacedInv

(* When the queue is empty every function is out: were some left, one of   *)
(* them would have all its callers out, as nothing is on a cycle.          *)
LEMMA EmptyQueueComplete ==
  ASSUME KahnIInv, pc = "order", queue = <<>>
  PROVE  Elems(out) = ZpFunctions /\ Distinct(out) /\ Len(out) = Cardinality(ZpFunctions)
<1>1. /\ KahnTyped /\ abi = SelectedAbi(prog) /\ Elems(out) \subseteq ZpFunctions /\ Distinct(out)
      /\ \A f \in ZpFunctions : f \in Elems(queue) \cup Elems(out) <=> Callers(Graph, f) \subseteq Elems(out)
      /\ out \in Seq(Names)
  BY DEF KahnIInv, KahnPhase, QueueInv, KahnTyped
<1>2. Elems(queue) = {}
  BY DEF Elems
<1> DEFINE U == ZpFunctions \ Elems(out)
<1>3. ASSUME U # {} PROVE FALSE
  <2>1. \A f \in ZpFunctions : f \notin Ancestors(Graph, f)
    BY <1>1, KahnGraph, NoZpCycle DEF Graph, ZpFunctions
  <2>2. PICK f \in U : Callers(Graph, f) \cap U = {}
    <3>1. U \in SUBSET Names /\ Graph \in SUBSET (Names \X Names) /\ \A f \in U : f \notin Ancestors(Graph, f)
      BY <1>1, <2>1, KahnGraph
    <3> HIDE DEF U
    <3>2. QED
      BY <1>3, <3>1, AcyclicHasSource
  <2>3. f \in Names /\ Callers(Graph, f) \subseteq ZpFunctions
    BY <1>1, KahnGraph
  <2>4. Callers(Graph, f) \subseteq Elems(out)
    BY <2>2, <2>3
  <2>5. QED
    BY <1>1, <1>2, <2>4
<1>4. Elems(out) = ZpFunctions
  BY <1>1, <1>3
<1>5. QED
  BY <1>1, <1>4, DistinctLength

LEMMA OrderEndsInv == KahnIInv /\ OrderEnds => KahnIInv'
<1> SUFFICES ASSUME KahnIInv, OrderEnds PROVE KahnIInv'
  OBVIOUS
<1>1. /\ pc = "order" /\ queue = <<>>
      /\ UNCHANGED <<prog, abi, queue, inDegree, out, k, ancestors, cur, hi, placed, slots>>
  BY DEF OrderEnds
<1>2. Elems(out) = ZpFunctions /\ Distinct(out) /\ Len(out) = Cardinality(ZpFunctions)
  BY <1>1, EmptyQueueComplete
<1>3. pc' = "ancestors"
  BY <1>2 DEF OrderEnds
<1>4. KahnTyped' /\ KahnPhase'
  BY <1>1, <1>3 DEF KahnIInv, KahnTyped, KahnPhase, OrderFound
<1>5. CallersFirst' /\ QueueInv' /\ ScanInv' /\ PlacedInv'
  <2>1. out' = out /\ Graph' = Graph
    BY <1>1 DEF Graph
  <2>2. CallersFirst'
    BY <2>1 DEF KahnIInv, CallersFirst, Before
  <2>3. QueueInv' /\ ScanInv' /\ PlacedInv'
    BY <1>3 DEF QueueInv, ScanInv, PlacedInv
  <2>4. QED
    BY <2>2, <2>3
<1>6. OutComplete'
  BY <1>1, <1>2, <1>3 DEF OutComplete, ZpFunctions, Elems, Distinct
<1>7. k = 1
  BY <1>1 DEF KahnIInv, KahnPhase
<1>8. AncestorsInv'
  BY <1>1, <1>3, <1>7 DEF AncestorsInv, OrderFound
<1>9. QED
  BY <1>4, <1>5, <1>6, <1>8 DEF KahnIInv

(* The function at hand, and what was done before it.                      *)
LEMMA AtHand ==
  ASSUME KahnIInv, pc \in OrderFound, k <= Len(out)
  PROVE  /\ k \in 1 .. Len(out) /\ Len(out) \in Nat /\ out[k] \in Names /\ out[k] \in ZpFunctions
         /\ out[k] \notin Before(k) /\ Before(k) \subseteq ZpFunctions
         /\ Callers(Graph, out[k]) \subseteq Before(k)
         /\ \A i \in 1 .. (k - 1) : i \in 1 .. Len(out) /\ out[i] # out[k] /\ out[i] \in Names
         /\ {out[j] : j \in 1 .. k} = Before(k) \cup {out[k]}
         /\ prog.params[out[k]] \in Nat
<1>1. /\ KahnTyped /\ out \in Seq(Names) /\ k \in 1 .. (Len(out) + 1) /\ Elems(out) = ZpFunctions /\ Distinct(out)
      /\ \A i \in 1 .. Len(out) : Callers(Graph, out[i]) \subseteq Before(i)
  BY DEF KahnIInv, KahnTyped, OutComplete, CallersFirst
<1>2. Len(out) \in Nat /\ k \in 1 .. Len(out)
  BY <1>1, LenProperties
<1>3. \A i \in 1 .. Len(out) : out[i] \in Names /\ out[i] \in ZpFunctions
  BY <1>1, ElementOfSeq DEF Elems
<1>4. \A i \in 1 .. (k - 1) : i \in 1 .. Len(out) /\ out[i] # out[k]
  BY <1>1, <1>2 DEF Distinct
<1>5. 1 .. k = (1 .. (k - 1)) \cup {k}
  BY <1>2
<1>6. {out[j] : j \in 1 .. k} = Before(k) \cup {out[k]}
  BY <1>5 DEF Before
<1>7. IsProgram(prog)
  BY <1>1, KahnGraph
<1>8. prog.params[out[k]] \in Nat
  BY <1>2, <1>3, <1>7, ProgramParts
<1>9. QED
  BY <1>1, <1>2, <1>3, <1>4, <1>6, <1>8 DEF Before

(* The order, once found, is left alone.                                   *)
LEMMA OrderKept ==
  ASSUME KahnIInv, UNCHANGED <<prog, abi, queue, inDegree, out>>, pc \in OrderFound, pc' \in OrderFound
  PROVE  CallersFirst' /\ QueueInv' /\ OutComplete'
<1>1. prog' = prog /\ abi' = abi /\ out' = out /\ Graph' = Graph
  BY DEF Graph
<1>2. CallersFirst /\ OutComplete
  BY DEF KahnIInv
<1>3. CallersFirst'
  BY <1>1, <1>2 DEF CallersFirst, Before
<1>4. OutComplete'
  BY <1>1, <1>2 DEF OutComplete, Elems, Distinct, ZpFunctions
<1>5. QueueInv'
  <2>1. pc' # "order"
    BY DEF OrderFound
  <2>2. QED
    BY <2>1 DEF QueueInv
<1>6. QED
  BY <1>3, <1>4, <1>5

(* The sets of the callers are complete when a function is reached.        *)
LEMMA ExpandAncestorsInv == KahnIInv /\ ExpandAncestors => KahnIInv'
<1> SUFFICES ASSUME KahnIInv, ExpandAncestors PROVE KahnIInv'
  OBVIOUS
<1> DEFINE f == out[k]
           set == Callers(Graph, f) \cup UNION {ancestors[c] : c \in Callers(Graph, f)}
<1>1. /\ pc = "ancestors" /\ k <= Len(out) /\ ancestors' = [ancestors EXCEPT ![f] = set] /\ k' = k + 1
      /\ UNCHANGED <<prog, abi, pc, queue, inDegree, out, cur, hi, placed, slots>>
  BY DEF ExpandAncestors, CallersOf, Graph
<1>2. KahnTyped /\ ancestors \in [Names -> SUBSET Names]
  BY DEF KahnIInv, KahnTyped
<1>3. /\ k \in 1 .. Len(out) /\ Len(out) \in Nat /\ f \in Names
      /\ Callers(Graph, f) \subseteq Before(k)
      /\ \A i \in 1 .. (k - 1) : i \in 1 .. Len(out) /\ out[i] # f /\ out[i] \in Names
  BY <1>1, AtHand DEF OrderFound
<1>4. \A i \in 1 .. (k - 1) : ancestors[out[i]] = Ancestors(Graph, out[i])
  BY <1>1 DEF KahnIInv, AncestorsInv
<1>5. \A c \in Callers(Graph, f) : ancestors[c] = Ancestors(Graph, c)
  BY <1>3, <1>4 DEF Before
<1>6. set = Ancestors(Graph, f) /\ set \in SUBSET Names
  <2>1. set = Callers(Graph, f) \cup UNION {Ancestors(Graph, c) : c \in Callers(Graph, f)}
    BY <1>5
  <2>2. Ancestors(Graph, f) = Callers(Graph, f) \cup UNION {Ancestors(Graph, c) : c \in Callers(Graph, f)}
    BY <1>2, <1>3, KahnGraph, AncestorsUnfold
  <2>3. Ancestors(Graph, f) \in SUBSET Names
    BY DEF Ancestors
  <2>4. QED
    BY <2>1, <2>2, <2>3
<1> HIDE DEF f, set
<1>7. ASSUME NEW i \in 1 .. k PROVE ancestors'[out[i]] = Ancestors(Graph, out[i])
  <2>1. CASE i = k
    BY <1>1, <1>2, <1>3, <1>6, <2>1 DEF f
  <2>2. CASE i # k
    <3>1. i \in 1 .. (k - 1)
      BY <1>3, <2>2
    <3>2. ancestors'[out[i]] = ancestors[out[i]]
      BY <1>1, <1>2, <1>3, <3>1
    <3>3. QED
      BY <1>4, <3>1, <3>2
  <2>3. QED
    BY <2>1, <2>2
<1>8. AncestorsInv'
  <2>1. k' - 1 = k
    BY <1>1, <1>3
  <2>2. QED
    BY <1>1, <1>7, <2>1 DEF AncestorsInv, OrderFound, Graph
<1>9. KahnTyped'
  <2>1. k' \in 1 .. (Len(out') + 1)
    BY <1>1, <1>3
  <2>2. ancestors' \in [Names -> SUBSET Names]
    BY <1>1, <1>2, <1>3, <1>6
  <2>3. QED
    BY <1>1, <1>2, <2>1, <2>2 DEF KahnTyped
<1>10. KahnPhase' /\ CallersFirst' /\ QueueInv' /\ OutComplete' /\ ScanInv' /\ PlacedInv'
  <2>1. CallersFirst' /\ QueueInv' /\ OutComplete'
    BY <1>1, OrderKept DEF OrderFound
  <2>2. KahnPhase' /\ ScanInv' /\ PlacedInv'
    BY <1>1 DEF KahnIInv, KahnPhase, OrderFound, ScanInv, PlacedInv
  <2>3. QED
    BY <2>1, <2>2
<1>11. QED
  BY <1>8, <1>9, <1>10 DEF KahnIInv

LEMMA AncestorsEndInv == KahnIInv /\ AncestorsEnd => KahnIInv'
<1> SUFFICES ASSUME KahnIInv, AncestorsEnd PROVE KahnIInv'
  OBVIOUS
<1>1. /\ pc = "ancestors" /\ k > Len(out) /\ pc' = "search" /\ k' = 1
      /\ UNCHANGED <<prog, abi, queue, inDegree, out, ancestors, cur, hi, placed, slots>>
  BY DEF AncestorsEnd
<1>2. Len(out) \in Nat /\ k \in 1 .. (Len(out) + 1)
  BY LenProperties DEF KahnIInv, KahnTyped
<1>3. KahnTyped'
  <2>1. k' \in 1 .. (Len(out') + 1)
    BY <1>1, <1>2
  <2>2. QED
    BY <1>1, <2>1 DEF KahnIInv, KahnTyped, OrderFound
<1>4. KahnPhase' /\ CallersFirst' /\ QueueInv' /\ OutComplete'
  <2>1. CallersFirst' /\ QueueInv' /\ OutComplete'
    BY <1>1, OrderKept DEF OrderFound
  <2>2. KahnPhase'
    BY <1>1 DEF KahnIInv, KahnPhase, OrderFound
  <2>3. QED
    BY <2>1, <2>2
<1>5. AncestorsInv'
  <2>1. \A i \in 1 .. Len(out) : i \in 1 .. (k - 1)
    BY <1>1, <1>2
  <2>2. \A i \in 1 .. Len(out) : ancestors[out[i]] = Ancestors(Graph, out[i])
    BY <1>1, <2>1 DEF KahnIInv, AncestorsInv
  <2>3. QED
    BY <1>1, <2>2 DEF AncestorsInv, OrderFound, Graph
<1>6. placed = {} /\ slots = [f \in Names |-> {}] /\ cur = PoolStart /\ hi = Mid
  BY <1>1 DEF KahnIInv, KahnPhase
<1>7. ScanInv'
  <2>1. \A c \in WindowStarts(Forbidden', Bytes') : PoolStart <= c
    BY MidBounds DEF WindowStarts, FreeStarts
  <2>2. cur' = PoolStart /\ hi' = Mid /\ PoolStart <= cur'
    BY <1>1, <1>6, MidBounds
  <2>3. QED
    BY <2>1, <2>2 DEF ScanInv
<1>8. PlacedInv'
  <2>1. Before(k)' = {}
    BY <1>1 DEF Before
  <2>2. QED
    BY <1>1, <1>6, <2>1 DEF PlacedInv
<1>9. QED
  BY <1>3, <1>4, <1>5, <1>7, <1>8 DEF KahnIInv

-----------------------------------------------------------------------------
(* _find_free_range.                                                       *)

(* A range of addresses with a conflict has a highest one.                 *)
LEMMA HighestConflict ==
  ASSUME NEW lo \in Nat, NEW top \in Nat, NEW S \in SUBSET (lo .. top), S # {}
  PROVE  \E a \in S : \A b \in S : b <= a
<1> DEFINE T == {d \in Nat : \E x \in S : d = top - x}
<1>1. \A x \in S : x \in Nat /\ x <= top /\ top - x \in Nat
  OBVIOUS
<1>2. T \in SUBSET Nat /\ T # {}
  BY <1>1
<1>3. PICK m \in T : \A d \in T : m <= d
  BY <1>2, LeastNatural
<1>4. PICK a \in S : m = top - a
  BY <1>3
<1>5. \A b \in S : b <= a
  BY <1>1, <1>3, <1>4
<1>6. QED
  BY <1>5

(* What the scan knows.                                                    *)
LEMMA ScanFacts ==
  ASSUME KahnIInv, Searching
  PROVE  /\ k \in 1 .. Len(out) /\ Len(out) \in Nat /\ out[k] \in Names /\ out[k] \in ZpFunctions
         /\ Bytes \in Nat /\ cur \in Nat
         /\ Forbidden = UNION {slots[a] : a \in Ancestors(Graph, out[k])}
         /\ \/ /\ hi = Mid /\ PoolStart <= cur
               /\ \A c \in WindowStarts(Forbidden, Bytes) : cur <= c
               /\ Bytes = 0 => cur = PoolStart
            \/ /\ hi = SpillEnd /\ hi # Mid /\ SpillStart <= cur /\ Bytes # 0
               /\ WindowStarts(Forbidden, Bytes) = {}
               /\ \A c \in SpillStarts(Forbidden, Bytes) : cur <= c
<1>1. pc = "search" /\ k <= Len(out)
  BY DEF Searching
<1>2. k \in 1 .. Len(out) /\ Len(out) \in Nat /\ out[k] \in Names /\ out[k] \in ZpFunctions
  BY <1>1, AtHand DEF OrderFound
<1>3. Bytes \in Nat
  BY <1>1, AtHand DEF OrderFound, Bytes
<1>4. cur \in Nat
  BY DEF KahnIInv, KahnTyped
<1>5. Forbidden = UNION {slots[a] : a \in Ancestors(Graph, out[k])}
  BY <1>1, <1>2 DEF KahnIInv, AncestorsInv, OrderFound, Forbidden
<1>6. Mid # SpillEnd
  BY PoolAssumption DEF Mid
<1>7. QED
  BY <1>1, <1>2, <1>3, <1>4, <1>5, <1>6 DEF KahnIInv, ScanInv

(* No start is lost by going on after the highest conflict.                *)
LEMMA SkipKeepsStarts ==
  ASSUME NEW forbidden, NEW n \in Nat, NEW lo \in Nat, NEW top \in Nat, NEW at \in Nat,
         NEW a \in at .. (at + n - 1), a \in forbidden,
         NEW c \in FreeStarts(forbidden, n, lo, top), at <= c
  PROVE  a + 1 <= c
<1>1. c \in Nat /\ (c .. (c + n - 1)) \cap forbidden = {} /\ a \in Nat
  BY DEF FreeStarts
<1>2. a \notin c .. (c + n - 1)
  BY <1>1
<1>3. QED
  BY <1>1, <1>2

LEMMA SkipConflictInv == KahnIInv /\ SkipConflict => KahnIInv'
<1> SUFFICES ASSUME KahnIInv, SkipConflict PROVE KahnIInv'
  OBVIOUS
<1> DEFINE m == CHOOSE a \in Conflicts : \A b \in Conflicts : b <= a
<1>1. /\ Searching /\ pc = "search" /\ Conflicts # {} /\ cur' = 1 + m
      /\ UNCHANGED <<prog, abi, pc, queue, inDegree, out, k, ancestors, hi, placed, slots>>
  BY DEF SkipConflict, Searching
<1>2. Bytes \in Nat /\ cur \in Nat
  BY <1>1, ScanFacts
<1>3. m \in Conflicts
  <2>1. Conflicts \in SUBSET (cur .. (cur + Bytes - 1)) /\ cur + Bytes - 1 \in Nat
    BY <1>1, <1>2 DEF Conflicts, Candidate
  <2>2. \E a \in Conflicts : \A b \in Conflicts : b <= a
    BY <1>1, <1>2, <2>1, HighestConflict
  <2>3. QED
    BY <2>2
<1> HIDE DEF m
<1>4. m \in cur .. (cur + Bytes - 1) /\ m \in Forbidden /\ m \in Nat /\ cur <= cur' /\ Bytes # 0
  BY <1>1, <1>2, <1>3 DEF Conflicts, Candidate
<1>5. Forbidden' = Forbidden /\ Bytes' = Bytes
  BY <1>1 DEF Forbidden, Bytes
<1>6. /\ \A c \in WindowStarts(Forbidden, Bytes) : cur <= c => cur' <= c
      /\ \A c \in SpillStarts(Forbidden, Bytes) : cur <= c => cur' <= c
  <2>1. /\ \A c \in WindowStarts(Forbidden, Bytes) : cur <= c => m + 1 <= c
        /\ \A c \in SpillStarts(Forbidden, Bytes) : cur <= c => m + 1 <= c
    BY <1>2, <1>4, MidBounds, SkipKeepsStarts DEF WindowStarts, SpillStarts
  <2>2. cur' = m + 1
    BY <1>1, <1>4
  <2>3. QED
    BY <2>1, <2>2
<1>7. ScanInv'
  <2>1. \/ /\ hi = Mid /\ PoolStart <= cur
           /\ \A c \in WindowStarts(Forbidden, Bytes) : cur <= c
        \/ /\ hi = SpillEnd /\ SpillStart <= cur
           /\ WindowStarts(Forbidden, Bytes) = {}
           /\ \A c \in SpillStarts(Forbidden, Bytes) : cur <= c
    BY <1>1, ScanFacts
  <2>2. (PoolStart <= cur => PoolStart <= cur') /\ (SpillStart <= cur => SpillStart <= cur')
    BY <1>1, <1>2, <1>4, MidBounds
  <2>3. \/ /\ hi' = Mid /\ PoolStart <= cur'
           /\ \A c \in WindowStarts(Forbidden', Bytes') : cur' <= c
           /\ Bytes' # 0
        \/ /\ hi' = SpillEnd /\ SpillStart <= cur' /\ Bytes' # 0
           /\ WindowStarts(Forbidden', Bytes') = {}
           /\ \A c \in SpillStarts(Forbidden', Bytes') : cur' <= c
    BY <1>1, <1>4, <1>5, <1>6, <2>1, <2>2
  <2>4. QED
    BY <2>3 DEF ScanInv
<1>8. KahnTyped'
  BY <1>1, <1>4 DEF KahnIInv, KahnTyped
<1>9. KahnPhase' /\ CallersFirst' /\ QueueInv' /\ OutComplete' /\ AncestorsInv' /\ PlacedInv'
  <2>1. CallersFirst' /\ QueueInv' /\ OutComplete'
    BY <1>1, OrderKept DEF OrderFound
  <2>2. KahnPhase'
    BY <1>1 DEF KahnIInv, KahnPhase, OrderFound
  <2>3. AncestorsInv' /\ PlacedInv'
    BY <1>1 DEF KahnIInv, AncestorsInv, OrderFound, Graph, PlacedInv, Before
  <2>4. QED
    BY <2>1, <2>2, <2>3
<1>10. QED
  BY <1>7, <1>8, <1>9 DEF KahnIInv

(* What is taken is the lowest free range, of the window if it has one.    *)
LEMMA FoundRange ==
  ASSUME KahnIInv, Searching, Bytes = 0 \/ cur + Bytes <= hi, Conflicts = {}
  PROVE  CanPlace(Forbidden, Bytes) /\ FreeRange(Forbidden, Bytes) = Candidate
<1>1. Bytes \in Nat /\ cur \in Nat
  BY ScanFacts
<1>2. CASE Bytes = 0
  BY <1>1, <1>2 DEF CanPlace, FreeRange, Candidate
<1>3. CASE Bytes # 0
  <2>1. (cur .. (cur + Bytes - 1)) \cap Forbidden = {} /\ cur + Bytes <= hi
    BY <1>3 DEF Conflicts, Candidate
  <2> DEFINE starts == IF WindowStarts(Forbidden, Bytes) # {} THEN WindowStarts(Forbidden, Bytes)
                                                              ELSE SpillStarts(Forbidden, Bytes)
  <2>2. /\ cur \in starts /\ \A c \in starts : cur <= c
        /\ CanPlace(Forbidden, Bytes)
    <3>1. CASE hi = Mid /\ PoolStart <= cur /\ \A c \in WindowStarts(Forbidden, Bytes) : cur <= c
      <4>1. cur \in WindowStarts(Forbidden, Bytes)
        BY <1>1, <2>1, <3>1, MidBounds DEF WindowStarts, FreeStarts
      <4>2. QED
        BY <3>1, <4>1 DEF CanPlace
    <3>2. CASE /\ hi = SpillEnd /\ SpillStart <= cur /\ WindowStarts(Forbidden, Bytes) = {}
               /\ \A c \in SpillStarts(Forbidden, Bytes) : cur <= c
      <4>1. cur \in SpillStarts(Forbidden, Bytes)
        BY <1>1, <2>1, <3>2, MidBounds DEF SpillStarts, FreeStarts
      <4>2. QED
        BY <3>2, <4>1 DEF CanPlace
    <3>3. QED
      BY <3>1, <3>2, ScanFacts
  <2>3. starts \in SUBSET Nat
    BY MidBounds DEF WindowStarts, SpillStarts, FreeStarts
  <2>4. FreeRange(Forbidden, Bytes) = Least(starts) .. (Least(starts) + Bytes - 1)
    BY <1>3 DEF FreeRange
  <2> HIDE DEF starts
  <2>5. Least(starts) \in Nat /\ Least(starts) <= cur /\ cur <= Least(starts)
    BY <2>2, <2>3, LeastMember
  <2>6. Least(starts) = cur
    BY <1>1, <2>5
  <2>7. QED
    BY <2>2, <2>4, <2>6 DEF Candidate
<1>4. QED
  BY <1>2, <1>3

LEMMA TakeRangeInv == KahnIInv /\ TakeRange => KahnIInv'
<1> SUFFICES ASSUME KahnIInv, TakeRange PROVE KahnIInv'
  OBVIOUS
<1> DEFINE f == out[k]
<1>1. /\ Searching /\ pc = "search" /\ k <= Len(out)
      /\ slots' = [slots EXCEPT ![f] = Candidate] /\ placed' = placed \cup {f}
      /\ k' = k + 1 /\ cur' = PoolStart /\ hi' = Mid
      /\ UNCHANGED <<prog, abi, pc, queue, inDegree, out, ancestors>>
  BY DEF TakeRange, Searching, StartScan
<1>2. /\ k \in 1 .. Len(out) /\ Len(out) \in Nat /\ f \in Names /\ Bytes \in Nat /\ cur \in Nat
      /\ {out[j] : j \in 1 .. k} = Before(k) \cup {f}
  BY <1>1, ScanFacts, AtHand DEF OrderFound
<1>3. slots \in [Names -> SUBSET Nat] /\ placed \subseteq Names
  BY DEF KahnIInv, KahnTyped
<1>4. placed = Before(k) /\ \A g \in Names \ placed : slots[g] = {}
  BY <1>1 DEF KahnIInv, PlacedInv
<1>5. Candidate \in SUBSET Nat
  BY <1>2 DEF Candidate
<1> HIDE DEF f
<1>6. PlacedInv'
  <2>1. Before(k)' = {out[j] : j \in 1 .. k}
    BY <1>1, <1>2 DEF Before
  <2>2. \A g \in Names \ placed' : slots'[g] = {}
    BY <1>1, <1>2, <1>3, <1>4
  <2>3. QED
    BY <1>1, <1>2, <1>4, <2>1, <2>2 DEF PlacedInv
<1>7. KahnTyped'
  <2>1. k' \in 1 .. (Len(out') + 1) /\ cur' \in Nat
    BY <1>1, <1>2, MidBounds
  <2>2. QED
    BY <1>1, <1>2, <1>3, <1>5, <2>1 DEF KahnIInv, KahnTyped
<1>8. ScanInv'
  <2>1. \A c \in WindowStarts(Forbidden', Bytes') : PoolStart <= c
    BY MidBounds DEF WindowStarts, FreeStarts
  <2>2. cur' = PoolStart /\ hi' = Mid /\ PoolStart <= cur'
    BY <1>1, MidBounds
  <2>3. QED
    BY <2>1, <2>2 DEF ScanInv
<1>9. KahnPhase' /\ CallersFirst' /\ QueueInv' /\ OutComplete' /\ AncestorsInv'
  <2>1. CallersFirst' /\ QueueInv' /\ OutComplete'
    BY <1>1, OrderKept DEF OrderFound
  <2>2. KahnPhase'
    BY <1>1 DEF KahnIInv, KahnPhase, OrderFound
  <2>3. AncestorsInv'
    BY <1>1 DEF KahnIInv, AncestorsInv, OrderFound, Graph
  <2>4. QED
    BY <2>1, <2>2, <2>3
<1>10. QED
  BY <1>6, <1>7, <1>8, <1>9 DEF KahnIInv

(* A region is exhausted when it has no free range.                        *)
LEMMA NoStartLeft ==
  ASSUME NEW forbidden, NEW n \in Nat, NEW lo \in Nat, NEW top \in Nat, NEW at \in Nat,
         at + n > top, \A c \in FreeStarts(forbidden, n, lo, top) : at <= c
  PROVE  FreeStarts(forbidden, n, lo, top) = {}
BY DEF FreeStarts

LEMMA ExhaustedRegion ==
  ASSUME KahnIInv, Searching, Bytes # 0, cur + Bytes > hi
  PROVE  /\ WindowStarts(Forbidden, Bytes) = {}
         /\ hi # Mid => SpillStarts(Forbidden, Bytes) = {} /\ ~CanPlace(Forbidden, Bytes)
<1>1. Bytes \in Nat /\ cur \in Nat
  BY ScanFacts
<1>2. CASE hi = Mid /\ \A c \in WindowStarts(Forbidden, Bytes) : cur <= c
  BY <1>1, <1>2, MidBounds, NoStartLeft DEF WindowStarts
<1>3. CASE /\ hi = SpillEnd /\ WindowStarts(Forbidden, Bytes) = {}
           /\ \A c \in SpillStarts(Forbidden, Bytes) : cur <= c
  <2>1. SpillStarts(Forbidden, Bytes) = {}
    BY <1>1, <1>3, MidBounds, NoStartLeft DEF SpillStarts
  <2>2. QED
    BY <1>3, <2>1 DEF CanPlace
<1>4. QED
  BY <1>2, <1>3, ScanFacts

LEMMA RegionExhaustedInv == KahnIInv /\ RegionExhausted => KahnIInv'
<1> SUFFICES ASSUME KahnIInv, RegionExhausted PROVE KahnIInv'
  OBVIOUS
<1>1. /\ Searching /\ pc = "search" /\ Bytes # 0 /\ cur + Bytes > hi
      /\ \/ hi = Mid /\ pc' = pc /\ cur' = SpillStart /\ hi' = SpillEnd
         \/ hi # Mid /\ pc' = "SlotAllocationError" /\ UNCHANGED <<cur, hi>>
      /\ UNCHANGED <<prog, abi, queue, inDegree, out, k, ancestors, placed, slots>>
  BY DEF RegionExhausted, Searching
<1>2. KahnTyped'
  BY <1>1, MidBounds DEF KahnIInv, KahnTyped, OrderFound
<1>3. KahnPhase' /\ CallersFirst' /\ QueueInv' /\ OutComplete' /\ PlacedInv'
  <2>1. CallersFirst' /\ QueueInv' /\ OutComplete'
    BY <1>1, OrderKept DEF OrderFound
  <2>2. KahnPhase' /\ PlacedInv'
    BY <1>1 DEF KahnIInv, KahnPhase, OrderFound, PlacedInv, Before
  <2>3. QED
    BY <2>1, <2>2
<1>4. AncestorsInv'
  <2>1. pc \in OrderFound \ {"ancestors"} /\ pc' \in OrderFound \ {"ancestors"}
    BY <1>1 DEF OrderFound
  <2>2. QED
    BY <1>1, <2>1 DEF KahnIInv, AncestorsInv, Graph
<1>5. ScanInv'
  <2>1. CASE hi = Mid /\ pc' = pc /\ cur' = SpillStart /\ hi' = SpillEnd
    <3>1. Forbidden' = Forbidden /\ Bytes' = Bytes
      BY <1>1 DEF Forbidden, Bytes
    <3>2. WindowStarts(Forbidden, Bytes) = {}
      BY <1>1, ExhaustedRegion
    <3>3. \A c \in SpillStarts(Forbidden, Bytes) : SpillStart <= c
      BY MidBounds DEF SpillStarts, FreeStarts
    <3>4. /\ hi' = SpillEnd /\ SpillStart <= cur' /\ Bytes' # 0
          /\ WindowStarts(Forbidden', Bytes') = {}
          /\ \A c \in SpillStarts(Forbidden', Bytes') : cur' <= c
      BY <1>1, <2>1, <3>1, <3>2, <3>3, MidBounds
    <3>5. QED
      BY <3>4 DEF ScanInv
  <2>2. CASE pc' = "SlotAllocationError"
    BY <2>2 DEF ScanInv
  <2>3. QED
    BY <1>1, <2>1, <2>2
<1>6. QED
  BY <1>2, <1>3, <1>4, <1>5 DEF KahnIInv

LEMMA SearchEndsInv == KahnIInv /\ SearchEnds => KahnIInv'
<1> SUFFICES ASSUME KahnIInv, SearchEnds PROVE KahnIInv'
  OBVIOUS
<1>1. /\ pc = "search" /\ k > Len(out) /\ pc' = "locals"
      /\ UNCHANGED <<prog, abi, queue, inDegree, out, k, ancestors, cur, hi, placed, slots>>
  BY DEF SearchEnds
<1>2. KahnTyped'
  BY <1>1 DEF KahnIInv, KahnTyped, OrderFound
<1>3. KahnPhase' /\ CallersFirst' /\ QueueInv' /\ OutComplete' /\ ScanInv'
  <2>1. CallersFirst' /\ QueueInv' /\ OutComplete'
    BY <1>1, OrderKept DEF OrderFound
  <2>2. KahnPhase' /\ ScanInv'
    BY <1>1 DEF KahnIInv, KahnPhase, OrderFound, ScanInv
  <2>3. QED
    BY <2>1, <2>2
<1>4. AncestorsInv'
  <2>1. pc \in OrderFound \ {"ancestors"} /\ pc' \in OrderFound \ {"ancestors"}
    BY <1>1 DEF OrderFound
  <2>2. QED
    BY <1>1, <2>1 DEF KahnIInv, AncestorsInv, Graph
<1>5. placed = ZpFunctions
  <2>1. placed = Before(k) /\ Elems(out) = ZpFunctions
    BY <1>1 DEF KahnIInv, PlacedInv, OutComplete, OrderFound
  <2>2. Len(out) \in Nat /\ k - 1 = Len(out)
    BY <1>1, LenProperties DEF KahnIInv, KahnTyped
  <2>3. QED
    BY <2>1, <2>2 DEF Before, Elems
<1>6. PlacedInv'
  BY <1>1, <1>5 DEF PlacedInv, ZpFunctions
<1>7. QED
  BY <1>2, <1>3, <1>4, <1>6 DEF KahnIInv

-----------------------------------------------------------------------------
LEMMA KahnStepInv == KahnIInv /\ [Next]_vars => KahnIInv'
<1> SUFFICES ASSUME KahnIInv, [Next]_vars PROVE KahnIInv'
  OBVIOUS
<1>1. CASE UNCHANGED vars
  <2>1. /\ prog' = prog /\ abi' = abi /\ pc' = pc /\ queue' = queue /\ inDegree' = inDegree /\ out' = out
        /\ k' = k /\ ancestors' = ancestors /\ cur' = cur /\ hi' = hi /\ placed' = placed /\ slots' = slots
        /\ Graph' = Graph /\ ZpFunctions' = ZpFunctions /\ Before(k)' = Before(k)
        /\ Forbidden' = Forbidden /\ Bytes' = Bytes
    BY <1>1 DEF vars, Graph, ZpFunctions, Before, Forbidden, Bytes
  <2>2. KahnTyped' /\ KahnPhase'
    BY <2>1 DEF KahnIInv, KahnTyped, KahnPhase, OrderFound
  <2>3. CallersFirst'
    BY <2>1 DEF KahnIInv, CallersFirst, Before
  <2>4. QueueInv'
    BY <2>1 DEF KahnIInv, QueueInv, Elems, Distinct
  <2>5. OutComplete'
    BY <2>1 DEF KahnIInv, OutComplete, OrderFound, Elems, Distinct
  <2>6. AncestorsInv' /\ ScanInv' /\ PlacedInv'
    BY <2>1 DEF KahnIInv, AncestorsInv, OrderFound, ScanInv, PlacedInv
  <2>7. QED
    BY <2>2, <2>3, <2>4, <2>5, <2>6 DEF KahnIInv
<1>2. QED
  BY <1>1, SelectAbiInv, PopReadyInv, OrderEndsInv, ExpandAncestorsInv, AncestorsEndInv, SkipConflictInv,
     TakeRangeInv, RegionExhaustedInv, SearchEndsInv DEF Next

(* The inductive invariant of the algorithm.                               *)
THEOREM KahnInvariant == Spec => []KahnIInv
BY KahnInitInv, KahnStepInv, PTL DEF Spec

(* The sets built along the order are the transitive callers, no more.     *)
THEOREM AncestorsAlwaysExact == Spec => []AncestorsExact
<1>1. ASSUME KahnIInv PROVE AncestorsExact
  <2> SUFFICES ASSUME pc = "search", NEW f \in ZpFunctions
               PROVE  ancestors[f] = Ancestors(ZpCalls(prog, abi), f)
    BY DEF AncestorsExact
  <2>1. f \in Elems(out)
    BY <1>1 DEF KahnIInv, OutComplete, OrderFound
  <2>2. PICK i \in 1 .. Len(out) : f = out[i]
    BY <2>1 DEF Elems
  <2>3. QED
    BY <1>1, <2>2 DEF KahnIInv, AncestorsInv, OrderFound, Graph
<1>2. QED
  BY <1>1, KahnInvariant, PTL

-----------------------------------------------------------------------------
(* The plan reads the program with the same operators.                     *)
LEMMA PlanOperators ==
  /\ \A E, f : Plan!Callers(E, f) = Callers(E, f) /\ Plan!Ancestors(E, f) = Ancestors(E, f)
  /\ \A A : Plan!ZpNames(A) = ZpNames(A)
  /\ \A p, A : Plan!ZpCalls(p, A) = ZpCalls(p, A)
  /\ \A p : (Plan!AbiError(p) <=> AbiError(p)) /\ Plan!SelectedAbi(p) = SelectedAbi(p)
  /\ \A S, n : (Plan!CanPlace(S, n) <=> CanPlace(S, n)) /\ Plan!FreeRange(S, n) = FreeRange(S, n)
<1>1. \A E, f : Plan!Callers(E, f) = Callers(E, f)
  BY DEF Plan!Callers, Callers
<1>2. \A E, f : Plan!Ancestors(E, f) = Ancestors(E, f)
  BY <1>1 DEF Plan!Ancestors, Ancestors, Plan!CallerClosed, CallerClosed
<1>3. \A A : Plan!ZpNames(A) = ZpNames(A)
  BY DEF Plan!ZpNames, ZpNames
<1>4. \A p, A : Plan!ZpCalls(p, A) = ZpCalls(p, A)
  BY <1>3 DEF Plan!ZpCalls, ZpCalls
<1>5. \A p, f : Plan!ValidatesZpAbi(p, f) <=> ValidatesZpAbi(p, f)
  BY <1>2 DEF Plan!ValidatesZpAbi, ValidatesZpAbi, Plan!OnCycle, OnCycle, Plan!DefinedCalls, DefinedCalls,
              Plan!AddressTaken, AddressTaken, Plan!Mid, Mid
<1>6. \A p : (Plan!AbiError(p) <=> AbiError(p)) /\ Plan!SelectedAbi(p) = SelectedAbi(p)
  BY <1>5 DEF Plan!AbiError, AbiError, Plan!SelectedAbi, SelectedAbi
<1>7. \A S, n : (Plan!CanPlace(S, n) <=> CanPlace(S, n)) /\ Plan!FreeRange(S, n) = FreeRange(S, n)
  BY DEF Plan!CanPlace, CanPlace, Plan!FreeRange, FreeRange, Plan!WindowStarts, WindowStarts,
         Plan!SpillStarts, SpillStarts, Plan!FreeStarts, FreeStarts, Plan!Least, Least, Plan!Mid, Mid
<1>8. QED
  BY <1>1, <1>2, <1>3, <1>4, <1>6, <1>7

(* How far the algorithm is, as the plan sees it.                          *)
Stage == IF pc \in {"order", "ancestors"} THEN "callgraph" ELSE IF pc = "search" THEN "slots" ELSE pc

LEMMA InitRefines == Init => Plan!PlanInit
BY DEF Init, Plan!PlanInit

(* A step the plan does not see.                                           *)
LEMMA Stutters ==
  ASSUME prog' = prog, abi' = abi, placed' = placed, slots' = slots, Stage' = Stage
  PROVE  UNCHANGED Plan!planVars
BY DEF Plan!planVars, Stage

LEMMA SelectAbiRefines == KahnIInv /\ SelectAbi => Plan!SelectAbi
<1> SUFFICES ASSUME KahnIInv, SelectAbi PROVE Plan!SelectAbi
  OBVIOUS
<1>1. pc = "select_abi" /\ prog' = prog /\ placed' = placed /\ slots' = slots
  BY DEF SelectAbi
<1>2. IF AbiError(prog) THEN pc' = "AbiSelectionError" /\ abi' = abi
                        ELSE pc' = "order" /\ abi' = SelectedAbi(prog)
  BY DEF SelectAbi
<1>3. QED
  BY <1>1, <1>2, PlanOperators DEF Plan!SelectAbi

LEMMA AncestorsEndRefines == KahnIInv /\ AncestorsEnd => Plan!BuildCallgraph
<1> SUFFICES ASSUME KahnIInv, AncestorsEnd PROVE Plan!BuildCallgraph
  OBVIOUS
<1>1. /\ pc = "ancestors" /\ pc' = "search" /\ prog' = prog /\ abi' = abi /\ placed' = placed /\ slots' = slots
  BY DEF AncestorsEnd
<1>2. IsProgram(prog) /\ abi = SelectedAbi(prog)
  BY <1>1, KahnGraph DEF KahnIInv, KahnPhase, OrderFound
<1>3. \A f \in ZpNames(abi) : f \notin Ancestors(ZpCalls(prog, abi), f)
  BY <1>2, NoZpCycle
<1>4. \A f \in Plan!ZpNames(abi) : f \notin Plan!Ancestors(Plan!ZpCalls(prog, abi), f)
  BY <1>3, PlanOperators
<1>5. QED
  BY <1>1, <1>4 DEF Plan!BuildCallgraph

(* The function at hand is one the plan may place next, and the bytes it   *)
(* must avoid are those of the plan.                                       *)
LEMMA AtHandReady ==
  ASSUME KahnIInv, Searching
  PROVE  /\ out[k] \in Names /\ Plan!SlotsReady(out[k])
         /\ Plan!SlotsForbidden(out[k]) = Forbidden
<1>1. pc = "search" /\ k <= Len(out)
  BY DEF Searching
<1>2. /\ out[k] \in Names /\ out[k] \in ZpFunctions /\ out[k] \notin Before(k)
      /\ Callers(Graph, out[k]) \subseteq Before(k)
  BY <1>1, AtHand DEF OrderFound
<1>3. placed = Before(k)
  BY <1>1 DEF KahnIInv, PlacedInv
<1>4. Forbidden = UNION {slots[a] : a \in Ancestors(Graph, out[k])}
  BY ScanFacts
<1>5. /\ Plan!ZpNames(abi) = ZpFunctions /\ Plan!ZpCalls(prog, abi) = Graph
      /\ Plan!Callers(Graph, out[k]) = Callers(Graph, out[k])
      /\ Plan!Ancestors(Graph, out[k]) = Ancestors(Graph, out[k])
  BY PlanOperators DEF ZpFunctions, Graph
<1>6. Plan!SlotsReady(out[k])
  BY <1>2, <1>3, <1>5 DEF Plan!SlotsReady
<1>7. Plan!SlotsForbidden(out[k]) = Forbidden
  BY <1>4, <1>5 DEF Plan!SlotsForbidden
<1>8. QED
  BY <1>2, <1>6, <1>7

LEMMA TakeRangeRefines == KahnIInv /\ TakeRange => \E f \in Names : Plan!AllocateSlots(f)
<1> SUFFICES ASSUME KahnIInv, TakeRange PROVE \E f \in Names : Plan!AllocateSlots(f)
  OBVIOUS
<1>1. /\ Searching /\ pc = "search" /\ pc' = pc /\ prog' = prog /\ abi' = abi
      /\ Bytes = 0 \/ cur + Bytes <= hi
      /\ Conflicts = {}
      /\ slots' = [slots EXCEPT ![out[k]] = Candidate] /\ placed' = placed \cup {out[k]}
  BY DEF TakeRange, Searching
<1>2. CanPlace(Forbidden, Bytes) /\ FreeRange(Forbidden, Bytes) = Candidate
  BY <1>1, FoundRange
<1>3. /\ Plan!CanPlace(Plan!SlotsForbidden(out[k]), prog.params[out[k]])
      /\ Plan!FreeRange(Plan!SlotsForbidden(out[k]), prog.params[out[k]]) = Candidate
      /\ out[k] \in Names /\ Plan!SlotsReady(out[k])
  BY <1>1, <1>2, AtHandReady, PlanOperators DEF Bytes
<1>4. Plan!AllocateSlots(out[k])
  BY <1>1, <1>3 DEF Plan!AllocateSlots
<1>5. QED
  BY <1>3, <1>4

LEMMA RegionExhaustedRefines ==
  KahnIInv /\ RegionExhausted => (\E f \in Names : Plan!AllocateSlots(f)) \/ UNCHANGED Plan!planVars
<1> SUFFICES ASSUME KahnIInv, RegionExhausted
             PROVE  (\E f \in Names : Plan!AllocateSlots(f)) \/ UNCHANGED Plan!planVars
  OBVIOUS
<1>1. /\ Searching /\ pc = "search" /\ Bytes # 0 /\ cur + Bytes > hi
      /\ prog' = prog /\ abi' = abi /\ placed' = placed /\ slots' = slots
      /\ hi = Mid => pc' = pc
      /\ hi # Mid => pc' = "SlotAllocationError"
  BY DEF RegionExhausted, Searching
<1>2. CASE hi = Mid
  <2>1. Stage' = Stage
    BY <1>1, <1>2 DEF Stage
  <2>2. QED
    BY <1>1, <2>1, Stutters
<1>3. CASE hi # Mid
  <2>1. ~CanPlace(Forbidden, Bytes)
    BY <1>1, <1>3, ExhaustedRegion
  <2>2. /\ ~Plan!CanPlace(Plan!SlotsForbidden(out[k]), prog.params[out[k]])
        /\ out[k] \in Names /\ Plan!SlotsReady(out[k])
    BY <1>1, <2>1, AtHandReady, PlanOperators DEF Bytes
  <2>3. Plan!AllocateSlots(out[k])
    BY <1>1, <1>3, <2>2 DEF Plan!AllocateSlots
  <2>4. QED
    BY <2>2, <2>3
<1>4. QED
  BY <1>2, <1>3

LEMMA SearchEndsRefines == KahnIInv /\ SearchEnds => Plan!SlotsDone
<1> SUFFICES ASSUME KahnIInv, SearchEnds PROVE Plan!SlotsDone
  OBVIOUS
<1>1. /\ pc = "search" /\ pc' = "locals" /\ prog' = prog /\ abi' = abi /\ placed' = placed /\ slots' = slots
  BY DEF SearchEnds
<1>2. placed = ZpFunctions
  BY SearchEndsInv, <1>1 DEF KahnIInv, PlacedInv, ZpFunctions
<1>3. Plan!ZpNames(abi) = ZpFunctions
  BY PlanOperators DEF ZpFunctions
<1>4. QED
  BY <1>1, <1>2, <1>3 DEF Plan!SlotsDone

LEMMA StepRefines == KahnIInv /\ [Next]_vars => [Plan!PlanNext]_(Plan!planVars)
<1> SUFFICES ASSUME KahnIInv, [Next]_vars PROVE Plan!PlanNext \/ UNCHANGED Plan!planVars
  OBVIOUS
<1>1. CASE SelectAbi
  BY <1>1, SelectAbiRefines DEF Plan!PlanNext
<1>2. CASE AncestorsEnd
  BY <1>2, AncestorsEndRefines DEF Plan!PlanNext
<1>3. CASE TakeRange
  BY <1>3, TakeRangeRefines DEF Plan!PlanNext
<1>4. CASE RegionExhausted
  BY <1>4, RegionExhaustedRefines DEF Plan!PlanNext
<1>5. CASE SearchEnds
  BY <1>5, SearchEndsRefines DEF Plan!PlanNext
<1>6. CASE PopReady
  <2>1. prog' = prog /\ abi' = abi /\ placed' = placed /\ slots' = slots /\ pc' = pc
    BY <1>6 DEF PopReady
  <2>2. QED
    BY <2>1, Stutters DEF Stage
<1>7. CASE OrderEnds
  <2>1. pc = "order" /\ prog' = prog /\ abi' = abi /\ placed' = placed /\ slots' = slots
    BY <1>7 DEF OrderEnds
  <2>2. pc' = "ancestors"
    BY <1>7, EmptyQueueComplete DEF OrderEnds
  <2>3. QED
    BY <2>1, <2>2, Stutters DEF Stage
<1>8. CASE ExpandAncestors
  <2>1. prog' = prog /\ abi' = abi /\ placed' = placed /\ slots' = slots /\ pc' = pc
    BY <1>8 DEF ExpandAncestors
  <2>2. QED
    BY <2>1, Stutters DEF Stage
<1>9. CASE SkipConflict
  <2>1. prog' = prog /\ abi' = abi /\ placed' = placed /\ slots' = slots /\ pc' = pc
    BY <1>9 DEF SkipConflict
  <2>2. QED
    BY <2>1, Stutters DEF Stage
<1>10. CASE UNCHANGED vars
  <2>1. prog' = prog /\ abi' = abi /\ placed' = placed /\ slots' = slots /\ pc' = pc
    BY <1>10 DEF vars
  <2>2. QED
    BY <2>1, Stutters DEF Stage
<1>11. QED
  BY <1>1, <1>2, <1>3, <1>4, <1>5, <1>6, <1>7, <1>8, <1>9, <1>10 DEF Next

(* The queue, the sets and the scan of the code give a plan of ZpSlots:    *)
(* every step is one of the plan, or one the plan does not see.            *)
THEOREM AlgorithmImplementsPlan == Spec => ImplementsPlan
BY KahnInvariant, InitRefines, StepRefines, PTL DEF Spec, ImplementsPlan, Plan!PlanSpec
=============================================================================
