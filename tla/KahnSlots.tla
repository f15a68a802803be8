----------------------------- MODULE KahnSlots -----------------------------
(***************************************************************************)
(* allocate_zp_slots step by step: Kahn's algorithm with its queue and     *)
(* in-degrees, the ancestor sets built along the order, and the scan of    *)
(* _find_free_range that skips past the highest conflict. It implements    *)
(* ZpSlots (up to the point where the local pools are allocated), which    *)
(* has the transitive closure and the lowest free range by definition.     *)
(***************************************************************************)
EXTENDS ZpProgram, Integers, Sequences

CONSTANT Programs  \* the programs considered

ASSUME ProgramsAssumption == \A p \in Programs : IsProgram(p)

(* Names are sorted where the code iterates over a set. *)
ASSUME OrderAssumption == Names \subseteq Nat

VARIABLES
  prog, abi,
  pc,         \* "select_abi", "order", "ancestors", "search", "locals" or an error
  queue,      \* deque of functions all of whose callers are in out
  inDegree,   \* callers not yet in out
  out,        \* the order found so far
  k,          \* position in out of the function at hand
  ancestors,  \* transitive callers of the functions before k
  cur,        \* candidate start of the scan
  hi,         \* end of the region being scanned
  placed, slots

vars == <<prog, abi, pc, queue, inDegree, out, k, ancestors, cur, hi, placed, slots>>

Plan == INSTANCE ZpSlots WITH
  phase <- IF pc \in {"order", "ancestors"} THEN "callgraph"
           ELSE IF pc = "search" THEN "slots" ELSE pc,
  pooled <- {}, pools <- [f \in Names |-> {}]

CalleesOf(n) == Callees(ZpCalls(prog, abi), n)
CallersOf(n) == Callers(ZpCalls(prog, abi), n)
ZpFunctions == ZpNames(abi)

(* The members of S in ascending order. *)
Sorted(S) ==
  CHOOSE s \in [1 .. Cardinality(S) -> S] : \A i, j \in DOMAIN s : i < j => s[i] < s[j]

Init ==
  /\ prog \in Programs
  /\ abi = [f \in Names |-> "soft"]
  /\ pc = "select_abi"
  /\ queue = <<>> /\ inDegree = [f \in Names |-> 0] /\ out = <<>>
  /\ k = 1 /\ ancestors = [f \in Names |-> {}]
  /\ cur = PoolStart /\ hi = Mid
  /\ placed = {} /\ slots = [f \in Names |-> {}]

-----------------------------------------------------------------------------
(* select_abi, then the in-degrees and the first queue. *)
SelectAbi ==
  /\ pc = "select_abi"
  /\ IF AbiError(prog)
       THEN pc' = "AbiSelectionError" /\ UNCHANGED <<abi, inDegree, queue>>
       ELSE LET chosen == SelectedAbi(prog)
                degree == [f \in Names |-> Cardinality(Callers(ZpCalls(prog, chosen), f))]
            IN  /\ abi' = chosen /\ inDegree' = degree
                /\ queue' = Sorted({f \in ZpNames(chosen) : degree[f] = 0})
                /\ pc' = "order"
  /\ UNCHANGED <<prog, out, k, ancestors, cur, hi, placed, slots>>

(* One turn of the loop of _topological_order. *)
PopReady ==
  /\ pc = "order" /\ queue # <<>>
  /\ LET n == Head(queue)
         released == {c \in CalleesOf(n) : inDegree[c] = 1}
     IN  /\ out' = Append(out, n)
         /\ inDegree' = [c \in Names |-> IF c \in CalleesOf(n) THEN inDegree[c] - 1 ELSE inDegree[c]]
         /\ queue' = Tail(queue) \o Sorted(released)
  /\ UNCHANGED <<prog, abi, pc, k, ancestors, cur, hi, placed, slots>>

(* The queue is empty: a function left out is on a cycle. *)
OrderEnds ==
  /\ pc = "order" /\ queue = <<>>
  /\ pc' = IF Len(out) # Cardinality(ZpFunctions) THEN "CycleError" ELSE "ancestors"
  /\ UNCHANGED <<prog, abi, queue, inDegree, out, k, ancestors, cur, hi, placed, slots>>

(* Mutant: the callers' own callers are forgotten. *)
ExpandDirect ==
  /\ pc = "ancestors" /\ k <= Len(out)
  /\ ancestors' = [ancestors EXCEPT ![out[k]] = CallersOf(out[k])]
  /\ k' = k + 1
  /\ UNCHANGED <<prog, abi, pc, queue, inDegree, out, cur, hi, placed, slots>>

(* _build_callgraph: the callers' sets are complete when a node is reached. *)
ExpandAncestors ==
  /\ pc = "ancestors" /\ k <= Len(out)
  /\ ancestors' = [ancestors EXCEPT ![out[k]] =
                     CallersOf(out[k]) \cup UNION {ancestors[c] : c \in CallersOf(out[k])}]
  /\ k' = k + 1
  /\ UNCHANGED <<prog, abi, pc, queue, inDegree, out, cur, hi, placed, slots>>

AncestorsEnd ==
  /\ pc = "ancestors" /\ k > Len(out)
  /\ pc' = "search" /\ k' = 1
  /\ UNCHANGED <<prog, abi, queue, inDegree, out, ancestors, cur, hi, placed, slots>>

-----------------------------------------------------------------------------
(* _find_free_range(forbidden, n_bytes, lo, hi) for the function at hand.  *)

Bytes == prog.params[out[k]]
(* Mutant: only direct callers are avoided. *)
ForbiddenDirect == UNION {slots[a] : a \in CallersOf(out[k])}

Forbidden == UNION {slots[a] : a \in ancestors[out[k]]}
Candidate == cur .. (cur + Bytes - 1)
Conflicts == Candidate \cap Forbidden

Searching == pc = "search" /\ k <= Len(out)
StartScan(n) == k' = n /\ cur' = PoolStart /\ hi' = Mid

(* Mutant: the scan resumes at the conflict, not after it. *)
SkipToConflict ==
  /\ Searching /\ cur + Bytes <= hi /\ Conflicts # {}
  /\ cur' = CHOOSE a \in Conflicts : \A b \in Conflicts : b <= a
  /\ UNCHANGED <<prog, abi, pc, queue, inDegree, out, k, ancestors, hi, placed, slots>>

(* The last conflict seen is the highest one: the scan goes on after it.   *)
SkipConflict ==
  /\ Searching /\ cur + Bytes <= hi /\ Conflicts # {}
  /\ cur' = 1 + CHOOSE a \in Conflicts : \A b \in Conflicts : b <= a
  /\ UNCHANGED <<prog, abi, pc, queue, inDegree, out, k, ancestors, hi, placed, slots>>

(* A free range is found; a function without parameters needs no search.   *)
TakeRange ==
  /\ Searching
  /\ Bytes = 0 \/ cur + Bytes <= hi
  /\ Conflicts = {}
  /\ slots' = [slots EXCEPT ![out[k]] = Candidate]
  /\ placed' = placed \cup {out[k]}
  /\ StartScan(k + 1)
  /\ UNCHANGED <<prog, abi, pc, queue, inDegree, out, ancestors>>

(* No fit in the window: the spill region is scanned next, then it is an error. *)
RegionExhausted ==
  /\ Searching /\ Bytes # 0 /\ cur + Bytes > hi
  /\ IF hi = Mid
       THEN pc' = pc /\ cur' = SpillStart /\ hi' = SpillEnd
       ELSE pc' = "SlotAllocationError" /\ UNCHANGED <<cur, hi>>
  /\ UNCHANGED <<prog, abi, queue, inDegree, out, k, ancestors, placed, slots>>

SearchEnds ==
  /\ pc = "search" /\ k > Len(out)
  /\ pc' = "locals"
  /\ UNCHANGED <<prog, abi, queue, inDegree, out, k, ancestors, cur, hi, placed, slots>>

Next ==
  \/ SelectAbi
  \/ PopReady
  \/ OrderEnds
  \/ ExpandAncestors
  \/ AncestorsEnd
  \/ SkipConflict
  \/ TakeRange
  \/ RegionExhausted
  \/ SearchEnds

(* One thread of control that runs to the end. *)
Spec == Init /\ [][Next]_vars /\ WF_vars(Next)

-----------------------------------------------------------------------------
(* The order, the ancestor sets and the scan give exactly a plan of ZpSlots: *)
(* callers first, ranges avoiding every transitive caller, lowest fit.     *)
ImplementsPlan == Plan!PlanSpec

(* The scan and the queue always come to an end, in a plan or in an error. *)
AllocationEnds == <>(pc \in {"locals"} \cup Plan!Errors)

(* The sets built along the order are the transitive callers, no more: a   *)
(* spurious ancestor would cost zero page, a missing one a clobbered slot. *)
AncestorsExact ==
  pc = "search" => \A f \in ZpFunctions : ancestors[f] = Ancestors(ZpCalls(prog, abi), f)
=============================================================================
