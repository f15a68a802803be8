-------------------------- MODULE ZpRuntimeProofs ---------------------------
(***************************************************************************)
(* Proofs about the code that runs with the memory plan, for every program *)
(* and pool and any depth of calls: no activation loses a byte of its body *)
(* that it still needs, and the parameters of the functions the allocators *)
(* see completely are never overwritten.                                   *)
(***************************************************************************)
EXTENDS ZpRuntime, ZpSlotsProofs, SequenceTheorems

Frames == [fn : Names, how : {"zp", "soft"}, live : SUBSET Addresses,
           saved : UNION {[A -> Nat] : A \in SUBSET Addresses}]

StackTyped ==
  /\ stack \in Seq(Frames) /\ Len(stack) <= MaxDepth
  /\ mem \in [Addresses -> Nat]
  /\ stack # <<>> => phase = "done"

(* A frame agrees with its function: what it saved, and what it may still  *)
(* need while it runs and while it waits for a callee.                     *)
FramesInv ==
  \A i \in 1 .. Len(stack) :
    /\ stack[i].fn \in prog.defined
    /\ stack[i].how = "zp" => abi[stack[i].fn] = "zp"
    /\ DOMAIN stack[i].saved = SavedBytes(stack[i].fn)
    /\ stack[i].live \subseteq slots[stack[i].fn] \cup BodyBytes(stack[i].fn)
    /\ i < Len(stack) => stack[i].live \subseteq slots[stack[i].fn] \cup KeptBytes(stack[i].fn)

(* Everything above a function with a pool has a pool, and is below it in  *)
(* the graph the allocator used.                                           *)
ChainInv ==
  \A i, j \in 1 .. Len(stack) :
    i < j /\ stack[i].fn \in pooled =>
      /\ stack[j].fn \in pooled
      /\ stack[i].fn \in Ancestors(EligibleCalls(prog, abi), stack[j].fn)

RunIInv == PlanIInv /\ StackTyped /\ FramesInv /\ ChainInv /\ LocalsKept /\ ParamsKept

-----------------------------------------------------------------------------
(* Restored: without a saver the byte itself counts.                       *)
LEMMA RestoredNone ==
  ASSUME NEW frames, NEW m, NEW i, NEW a, Savers(frames, i, a) = {}
  PROVE  Restored(frames, m, i, a) = m[a]
BY DEF Restored

(* Restored: the lowest saver decides.                                     *)
LEMMA RestoredLowest ==
  ASSUME NEW frames, NEW m, NEW i \in Nat, NEW a,
         NEW j \in Savers(frames, i, a), \A x \in Savers(frames, i, a) : j <= x
  PROVE  Restored(frames, m, i, a) = frames[j].saved[a]
<1> DEFINE S == Savers(frames, i, a)
<1>1. S \in SUBSET Nat
  BY DEF Savers
<1> HIDE DEF S
<1>2. j \in S /\ \A x \in S : j <= x
  BY DEF S
<1>3. Least(S) \in S /\ \A x \in S : Least(S) <= x
  BY <1>2 DEF Least
<1>4. Least(S) = j
  <2>1. Least(S) \in Nat /\ j \in Nat /\ Least(S) <= j /\ j <= Least(S)
    BY <1>1, <1>2, <1>3
  <2>2. QED
    BY <2>1
<1>5. QED
  BY <1>2, <1>4 DEF Restored, S

(* Restored: there is a lowest saver if there is one.                      *)
LEMMA LowestSaver ==
  ASSUME NEW frames, NEW i \in Nat, NEW a, Savers(frames, i, a) # {}
  PROVE  \E j \in Savers(frames, i, a) : \A x \in Savers(frames, i, a) : j <= x
<1>1. Savers(frames, i, a) \in SUBSET Nat
  BY DEF Savers
<1>2. QED
  BY <1>1, LeastNatural

(* Where a body's bytes are.                                               *)
LEMMA BodyPlaces ==
  ASSUME RunIInv, NEW f \in Names
  PROVE  /\ BodyBytes(f) \subseteq Addresses /\ KeptBytes(f) \subseteq BodyBytes(f)
         /\ f \in pooled => BodyBytes(f) = pools[f] /\ KeptBytes(f) = pools[f]
         /\ f \notin pooled => KeptBytes(f) \subseteq CalleeSaved
                               /\ BodyBytes(f) \subseteq CallerSaved \cup CalleeSaved
         /\ SavedBytes(f) = BodyBytes(f) \cap CalleeSaved
         /\ slots[f] \subseteq Addresses /\ slots[f] \cap CalleeSaved = {}
         /\ pools[f] \subseteq Addresses /\ pools[f] \cap CalleeSaved = {}
<1>1. CallerSaved \cup CalleeSaved \subseteq Addresses
  BY MidBounds DEF CallerSaved, CalleeSaved, Addresses
<1>2. /\ slots[f] \subseteq Addresses /\ slots[f] \cap CalleeSaved = {}
      /\ pools[f] \subseteq Addresses /\ pools[f] \cap CalleeSaved = {}
  BY DEF RunIInv, PlanIInv, AllocIInv, AllocTyped, RangeInv
<1>3. AcrossBytes(f) \subseteq CalleeSaved
  BY DEF AcrossBytes, LowestFree
<1>4. TempBytes(f) \subseteq CallerSaved \cup CalleeSaved
  BY DEF TempBytes, LowestFree
<1>5. QED
  BY <1>1, <1>2, <1>3, <1>4 DEF BodyBytes, KeptBytes, SavedBytes

(* The plan is complete once the program runs.                             *)
LEMMA PlanComplete ==
  ASSUME PlanIInv, phase = "done"
  PROVE  placed = ZpNames(abi) /\ pooled = Eligible(prog, abi) /\ IsProgram(prog)
BY DEF PlanIInv, AllocIInv, AllocTyped, AllocPhase

(* A chain of pools ends at the function running: what it calls is below   *)
(* all of them.                                                            *)
LEMMA CalleeBelow ==
  ASSUME RunIInv, phase = "done", stack # <<>>, NEW f \in Names, <<Top.fn, f>> \in prog.calls,
         NEW i \in 1 .. Len(stack), stack[i].fn \in pooled
  PROVE  /\ Top.fn \in pooled /\ Top.fn \notin prog.indirect
         /\ f \in prog.defined => f \in pooled /\ stack[i].fn \in Ancestors(EligibleCalls(prog, abi), f)
         /\ f \in ZpNames(abi) => f \in CoexistingZp(prog, abi, stack[i].fn)
         /\ f \notin prog.defined => f \in ZpNames(abi)
         /\ stack[i].fn \in Ancestors(prog.calls, f)
<1> DEFINE g == stack[i].fn
           t == Top.fn
           E == EligibleCalls(prog, abi)
           D == DefinedCalls(prog)
<1>1. IsProgram(prog) /\ pooled = Eligible(prog, abi) /\ pooled \subseteq Names
  BY PlanComplete DEF RunIInv, PlanIInv, AllocIInv, AllocTyped
<1>2. Len(stack) \in 1 .. Len(stack) /\ t = stack[Len(stack)].fn
  BY DEF RunIInv, StackTyped, Top
<1>3. t \in pooled /\ (t = g \/ g \in Ancestors(E, t))
  BY <1>2 DEF RunIInv, ChainInv
<1> HIDE DEF t, g
<1>4. <<t, f>> \in prog.calls /\ t \in Names /\ g \in Names /\ g \in pooled
  BY <1>1, <1>3 DEF t, g
<1>5. /\ f \in prog.defined => f \in pooled /\ <<t, f>> \in E
      /\ f \notin prog.defined => abi[f] = "zp"
      /\ t \notin prog.indirect
  BY <1>1, <1>3, <1>4, EligibleCallee
<1>6. f \in prog.defined => g \in Ancestors(E, f)
  <2> SUFFICES ASSUME f \in prog.defined PROVE g \in Ancestors(E, f)
    OBVIOUS
  <2>1. t \in Ancestors(E, f)
    BY <1>4, <1>5, CallerIsAncestor
  <2>2. Ancestors(E, t) \subseteq Ancestors(E, f)
    BY <1>1, <2>1, GraphTypes, AncestorsTransitive
  <2>3. QED
    BY <1>3, <2>1, <2>2
<1>7. /\ Ancestors(E, f) \subseteq Ancestors(D, f) /\ Ancestors(E, t) \subseteq Ancestors(D, t)
      /\ Ancestors(D, t) \subseteq Ancestors(prog.calls, t)
  BY <1>1, <1>4, GraphTypes, AncestorsMonotone DEF DefinedCalls
<1>8. g \in Ancestors(prog.calls, f)
  <2>1. t \in Ancestors(prog.calls, f)
    BY <1>4, CallerIsAncestor
  <2>2. Ancestors(prog.calls, t) \subseteq Ancestors(prog.calls, f)
    BY <1>1, <2>1, ProgramParts, AncestorsTransitive
  <2>3. QED
    BY <1>3, <1>7, <2>1, <2>2
<1>9. f \in ZpNames(abi) => f \in CoexistingZp(prog, abi, g)
  <2>1. CASE f \in prog.defined
    <3>1. f \in Descendants(D, g)
      BY <1>6, <1>7, <2>1 DEF Descendants
    <3>2. QED
      BY <3>1 DEF CoexistingZp
  <2>2. CASE f \notin prog.defined
    <3>1. t \in {g} \cup Descendants(D, g)
      BY <1>3, <1>4, <1>7 DEF Descendants
    <3>2. QED
      BY <1>4, <2>2, <3>1 DEF CoexistingZp
  <2>3. QED
    BY <2>1, <2>2
<1>10. f \notin prog.defined => f \in ZpNames(abi)
  BY <1>5 DEF ZpNames
<1>11. QED
  BY <1>3, <1>5, <1>6, <1>8, <1>9, <1>10 DEF g, t

-----------------------------------------------------------------------------
(* The stack as a sequence of frames.                                      *)
LEMMA PushShape ==
  ASSUME NEW S, NEW s \in Seq(S), NEW x \in S
  PROVE  /\ Append(s, x) \in Seq(S) /\ Len(Append(s, x)) = Len(s) + 1 /\ Len(s) \in Nat
         /\ \A i \in 1 .. Len(s) : Append(s, x)[i] = s[i]
         /\ Append(s, x)[Len(s) + 1] = x
BY AppendProperties, LenProperties

LEMMA PopShape ==
  ASSUME NEW S, NEW s \in Seq(S), s # <<>>
  PROVE  /\ SubSeq(s, 1, Len(s) - 1) \in Seq(S)
         /\ Len(SubSeq(s, 1, Len(s) - 1)) = Len(s) - 1 /\ Len(s) \in Nat \ {0}
         /\ \A i \in 1 .. (Len(s) - 1) : SubSeq(s, 1, Len(s) - 1)[i] = s[i]
<1> DEFINE k == Len(s) - 1
<1>1. Len(s) \in Nat \ {0} /\ \A i \in 1 .. k : s[i] \in S
  BY EmptySeq, LenProperties, ElementOfSeq
<1>2. k \in Nat /\ k \in Int /\ 1 \in Int
  BY <1>1
<1> HIDE DEF k
<1>3. /\ SubSeq(s, 1, k) \in Seq(S) /\ Len(SubSeq(s, 1, k)) = IF 1 <= k THEN k - 1 + 1 ELSE 0
      /\ \A i \in 1 .. (k - 1 + 1) : SubSeq(s, 1, k)[i] = s[1 + i - 1]
  BY <1>1, <1>2, SubSeqProperties
<1>4. Len(SubSeq(s, 1, k)) = k /\ \A i \in 1 .. k : SubSeq(s, 1, k)[i] = s[i]
  BY <1>2, <1>3
<1>5. QED
  BY <1>1, <1>3, <1>4 DEF k

(* What a running function still needs when it makes a call.               *)
LEMMA BelowShape ==
  ASSUME RunIInv
  PROVE  /\ Below \in Seq(Frames) /\ Len(Below) = Len(stack) /\ Len(stack) \in Nat
         /\ \A i \in 1 .. Len(stack) :
              /\ Below[i].fn = stack[i].fn /\ Below[i].how = stack[i].how
              /\ Below[i].saved = stack[i].saved
              /\ Below[i].live \subseteq stack[i].live
              /\ Below[i].live \subseteq slots[stack[i].fn] \cup KeptBytes(stack[i].fn)
<1> DEFINE n == Len(stack)
<1>1. stack \in Seq(Frames) /\ n \in Nat
  BY LenProperties DEF RunIInv, StackTyped
<1>2. CASE stack = <<>>
  BY <1>1, <1>2 DEF Below
<1>3. CASE stack # <<>>
  <2>1. n \in 1 .. n /\ \A i \in 1 .. n : stack[i] \in Frames
    BY <1>1, <1>3, EmptySeq, ElementOfSeq
  <2>2. Below = [stack EXCEPT ![n] = Suspended]
    BY <1>3 DEF Below
  <2>3. /\ Suspended \in Frames
        /\ Suspended.fn = stack[n].fn /\ Suspended.how = stack[n].how
        /\ Suspended.saved = stack[n].saved
        /\ Suspended.live = stack[n].live \cap (slots[stack[n].fn] \cup KeptBytes(stack[n].fn))
    BY <2>1 DEF Suspended, Top, Frames
  <2> HIDE DEF n
  <2>4. Below \in Seq(Frames) /\ Len(Below) = Len(stack)
    BY <1>1, <2>1, <2>2, <2>3, ExceptSeq DEF n
  <2>5. \A i \in 1 .. n : Below[i] = IF i = n THEN Suspended ELSE stack[i]
    BY <1>1, <2>1, <2>2, <2>3, ExceptSeq DEF n
  <2>6. \A i \in 1 .. n : i # n => stack[i].live \subseteq slots[stack[i].fn] \cup KeptBytes(stack[i].fn)
    BY <1>1 DEF RunIInv, FramesInv, n
  <2>7. QED
    BY <1>1, <2>3, <2>4, <2>5, <2>6 DEF n
<1>4. QED
  BY <1>2, <1>3

-----------------------------------------------------------------------------
(* The arguments of a call, or the bytes an extern writes, miss every byte *)
(* that an activation below needs.                                         *)
WritesMiss(W) ==
  \A i \in 1 .. Len(stack) :
    /\ stack[i].fn \in pooled => W \cap pools[stack[i].fn] = {}
    /\ stack[i].how = "zp" /\ SeenByAllocators(stack[i].fn) => W \cap slots[stack[i].fn] = {}

(* The slots of a zp_abi function called from the top miss them.           *)
LEMMA ArgumentsMiss ==
  ASSUME RunIInv, phase = "done", stack # <<>>,
         NEW f \in ZpNames(abi), <<Top.fn, f>> \in prog.calls
  PROVE  WritesMiss(slots[f])
<1> SUFFICES ASSUME NEW i \in 1 .. Len(stack)
             PROVE  /\ stack[i].fn \in pooled => slots[f] \cap pools[stack[i].fn] = {}
                    /\ stack[i].how = "zp" /\ SeenByAllocators(stack[i].fn) =>
                         slots[f] \cap slots[stack[i].fn] = {}
  BY DEF WritesMiss
<1>1. f \in Names /\ placed = ZpNames(abi) /\ pooled = Eligible(prog, abi)
  BY PlanComplete DEF RunIInv, ZpNames
<1>2. ASSUME stack[i].fn \in pooled
      PROVE  slots[f] \cap pools[stack[i].fn] = {} /\ stack[i].fn \in Ancestors(prog.calls, f)
  <2>1. f \in CoexistingZp(prog, abi, stack[i].fn) /\ stack[i].fn \in Ancestors(prog.calls, f)
    BY <1>1, <1>2, CalleeBelow
  <2>2. QED
    BY <1>2, <2>1 DEF RunIInv, PlanIInv, AllocIInv, PoolsDisjoint
<1>3. ASSUME stack[i].how = "zp", SeenByAllocators(stack[i].fn)
      PROVE  slots[f] \cap slots[stack[i].fn] = {}
  <2>1. stack[i].fn \in pooled /\ stack[i].fn \in Ancestors(prog.calls, f)
    BY <1>1, <1>2, <1>3 DEF SeenByAllocators
  <2>2. stack[i].fn \in Ancestors(ZpCalls(prog, abi), f)
    BY <1>3, <2>1 DEF SeenByAllocators
  <2>3. stack[i].fn \in Names /\ stack[i].fn \in placed
    <3>1. abi[stack[i].fn] = "zp"
      BY <1>3 DEF RunIInv, FramesInv
    <3>2. stack[i].fn \in Names
      BY <2>1 DEF RunIInv, PlanIInv, AllocIInv, AllocTyped
    <3>3. QED
      BY <1>1, <3>1, <3>2 DEF ZpNames
  <2>4. QED
    BY <1>1, <2>2, <2>3 DEF RunIInv, PlanIInv, AllocIInv, SlotsDisjoint
<1>4. QED
  BY <1>2, <1>3

(* A call, whatever the convention: f runs on top of what was running. The *)
(* bytes that wait below are in the callee-saved half, where the prologue  *)
(* keeps them, or in a pool.                                               *)
LEMMA EnterInv ==
  ASSUME RunIInv, phase = "done", NEW f \in prog.defined, NEW how \in {"zp", "soft"},
         Enter(f, how), UNCHANGED planVars,
         how = "zp" => abi[f] = "zp" /\ WritesMiss(slots[f]),
         \A i \in 1 .. Len(stack) : stack[i].fn \in pooled =>
           f \in pooled /\ stack[i].fn \in Ancestors(EligibleCalls(prog, abi), f)
  PROVE  RunIInv'
<1> DEFINE n == Len(stack)
           W == IF how = "zp" THEN slots[f] ELSE {}
           frame == [fn |-> f, how |-> how, live |-> slots[f],
                     saved |-> [a \in SavedBytes(f) |-> mem'[a]]]
<1>1. /\ UNCHANGED <<prog, phase, abi, placed, slots, pooled, pools>>
      /\ f \in Names /\ IsProgram(prog)
  BY ProgramParts DEF planVars, RunIInv, PlanIInv, AllocIInv, AllocTyped
<1>2. PlanIInv'
  BY PlanStepInv DEF RunIInv
<1>3. \A g : BodyBytes(g)' = BodyBytes(g) /\ KeptBytes(g)' = KeptBytes(g) /\ SavedBytes(g)' = SavedBytes(g)
  BY <1>1 DEF BodyBytes, KeptBytes, SavedBytes, AcrossBytes, TempBytes, LowestFree, BlockedAddrs
<1>4. \A g : SeenByAllocators(g)' <=> SeenByAllocators(g)
  BY <1>1 DEF SeenByAllocators
<1>5. /\ n < MaxDepth /\ n \in Nat
      /\ mem' = [a \in Addresses |-> IF a \in W THEN n + 1 ELSE mem[a]]
      /\ mem \in [Addresses -> Nat] /\ mem' \in [Addresses -> Nat]
      /\ stack' = Append(Below, frame)
  <2>1. n \in Nat
    BY BelowShape
  <2>2. QED
    BY <2>1 DEF Enter, Written, RunIInv, StackTyped
<1>6. /\ W \subseteq Addresses /\ W \cap CalleeSaved = {} /\ WritesMiss(W)
      /\ W \subseteq slots[f]
  BY <1>1, BodyPlaces DEF WritesMiss
<1>7. SavedBytes(f) \subseteq Addresses /\ SavedBytes(f) \subseteq CalleeSaved
  BY <1>1, BodyPlaces
<1>8. frame \in Frames
  <2>1. frame.saved \in [SavedBytes(f) -> Nat]
    BY <1>5, <1>7
  <2>2. slots[f] \subseteq Addresses
    BY <1>1, BodyPlaces
  <2>3. QED
    BY <1>1, <1>7, <2>1, <2>2 DEF Frames
<1> HIDE DEF W
<1>9. /\ frame.fn = f /\ frame.how = how /\ frame.live = slots[f]
      /\ DOMAIN frame.saved = SavedBytes(f) /\ \A a \in SavedBytes(f) : frame.saved[a] = mem'[a]
  OBVIOUS
<1> HIDE DEF frame
<1>10. /\ stack' \in Seq(Frames) /\ Len(stack') = n + 1
       /\ \A i \in 1 .. n : stack'[i] = Below[i]
       /\ stack'[n + 1] = frame
  BY <1>5, <1>8, BelowShape, PushShape
<1>11. \A i \in 1 .. n :
         /\ stack'[i].fn = stack[i].fn /\ stack'[i].how = stack[i].how
         /\ stack'[i].saved = stack[i].saved
         /\ stack'[i].live \subseteq stack[i].live
         /\ stack'[i].live \subseteq slots[stack[i].fn] \cup KeptBytes(stack[i].fn)
  BY <1>10, BelowShape
<1> HIDE DEF n
<1>index. n \in Nat /\ \A i \in 1 .. (n + 1) : i = n + 1 \/ i \in 1 .. n
  BY <1>5
<1>12. StackTyped'
  <2>1. Len(stack') <= MaxDepth
    BY <1>5, <1>10, DepthAssumption
  <2>2. QED
    BY <1>1, <1>5, <1>10, <2>1 DEF StackTyped
<1>13. FramesInv'
  <2> SUFFICES ASSUME NEW i \in 1 .. (n + 1)
               PROVE  /\ stack'[i].fn \in prog.defined
                      /\ stack'[i].how = "zp" => abi[stack'[i].fn] = "zp"
                      /\ DOMAIN stack'[i].saved = SavedBytes(stack'[i].fn)
                      /\ stack'[i].live \subseteq slots[stack'[i].fn] \cup BodyBytes(stack'[i].fn)
                      /\ i < n + 1 => stack'[i].live \subseteq slots[stack'[i].fn] \cup KeptBytes(stack'[i].fn)
    BY <1>1, <1>3, <1>10 DEF FramesInv
  <2>1. CASE i = n + 1
    BY <1>5, <1>9, <1>10, <2>1
  <2>2. CASE i \in 1 .. n
    BY <1>11, <2>2 DEF RunIInv, FramesInv, n
  <2>3. QED
    BY <1>index, <2>1, <2>2
<1>14. ChainInv'
  <2> SUFFICES ASSUME NEW i \in 1 .. (n + 1), NEW j \in 1 .. (n + 1), i < j, stack'[i].fn \in pooled
               PROVE  /\ stack'[j].fn \in pooled
                      /\ stack'[i].fn \in Ancestors(EligibleCalls(prog, abi), stack'[j].fn)
    BY <1>1, <1>10 DEF ChainInv
  <2>1. i \in 1 .. n
    BY <1>5
  <2>2. CASE j = n + 1
    BY <1>9, <1>10, <1>11, <2>1, <2>2 DEF n
  <2>3. CASE j \in 1 .. n
    BY <1>11, <2>1, <2>3 DEF RunIInv, ChainInv, n
  <2>4. QED
    BY <1>index, <2>2, <2>3
<1>15. LocalsKept'
  <2> SUFFICES ASSUME NEW i \in 1 .. (n + 1), NEW a \in stack'[i].live \ slots[stack'[i].fn]
               PROVE  Restored(stack', mem', i, a) = i
    BY <1>1, <1>10 DEF LocalsKept
  <2>1. i \in 1 .. n
    BY <1>5, <1>9, <1>10
  <2>2. i \in Nat /\ a \in stack[i].live \ slots[stack[i].fn] /\ a \in KeptBytes(stack[i].fn)
    <3>1. i \in Nat
      BY <1>index, <2>1
    <3>2. stack'[i].fn = stack[i].fn
      BY <1>11, <2>1
    <3>3. a \in stack'[i].live /\ a \notin slots[stack[i].fn]
      BY <3>2
    <3>4. QED
      BY <1>11, <2>1, <3>1, <3>3
  <2>3. Restored(stack, mem, i, a) = i
    BY <2>1, <2>2 DEF RunIInv, LocalsKept, n
  <2>4. Savers(stack', i, a) = Savers(stack, i, a) \cup (IF a \in SavedBytes(f) THEN {n + 1} ELSE {})
    <3>1. (i + 1) .. (n + 1) = ((i + 1) .. n) \cup {n + 1}
      BY <1>index, <2>1
    <3>2. \A j \in (i + 1) .. n : j \in 1 .. n
      BY <1>index, <2>1
    <3>3. Savers(stack', i, a) = {j \in (i + 1) .. (n + 1) : a \in DOMAIN stack'[j].saved}
      BY <1>10 DEF Savers
    <3>4. Savers(stack, i, a) = {j \in (i + 1) .. n : a \in DOMAIN stack[j].saved}
      BY DEF Savers, n
    <3>5. \A j \in (i + 1) .. n : DOMAIN stack'[j].saved = DOMAIN stack[j].saved
      BY <1>11, <3>2
    <3>6. DOMAIN stack'[n + 1].saved = SavedBytes(f)
      BY <1>9, <1>10
    <3>7. QED
      BY <3>1, <3>3, <3>4, <3>5, <3>6
  <2>5. a \in Addresses /\ a \notin W
    <3>1. stack[i].fn \in Names
      BY <1>1, <2>1, ProgramParts DEF RunIInv, FramesInv, n
    <3>2. CASE stack[i].fn \in pooled
      BY <1>6, <2>1, <2>2, <3>1, <3>2, BodyPlaces DEF WritesMiss, n
    <3>3. CASE stack[i].fn \notin pooled
      BY <1>6, <2>2, <3>1, <3>3, BodyPlaces
    <3>4. QED
      BY <3>2, <3>3
  <2>6. mem'[a] = mem[a]
    BY <1>5, <2>5
  <2>7. CASE Savers(stack, i, a) = {}
    <3>1. mem[a] = i
      BY <2>3, <2>7, RestoredNone
    <3>2. CASE a \in SavedBytes(f)
      <4>1. Savers(stack', i, a) = {n + 1}
        BY <2>4, <2>7, <3>2
      <4>2. Restored(stack', mem', i, a) = stack'[n + 1].saved[a]
        BY <1>index, <2>2, <4>1, RestoredLowest
      <4>3. QED
        BY <1>9, <1>10, <2>6, <3>1, <3>2, <4>2
    <3>3. CASE a \notin SavedBytes(f)
      <4>1. Savers(stack', i, a) = {}
        BY <2>4, <2>7, <3>3
      <4>2. QED
        BY <2>6, <3>1, <4>1, RestoredNone
    <3>4. QED
      BY <3>2, <3>3
  <2>8. CASE Savers(stack, i, a) # {}
    <3>1. PICK j \in Savers(stack, i, a) : \A x \in Savers(stack, i, a) : j <= x
      BY <2>2, <2>8, LowestSaver
    <3>2. Restored(stack, mem, i, a) = stack[j].saved[a]
      BY <2>2, <3>1, RestoredLowest
    <3>3. j \in 1 .. n
      BY <1>index, <2>1, <3>1 DEF Savers, n
    <3>4. j \in Savers(stack', i, a) /\ \A x \in Savers(stack', i, a) : j <= x
      BY <1>index, <2>4, <3>1, <3>3
    <3>5. Restored(stack', mem', i, a) = stack'[j].saved[a]
      BY <2>2, <3>4, RestoredLowest
    <3>6. QED
      BY <1>11, <2>3, <3>2, <3>3, <3>5
  <2>9. QED
    BY <2>7, <2>8
<1>16. ParamsKept'
  <2> SUFFICES ASSUME NEW i \in 1 .. (n + 1), stack'[i].how = "zp", SeenByAllocators(stack'[i].fn),
                      NEW a \in slots[stack'[i].fn]
               PROVE  mem'[a] = i
    BY <1>1, <1>4, <1>10 DEF ParamsKept
  <2>1. CASE i = n + 1
    <3>1. a \in W /\ a \in Addresses
      BY <1>1, <1>9, <1>10, <2>1, BodyPlaces DEF W
    <3>2. QED
      BY <1>5, <2>1, <3>1
  <2>2. CASE i \in 1 .. n
    <3>1. a \in slots[stack[i].fn] /\ stack[i].how = "zp" /\ SeenByAllocators(stack[i].fn)
      BY <1>11, <2>2
    <3>2. mem[a] = i /\ a \notin W
      BY <1>6, <2>2, <3>1 DEF RunIInv, ParamsKept, WritesMiss, n
    <3>3. a \in Addresses
      <4>1. stack[i].fn \in Names
        BY <1>1, <2>2, ProgramParts DEF RunIInv, FramesInv, n
      <4>2. QED
        BY <3>1, <4>1, BodyPlaces
    <3>4. QED
      BY <1>5, <3>2, <3>3
  <2>3. QED
    BY <1>index, <2>1, <2>2
<1>17. QED
  BY <1>2, <1>12, <1>13, <1>14, <1>15, <1>16 DEF RunIInv

(* Nothing is below the first activation.                                  *)
LEMMA StartInv ==
  ASSUME RunIInv, NEW f \in Names, Start(f)
  PROVE  RunIInv'
<1>1. /\ phase = "done" /\ stack = <<>> /\ f \in prog.defined /\ Enter(f, abi[f])
      /\ UNCHANGED planVars /\ abi[f] \in {"zp", "soft"}
  BY DEF Start, RunIInv, PlanIInv, AllocIInv, AllocTyped
<1>2. Len(stack) = 0
  BY <1>1
<1>3. WritesMiss(slots[f])
  BY <1>2 DEF WritesMiss
<1>4. QED
  BY <1>1, <1>2, <1>3, EnterInv

(* A direct call: the callee is below every pool that is active.           *)
LEMMA CallInv ==
  ASSUME RunIInv, NEW f \in Names, Call(f)
  PROVE  RunIInv'
<1>1. /\ phase = "done" /\ stack # <<>> /\ f \in prog.defined /\ Enter(f, abi[f])
      /\ UNCHANGED planVars /\ abi[f] \in {"zp", "soft"} /\ <<Top.fn, f>> \in prog.calls
  BY DEF Call, RunIInv, PlanIInv, AllocIInv, AllocTyped
<1>2. abi[f] = "zp" => WritesMiss(slots[f])
  BY <1>1, ArgumentsMiss DEF ZpNames
<1>3. \A i \in 1 .. Len(stack) : stack[i].fn \in pooled =>
        f \in pooled /\ stack[i].fn \in Ancestors(EligibleCalls(prog, abi), f)
  BY <1>1, CalleeBelow
<1>4. QED
  BY <1>1, <1>2, <1>3, EnterInv

(* An indirect call: no pool is active, since its caller and every caller  *)
(* above it have none.                                                     *)
LEMMA IndirectCallInv ==
  ASSUME RunIInv, NEW f \in Names, IndirectCall(f)
  PROVE  RunIInv'
<1>1. /\ phase = "done" /\ stack # <<>> /\ f \in prog.defined /\ Enter(f, "soft")
      /\ UNCHANGED planVars /\ Top.fn \in prog.indirect
  BY DEF IndirectCall, PointerTargets
<1>2. Top.fn \notin pooled
  BY <1>1, PlanComplete DEF RunIInv, Eligible, IneligibleSeeds
<1>3. Len(stack) \in Nat \ {0} /\ Top = stack[Len(stack)]
  BY <1>1, EmptySeq DEF RunIInv, StackTyped, Top
<1>4. ASSUME NEW i \in 1 .. Len(stack) PROVE stack[i].fn \notin pooled
  <2>1. CASE i = Len(stack)
    BY <1>2, <1>3, <2>1
  <2>2. CASE i < Len(stack)
    BY <1>2, <1>3, <2>2 DEF RunIInv, ChainInv
  <2>3. QED
    BY <1>3, <2>1, <2>2
<1>5. QED
  BY <1>1, <1>4, EnterInv

-----------------------------------------------------------------------------
(* A step that pushes and pops nothing: the bytes W are overwritten with   *)
(* values of depth d, and what the activations wait for is elsewhere or    *)
(* was put away by a prologue.                                             *)
LEMMA WriteInv ==
  ASSUME RunIInv, phase = "done", stack # <<>>, UNCHANGED planVars, NEW W, NEW d \in Nat,
         mem' = Written(W, d),
         stack' \in Seq(Frames), Len(stack') = Len(stack),
         \A i \in 1 .. Len(stack) :
           /\ stack'[i].fn = stack[i].fn /\ stack'[i].how = stack[i].how
           /\ stack'[i].saved = stack[i].saved
           /\ stack'[i].live \subseteq slots[stack[i].fn] \cup BodyBytes(stack[i].fn)
           /\ i < Len(stack) => stack'[i].live \subseteq stack[i].live
           /\ \A a \in stack'[i].live \ slots[stack[i].fn] :
                \/ a \in W /\ d = i /\ i = Len(stack)
                \/ a \notin W /\ a \in stack[i].live
                \/ Savers(stack, i, a) # {} /\ a \in stack[i].live
           /\ stack[i].how = "zp" /\ SeenByAllocators(stack[i].fn) => W \cap slots[stack[i].fn] = {}
  PROVE  RunIInv'
<1> DEFINE n == Len(stack)
<1>1. /\ UNCHANGED <<prog, phase, abi, placed, slots, pooled, pools>>
      /\ IsProgram(prog)
  BY DEF planVars, RunIInv, PlanIInv, AllocIInv, AllocTyped
<1>2. PlanIInv'
  BY PlanStepInv DEF RunIInv
<1>3. \A g : BodyBytes(g)' = BodyBytes(g) /\ KeptBytes(g)' = KeptBytes(g) /\ SavedBytes(g)' = SavedBytes(g)
  BY <1>1 DEF BodyBytes, KeptBytes, SavedBytes, AcrossBytes, TempBytes, LowestFree, BlockedAddrs
<1>4. \A g : SeenByAllocators(g)' <=> SeenByAllocators(g)
  BY <1>1 DEF SeenByAllocators
<1>5. /\ mem' = [a \in Addresses |-> IF a \in W THEN d ELSE mem[a]]
      /\ mem \in [Addresses -> Nat] /\ mem' \in [Addresses -> Nat]
      /\ n \in Nat /\ n <= MaxDepth /\ Len(stack') = n
  BY LenProperties DEF Written, RunIInv, StackTyped
<1>6. StackTyped'
  BY <1>1, <1>5 DEF StackTyped
<1>7. FramesInv'
  <2> SUFFICES ASSUME NEW i \in 1 .. n
               PROVE  /\ stack'[i].fn \in prog.defined
                      /\ stack'[i].how = "zp" => abi[stack'[i].fn] = "zp"
                      /\ DOMAIN stack'[i].saved = SavedBytes(stack'[i].fn)
                      /\ stack'[i].live \subseteq slots[stack'[i].fn] \cup BodyBytes(stack'[i].fn)
                      /\ i < n => stack'[i].live \subseteq slots[stack'[i].fn] \cup KeptBytes(stack'[i].fn)
    BY <1>1, <1>3, <1>5 DEF FramesInv
  <2>1. /\ stack[i].fn \in prog.defined
        /\ stack[i].how = "zp" => abi[stack[i].fn] = "zp"
        /\ DOMAIN stack[i].saved = SavedBytes(stack[i].fn)
        /\ i < n => stack[i].live \subseteq slots[stack[i].fn] \cup KeptBytes(stack[i].fn)
    BY DEF RunIInv, FramesInv
  <2>2. QED
    BY <2>1
<1>8. ChainInv'
  BY <1>1, <1>5 DEF RunIInv, ChainInv
<1>9. LocalsKept'
  <2> SUFFICES ASSUME NEW i \in 1 .. n, NEW a \in stack'[i].live \ slots[stack'[i].fn]
               PROVE  Restored(stack', mem', i, a) = i
    BY <1>1, <1>5 DEF LocalsKept
  <2>1. i \in Nat /\ a \in stack'[i].live \ slots[stack[i].fn]
    BY <1>5
  <2>2. a \in Addresses
    <3>1. stack[i].fn \in Names
      BY <1>1, ProgramParts DEF RunIInv, FramesInv
    <3>2. QED
      BY <2>1, <3>1, BodyPlaces
  <2>3. Savers(stack', i, a) = Savers(stack, i, a)
    <3>1. \A j \in (i + 1) .. n : j \in 1 .. n
      BY <1>5
    <3>2. QED
      BY <1>5, <3>1 DEF Savers
  <2>4. CASE a \in W /\ d = i /\ i = n
    <3>1. Savers(stack', i, a) = {}
      BY <1>5, <2>4 DEF Savers
    <3>2. QED
      BY <1>5, <2>2, <2>4, <3>1, RestoredNone
  <2>5. CASE a \notin W /\ a \in stack[i].live /\ Savers(stack, i, a) = {}
    <3>1. Restored(stack, mem, i, a) = i
      BY <2>1, <2>5 DEF RunIInv, LocalsKept
    <3>2. mem[a] = i
      BY <2>5, <3>1, RestoredNone
    <3>3. QED
      BY <1>5, <2>2, <2>3, <2>5, <3>2, RestoredNone
  <2>6. CASE Savers(stack, i, a) # {} /\ a \in stack[i].live
    <3>1. Restored(stack, mem, i, a) = i
      BY <2>1, <2>6 DEF RunIInv, LocalsKept
    <3>2. PICK j \in Savers(stack, i, a) : \A x \in Savers(stack, i, a) : j <= x
      BY <2>1, <2>6, LowestSaver
    <3>3. Restored(stack, mem, i, a) = stack[j].saved[a]
      BY <2>1, <3>2, RestoredLowest
    <3>4. j \in 1 .. n
      BY <1>5, <3>2 DEF Savers
    <3>5. Restored(stack', mem', i, a) = stack'[j].saved[a]
      BY <2>1, <2>3, <3>2, RestoredLowest
    <3>6. QED
      BY <3>1, <3>3, <3>4, <3>5
  <2>7. QED
    BY <2>1, <2>4, <2>5, <2>6
<1>10. ParamsKept'
  <2> SUFFICES ASSUME NEW i \in 1 .. n, stack'[i].how = "zp", SeenByAllocators(stack'[i].fn),
                      NEW a \in slots[stack'[i].fn]
               PROVE  mem'[a] = i
    BY <1>1, <1>4, <1>5 DEF ParamsKept
  <2>1. a \in slots[stack[i].fn] /\ a \notin W /\ mem[a] = i
    BY DEF RunIInv, ParamsKept
  <2>2. stack[i].fn \in Names
    BY <1>1, ProgramParts DEF RunIInv, FramesInv
  <2>3. QED
    BY <1>5, <2>1, <2>2, BodyPlaces
<1>11. QED
  BY <1>2, <1>6, <1>7, <1>8, <1>9, <1>10 DEF RunIInv

(* An extern: zp_abi ones write their slots; a function that calls any     *)
(* other has no pool, nor has anything below it.                           *)
LEMMA CallExternInv ==
  ASSUME RunIInv, NEW f \in Names, CallExtern(f)
  PROVE  RunIInv'
<1> DEFINE W == IF abi[f] = "zp" THEN slots[f] ELSE CallerSaved
<1>1. /\ phase = "done" /\ stack # <<>> /\ f \notin prog.defined /\ <<Top.fn, f>> \in prog.calls
      /\ UNCHANGED planVars /\ mem' = Written(W, 0) /\ stack' = Below
  BY DEF CallExtern
<1>2. IsProgram(prog) /\ pooled = Eligible(prog, abi)
  BY <1>1, PlanComplete DEF RunIInv, PlanIInv, AllocIInv, AllocTyped
<1>3. WritesMiss(W)
  <2>1. CASE abi[f] = "zp"
    BY <1>1, <2>1, ArgumentsMiss DEF ZpNames
  <2>2. CASE abi[f] # "zp"
    <3>1. \A i \in 1 .. Len(stack) : stack[i].fn \notin pooled
      BY <1>1, <2>2, CalleeBelow DEF ZpNames
    <3>2. QED
      BY <1>2, <3>1 DEF WritesMiss, SeenByAllocators
  <2>3. QED
    BY <2>1, <2>2
<1>4. W \cap CalleeSaved = {}
  <2>1. slots[f] \cap CalleeSaved = {}
    BY BodyPlaces
  <2>2. CallerSaved \cap CalleeSaved = {}
    BY MidBounds DEF CallerSaved, CalleeSaved
  <2>3. QED
    BY <2>1, <2>2
<1> HIDE DEF W
<1>5. \A i \in 1 .. Len(stack) :
        /\ stack[i].fn \in Names
        /\ Below[i].live \subseteq stack[i].live
        /\ Below[i].live \subseteq slots[stack[i].fn] \cup KeptBytes(stack[i].fn)
        /\ W \cap KeptBytes(stack[i].fn) = {}
        /\ Below[i].live \subseteq slots[stack[i].fn] \cup BodyBytes(stack[i].fn)
  <2> SUFFICES ASSUME NEW i \in 1 .. Len(stack)
               PROVE  /\ stack[i].fn \in Names
                      /\ Below[i].live \subseteq stack[i].live
                      /\ Below[i].live \subseteq slots[stack[i].fn] \cup KeptBytes(stack[i].fn)
                      /\ W \cap KeptBytes(stack[i].fn) = {}
                      /\ Below[i].live \subseteq slots[stack[i].fn] \cup BodyBytes(stack[i].fn)
    OBVIOUS
  <2>1. /\ Below[i].live \subseteq stack[i].live
        /\ Below[i].live \subseteq slots[stack[i].fn] \cup KeptBytes(stack[i].fn)
    BY BelowShape
  <2>2. stack[i].fn \in Names
    BY <1>2, ProgramParts DEF RunIInv, FramesInv
  <2>3. KeptBytes(stack[i].fn) \subseteq BodyBytes(stack[i].fn)
    BY <2>2, BodyPlaces
  <2>4. W \cap KeptBytes(stack[i].fn) = {}
    <3>1. CASE stack[i].fn \in pooled
      BY <1>3, <2>2, <3>1, BodyPlaces DEF WritesMiss
    <3>2. CASE stack[i].fn \notin pooled
      BY <1>4, <2>2, <3>2, BodyPlaces
    <3>3. QED
      BY <3>1, <3>2
  <2>5. QED
    BY <2>1, <2>2, <2>3, <2>4
<1>6. /\ stack' \in Seq(Frames) /\ Len(stack') = Len(stack)
      /\ \A i \in 1 .. Len(stack) :
           /\ stack'[i].fn = stack[i].fn /\ stack'[i].how = stack[i].how
           /\ stack'[i].saved = stack[i].saved
           /\ stack'[i].live = Below[i].live
  BY <1>1, BelowShape
<1>7. \A i \in 1 .. Len(stack) :
        /\ stack'[i].live \subseteq slots[stack[i].fn] \cup BodyBytes(stack[i].fn)
        /\ stack'[i].live \subseteq stack[i].live
        /\ \A a \in stack'[i].live \ slots[stack[i].fn] : a \notin W /\ a \in stack[i].live
        /\ stack[i].how = "zp" /\ SeenByAllocators(stack[i].fn) => W \cap slots[stack[i].fn] = {}
  BY <1>3, <1>5, <1>6 DEF WritesMiss
<1>8. QED
  BY <1>1, <1>6, <1>7, WriteInv

(* The running body: what it writes is in its pool, in no pool below it,   *)
(* or was put away by its own prologue.                                    *)
LEMMA BodyInv ==
  ASSUME RunIInv, Body
  PROVE  RunIInv'
<1> DEFINE n == Len(stack)
           t == Top.fn
           W == BodyBytes(t)
<1>1. /\ phase = "done" /\ stack # <<>> /\ UNCHANGED planVars /\ mem' = Written(W, n)
      /\ stack' = [stack EXCEPT ![n].live = @ \cup W]
  BY DEF Body
<1>2. /\ IsProgram(prog) /\ pooled = Eligible(prog, abi)
      /\ placed = ZpNames(abi) /\ pooled \subseteq Names
  BY <1>1, PlanComplete DEF RunIInv, PlanIInv, AllocIInv, AllocTyped
<1>3. /\ n \in Nat \ {0} /\ n \in 1 .. n /\ t = stack[n].fn /\ t \in prog.defined
      /\ stack \in Seq(Frames) /\ \A i \in 1 .. n : stack[i] \in Frames /\ stack[i].fn \in Names
  <2>1. stack \in Seq(Frames) /\ n \in Nat \ {0} /\ \A i \in 1 .. n : stack[i] \in Frames
    BY <1>1, EmptySeq, LenProperties, ElementOfSeq DEF RunIInv, StackTyped
  <2>2. n \in 1 .. n /\ t = stack[n].fn
    BY <2>1 DEF Top
  <2>3. t \in prog.defined
    BY <2>2 DEF RunIInv, FramesInv
  <2>4. QED
    BY <2>1, <2>2, <2>3 DEF Frames
<1>4. W \subseteq Addresses /\ DOMAIN stack[n].saved = W \cap CalleeSaved
  BY <1>3, BodyPlaces DEF RunIInv, FramesInv
<1> HIDE DEF W, t
<1>5. \A i \in 1 .. n : i < n =>
        \A a \in stack[i].live \ slots[stack[i].fn] : a \notin W \/ Savers(stack, i, a) # {}
  <2> SUFFICES ASSUME NEW i \in 1 .. n, i < n, NEW a \in stack[i].live \ slots[stack[i].fn], a \in W
               PROVE  Savers(stack, i, a) # {}
    OBVIOUS
  <2>1. a \in KeptBytes(stack[i].fn)
    BY DEF RunIInv, FramesInv
  <2>2. stack[i].fn \notin pooled
    <3> SUFFICES ASSUME stack[i].fn \in pooled PROVE FALSE
      OBVIOUS
    <3>1. t \in pooled /\ stack[i].fn \in Ancestors(EligibleCalls(prog, abi), t)
      BY <1>3 DEF RunIInv, ChainInv
    <3>2. pools[stack[i].fn] \cap pools[t] = {}
      BY <3>1 DEF RunIInv, PlanIInv, AllocIInv, PoolsDisjoint
    <3>3. W = pools[t] /\ KeptBytes(stack[i].fn) = pools[stack[i].fn]
      BY <1>2, <1>3, <3>1, BodyPlaces DEF W
    <3>4. QED
      BY <2>1, <3>2, <3>3
  <2>3. a \in CalleeSaved
    BY <1>3, <2>1, <2>2, BodyPlaces
  <2>4. n \in Savers(stack, i, a)
    BY <1>3, <1>4, <2>3 DEF Savers
  <2>5. QED
    BY <2>4
<1>6. \A i \in 1 .. n :
        stack[i].how = "zp" /\ SeenByAllocators(stack[i].fn) => W \cap slots[stack[i].fn] = {}
  <2> SUFFICES ASSUME NEW i \in 1 .. n, stack[i].how = "zp", SeenByAllocators(stack[i].fn)
               PROVE  W \cap slots[stack[i].fn] = {}
    OBVIOUS
  <2>1. stack[i].fn \in pooled /\ stack[i].fn \in ZpNames(abi)
    BY <1>2, <1>3 DEF SeenByAllocators, RunIInv, FramesInv, ZpNames
  <2>2. t \in pooled /\ (i = n \/ stack[i].fn \in Ancestors(EligibleCalls(prog, abi), t))
    BY <1>3, <2>1 DEF RunIInv, ChainInv
  <2>3. stack[i].fn \in CoexistingZp(prog, abi, t) \cup {t}
    <3>1. CASE i = n
      BY <1>3, <3>1
    <3>2. CASE i # n
      <4>1. Ancestors(EligibleCalls(prog, abi), t) \subseteq Ancestors(DefinedCalls(prog), t)
        BY <1>2, <2>2, GraphTypes, AncestorsMonotone
      <4>2. QED
        BY <2>1, <2>2, <3>2, <4>1 DEF CoexistingZp
    <3>3. QED
      BY <3>1, <3>2
  <2>4. W = pools[t]
    BY <1>2, <2>2, BodyPlaces DEF W
  <2>5. QED
    BY <2>2, <2>3, <2>4 DEF RunIInv, PlanIInv, AllocIInv, PoolsDisjoint
<1>7. /\ stack' \in Seq(Frames) /\ Len(stack') = n
      /\ \A i \in 1 .. n :
           /\ stack'[i].fn = stack[i].fn /\ stack'[i].how = stack[i].how
           /\ stack'[i].saved = stack[i].saved
           /\ stack'[i].live = IF i = n THEN stack[i].live \cup W ELSE stack[i].live
  <2> DEFINE x == [stack[n] EXCEPT !.live = @ \cup W]
  <2>1. /\ x \in Frames /\ x.fn = stack[n].fn /\ x.how = stack[n].how /\ x.saved = stack[n].saved
        /\ x.live = stack[n].live \cup W
    BY <1>3, <1>4 DEF Frames
  <2>2. stack' = [stack EXCEPT ![n] = x]
    BY <1>1
  <2> HIDE DEF x, n
  <2>3. stack' \in Seq(Frames) /\ Len(stack') = Len(stack)
        /\ \A i \in 1 .. n : stack'[i] = IF i = n THEN x ELSE stack[i]
    BY <1>3, <2>1, <2>2, ExceptSeq DEF n
  <2>4. QED
    BY <2>1, <2>3 DEF n
<1>8. \A i \in 1 .. n :
        /\ stack[i].live \subseteq slots[stack[i].fn] \cup BodyBytes(stack[i].fn)
  BY DEF RunIInv, FramesInv
<1> HIDE DEF n
<1>index. \A i \in 1 .. n : IF i = n THEN ~(i < n) ELSE i < n
  BY <1>3
<1>9. \A i \in 1 .. n :
        /\ stack'[i].live \subseteq slots[stack[i].fn] \cup BodyBytes(stack[i].fn)
        /\ i < n => stack'[i].live \subseteq stack[i].live
        /\ \A a \in stack'[i].live \ slots[stack[i].fn] :
             \/ a \in W /\ n = i /\ i = n
             \/ a \notin W /\ a \in stack[i].live
             \/ Savers(stack, i, a) # {} /\ a \in stack[i].live
  <2> SUFFICES ASSUME NEW i \in 1 .. n
               PROVE  /\ stack'[i].live \subseteq slots[stack[i].fn] \cup BodyBytes(stack[i].fn)
                      /\ i < n => stack'[i].live \subseteq stack[i].live
                      /\ \A a \in stack'[i].live \ slots[stack[i].fn] :
                           \/ a \in W /\ n = i /\ i = n
                           \/ a \notin W /\ a \in stack[i].live
                           \/ Savers(stack, i, a) # {} /\ a \in stack[i].live
    OBVIOUS
  <2>1. CASE i = n
    <3>1. stack'[i].live = stack[i].live \cup W /\ W = BodyBytes(stack[i].fn) /\ ~(i < n)
      BY <1>3, <1>7, <1>index, <2>1 DEF W
    <3>2. QED
      BY <1>8, <2>1, <3>1
  <2>2. CASE i # n
    <3>1. stack'[i].live = stack[i].live /\ i < n
      BY <1>7, <1>index, <2>2
    <3>2. \A a \in stack[i].live \ slots[stack[i].fn] : a \notin W \/ Savers(stack, i, a) # {}
      BY <1>5, <3>1
    <3>3. QED
      BY <1>8, <3>1, <3>2
  <2>3. QED
    BY <2>1, <2>2
<1>10. QED
  BY <1>1, <1>3, <1>6, <1>7, <1>9, WriteInv DEF n

(* An epilogue gives back what its prologue put away, and only that.       *)
LEMMA ReturnInv ==
  ASSUME RunIInv, Return
  PROVE  RunIInv'
<1> DEFINE n == Len(stack)
           m == Len(stack) - 1
           saved == Top.saved
<1>1. /\ phase = "done" /\ stack # <<>> /\ UNCHANGED planVars
      /\ mem' = [a \in Addresses |-> IF a \in DOMAIN saved THEN saved[a]
                                     ELSE IF mem[a] = n THEN 0 ELSE mem[a]]
      /\ stack' = SubSeq(stack, 1, m)
  BY DEF Return
<1>2. /\ UNCHANGED <<prog, phase, abi, placed, slots, pooled, pools>>
      /\ IsProgram(prog)
  BY <1>1 DEF planVars, RunIInv, PlanIInv, AllocIInv, AllocTyped
<1>3. PlanIInv'
  BY <1>1, PlanStepInv DEF RunIInv
<1>4. \A g : BodyBytes(g)' = BodyBytes(g) /\ KeptBytes(g)' = KeptBytes(g) /\ SavedBytes(g)' = SavedBytes(g)
  BY <1>2 DEF BodyBytes, KeptBytes, SavedBytes, AcrossBytes, TempBytes, LowestFree, BlockedAddrs
<1>5. \A g : SeenByAllocators(g)' <=> SeenByAllocators(g)
  BY <1>2 DEF SeenByAllocators
<1>6. /\ n \in Nat \ {0} /\ m \in Nat /\ n = m + 1 /\ n <= MaxDepth
      /\ stack \in Seq(Frames) /\ mem \in [Addresses -> Nat]
      /\ stack' \in Seq(Frames) /\ Len(stack') = m
      /\ \A i \in 1 .. m : stack'[i] = stack[i]
  <2>1. stack \in Seq(Frames) /\ mem \in [Addresses -> Nat] /\ n <= MaxDepth
    BY DEF RunIInv, StackTyped
  <2>2. /\ SubSeq(stack, 1, m) \in Seq(Frames) /\ Len(SubSeq(stack, 1, m)) = m /\ n \in Nat \ {0}
        /\ \A i \in 1 .. m : SubSeq(stack, 1, m)[i] = stack[i]
    BY <1>1, <2>1, PopShape
  <2>3. m \in Nat /\ n = m + 1
    BY <2>2
  <2>4. QED
    BY <1>1, <2>1, <2>2, <2>3
<1>7. /\ stack[n] \in Frames /\ stack[n].fn \in Names /\ saved = stack[n].saved
      /\ DOMAIN saved = SavedBytes(stack[n].fn) /\ DOMAIN saved \subseteq CalleeSaved
      /\ saved \in [DOMAIN saved -> Nat]
  <2>1. n \in 1 .. n
    BY <1>6
  <2>2. stack[n] \in Frames /\ saved = stack[n].saved /\ DOMAIN saved = SavedBytes(stack[n].fn)
    BY <1>6, <2>1, ElementOfSeq DEF RunIInv, FramesInv, Top
  <2>3. stack[n].fn \in Names
    BY <2>2 DEF Frames
  <2>4. DOMAIN saved \subseteq CalleeSaved
    BY <2>2 DEF SavedBytes
  <2>5. saved \in [DOMAIN saved -> Nat]
    BY <2>2 DEF Frames
  <2>6. QED
    BY <2>2, <2>3, <2>4, <2>5
<1> HIDE DEF n, m, saved
<1>index. \A i \in 1 .. m : /\ i \in Nat /\ i \in 1 .. n /\ i # n /\ n \in (i + 1) .. n
                            /\ (i + 1) .. n = ((i + 1) .. m) \cup {n}
                            /\ \A j \in (i + 1) .. m : j \in 1 .. m
  BY <1>6
<1>8. StackTyped'
  <2>1. mem' \in [Addresses -> Nat]
    BY <1>1, <1>6, <1>7
  <2>2. m <= MaxDepth
    BY <1>6, DepthAssumption
  <2>3. QED
    BY <1>1, <1>2, <1>6, <2>1, <2>2 DEF StackTyped
<1>9. FramesInv'
  <2> SUFFICES ASSUME NEW i \in 1 .. m
               PROVE  /\ stack[i].fn \in prog.defined
                      /\ stack[i].how = "zp" => abi[stack[i].fn] = "zp"
                      /\ DOMAIN stack[i].saved = SavedBytes(stack[i].fn)
                      /\ stack[i].live \subseteq slots[stack[i].fn] \cup BodyBytes(stack[i].fn)
                      /\ i < m => stack[i].live \subseteq slots[stack[i].fn] \cup KeptBytes(stack[i].fn)
    BY <1>2, <1>4, <1>6 DEF FramesInv
  <2>1. i \in 1 .. n /\ (i < m => i < n)
    BY <1>6
  <2>2. QED
    BY <2>1 DEF RunIInv, FramesInv, n
<1>10. ChainInv'
  <2> SUFFICES ASSUME NEW i \in 1 .. m, NEW j \in 1 .. m, i < j, stack[i].fn \in pooled
               PROVE  /\ stack[j].fn \in pooled
                      /\ stack[i].fn \in Ancestors(EligibleCalls(prog, abi), stack[j].fn)
    BY <1>2, <1>6 DEF ChainInv
  <2>1. QED
    BY <1>index DEF RunIInv, ChainInv, n
<1>11. LocalsKept'
  <2> SUFFICES ASSUME NEW i \in 1 .. m, NEW a \in stack[i].live \ slots[stack[i].fn]
               PROVE  Restored(stack', mem', i, a) = i
    BY <1>2, <1>6 DEF LocalsKept
  <2>1. Restored(stack, mem, i, a) = i /\ i \in Nat
    BY <1>index DEF RunIInv, LocalsKept, n
  <2>2. a \in Addresses
    <3>1. stack[i].fn \in Names /\ stack[i].live \subseteq slots[stack[i].fn] \cup BodyBytes(stack[i].fn)
      BY <1>2, <1>index, ProgramParts DEF RunIInv, FramesInv, n
    <3>2. QED
      BY <3>1, BodyPlaces
  <2>3. /\ n \in Savers(stack, i, a) <=> a \in DOMAIN saved
        /\ Savers(stack', i, a) = Savers(stack, i, a) \ {n}
    <3>1. Savers(stack, i, a) = {j \in (i + 1) .. n : a \in DOMAIN stack[j].saved}
      BY DEF Savers, n
    <3>2. Savers(stack', i, a) = {j \in (i + 1) .. m : a \in DOMAIN stack[j].saved}
      BY <1>6, <1>index DEF Savers
    <3>3. n \notin (i + 1) .. m
      BY <1>6
    <3>4. QED
      BY <1>7, <1>index, <3>1, <3>2, <3>3
  <2>4. CASE Savers(stack', i, a) # {}
    <3>1. PICK j \in Savers(stack', i, a) : \A x \in Savers(stack', i, a) : j <= x
      BY <2>1, <2>4, LowestSaver
    <3>2. j \in 1 .. m
      BY <1>6, <1>index, <3>1 DEF Savers
    <3>3. j \in Savers(stack, i, a) /\ \A x \in Savers(stack, i, a) : j <= x
      <4>1. j <= n
        BY <1>6, <3>2
      <4>2. QED
        BY <2>3, <3>1, <4>1
    <3>4. Restored(stack', mem', i, a) = stack'[j].saved[a]
      BY <2>1, <3>1, RestoredLowest
    <3>5. Restored(stack, mem, i, a) = stack[j].saved[a]
      BY <2>1, <3>3, RestoredLowest
    <3>6. QED
      BY <1>6, <2>1, <3>2, <3>4, <3>5
  <2>5. CASE Savers(stack', i, a) = {} /\ a \in DOMAIN saved
    <3>1. Savers(stack, i, a) = {n}
      BY <2>3, <2>5
    <3>2. n \in Savers(stack, i, a) /\ \A x \in Savers(stack, i, a) : n <= x
      BY <1>6, <3>1
    <3>3. Restored(stack, mem, i, a) = saved[a]
      BY <1>7, <2>1, <3>2, RestoredLowest
    <3>4. QED
      BY <1>1, <2>1, <2>2, <2>5, <3>3, RestoredNone
  <2>6. CASE Savers(stack', i, a) = {} /\ a \notin DOMAIN saved
    <3>1. mem[a] = i
      BY <2>1, <2>3, <2>6, RestoredNone
    <3>2. mem'[a] = mem[a]
      BY <1>1, <1>index, <2>2, <2>6, <3>1
    <3>3. QED
      BY <2>6, <3>1, <3>2, RestoredNone
  <2>7. QED
    BY <2>4, <2>5, <2>6
<1>12. ParamsKept'
  <2> SUFFICES ASSUME NEW i \in 1 .. m, stack[i].how = "zp", SeenByAllocators(stack[i].fn),
                      NEW a \in slots[stack[i].fn]
               PROVE  mem'[a] = i
    BY <1>2, <1>5, <1>6 DEF ParamsKept
  <2>1. mem[a] = i /\ i # n
    BY <1>index DEF RunIInv, ParamsKept, n
  <2>2. stack[i].fn \in Names
    BY <1>2, <1>index, ProgramParts DEF RunIInv, FramesInv, n
  <2>3. a \in Addresses /\ a \notin DOMAIN saved
    BY <1>7, <2>2, BodyPlaces
  <2>4. QED
    BY <1>1, <2>1, <2>3
<1>13. QED
  BY <1>3, <1>8, <1>9, <1>10, <1>11, <1>12 DEF RunIInv

-----------------------------------------------------------------------------
(* Nothing runs while the plan is made.                                    *)
LEMMA PlanInv ==
  ASSUME RunIInv, Plan
  PROVE  RunIInv'
<1>1. PlanNext /\ UNCHANGED <<stack, mem>> /\ phase # "done"
  BY DEF Plan, PlanNext, SelectAbi, BuildCallgraph, AllocateSlots, SlotsDone, AllocateLocals, LocalsDone
<1>2. PlanIInv'
  BY <1>1, PlanStepInv DEF RunIInv
<1>3. stack = <<>> /\ stack' = <<>> /\ Len(stack') = 0
  BY <1>1 DEF RunIInv, StackTyped
<1>4. StackTyped'
  BY <1>1, <1>3 DEF RunIInv, StackTyped
<1>5. FramesInv' /\ ChainInv' /\ LocalsKept' /\ ParamsKept'
  BY <1>3 DEF FramesInv, ChainInv, LocalsKept, ParamsKept
<1>6. QED
  BY <1>2, <1>4, <1>5 DEF RunIInv

LEMMA RunInit ==
  ASSUME Init
  PROVE  RunIInv
<1>1. PlanIInv
  BY PlanInitInv DEF Init
<1>2. stack = <<>> /\ Len(stack) = 0 /\ mem = [a \in Addresses |-> 0]
  BY DEF Init
<1>3. StackTyped
  BY <1>2, DepthAssumption DEF StackTyped
<1>4. FramesInv /\ ChainInv /\ LocalsKept /\ ParamsKept
  BY <1>2 DEF FramesInv, ChainInv, LocalsKept, ParamsKept
<1>5. QED
  BY <1>1, <1>3, <1>4 DEF RunIInv

LEMMA RunStep ==
  ASSUME RunIInv, [Next]_vars
  PROVE  RunIInv'
<1>1. CASE Plan
  BY <1>1, PlanInv
<1>2. ASSUME NEW f \in Names, Start(f) PROVE RunIInv'
  BY <1>2, StartInv
<1>3. ASSUME NEW f \in Names, Call(f) PROVE RunIInv'
  BY <1>3, CallInv
<1>4. ASSUME NEW f \in Names, IndirectCall(f) PROVE RunIInv'
  BY <1>4, IndirectCallInv
<1>5. ASSUME NEW f \in Names, CallExtern(f) PROVE RunIInv'
  BY <1>5, CallExternInv
<1>6. CASE Body
  BY <1>6, BodyInv
<1>7. CASE Return
  BY <1>7, ReturnInv
<1>8. CASE UNCHANGED vars
  <2>1. UNCHANGED <<prog, phase, abi, placed, slots, pooled, pools, stack, mem>>
    BY <1>8 DEF vars
  <2>2. PlanIInv'
    BY <2>1, PlanStepInv DEF RunIInv, planVars
  <2>3. StackTyped' /\ ChainInv'
    BY <2>1 DEF RunIInv, StackTyped, ChainInv
  <2>4. FramesInv'
    <3>1. \A g : /\ BodyBytes(g)' = BodyBytes(g) /\ KeptBytes(g)' = KeptBytes(g)
                /\ SavedBytes(g)' = SavedBytes(g)
      BY <2>1 DEF BodyBytes, KeptBytes, SavedBytes, AcrossBytes, TempBytes, LowestFree, BlockedAddrs
    <3>2. QED
      BY <2>1, <3>1 DEF RunIInv, FramesInv
  <2>5. LocalsKept' /\ ParamsKept'
    BY <2>1 DEF RunIInv, LocalsKept, ParamsKept, SeenByAllocators
  <2>6. QED
    BY <2>2, <2>3, <2>4, <2>5 DEF RunIInv
<1>9. QED
  BY <1>1, <1>2, <1>3, <1>4, <1>5, <1>6, <1>7, <1>8 DEF Next

(* The inductive invariant of a running program.                           *)
THEOREM RunInvariant == Spec => []RunIInv
<1>1. Init => RunIInv
  BY RunInit
<1>2. RunIInv /\ [Next]_vars => RunIInv'
  BY RunStep
<1>3. QED
  BY <1>1, <1>2, PTL DEF Spec

(* The variables keep their types while the program runs.                  *)
THEOREM RunTyped == Spec => []TypeOK
<1>1. ASSUME RunIInv PROVE TypeOK
  <2>1. PlanTypeOK /\ mem \in [Addresses -> Nat] /\ Len(stack) <= MaxDepth /\ stack \in Seq(Frames)
    BY <1>1, PlanInvTyped DEF RunIInv, StackTyped
  <2>2. ASSUME NEW i \in 1 .. Len(stack) PROVE IsActivation(stack[i])
    <3>1. stack[i] \in Frames
      BY <2>1, ElementOfSeq
    <3>2. QED
      BY <3>1 DEF Frames, IsActivation
  <2>3. QED
    BY <2>1, <2>2 DEF TypeOK
<1>2. QED
  BY <1>1, RunInvariant, PTL

(* In every program: no body byte that an activation still needs is lost   *)
(* to the calls above it, wherever regalloc and the pools put it.          *)
THEOREM LocalsAlwaysKept == Spec => []LocalsKept
<1>1. RunIInv => LocalsKept
  BY DEF RunIInv
<1>2. QED
  BY <1>1, RunInvariant, PTL

(* In every program: the parameters of a zp_abi function that has a pool   *)
(* and whose zp_abi descendants are reached through zp_abi functions alone *)
(* are in place until it returns.                                          *)
THEOREM ParamsAlwaysKept == Spec => []ParamsKept
<1>1. RunIInv => ParamsKept
  BY DEF RunIInv
<1>2. QED
  BY <1>1, RunInvariant, PTL

-----------------------------------------------------------------------------
(* Every function a pointer can hold is stored by an instruction of        *)
(* another function of the unit: the only stores _address_taken looks at.  *)
AddressesSeen == PointerTargets \subseteq AddressTaken(prog)

(* A function pushed on the stack with its own convention disturbs nothing. *)
LEMMA EnterAgrees ==
  ASSUME RunIInv, ConventionsAgree, NEW f \in prog.defined, NEW how \in {"zp", "soft"},
         Enter(f, how), UNCHANGED planVars, how = abi[f]
  PROVE  ConventionsAgree'
<1> DEFINE n == Len(stack)
<1>1. f \in Names /\ abi' = abi
  BY ProgramParts DEF planVars, RunIInv, PlanIInv, AllocIInv, AllocTyped
<1>2. PICK frame : /\ frame.fn = f /\ frame.how = how /\ stack' = Append(Below, frame)
  BY DEF Enter
<1>3. Below \in Seq(Frames) /\ Len(Below) = n /\ n \in Nat
      /\ \A i \in 1 .. n : Below[i].fn = stack[i].fn /\ Below[i].how = stack[i].how
  BY BelowShape
<1>4. /\ Len(stack') = n + 1 /\ \A i \in 1 .. n : stack'[i] = Below[i]
      /\ stack'[n + 1] = frame
  BY <1>2, <1>3
<1>5. ASSUME NEW i \in 1 .. (n + 1) PROVE stack'[i].how = abi'[stack'[i].fn]
  <2>1. CASE i = n + 1
    BY <1>1, <1>2, <1>4, <2>1
  <2>2. CASE i \in 1 .. n
    BY <1>1, <1>3, <1>4, <2>2 DEF ConventionsAgree
  <2>3. QED
    BY <1>3, <2>1, <2>2
<1>6. QED
  BY <1>4, <1>5 DEF ConventionsAgree

(* select_abi gives the soft stack to every function that is called        *)
(* through a pointer, if it sees where the address is stored.              *)
LEMMA AgreeStep ==
  ASSUME RunIInv, AddressesSeen => ConventionsAgree, [Next]_vars
  PROVE  (AddressesSeen => ConventionsAgree)'
<1> SUFFICES ASSUME AddressesSeen' PROVE ConventionsAgree'
  OBVIOUS
<1>1. prog' = prog
  BY DEF Next, Plan, Start, Call, IndirectCall, CallExtern, Body, Return, planVars, vars,
         PlanNext, SelectAbi, BuildCallgraph, AllocateSlots, SlotsDone, AllocateLocals, LocalsDone
<1>2. AddressesSeen /\ ConventionsAgree
  BY <1>1 DEF AddressesSeen, PointerTargets
<1>3. abi \in [Names -> {"zp", "soft"}] /\ prog.defined \subseteq Names
      /\ (phase = "done" => abi = SelectedAbi(prog))
  BY ProgramParts DEF RunIInv, PlanIInv, AllocIInv, AllocTyped, PhaseInv
<1>4. stack \in Seq(Frames)
  BY DEF RunIInv, StackTyped
<1>5. CASE Plan
  <2>1. stack' = <<>> /\ Len(stack') = 0
    BY <1>5 DEF RunIInv, StackTyped, Plan, PlanNext, SelectAbi, BuildCallgraph, AllocateSlots,
                SlotsDone, AllocateLocals, LocalsDone
  <2>2. QED
    BY <2>1 DEF ConventionsAgree
<1>6. ASSUME NEW f \in Names, Start(f) \/ Call(f) PROVE ConventionsAgree'
  <2>1. f \in prog.defined /\ Enter(f, abi[f]) /\ UNCHANGED planVars
    BY <1>6 DEF Start, Call
  <2>2. QED
    BY <1>2, <1>3, <2>1, EnterAgrees
<1>7. ASSUME NEW f \in Names, IndirectCall(f) PROVE ConventionsAgree'
  <2>1. f \in PointerTargets /\ f \in prog.defined /\ Enter(f, "soft") /\ UNCHANGED planVars
        /\ abi = SelectedAbi(prog)
    BY <1>3, <1>7 DEF IndirectCall, PointerTargets
  <2>2. f \in AddressTaken(prog)
    BY <1>2, <2>1 DEF AddressesSeen
  <2>3. abi[f] = "soft"
    BY <2>1, <2>2 DEF SelectedAbi, ValidatesZpAbi
  <2>4. QED
    BY <1>2, <2>1, <2>3, EnterAgrees
<1>8. ASSUME NEW f \in Names, CallExtern(f) PROVE ConventionsAgree'
  <2>1. stack' = Below /\ abi' = abi
    BY <1>8 DEF CallExtern, planVars
  <2>2. QED
    BY <1>2, <2>1, BelowShape DEF ConventionsAgree
<1>9. CASE Body
  <2>1. stack # <<>> /\ stack' = [stack EXCEPT ![Len(stack)].live = @ \cup BodyBytes(Top.fn)] /\ abi' = abi
    BY <1>9 DEF Body, planVars
  <2>2. Len(stack) \in Nat /\ Len(stack') = Len(stack)
    BY <1>4, <2>1
  <2>3. \A i \in 1 .. Len(stack) : stack'[i].fn = stack[i].fn /\ stack'[i].how = stack[i].how
    <3>1. \A i \in 1 .. Len(stack) : stack[i] \in Frames
      BY <1>4, ElementOfSeq
    <3>2. QED
      BY <1>4, <2>1, <2>2, <3>1 DEF Frames
  <2>4. QED
    BY <1>2, <2>1, <2>2, <2>3 DEF ConventionsAgree
<1>10. CASE Return
  <2>1. stack # <<>> /\ stack' = SubSeq(stack, 1, Len(stack) - 1) /\ abi' = abi
    BY <1>10 DEF Return, planVars
  <2>2. /\ Len(stack') = Len(stack) - 1 /\ Len(stack) \in Nat \ {0}
        /\ \A i \in 1 .. (Len(stack) - 1) : stack'[i] = stack[i]
    BY <1>4, <2>1, PopShape
  <2>3. QED
    BY <1>2, <2>1, <2>2 DEF ConventionsAgree
<1>11. CASE UNCHANGED vars
  BY <1>2, <1>11 DEF vars, ConventionsAgree
<1>12. QED
  BY <1>5, <1>6, <1>7, <1>8, <1>9, <1>10, <1>11 DEF Next

(* Caller and callee agree on where the arguments are, in every program    *)
(* that stores function addresses only where _address_taken looks: the     *)
(* disagreement that InitializerPrograms shows has no other cause.         *)
THEOREM ConventionsAlwaysAgree == Spec => [](AddressesSeen => ConventionsAgree)
<1>1. Init => (AddressesSeen => ConventionsAgree)
  <2>1. Init => Len(stack) = 0
    BY DEF Init
  <2>2. QED
    BY <2>1 DEF ConventionsAgree
<1>2. RunIInv /\ (AddressesSeen => ConventionsAgree) /\ [Next]_vars => (AddressesSeen => ConventionsAgree)'
  BY AgreeStep
<1>3. QED
  BY <1>1, <1>2, RunInvariant, PTL DEF Spec
=============================================================================
