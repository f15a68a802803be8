--------------------------- MODULE ColoringProofs ---------------------------
(***************************************************************************)
(* Proofs about Coloring, for functions of any shape and size, any names   *)
(* and any pool: the dataflow ends with exact liveness, names that         *)
(* interfere never share a home, and the coloured code finds in the home   *)
(* of a name the value the name was given.                                 *)
(***************************************************************************)
EXTENDS Coloring, TLAPS

-----------------------------------------------------------------------------
(* The inductive invariant. *)

Early == {"liveness", "interference"}
Unpinned == Early \cup {"coalescing"}
Uncolored == Unpinned \cup {"required", "hintsX", "hintsY"}

(* The dataflow never goes beyond the answer, and what a sweep without a   *)
(* change has passed is in balance.                                        *)
LiveInv ==
  /\ \A b \in Blocks(fn) : \A n \in liveIn[b] : b \in LiveBlocks(fn, n)
  /\ \A b \in Blocks(fn) : phase # "liveness" \/ (~changed /\ b < at) => Stable(b)

(* The blocks the graph knows. *)
Walked == {b \in Blocks(fn) : phase = "interference" => b < at}

(* An interference found stays one between the representatives. *)
EdgesKept ==
  phase # "liveness" =>
    \A b \in Walked : \A x, y \in Names :
      x # y /\ {x, y} \in BlockEdges(b) => rep[x] # rep[y] /\ {rep[x], rep[y]} \in edges
(* The mark of a name that lives across a call goes with it. *)
AcrossKept ==
  phase # "liveness" /\ CallsMeetNames(fn) =>
    \A b \in Walked : \A k \in Calls(fn, b) : \A n \in LiveColorable(b, k) : rep[n] \in across
GraphInv ==
  /\ phase = "interference" => \A b \in Walked : BlockNodes(fn, b) \subseteq nodes
  /\ \A n \in Names : n \notin fn.colorable \/ phase \in Early => rep[n] = n

PinInv ==
  /\ phase \in Unpinned => \A n \in Names : pin[n] = "none"
  /\ \A n \in Names : pin[n] \in Regs =>
       /\ n \in nodes /\ n \notin across
       /\ Members(n) \subseteq fn.eligible[pin[n]]
       /\ ~Clobbered(n, pin[n])
  /\ \A m, n \in Names : {m, n} \in edges /\ m # n /\ pin[m] \in Regs => pin[m] # pin[n]

ColorInv ==
  /\ phase \in Uncolored => colored = {}
  /\ phase = "coloring" => todo \cap colored = {}
  /\ \A n \in colored :
       /\ Span(n) \subseteq Bytes /\ Span(n) \cap fn.blocked = {}
       /\ n \in across /\ ~fn.private => Span(n) \cap CallerSaved = {}
  /\ \A m, n \in colored : {m, n} \in edges /\ m # n => Span(m) \cap Span(n) = {}

(* Every name that is live and has been assigned is at home. *)
RunInv ==
  /\ phase \notin {"running", "returned"} => defd = {}
  /\ phase = "running" /\ CallsMeetNames(fn) /\ HiddenWritesApart(fn) =>
       \A n \in LiveAfter(blk, idx) \cap defd : Holds(n)

(* Names that interfere somewhere have homes apart: what the coloring is  *)
(* for. *)
HomesDistinct ==
  phase \notin Early =>
    \A b \in Blocks(fn) : \A x, y \in Names :
      x # y /\ {x, y} \in BlockEdges(b) =>
        /\ HomeBytes(x) \cap HomeBytes(y) = {}
        /\ HomeReg(x) \in Regs => HomeReg(x) # HomeReg(y)

CIInv == TypeOK /\ LiveInv /\ EdgesKept /\ AcrossKept /\ GraphInv /\ PinInv /\ ColorInv /\ RunInv

-----------------------------------------------------------------------------
(* The shape of a function.                                                *)
LEMMA FnShape ==
  ASSUME NEW f \in Functions
  PROVE  /\ IsFunction(f)
         /\ Len(f.blocks) \in Nat \ {0} /\ Blocks(f) = 1 .. Len(f.blocks)
         /\ \A b \in Blocks(f) : IsBlock(f.blocks[b], Blocks(f))
<1>1. IsFunction(f)
  BY FunctionsAssumption
<1> DEFINE S == {f.blocks[b] : b \in DOMAIN f.blocks}
<1>2. f.blocks \in Seq(S) /\ f.blocks # <<>>
  BY <1>1 DEF IsFunction
<1> HIDE DEF S
<1>3. Len(f.blocks) \in Nat /\ DOMAIN f.blocks = 1 .. Len(f.blocks)
  BY <1>2
<1>4. Len(f.blocks) # 0
  BY <1>2
<1>5. QED
  BY <1>1, <1>3, <1>4 DEF IsFunction, Blocks

LEMMA BlockShape ==
  ASSUME NEW f \in Functions, NEW b \in Blocks(f)
  PROVE  /\ Last(f, b) \in Nat /\ DOMAIN Code(f, b) = 1 .. Last(f, b)
         /\ \A k \in 1 .. Last(f, b) : IsInstr(Code(f, b)[k])
         /\ f.blocks[b].succ \subseteq Blocks(f)
         /\ \A p \in f.blocks[b].phis : p.dst \in Names /\ \A s \in Blocks(f) : p.args[s] \in Names \cup {NoName}
<1>1. IsBlock(f.blocks[b], Blocks(f))
  BY FnShape
<1> DEFINE S == {Code(f, b)[k] : k \in DOMAIN Code(f, b)}
<1>2. Code(f, b) \in Seq(S)
  BY <1>1 DEF IsBlock, Code
<1> HIDE DEF S
<1>3. Last(f, b) \in Nat /\ DOMAIN Code(f, b) = 1 .. Last(f, b)
  BY <1>2 DEF Last
<1>4. QED
  BY <1>1, <1>3 DEF IsBlock, Code

LEMMA LiveNames ==
  ASSUME NEW f \in Functions, NEW b \in Blocks(f)
  PROVE  /\ PhiDsts(f, b) \subseteq Names /\ PhiUses(f, b) \subseteq Names
         /\ Gen(f, b) \subseteq Names /\ Dsts(f, b) \subseteq Names
         /\ BlockNodes(f, b) \subseteq f.colorable
<1>1. PhiDsts(f, b) \subseteq Names
  BY BlockShape DEF PhiDsts
<1>2. PhiUses(f, b) \subseteq Names
  BY BlockShape DEF PhiUses
<1>3. Dsts(f, b) \subseteq Names
  BY BlockShape DEF Dsts, IsInstr
<1>4. QED
  BY <1>1, <1>2, <1>3 DEF Gen, UsedAfter, BlockNodes

(* Over one instruction, backwards.                                        *)
LEMMA LiveBefore ==
  ASSUME NEW f \in Functions, NEW b \in Blocks(f), NEW out \in SUBSET Names,
         NEW k \in Nat, k < Last(f, b)
  PROVE  /\ Code(f, b)[k + 1].uses \subseteq LiveWhen(f, out, b, k)
         /\ \A n \in LiveWhen(f, out, b, k + 1) :
              n # Code(f, b)[k + 1].dst => n \in LiveWhen(f, out, b, k)
<1> DEFINE L == Last(f, b)
           C == Code(f, b)
<1>1. L \in Nat /\ k + 1 \in 1 .. L /\ IsInstr(C[k + 1])
  BY BlockShape
<1>2. C[k + 1].uses \subseteq UsedAfter(f, b, k)
  <2>1. C[k + 1].uses \subseteq Names
    BY <1>1 DEF IsInstr
  <2>2. k + 1 \in k + 1 .. L /\ \A m \in k + 1 .. (k + 1) - 1 : FALSE
    BY <1>1
  <2>3. QED
    BY <2>1, <2>2 DEF UsedAfter
<1>3. ASSUME NEW n \in UsedAfter(f, b, k + 1), n # C[k + 1].dst
      PROVE  n \in UsedAfter(f, b, k)
  <2>1. PICK j \in (k + 1) + 1 .. L : n \in C[j].uses /\ \A m \in (k + 1) + 1 .. j - 1 : C[m].dst # n
    BY DEF UsedAfter
  <2>2. j \in k + 1 .. L /\ \A m \in k + 1 .. j - 1 : C[m].dst # n
    BY <1>1, <1>3, <2>1
  <2>3. n \in Names
    BY DEF UsedAfter
  <2>4. QED
    BY <2>1, <2>2, <2>3 DEF UsedAfter
<1>4. ASSUME NEW n \in Through(f, b, k + 1), n # C[k + 1].dst
      PROVE  n \in Through(f, b, k)
  <2>1. n \in Names /\ \A m \in (k + 1) + 1 .. L : C[m].dst # n
    BY DEF Through
  <2>2. \A m \in k + 1 .. L : C[m].dst # n
    BY <1>1, <1>4, <2>1
  <2>3. QED
    BY <2>1, <2>2 DEF Through
<1>5. QED
  BY <1>2, <1>3, <1>4 DEF LiveWhen

(* At the end of a block, and at its start.                                *)
LEMMA LiveEnds ==
  ASSUME NEW f \in Functions, NEW b \in Blocks(f), NEW out \in SUBSET Names
  PROVE  /\ LiveWhen(f, out, b, Last(f, b)) = out
         /\ LiveWhen(f, out, b, 0) \ PhiDsts(f, b) \subseteq Gen(f, b) \cup (out \ Kill(f, b))
<1>1. Last(f, b) \in Nat /\ DOMAIN Code(f, b) = 1 .. Last(f, b)
  BY BlockShape
<1>2. \A j \in Last(f, b) + 1 .. Last(f, b) : FALSE
  BY <1>1
<1>3. LiveWhen(f, out, b, Last(f, b)) = out
  BY <1>2 DEF LiveWhen, UsedAfter, Through
<1>4. \A n \in Through(f, b, 0) : n \notin Dsts(f, b)
  BY <1>1 DEF Through, Dsts
<1>5. QED
  BY <1>3, <1>4 DEF LiveWhen, Gen, Kill

-----------------------------------------------------------------------------
(* Liveness. *)

(* The blocks where a name is live are closed themselves.                  *)
LEMMA LiveBlocksClosed ==
  ASSUME NEW f \in Functions, NEW n \in Names
  PROVE  LiveClosed(f, n, LiveBlocks(f, n))
<1> SUFFICES ASSUME NEW b \in Blocks(f),
                    ReadsFirst(f, b, n)
                    \/ (n \notin Kill(f, b) /\ \E s \in f.blocks[b].succ : s \in LiveBlocks(f, n)),
                    NEW S \in SUBSET Blocks(f), LiveClosed(f, n, S)
             PROVE  b \in S
  BY DEF LiveClosed, LiveBlocks
<1>1. CASE ReadsFirst(f, b, n)
  BY <1>1 DEF LiveClosed
<1>2. CASE n \notin Kill(f, b) /\ \E s \in f.blocks[b].succ : s \in LiveBlocks(f, n)
  <2>1. PICK s \in f.blocks[b].succ : s \in LiveBlocks(f, n)
    BY <1>2
  <2>2. s \in S
    BY <2>1 DEF LiveBlocks
  <2>3. QED
    BY <1>2, <2>2 DEF LiveClosed
<1>3. QED
  BY <1>1, <1>2

LEMMA LiveInvFlow == TypeOK /\ LiveInv /\ FlowBlock => LiveInv'
<1> SUFFICES ASSUME TypeOK, LiveInv, FlowBlock PROVE LiveInv'
  OBVIOUS
<1>1. /\ fn \in Functions /\ at \in Blocks(fn) /\ fn' = fn /\ phase' = phase /\ phase = "liveness"
      /\ liveIn \in [Blocks(fn) -> SUBSET Names] /\ liveOut \in [Blocks(fn) -> SUBSET Names]
      /\ liveOut' = [liveOut EXCEPT ![at] = NewOut(at)]
      /\ liveIn' = [liveIn EXCEPT ![at] = NewIn(at)]
      /\ at' = at + 1 /\ changed' = (changed \/ ~Stable(at))
  BY DEF TypeOK, FlowBlock
<1>2. \A b \in Blocks(fn) : b \in Nat
  BY <1>1, FnShape
<1>3. ASSUME NEW n \in NewIn(at)
      PROVE  at \in LiveBlocks(fn, n)
  <2>1. Gen(fn, at) \subseteq Names /\ PhiUses(fn, at) \subseteq Names /\ fn.blocks[at].succ \subseteq Blocks(fn)
    BY <1>1, LiveNames, BlockShape
  <2>2. n \in Names
    BY <1>1, <2>1 DEF NewIn, NewOut
  <2>3. ReadsFirst(fn, at, n)
        \/ (n \notin Kill(fn, at) /\ \E s \in fn.blocks[at].succ : n \in liveIn[s])
    BY DEF NewIn, NewOut, ReadsFirst
  <2>4. \A s \in fn.blocks[at].succ : n \in liveIn[s] => s \in LiveBlocks(fn, n)
    BY <2>1 DEF LiveInv
  <2>5. LiveClosed(fn, n, LiveBlocks(fn, n))
    BY <1>1, <2>2, LiveBlocksClosed
  <2>6. QED
    BY <1>1, <2>3, <2>4, <2>5 DEF LiveClosed
<1>4. \A b \in Blocks(fn)' : \A n \in liveIn'[b] : b \in LiveBlocks(fn', n)
  BY <1>1, <1>3 DEF LiveInv
<1>5. ASSUME NEW b \in Blocks(fn), ~changed', b < at'
      PROVE  Stable(b)'
  <2>1. ~changed /\ Stable(at)
    BY <1>1, <1>5
  <2>2. liveOut' = liveOut /\ liveIn' = liveIn
    BY <1>1, <2>1 DEF Stable
  <2>3. b < at \/ b = at
    BY <1>1, <1>2, <1>5
  <2>4. Stable(b)
    BY <2>1, <2>3 DEF LiveInv
  <2>5. QED
    BY <1>1, <2>2, <2>4 DEF Stable, NewOut, NewIn
<1>6. QED
  BY <1>1, <1>4, <1>5 DEF LiveInv

(* The other steps leave the analysis alone.                               *)
LEMMA NextCases ==
  ASSUME [Next]_vars
  PROVE  \/ FlowBlock \/ NextSweep \/ EndLiveness
         \/ /\ phase # "liveness" /\ phase' # "liveness"
            /\ UNCHANGED <<fn, changed, analysis>>
         \/ UNCHANGED vars
<1>1. CASE Allocate
  BY <1>1 DEF Allocate, AddBlock, EndInterference, Coalesce, PinRequired, RefuseRequired, PinHint,
              Color, EndLoop, Successor, analysis
<1>2. CASE Execute
  BY <1>2 DEF Execute, analysis
<1>3. CASE \E s \in Blocks(fn) : TakeEdge(s)
  BY <1>3 DEF TakeEdge, analysis
<1>4. CASE Return
  BY <1>4 DEF Return, analysis
<1>5. QED
  BY <1>1, <1>2, <1>3, <1>4 DEF Next

LEMMA LiveInvNext == TypeOK /\ LiveInv /\ [Next]_vars => LiveInv'
<1> SUFFICES ASSUME TypeOK, LiveInv, [Next]_vars PROVE LiveInv'
  OBVIOUS
<1>1. CASE FlowBlock
  BY <1>1, LiveInvFlow
<1>2. ASSUME fn' = fn, liveIn' = liveIn, liveOut' = liveOut,
             \A b \in Blocks(fn) : phase' # "liveness" \/ (~changed' /\ b < at') => Stable(b)
      PROVE  LiveInv'
  BY <1>2 DEF LiveInv, Stable, NewOut, NewIn
<1>3. CASE NextSweep
  <2>1. \A b \in Blocks(fn) : ~(b < 1)
    BY FnShape DEF TypeOK
  <2>2. QED
    BY <1>2, <1>3, <2>1 DEF NextSweep, analysis
<1>4. CASE EndLiveness
  <2>1. \A b \in Blocks(fn) : b < at
    <3>1. at \in Nat \ {0} /\ at \notin Blocks(fn) /\ fn \in Functions
      BY <1>4 DEF TypeOK, EndLiveness
    <3>2. QED
      BY <3>1, FnShape
  <2>2. \A b \in Blocks(fn) : Stable(b)
    BY <1>4, <2>1 DEF LiveInv, EndLiveness
  <2>3. QED
    BY <1>2, <1>4, <2>2 DEF EndLiveness, analysis
<1>5. CASE phase # "liveness" /\ phase' # "liveness" /\ UNCHANGED <<fn, changed, analysis>>
  BY <1>2, <1>5 DEF LiveInv, analysis
<1>6. CASE UNCHANGED vars
  BY <1>2, <1>6 DEF LiveInv, vars, analysis
<1>7. QED
  BY <1>1, <1>3, <1>4, <1>5, <1>6, NextCases

(* In balance, the dataflow has missed nothing.                            *)
LEMMA BalanceIsExact ==
  ASSUME TypeOK, LiveInv, phase # "liveness", NEW n \in Names
  PROVE  {b \in Blocks(fn) : n \in liveIn[b]} = LiveBlocks(fn, n)
<1> DEFINE S == {b \in Blocks(fn) : n \in liveIn[b]}
<1>1. fn \in Functions
  BY DEF TypeOK
<1>2. ASSUME NEW b \in Blocks(fn),
             ReadsFirst(fn, b, n) \/ (n \notin Kill(fn, b) /\ \E s \in fn.blocks[b].succ : s \in S)
      PROVE  b \in S
  <2>1. liveIn[b] = NewIn(b)
    BY DEF LiveInv, Stable
  <2>2. QED
    BY <1>2, <2>1 DEF NewIn, NewOut, ReadsFirst
<1>3. LiveClosed(fn, n, S)
  BY <1>2 DEF LiveClosed
<1>4. LiveBlocks(fn, n) \subseteq S
  BY <1>3 DEF LiveBlocks
<1>5. S \subseteq LiveBlocks(fn, n)
  BY DEF LiveInv
<1>6. QED
  BY <1>4, <1>5

(* What is live where, computed and by paths.                              *)
LEMMA LiveAfterExact ==
  ASSUME TypeOK, LiveInv, phase # "liveness", NEW b \in Blocks(fn)
  PROVE  /\ liveOut[b] = LiveOutOf(fn, b)
         /\ \A k : LiveAfter(b, k) = LiveAt(fn, b, k)
<1>1. fn \in Functions /\ liveIn \in [Blocks(fn) -> SUBSET Names] /\ fn.blocks[b].succ \subseteq Blocks(fn)
  BY BlockShape DEF TypeOK
<1>2. liveOut[b] = PhiUses(fn, b) \cup UNION {liveIn[s] : s \in fn.blocks[b].succ}
  BY DEF LiveInv, Stable, NewOut
<1>3. \A n \in Names : \A s \in Blocks(fn) : n \in liveIn[s] <=> s \in LiveBlocks(fn, n)
  <2>1. SUFFICES ASSUME NEW n \in Names, NEW s \in Blocks(fn)
                 PROVE  n \in liveIn[s] <=> s \in LiveBlocks(fn, n)
    OBVIOUS
  <2>2. {c \in Blocks(fn) : n \in liveIn[c]} = LiveBlocks(fn, n)
    BY BalanceIsExact
  <2>3. QED
    BY <2>2
<1>4. UNION {liveIn[s] : s \in fn.blocks[b].succ}
      = {n \in Names : \E s \in fn.blocks[b].succ : s \in LiveBlocks(fn, n)}
  BY <1>1, <1>3
<1>5. QED
  BY <1>2, <1>4 DEF LiveOutOf, LiveAt, LiveAfter

-----------------------------------------------------------------------------
(* The graph. *)

(* What the definitions on the graph and its walk depend on.               *)
LEMMA SameCode ==
  ASSUME fn' = fn, liveOut' = liveOut
  PROVE  /\ \A b : BlockEdges(b)' = BlockEdges(b)
         /\ \A b, k : LiveColorable(b, k)' = LiveColorable(b, k)
         /\ \A b, k : LiveAfter(b, k)' = LiveAfter(b, k)
<1>1. \A b, k : LiveAfter(b, k)' = LiveAfter(b, k)
  BY DEF LiveAfter
<1>2. \A b, k : LiveColorable(b, k)' = LiveColorable(b, k)
  BY <1>1 DEF LiveColorable
<1>3. QED
  BY <1>1, <1>2 DEF BlockEdges

(* The interferences of a block are among the colorable names.             *)
LEMMA EdgeNames ==
  ASSUME NEW b, NEW e \in BlockEdges(b)
  PROVE  e \subseteq fn.colorable
<1>1. \A d \in fn.colorable : \A S \in SUBSET fn.colorable : \A x \in EdgesAt(d, S) : x \subseteq fn.colorable
  BY DEF EdgesAt
<1>2. \A k : LiveColorable(b, k) \subseteq fn.colorable
  BY DEF LiveColorable
<1>3. CASE \E k \in {j \in DOMAIN Code(fn, b) : Code(fn, b)[j].dst \in fn.colorable} :
             e \in EdgesAt(Code(fn, b)[k].dst, LiveColorable(b, k))
  BY <1>1, <1>2, <1>3
<1>4. CASE \E d \in PhiDsts(fn, b) \cap fn.colorable :
             e \in EdgesAt(d, LiveColorable(b, 0) \cup (PhiDsts(fn, b) \cap fn.colorable))
  BY <1>1, <1>2, <1>4
<1>5. QED
  BY <1>3, <1>4 DEF BlockEdges

GraphParts == EdgesKept /\ AcrossKept /\ GraphInv

LEMMA GraphAddBlock == TypeOK /\ LiveInv /\ GraphParts /\ AddBlock => GraphParts'
<1> SUFFICES ASSUME TypeOK, LiveInv, GraphParts, AddBlock PROVE GraphParts'
  OBVIOUS
<1>1. /\ fn \in Functions /\ fn' = fn /\ liveOut' = liveOut /\ rep' = rep
      /\ phase = "interference" /\ phase' = phase /\ at \in Blocks(fn) /\ at' = at + 1
      /\ nodes' = nodes \cup BlockNodes(fn, at)
      /\ edges' = edges \cup BlockEdges(at)
      /\ across' = across \cup BlockAcross(at)
  BY DEF TypeOK, AddBlock, analysis
<1>2. \A b \in Blocks(fn) : b \in Nat \ {0}
  BY <1>1, FnShape
<1>3. \A n \in Names : rep[n] = n /\ rep'[n] = n
  BY <1>1 DEF GraphParts, GraphInv, Early
<1>4. Walked' = Walked \cup {at}
  <2>1. \A b \in Blocks(fn) : b < at + 1 <=> (b < at \/ b = at)
    BY <1>1, <1>2
  <2>2. QED
    BY <1>1, <2>1 DEF Walked
<1>5. /\ \A b : BlockEdges(b)' = BlockEdges(b)
      /\ \A b, k : LiveColorable(b, k)' = LiveColorable(b, k)
  BY <1>1, SameCode
<1>6. EdgesKept'
  <2>1. ASSUME NEW b \in Walked', NEW x \in Names, NEW y \in Names, x # y, {x, y} \in BlockEdges(b)
        PROVE  {x, y} \in edges'
    BY <1>1, <1>3, <1>4, <2>1 DEF GraphParts, EdgesKept
  <2>2. QED
    BY <1>3, <1>5, <2>1 DEF EdgesKept
<1>7. AcrossKept'
  <2>1. ASSUME CallsMeetNames(fn), NEW b \in Walked', NEW k \in Calls(fn, b),
               NEW n \in LiveColorable(b, k)
        PROVE  n \in across'
    <3>1. CASE b \in Walked
      <4>1. n \in Names
        BY <1>1, FnShape DEF LiveColorable, IsFunction
      <4>2. QED
        BY <1>1, <1>3, <2>1, <3>1, <4>1 DEF GraphParts, AcrossKept
    <3>2. CASE b = at
      <4>1. n \in LiveAt(fn, at, k) \cap fn.colorable
        BY <1>1, <2>1, <3>2, LiveAfterExact DEF LiveColorable
      <4>2. n \in Mentions(fn, at, k) \cup UNION {BlockNodes(fn, c) : c \in 1 .. at - 1}
        BY <1>1, <2>1, <3>2, <4>1 DEF CallsMeetNames
      <4>3. \A c \in 1 .. at - 1 : BlockNodes(fn, c) \subseteq nodes
        <5>1. \A c \in 1 .. at - 1 : c \in Walked
          BY <1>1, FnShape DEF Walked
        <5>2. QED
          BY <1>1, <5>1 DEF GraphParts, GraphInv
      <4>4. n \in LiveColorable(at, k) \cap (nodes \cup Mentions(fn, at, k))
        BY <2>1, <3>2, <4>2, <4>3
      <4>5. n \in BlockAcross(at)
        BY <2>1, <3>2, <4>4 DEF BlockAcross
      <4>6. QED
        BY <1>1, <4>5
    <3>3. QED
      BY <1>4, <2>1, <3>1, <3>2
  <2>2. \A b \in Walked' : \A k \in Calls(fn, b) : LiveColorable(b, k) \subseteq Names
    BY <1>1, FnShape DEF LiveColorable, IsFunction
  <2>3. QED
    BY <1>1, <1>3, <1>5, <2>1, <2>2 DEF AcrossKept
<1>8. GraphInv'
  BY <1>1, <1>3, <1>4 DEF GraphParts, GraphInv
<1>9. QED
  BY <1>6, <1>7, <1>8 DEF GraphParts

(* Merging two nodes that do not interfere: who interfered with either     *)
(* interferes with what is left.                                           *)
LEMMA MergeKeepsEdges ==
  ASSUME NEW a, NEW b, NEW x, NEW y, a # b, {a, b} \notin edges, x # y, {x, y} \in edges
  PROVE  LET X == IF x = b THEN a ELSE x
             Y == IF y = b THEN a ELSE y
         IN  X # Y /\ {X, Y} \in {Redirected(e, a, b) : e \in edges}
<1> DEFINE X == IF x = b THEN a ELSE x
           Y == IF y = b THEN a ELSE y
<1>1. Redirected({x, y}, a, b) = {X, Y}
  <2>1. CASE x = b
    <3>1. {x, y} \ {b} = {y}
      BY <2>1
    <3>2. QED
      BY <2>1, <3>1 DEF Redirected
  <2>2. CASE y = b
    <3>1. {x, y} \ {b} = {x}
      BY <2>2
    <3>2. QED
      BY <2>2, <3>1 DEF Redirected
  <2>3. CASE x # b /\ y # b
    BY <2>3 DEF Redirected
  <2>4. QED
    BY <2>1, <2>2, <2>3
<1>2. X # Y
  <2>1. {x, y} = {y, x}
    OBVIOUS
  <2>2. x = b => y # a
    BY <2>1
  <2>3. y = b => x # a
    OBVIOUS
  <2>4. QED
    BY <2>2, <2>3
<1>3. QED
  BY <1>1, <1>2

LEMMA GraphCoalesce ==
  ASSUME TypeOK, GraphParts, NEW p \in todo, Coalesce(p)
  PROVE  GraphParts'
<1> DEFINE a == rep[p[1]]
           b == rep[p[2]]
<1>1. /\ fn \in Functions /\ fn' = fn /\ liveOut' = liveOut
      /\ phase = "coalescing" /\ phase' = phase /\ at' = at
      /\ nodes \subseteq fn.colorable /\ rep \in [Names -> Names]
  BY DEF TypeOK, Coalesce, analysis
<1>2. /\ \A c : BlockEdges(c)' = BlockEdges(c)
      /\ \A c, k : LiveColorable(c, k)' = LiveColorable(c, k)
      /\ Walked' = Walked
  BY <1>1, SameCode DEF Walked
<1>3. CASE Mergeable(a, b)
  <2>1. /\ a # b /\ {a, b} \subseteq nodes /\ {a, b} \notin edges
        /\ edges' = {Redirected(e, a, b) : e \in edges}
        /\ across \subseteq across' /\ (b \in across => a \in across')
        /\ rep' = [n \in Names |-> IF rep[n] = b THEN a ELSE rep[n]]
    BY <1>3 DEF Mergeable, Coalesce, Merge
  <2>2. EdgesKept'
    <3>1. ASSUME NEW c \in Walked, NEW x \in Names, NEW y \in Names, x # y, {x, y} \in BlockEdges(c)
          PROVE  rep'[x] # rep'[y] /\ {rep'[x], rep'[y]} \in edges'
      <4>1. rep[x] # rep[y] /\ {rep[x], rep[y]} \in edges
        BY <1>1, <3>1 DEF GraphParts, EdgesKept
      <4>2. rep'[x] = (IF rep[x] = b THEN a ELSE rep[x]) /\ rep'[y] = (IF rep[y] = b THEN a ELSE rep[y])
        BY <2>1
      <4> HIDE DEF a, b
      <4>3. QED
        BY <2>1, <4>1, <4>2, MergeKeepsEdges
    <3>2. QED
      BY <1>2, <3>1 DEF EdgesKept
  <2>3. AcrossKept'
    <3>1. ASSUME CallsMeetNames(fn), NEW c \in Walked, NEW k \in Calls(fn, c), NEW n \in LiveColorable(c, k)
          PROVE  rep'[n] \in across'
      <4>1. rep[n] \in across
        BY <1>1, <3>1 DEF GraphParts, AcrossKept
      <4>2. n \in Names
        BY <1>1, FnShape DEF LiveColorable, IsFunction
      <4>3. QED
        BY <2>1, <4>1, <4>2
    <3>2. QED
      BY <1>1, <1>2, <3>1 DEF AcrossKept
  <2>4. GraphInv'
    <3>1. ASSUME NEW n \in Names, n \notin fn.colorable
          PROVE  rep'[n] = n
      <4>1. rep[n] = n
        BY <3>1 DEF GraphParts, GraphInv
      <4>2. b \in fn.colorable
        BY <1>1, <2>1
      <4>3. QED
        BY <2>1, <3>1, <4>1, <4>2
    <3>2. QED
      BY <1>1, <3>1 DEF GraphInv, Early
  <2>5. QED
    BY <2>2, <2>3, <2>4 DEF GraphParts
<1>4. CASE ~Mergeable(a, b)
  <2>1. nodes' = nodes /\ edges' = edges /\ across' = across /\ rep' = rep
    BY <1>4 DEF Coalesce, graph
  <2>2. QED
    BY <1>1, <1>2, <2>1 DEF GraphParts, EdgesKept, AcrossKept, GraphInv
<1>5. QED
  BY <1>3, <1>4

(* The other steps leave the graph alone.                                  *)
LEMMA GraphCases ==
  ASSUME [Next]_vars
  PROVE  \/ FlowBlock \/ NextSweep \/ EndLiveness \/ AddBlock
         \/ \E p \in todo : Coalesce(p)
         \/ /\ UNCHANGED <<fn, analysis, graph, rep>>
            /\ \/ EndInterference
               \/ phase \notin Early /\ phase' \notin Unpinned
               \/ phase' = phase /\ at' = at
<1>1. CASE Allocate
  BY <1>1 DEF Allocate, EndInterference, PinRequired, RefuseRequired, PinHint, Color, EndLoop,
              Successor, analysis, graph, Early, Unpinned
<1>2. CASE Execute \/ (\E s \in Blocks(fn) : TakeEdge(s)) \/ Return
  BY <1>2 DEF Execute, TakeEdge, Return, analysis, graph, Early, Unpinned
<1>3. CASE UNCHANGED vars
  BY <1>3 DEF vars, analysis, graph
<1>4. QED
  BY <1>1, <1>2, <1>3 DEF Next

LEMMA GraphNext == TypeOK /\ LiveInv /\ GraphParts /\ [Next]_vars => GraphParts'
<1> SUFFICES ASSUME TypeOK, LiveInv, GraphParts, [Next]_vars PROVE GraphParts'
  OBVIOUS
<1>1. CASE FlowBlock \/ NextSweep
  <2>1. phase' = "liveness" /\ rep' = rep /\ phase = "liveness"
    BY <1>1 DEF FlowBlock, NextSweep
  <2>2. QED
    BY <2>1 DEF GraphParts, EdgesKept, AcrossKept, GraphInv, Early
<1>2. CASE EndLiveness
  <2>1. phase' = "interference" /\ at' = 1 /\ fn' = fn /\ rep' = rep /\ phase = "liveness"
    BY <1>2 DEF EndLiveness
  <2>2. Walked' = {}
    <3>1. \A b \in Blocks(fn) : ~(b < 1)
      BY FnShape DEF TypeOK
    <3>2. QED
      BY <2>1, <3>1 DEF Walked
  <2>3. QED
    BY <2>1, <2>2 DEF GraphParts, EdgesKept, AcrossKept, GraphInv, Early
<1>3. CASE AddBlock
  BY <1>3, GraphAddBlock
<1>4. CASE \E p \in todo : Coalesce(p)
  BY <1>4, GraphCoalesce
<1>5. ASSUME UNCHANGED <<fn, analysis, graph, rep>>,
             phase' \in Early => phase' = phase, phase' = "liveness" <=> phase = "liveness", Walked' = Walked
      PROVE  GraphParts'
  <2>1. /\ \A b : BlockEdges(b)' = BlockEdges(b)
        /\ \A b, k : LiveColorable(b, k)' = LiveColorable(b, k)
    BY <1>5, SameCode DEF analysis
  <2>2. /\ fn' = fn /\ nodes' = nodes /\ edges' = edges /\ across' = across /\ rep' = rep
        /\ EdgesKept /\ AcrossKept /\ GraphInv
    BY <1>5 DEF graph, GraphParts
  <2>3. EdgesKept'
    BY <1>5, <2>1, <2>2 DEF EdgesKept
  <2>4. AcrossKept'
    BY <1>5, <2>1, <2>2 DEF AcrossKept
  <2>5. GraphInv'
    BY <1>5, <2>2 DEF GraphInv, Early
  <2>6. QED
    BY <2>3, <2>4, <2>5 DEF GraphParts
<1>6. CASE EndInterference
  <2>1. \A b \in Blocks(fn) : b < at
    <3>1. at \in Nat \ {0} /\ at \notin Blocks(fn) /\ fn \in Functions
      BY <1>6 DEF TypeOK, EndInterference
    <3>2. QED
      BY <3>1, FnShape
  <2>2. Walked' = Walked
    BY <1>6, <2>1 DEF Walked, EndInterference
  <2>3. QED
    BY <1>5, <1>6, <2>2 DEF EndInterference, Early
<1>7. CASE UNCHANGED <<fn, analysis, graph, rep>> /\ phase \notin Early /\ phase' \notin Unpinned
  BY <1>5, <1>7 DEF Early, Unpinned, Walked
<1>8. CASE UNCHANGED <<fn, analysis, graph, rep>> /\ phase' = phase /\ at' = at
  BY <1>5, <1>8 DEF Walked
<1>9. QED
  BY <1>1, <1>2, <1>3, <1>4, <1>6, <1>7, <1>8, GraphCases

-----------------------------------------------------------------------------
(* The pins. *)

LEMMA SameClobbers ==
  ASSUME fn' = fn, liveOut' = liveOut, rep' = rep
  PROVE  /\ \A n : Members(n)' = Members(n)
         /\ \A n, r : Clobbered(n, r)' = Clobbered(n, r)
<1>1. \A n : Members(n)' = Members(n)
  BY DEF Members
<1>2. \A b, k : LiveAfter(b, k)' = LiveAfter(b, k)
  BY SameCode
<1>3. QED
  BY <1>1, <1>2 DEF Clobbered, IndexesOwn

LEMMA PinStep ==
  ASSUME TypeOK, PinInv, NEW n \in Names, NEW r \in Regs, CanPin(n, r), Pin(n, r),
         UNCHANGED <<fn, analysis, graph, rep>>, phase' \notin Unpinned
  PROVE  PinInv'
<1>1. /\ fn' = fn /\ liveOut' = liveOut /\ rep' = rep
      /\ nodes' = nodes /\ edges' = edges /\ across' = across
      /\ \A m \in Names : pin'[m] = IF m = n THEN r ELSE pin[m]
  BY DEF analysis, graph, Pin, TypeOK
<1>2. /\ Members(n) \subseteq fn.eligible[r] /\ n \in nodes /\ n \notin across
      /\ \A m \in nodes : {n, m} \in edges => pin[m] # r
      /\ ~Clobbered(n, r)
  BY DEF CanPin
<1>3. /\ \A m : Members(m)' = Members(m)
      /\ \A m, q : Clobbered(m, q)' = Clobbered(m, q)
  BY <1>1, SameClobbers
<1>4. ASSUME NEW m \in Names, pin'[m] \in Regs
      PROVE  /\ m \in nodes' /\ m \notin across'
             /\ Members(m) \subseteq fn.eligible[pin'[m]]
             /\ ~Clobbered(m, pin'[m])
  <2>1. CASE m = n
    BY <1>1, <1>2, <1>3, <2>1
  <2>2. CASE m # n
    BY <1>1, <1>3, <1>4, <2>2 DEF PinInv
  <2>3. QED
    BY <2>1, <2>2
<1>5. ASSUME NEW m \in Names, NEW q \in Names, {m, q} \in edges', m # q, pin'[m] \in Regs
      PROVE  pin'[m] # pin'[q]
  <2>1. CASE m = n
    <3>1. CASE q \in nodes
      BY <1>1, <1>2, <1>5, <2>1, <3>1
    <3>2. CASE q \notin nodes
      BY <1>1, <1>5, <2>1, <3>2 DEF PinInv
    <3>3. QED
      BY <3>1, <3>2
  <2>2. CASE q = n
    <3>1. m \in nodes /\ {n, m} \in edges
      <4>1. {m, q} = {q, m}
        OBVIOUS
      <4>2. QED
        BY <1>1, <1>5, <2>2, <4>1 DEF PinInv
    <3>2. QED
      BY <1>1, <1>2, <1>5, <2>2, <3>1
  <2>3. CASE m # n /\ q # n
    BY <1>1, <1>5, <2>3 DEF PinInv
  <2>4. QED
    BY <2>1, <2>2, <2>3
<1>6. QED
  BY <1>1, <1>3, <1>4, <1>5 DEF PinInv

(* The other steps leave the pins alone.                                   *)
LEMMA PinCases ==
  ASSUME [Next]_vars
  PROVE  \/ /\ phase \in Unpinned /\ pin' = pin
         \/ \E n \in todo : \E r \in Regs :
              /\ CanPin(n, r) /\ Pin(n, r)
              /\ UNCHANGED <<fn, analysis, graph, rep>>
              /\ phase \in {"required", "hintsX", "hintsY"} /\ phase' = phase
         \/ /\ UNCHANGED <<fn, analysis, graph, rep, pin>>
            /\ phase' \in Unpinned => phase \in Unpinned
<1>1. CASE FlowBlock \/ NextSweep \/ EndLiveness \/ AddBlock \/ EndInterference \/ \E p \in todo : Coalesce(p)
  BY <1>1 DEF FlowBlock, NextSweep, EndLiveness, AddBlock, EndInterference, Coalesce, coloring,
              Unpinned, Early
<1>2. ASSUME NEW n \in todo, PinRequired(n) \/ PinHint(n)
      PROVE  \/ \E r \in Regs :
                  /\ CanPin(n, r) /\ Pin(n, r)
                  /\ UNCHANGED <<fn, analysis, graph, rep>>
                  /\ phase \in {"required", "hintsX", "hintsY"} /\ phase' = phase
             \/ UNCHANGED <<fn, analysis, graph, rep, pin>> /\ phase' = phase
  BY <1>2 DEF PinRequired, PinHint, TryPin, Regs
<1>3. CASE (\E n \in todo : RefuseRequired(n) \/ Color(n)) \/ EndLoop
  BY <1>3 DEF RefuseRequired, Color, EndLoop, coloring, Unpinned, Early, Successor
<1>4. CASE Execute \/ (\E s \in Blocks(fn) : TakeEdge(s)) \/ Return
  BY <1>4 DEF Execute, TakeEdge, Return, coloring, Unpinned, Early
<1>5. CASE UNCHANGED vars
  BY <1>5 DEF vars, coloring
<1>6. QED
  BY <1>1, <1>2, <1>3, <1>4, <1>5 DEF Next, Allocate

LEMMA PinNext == TypeOK /\ PinInv /\ [Next]_vars => PinInv'
<1> SUFFICES ASSUME TypeOK, PinInv, [Next]_vars PROVE PinInv'
  OBVIOUS
<1>1. CASE phase \in Unpinned /\ pin' = pin
  <2>1. \A n \in Names : pin'[n] = "none"
    BY <1>1 DEF PinInv
  <2>2. "none" \notin Regs
    BY DEF Regs
  <2>3. QED
    BY <2>1, <2>2 DEF PinInv
<1>2. ASSUME NEW n \in todo, NEW r \in Regs, CanPin(n, r), Pin(n, r), UNCHANGED <<fn, analysis, graph, rep>>,
             phase \in {"required", "hintsX", "hintsY"} /\ phase' = phase
      PROVE  PinInv'
  <2>1. n \in Names
    BY <1>2, FnShape DEF TypeOK, IsFunction
  <2>2. phase' \notin Unpinned
    BY <1>2 DEF Unpinned, Early
  <2>3. QED
    BY <1>2, <2>1, <2>2, PinStep
<1>3. CASE UNCHANGED <<fn, analysis, graph, rep, pin>> /\ (phase' \in Unpinned => phase \in Unpinned)
  <2>1. /\ \A m : Members(m)' = Members(m)
        /\ \A m, q : Clobbered(m, q)' = Clobbered(m, q)
    BY <1>3, SameClobbers DEF analysis
  <2>2. QED
    BY <1>3, <2>1 DEF PinInv, graph
<1>4. QED
  BY <1>1, <1>2, <1>3, PinCases

-----------------------------------------------------------------------------
(* The bytes. *)

(* Where a fit is found.                                                   *)
LEMMA ChoiceFits ==
  ASSUME TypeOK, NEW n \in Names, NEW x \in Choices(n)
  PROVE  /\ x \in Nat
         /\ Run(x, fn.width[n]) \subseteq Bytes
         /\ Run(x, fn.width[n]) \cap Taken(n) = {}
         /\ n \in across /\ ~fn.private => Run(x, fn.width[n]) \cap CallerSaved = {}
<1>1. fn.pool \subseteq Bytes
  BY FnShape DEF TypeOK, IsFunction
<1>2. \E region \in SUBSET Bytes : x \in Fits(n, region)
        /\ (n \in across /\ ~fn.private => region = CalleeSaved)
  BY <1>1, PoolAssumption DEF Choices
<1>3. QED
  BY <1>2, PoolAssumption DEF Fits

LEMMA ColorStep ==
  ASSUME TypeOK, ColorInv, NEW n \in todo, Color(n)
  PROVE  ColorInv'
<1>1. /\ fn' = fn /\ edges' = edges /\ across' = across /\ phase = "coloring" /\ phase' = phase
      /\ todo' = todo \ {n} /\ todo \subseteq nodes /\ nodes \subseteq Names /\ colored \subseteq Names
      /\ base \in [Names -> Nat]
  BY FnShape DEF TypeOK, Color, graph, IsFunction
<1>2. n \notin colored /\ n \in Names
  BY <1>1 DEF ColorInv
<1>3. CASE UNCHANGED <<colored, base>>
  <2>1. \A m : Span(m)' = Span(m)
    BY <1>1, <1>3 DEF Span
  <2>2. QED
    BY <1>1, <1>3, <2>1 DEF ColorInv, Uncolored, Unpinned, Early
<1>4. ASSUME NEW x \in Choices(n), colored' = colored \cup {n}, base' = [base EXCEPT ![n] = x]
      PROVE  ColorInv'
  <2>1. Span(n)' = Run(x, fn.width[n]) /\ \A m \in colored : Span(m)' = Span(m)
    BY <1>1, <1>2, <1>4 DEF Span
  <2>2. /\ Run(x, fn.width[n]) \subseteq Bytes
        /\ Run(x, fn.width[n]) \cap Taken(n) = {}
        /\ n \in across /\ ~fn.private => Run(x, fn.width[n]) \cap CallerSaved = {}
    BY <1>2, <1>4, ChoiceFits
  <2>3. /\ Span(n)' \cap fn.blocked = {}
        /\ \A m \in colored : {n, m} \in edges => Span(n)' \cap Span(m) = {}
    BY <2>1, <2>2 DEF Taken
  <2>4. ASSUME NEW m \in colored', NEW q \in colored', {m, q} \in edges', m # q
        PROVE  Span(m)' \cap Span(q)' = {}
    <3>1. CASE m = n
      BY <1>1, <1>4, <2>1, <2>3, <2>4, <3>1
    <3>2. CASE q = n
      <4>1. {m, q} = {n, m} /\ m \in colored
        BY <1>4, <2>4, <3>2
      <4>2. QED
        BY <1>1, <2>1, <2>3, <2>4, <3>2, <4>1
    <3>3. CASE m # n /\ q # n
      BY <1>1, <1>4, <2>1, <2>4, <3>3 DEF ColorInv
    <3>4. QED
      BY <3>1, <3>2, <3>3
  <2>5. ASSUME NEW m \in colored'
        PROVE  /\ Span(m)' \subseteq Bytes /\ Span(m)' \cap fn'.blocked = {}
               /\ m \in across' /\ ~fn'.private => Span(m)' \cap CallerSaved = {}
    <3>1. CASE m = n
      BY <1>1, <2>1, <2>2, <2>3, <3>1
    <3>2. CASE m # n
      BY <1>1, <1>4, <2>1, <3>2 DEF ColorInv
    <3>3. QED
      BY <3>1, <3>2
  <2>6. QED
    BY <1>1, <1>4, <2>4, <2>5 DEF ColorInv, Uncolored, Unpinned, Early
<1>5. QED
  BY <1>3, <1>4 DEF Color

(* The other steps leave the colors alone.                                 *)
LEMMA ColorCases ==
  ASSUME [Next]_vars
  PROVE  \/ \E n \in todo : Color(n)
         \/ /\ phase \in Uncolored /\ UNCHANGED <<colored, base>>
         \/ /\ phase' # "coloring" /\ phase' \notin Uncolored
            /\ UNCHANGED <<fn, graph, colored, base>>
         \/ UNCHANGED vars
<1>1. CASE FlowBlock \/ NextSweep \/ EndLiveness \/ AddBlock \/ EndInterference \/ \E p \in todo : Coalesce(p)
  BY <1>1 DEF FlowBlock, NextSweep, EndLiveness, AddBlock, EndInterference, Coalesce, coloring,
              Uncolored, Unpinned, Early
<1>2. CASE (\E n \in todo : PinRequired(n) \/ RefuseRequired(n) \/ PinHint(n)) \/ EndLoop
  BY <1>2 DEF PinRequired, RefuseRequired, PinHint, EndLoop, Successor, coloring, graph,
              Uncolored, Unpinned, Early
<1>3. CASE Execute \/ (\E s \in Blocks(fn) : TakeEdge(s)) \/ Return
  BY <1>3 DEF Execute, TakeEdge, Return, coloring, graph, Uncolored, Unpinned, Early
<1>4. QED
  BY <1>1, <1>2, <1>3 DEF Next, Allocate

LEMMA ColorNext == TypeOK /\ ColorInv /\ [Next]_vars => ColorInv'
<1> SUFFICES ASSUME TypeOK, ColorInv, [Next]_vars PROVE ColorInv'
  OBVIOUS
<1>1. CASE \E n \in todo : Color(n)
  BY <1>1, ColorStep
<1>2. CASE phase \in Uncolored /\ UNCHANGED <<colored, base>>
  BY <1>2 DEF ColorInv
<1>3. CASE phase' # "coloring" /\ phase' \notin Uncolored /\ UNCHANGED <<fn, graph, colored, base>>
  <2>1. \A m : Span(m)' = Span(m)
    BY <1>3 DEF Span
  <2>2. QED
    BY <1>3, <2>1 DEF ColorInv, graph
<1>4. CASE UNCHANGED vars
  <2>1. \A m : Span(m)' = Span(m)
    BY <1>4 DEF Span, vars, coloring
  <2>2. QED
    BY <1>4, <2>1 DEF ColorInv, vars, coloring, graph
<1>5. QED
  BY <1>1, <1>2, <1>3, <1>4, ColorCases

-----------------------------------------------------------------------------
(* Types. *)

LEMMA TypeFlow == TypeOK /\ FlowBlock => TypeOK'
<1> SUFFICES ASSUME TypeOK, FlowBlock PROVE TypeOK'
  OBVIOUS
<1>1. fn \in Functions /\ at \in Blocks(fn) /\ liveIn \in [Blocks(fn) -> SUBSET Names]
  BY DEF TypeOK, FlowBlock
<1>2. NewOut(at) \subseteq Names /\ NewIn(at) \subseteq Names
  <2>1. PhiUses(fn, at) \subseteq Names /\ Gen(fn, at) \subseteq Names /\ fn.blocks[at].succ \subseteq Blocks(fn)
    BY <1>1, LiveNames, BlockShape
  <2>2. QED
    BY <1>1, <2>1 DEF NewOut, NewIn
<1>3. at + 1 \in Nat \ {0}
  BY DEF TypeOK
<1>4. QED
  BY <1>2, <1>3 DEF TypeOK, FlowBlock, graph, coloring, machine

LEMMA TypeGraph ==
  TypeOK /\ (NextSweep \/ EndLiveness \/ AddBlock \/ EndInterference) => TypeOK'
<1> SUFFICES ASSUME TypeOK, NextSweep \/ EndLiveness \/ AddBlock \/ EndInterference PROVE TypeOK'
  OBVIOUS
<1>0. fn \in Functions /\ fn.colorable \subseteq Names
  BY FnShape DEF TypeOK, IsFunction
<1>1. CASE NextSweep
  <2>1. at' = 1 /\ changed' = FALSE /\ phase' = phase
    BY <1>1 DEF NextSweep
  <2>2. at' \in Nat \ {0}
    BY <2>1
  <2>3. changed' \in BOOLEAN
    BY <2>1
  <2>4. QED
    BY <1>1, <2>1, <2>2, <2>3 DEF TypeOK, NextSweep, analysis, graph, coloring, machine
<1>2. CASE EndLiveness
  BY <1>2 DEF TypeOK, EndLiveness, analysis, graph, coloring, machine
<1>3. CASE AddBlock
  <2>1. BlockNodes(fn, at) \subseteq fn.colorable
    BY DEF BlockNodes
  <2>2. BlockEdges(at) \subseteq SUBSET Names
    BY <1>0, EdgeNames
  <2>3. BlockAcross(at) \subseteq Names
    BY <1>0 DEF BlockAcross, LiveColorable
  <2>4. at + 1 \in Nat \ {0}
    BY DEF TypeOK
  <2>5. QED
    BY <1>3, <2>1, <2>2, <2>3, <2>4 DEF TypeOK, AddBlock, analysis, coloring, machine
<1>4. CASE EndInterference
  <2>1. MovePairs(fn) \subseteq Names \X Names
    BY DEF MovePairs
  <2>2. "coalescing" \in DOMAIN Successor
    BY DEF Successor
  <2>3. QED
    BY <1>4, <2>1, <2>2 DEF TypeOK, EndInterference, analysis, graph, coloring, machine
<1>5. QED
  BY <1>1, <1>2, <1>3, <1>4

LEMMA TypeCoalesce ==
  ASSUME TypeOK, ColorInv, NEW p \in todo, Coalesce(p)
  PROVE  TypeOK'
<1>1. /\ p \in Names \X Names /\ rep \in [Names -> Names] /\ nodes \subseteq fn.colorable
      /\ fn \in Functions /\ fn' = fn /\ phase = "coalescing" /\ todo' = todo \ {p}
      /\ edges \subseteq SUBSET Names /\ across \subseteq Names /\ colored = {}
  BY DEF TypeOK, Coalesce, ColorInv, Uncolored, Unpinned
<1>2. /\ nodes' \subseteq fn.colorable /\ edges' \subseteq SUBSET Names
      /\ across' \subseteq Names /\ rep' \in [Names -> Names]
  <2>1. CASE Mergeable(rep[p[1]], rep[p[2]])
    <3>1. rep[p[1]] \in Names
      BY <1>1
    <3>2. \A e \in edges : Redirected(e, rep[p[1]], rep[p[2]]) \subseteq Names
      BY <1>1, <3>1 DEF Redirected
    <3>3. QED
      BY <1>1, <2>1, <3>1, <3>2 DEF Coalesce, Merge
  <2>2. CASE ~Mergeable(rep[p[1]], rep[p[2]])
    BY <1>1, <2>2 DEF Coalesce, graph
  <2>3. QED
    BY <2>1, <2>2
<1>3. QED
  BY <1>1, <1>2 DEF TypeOK, Coalesce, analysis, coloring, machine

LEMMA TypePins ==
  ASSUME TypeOK, NEW n \in todo, PinRequired(n) \/ RefuseRequired(n) \/ PinHint(n)
  PROVE  TypeOK'
<1>1. phase \in {"required", "hintsX", "hintsY"} /\ n \in Names
  BY FnShape DEF TypeOK, PinRequired, RefuseRequired, PinHint, IsFunction
<1>2. \A r \in Regs : Pin(n, r) => pin' \in [Names -> Regs \cup {"none"}]
  BY DEF TypeOK, Pin
<1>3. pin' \in [Names -> Regs \cup {"none"}]
  <2>1. "X" \in Regs /\ "Y" \in Regs
    BY DEF Regs
  <2>2. QED
    BY <1>2, <2>1 DEF TypeOK, PinRequired, RefuseRequired, PinHint, TryPin, coloring
<1>4. CASE PinRequired(n) \/ PinHint(n)
  BY <1>1, <1>3, <1>4 DEF TypeOK, PinRequired, PinHint, analysis, graph, machine
<1>5. CASE RefuseRequired(n)
  BY <1>3, <1>5 DEF TypeOK, RefuseRequired, analysis, graph, coloring, machine
<1>6. QED
  BY <1>4, <1>5

LEMMA TypeColor ==
  ASSUME TypeOK, NEW n \in todo, Color(n)
  PROVE  TypeOK'
<1>1. n \in nodes /\ n \in Names /\ phase = "coloring"
  BY FnShape DEF TypeOK, Color, IsFunction
<1>2. colored' \subseteq nodes /\ base' \in [Names -> Nat]
  <2>1. \A x \in Choices(n) : x \in Nat
    BY <1>1, ChoiceFits
  <2>2. QED
    BY <1>1, <2>1 DEF Color, TypeOK
<1>3. QED
  BY <1>1, <1>2 DEF TypeOK, Color, analysis, graph, machine

LEMMA TypeEndLoop == TypeOK /\ EndLoop => TypeOK'
<1> SUFFICES ASSUME TypeOK, EndLoop PROVE TypeOK'
  OBVIOUS
<1>1. phase' \in {"required", "hintsX", "hintsY", "coloring", "running"} /\ todo' = Work(phase')
  BY DEF EndLoop, Successor
<1>2. Work(phase') \subseteq nodes
  BY <1>1 DEF Work, RepsOf
<1>3. phase' \in {"running"} \cup DOMAIN Successor /\ phase' # "coalescing"
  BY <1>1 DEF Successor
<1>4. QED
  BY <1>1, <1>2, <1>3 DEF TypeOK, EndLoop, analysis, graph, coloring, machine

(* What the code assigns.                                                  *)
LEMMA TypeAssign ==
  ASSUME TypeOK, NEW D \in SUBSET Names, NEW lostBytes, NEW lostRegs, AssignNames(D, lostBytes, lostRegs)
  PROVE  /\ zp' \in [Bytes -> Names \cup {NoName}] /\ reg' \in [Regs -> Names \cup {NoName}]
         /\ defd' \subseteq Names
<1>1. \A S \in SUBSET D : S # {} => (CHOOSE d \in S : TRUE) \in Names
  OBVIOUS
<1>2. \A x \in Bytes : zp[x] \in Names \cup {NoName}
  BY DEF TypeOK
<1>3. \A r \in Regs : reg[r] \in Names \cup {NoName}
  BY DEF TypeOK
<1>4. zp' \in [Bytes -> Names \cup {NoName}]
  <2>1. \A x \in Bytes : {d \in D : x \in HomeBytes(d)} \in SUBSET D
    OBVIOUS
  <2>2. QED
    BY <1>1, <1>2, <2>1 DEF AssignNames
<1>5. reg' \in [Regs -> Names \cup {NoName}]
  <2>1. \A r \in Regs : {d \in D : HomeReg(d) = r} \in SUBSET D
    OBVIOUS
  <2>2. QED
    BY <1>1, <1>3, <2>1 DEF AssignNames
<1>6. defd' \subseteq Names
  BY DEF AssignNames, TypeOK
<1>7. QED
  BY <1>4, <1>5, <1>6

LEMMA DstNames ==
  ASSUME TypeOK, idx < Last(fn, blk)
  PROVE  /\ idx + 1 \in 1 .. Last(fn, blk) /\ idx \in Nat
         /\ IsInstr(Code(fn, blk)[idx + 1])
         /\ {Code(fn, blk)[idx + 1].dst} \ {NoName} \subseteq Names
<1>1. fn \in Functions /\ blk \in Blocks(fn) /\ idx \in 0 .. Last(fn, blk)
  BY DEF TypeOK
<1>2. Last(fn, blk) \in Nat /\ \A k \in 1 .. Last(fn, blk) : IsInstr(Code(fn, blk)[k])
  BY <1>1, BlockShape
<1>3. idx + 1 \in 1 .. Last(fn, blk) /\ idx \in Nat
  BY <1>1, <1>2
<1>4. QED
  BY <1>2, <1>3 DEF IsInstr

LEMMA TypeRun ==
  TypeOK /\ (Execute \/ (\E s \in Blocks(fn) : TakeEdge(s)) \/ Return) => TypeOK'
<1> SUFFICES ASSUME TypeOK, Execute \/ (\E s \in Blocks(fn) : TakeEdge(s)) \/ Return PROVE TypeOK'
  OBVIOUS
<1>1. CASE Execute
  <2>1. idx + 1 \in 0 .. Last(fn, blk)
    <3>1. idx + 1 \in 1 .. Last(fn, blk) /\ idx \in Nat
      BY <1>1, DstNames DEF Execute
    <3>2. QED
      BY <3>1
  <2>2. /\ zp' \in [Bytes -> Names \cup {NoName}] /\ reg' \in [Regs -> Names \cup {NoName}]
        /\ defd' \subseteq Names
    BY <1>1, DstNames, TypeAssign DEF Execute
  <2>3. QED
    BY <1>1, <2>1, <2>2 DEF TypeOK, Execute, analysis, graph, coloring
<1>2. CASE \E s \in Blocks(fn) : TakeEdge(s)
  <2>1. PICK s \in Blocks(fn) : TakeEdge(s)
    BY <1>2
  <2>2. PhiDsts(fn, s) \subseteq Names /\ Last(fn, s) \in Nat
    BY BlockShape, LiveNames DEF TypeOK
  <2>3. /\ zp' \in [Bytes -> Names \cup {NoName}] /\ reg' \in [Regs -> Names \cup {NoName}]
        /\ defd' \subseteq Names
    BY <2>1, <2>2, TypeAssign DEF TakeEdge
  <2>4. 0 \in 0 .. Last(fn, s)
    BY <2>2
  <2>5. QED
    BY <2>1, <2>3, <2>4 DEF TypeOK, TakeEdge, analysis, graph, coloring
<1>3. CASE Return
  BY <1>3 DEF TypeOK, Return, analysis, graph, coloring, machine
<1>4. QED
  BY <1>1, <1>2, <1>3

LEMMA TypeNext == TypeOK /\ ColorInv /\ [Next]_vars => TypeOK'
<1> SUFFICES ASSUME TypeOK, ColorInv, [Next]_vars PROVE TypeOK'
  OBVIOUS
<1>1. CASE UNCHANGED vars
  BY <1>1 DEF TypeOK, vars, analysis, graph, coloring, machine
<1>2. QED
  BY <1>1, TypeFlow, TypeGraph, TypeCoalesce, TypePins, TypeColor, TypeEndLoop, TypeRun
     DEF Next, Allocate

-----------------------------------------------------------------------------
(* The coloured code. *)

(* Names that interfere in a block have homes apart.                       *)
LEMMA HomesApart ==
  ASSUME TypeOK, EdgesKept, PinInv, ColorInv, phase \notin Early, NEW b \in Blocks(fn),
         NEW x \in Names, NEW y \in Names, x # y, {x, y} \in BlockEdges(b)
  PROVE  /\ HomeBytes(x) \cap HomeBytes(y) = {}
         /\ HomeReg(x) \in Regs => HomeReg(x) # HomeReg(y)
<1>1. b \in Walked /\ phase # "liveness"
  BY DEF Walked, Early
<1>2. rep[x] # rep[y] /\ {rep[x], rep[y]} \in edges
  BY <1>1 DEF EdgesKept
<1>3. rep[x] \in Names /\ rep[y] \in Names
  BY DEF TypeOK
<1>4. HomeBytes(x) \cap HomeBytes(y) = {}
  BY <1>2 DEF ColorInv, HomeBytes
<1>5. HomeReg(x) \in Regs => HomeReg(x) # HomeReg(y)
  BY <1>2, <1>3 DEF PinInv, HomeReg
<1>6. QED
  BY <1>4, <1>5

(* A name that is not colorable has neither bytes nor a register.          *)
LEMMA HomeOnFrame ==
  ASSUME TypeOK, GraphInv, PinInv, NEW n \in Names, n \notin fn.colorable
  PROVE  HomeBytes(n) = {} /\ HomeReg(n) \notin Regs
<1>1. rep[n] = n
  BY DEF GraphInv
<1>2. n \notin nodes /\ n \notin colored
  BY DEF TypeOK
<1>3. QED
  BY <1>1, <1>2 DEF PinInv, HomeBytes, HomeReg

LEMMA SameHomes ==
  ASSUME UNCHANGED <<fn, rep, coloring>>
  PROVE  \A n : HomeBytes(n)' = HomeBytes(n) /\ HomeReg(n)' = HomeReg(n)
<1>1. \A m : Span(m)' = Span(m)
  BY DEF Span, coloring
<1>2. QED
  BY <1>1 DEF HomeBytes, HomeReg, coloring

(* What is at home after an assignment: the names assigned, and those that *)
(* were at home and have their home among nothing that is lost.            *)
LEMMA HoldsAfter ==
  ASSUME TypeOK, ColorInv, UNCHANGED <<fn, rep, coloring>>,
         NEW D \in SUBSET Names, NEW lostBytes, NEW lostRegs, AssignNames(D, lostBytes, lostRegs),
         NEW n \in Names,
         \A d \in D \ {n} : /\ HomeBytes(n) \cap HomeBytes(d) = {}
                            /\ HomeReg(n) \in Regs => HomeReg(n) # HomeReg(d),
         \/ n \in D
         \/ /\ Holds(n)
            /\ HomeBytes(n) \cap lostBytes = {}
            /\ HomeReg(n) \in Regs => HomeReg(n) \notin lostRegs
  PROVE  Holds(n)'
<1>1. HomeBytes(n) \subseteq Bytes
  BY DEF HomeBytes, ColorInv
<1>2. HomeBytes(n)' = HomeBytes(n) /\ HomeReg(n)' = HomeReg(n)
  BY SameHomes
<1>3. (CHOOSE d \in {n} : TRUE) = n
  OBVIOUS
<1>4. ASSUME NEW x \in HomeBytes(n)
      PROVE  zp'[x] = n
  <2> DEFINE owners == {d \in D : x \in HomeBytes(d)}
  <2>1. zp'[x] = IF owners # {} THEN CHOOSE d \in owners : TRUE
                 ELSE IF x \in lostBytes THEN NoName ELSE zp[x]
    BY <1>1 DEF AssignNames
  <2>2. CASE n \in D
    <3>1. owners = {n}
      BY <2>2
    <3>2. QED
      BY <1>3, <2>1, <3>1
  <2>3. CASE n \notin D
    <3>1. owners = {}
      BY <2>3
    <3>2. QED
      BY <2>1, <2>3, <3>1 DEF Holds
  <2>4. QED
    BY <2>2, <2>3
<1>5. ASSUME HomeReg(n) \in Regs
      PROVE  reg'[HomeReg(n)] = n
  <2> DEFINE r == HomeReg(n)
             owners == {d \in D : HomeReg(d) = r}
  <2>1. reg'[r] = IF owners # {} THEN CHOOSE d \in owners : TRUE
                  ELSE IF r \in lostRegs THEN NoName ELSE reg[r]
    BY <1>5 DEF AssignNames
  <2>2. CASE n \in D
    <3>1. owners = {n}
      BY <1>5, <2>2
    <3>2. QED
      BY <1>3, <2>1, <3>1
  <2>3. CASE n \notin D
    <3>1. owners = {}
      BY <1>5, <2>3
    <3>2. QED
      BY <1>5, <2>1, <2>3, <3>1 DEF Holds
  <2>4. QED
    BY <2>2, <2>3
<1>6. QED
  BY <1>2, <1>4, <1>5 DEF Holds

(* No instruction destroys what a colorable name that is live after it has *)
(* at home, unless it assigns the name.                                    *)
LEMMA NothingLost ==
  ASSUME CIInv, phase = "running", CallsMeetNames(fn), HiddenWritesApart(fn),
         NEW k \in DOMAIN Code(fn, blk), NEW n \in LiveColorable(blk, k)
  PROVE  /\ HomeBytes(n) \cap LostBytes(Code(fn, blk)[k]) = {}
         /\ HomeReg(n) \in Regs => HomeReg(n) \notin LostRegs(Code(fn, blk)[k])
<1> DEFINE i == Code(fn, blk)[k]
           r == HomeReg(n)
<1>1. /\ TypeOK /\ LiveInv /\ AcrossKept /\ PinInv /\ ColorInv
      /\ blk \in Blocks(fn) /\ fn \in Functions /\ n \in LiveAfter(blk, k) /\ n \in fn.colorable
  BY DEF CIInv, TypeOK, LiveColorable
<1>2. n \in Names /\ rep[n] \in Names /\ n \in Members(rep[n])
  BY <1>1, FnShape DEF TypeOK, IsFunction, Members
<1>3. i.call => rep[n] \in across
  BY <1>1 DEF AcrossKept, Walked, Calls
<1>4. HomeBytes(n) \cap LostBytes(i) = {}
  BY <1>1, <1>3 DEF ColorInv, HomeBytes, LostBytes
<1>5. ASSUME r \in Regs
      PROVE  r \notin LostRegs(i)
  <2>1. /\ ~i.call
        /\ Members(rep[n]) \subseteq fn.eligible[r]
        /\ ~Clobbered(rep[n], r)
    BY <1>1, <1>2, <1>3, <1>5 DEF PinInv, HomeReg
  <2>2. r \notin i.hidden
    <3>1. n \in LiveAt(fn, blk, k)
      BY <1>1, LiveAfterExact
    <3>2. n \in fn.eligible[r]
      BY <1>2, <2>1
    <3>3. QED
      BY <1>1, <3>1, <3>2 DEF HiddenWritesApart
  <2>3. r \in i.writes => i.from # NoName /\ HomeReg(i.from) = r
    <3>1. r \in i.writes => IndexesOwn(i, rep[n])
      BY <1>1, <1>2, <2>1 DEF Clobbered
    <3>2. QED
      BY <3>1 DEF IndexesOwn, HomeReg
  <2>4. QED
    BY <2>1, <2>2, <2>3 DEF LostRegs
<1>6. QED
  BY <1>4, <1>5

LEMMA RunExecute == CIInv /\ Execute => RunInv'
<1> SUFFICES ASSUME CIInv, Execute PROVE RunInv'
  OBVIOUS
<1> DEFINE i == Code(fn, blk)[idx + 1]
           D == {i.dst} \ {NoName}
<1>1. /\ TypeOK /\ LiveInv /\ EdgesKept /\ GraphInv /\ PinInv /\ ColorInv /\ RunInv
      /\ fn \in Functions /\ blk \in Blocks(fn) /\ liveOut \in [Blocks(fn) -> SUBSET Names]
      /\ phase = "running" /\ phase' = phase /\ idx < Last(fn, blk)
      /\ blk' = blk /\ idx' = idx + 1 /\ fn' = fn /\ liveOut' = liveOut /\ UNCHANGED <<fn, rep, coloring>>
      /\ AssignNames(D, LostBytes(i), LostRegs(i))
  BY DEF CIInv, TypeOK, Execute, analysis
<1>2. idx \in Nat /\ idx + 1 \in DOMAIN Code(fn, blk) /\ D \subseteq Names
  BY <1>1, DstNames, BlockShape
<1>3. ASSUME CallsMeetNames(fn), HiddenWritesApart(fn), NEW n \in LiveAfter(blk, idx + 1), n \in defd'
      PROVE  Holds(n)'
  <2>1. n \in Names
    BY <1>1 DEF LiveAfter, LiveWhen, UsedAfter, Through
  <2>2. CASE n \notin fn.colorable
    BY <1>1, <2>1, <2>2, HomeOnFrame, SameHomes DEF Holds
  <2>3. CASE n \in fn.colorable
    <3>1. n \in LiveColorable(blk, idx + 1)
      BY <1>3, <2>3 DEF LiveColorable
    <3>2. ASSUME NEW d \in D \ {n}
          PROVE  /\ HomeBytes(n) \cap HomeBytes(d) = {}
                 /\ HomeReg(n) \in Regs => HomeReg(n) # HomeReg(d)
      <4>1. CASE d \notin fn.colorable
        BY <1>1, <1>2, <3>2, <4>1, HomeOnFrame
      <4>2. CASE d \in fn.colorable
        <5>1. {d, n} \in EdgesAt(i.dst, LiveColorable(blk, idx + 1))
          BY <3>1, <3>2 DEF EdgesAt
        <5>2. {d, n} \in BlockEdges(blk)
          BY <1>2, <3>2, <4>2, <5>1 DEF BlockEdges
        <5>3. {d, n} = {n, d}
          OBVIOUS
        <5>4. {n, d} \in BlockEdges(blk) /\ n # d /\ d \in Names /\ phase \notin Early
          BY <1>1, <1>2, <3>2, <5>2, <5>3 DEF Early
        <5>5. QED
          BY <1>1, <2>1, <5>4, HomesApart
      <4>3. QED
        BY <4>1, <4>2
    <3>3. \/ n \in D
          \/ /\ Holds(n)
             /\ HomeBytes(n) \cap LostBytes(i) = {}
             /\ HomeReg(n) \in Regs => HomeReg(n) \notin LostRegs(i)
      <4>1. CASE n = i.dst
        BY <2>1, <4>1, NamesAssumption
      <4>2. CASE n # i.dst
        <5>1. n \in LiveAfter(blk, idx)
          BY <1>1, <1>2, <1>3, <4>2, LiveBefore DEF LiveAfter
        <5>2. n \in defd
          BY <1>1, <1>3, <4>2 DEF AssignNames
        <5>3. Holds(n)
          BY <1>1, <1>3, <5>1, <5>2 DEF RunInv
        <5>4. QED
          BY <1>1, <1>2, <1>3, <3>1, <5>3, NothingLost
      <4>3. QED
        BY <4>1, <4>2
    <3> HIDE DEF D, i
    <3>4. QED
      BY <1>1, <1>2, <2>1, <3>2, <3>3, HoldsAfter
  <2>4. QED
    BY <2>2, <2>3
<1>4. \A n : n \in LiveAfter(blk, idx)' <=> n \in LiveAfter(blk, idx + 1)
  BY <1>1 DEF LiveAfter
<1>5. QED
  BY <1>1, <1>3, <1>4 DEF RunInv

LEMMA RunEdge ==
  ASSUME CIInv, NEW s \in Blocks(fn), TakeEdge(s)
  PROVE  RunInv'
<1> DEFINE D == PhiDsts(fn, s)
<1>1. /\ TypeOK /\ LiveInv /\ EdgesKept /\ GraphInv /\ PinInv /\ ColorInv /\ RunInv
      /\ fn \in Functions /\ blk \in Blocks(fn) /\ liveOut \in [Blocks(fn) -> SUBSET Names]
      /\ phase = "running" /\ phase' = phase /\ idx = Last(fn, blk) /\ s \in fn.blocks[blk].succ
      /\ blk' = s /\ idx' = 0 /\ fn' = fn /\ liveOut' = liveOut /\ UNCHANGED <<fn, rep, coloring>>
      /\ AssignNames(D, {}, {})
  BY DEF CIInv, TypeOK, TakeEdge, analysis
<1>2. D \subseteq Names
  BY <1>1, LiveNames
<1>3. ASSUME CallsMeetNames(fn), HiddenWritesApart(fn), NEW n \in LiveAfter(s, 0), n \in defd'
      PROVE  Holds(n)'
  <2>1. n \in Names
    BY <1>1 DEF LiveAfter, LiveWhen, UsedAfter, Through
  <2>2. CASE n \notin fn.colorable
    BY <1>1, <2>1, <2>2, HomeOnFrame, SameHomes DEF Holds
  <2>3. CASE n \in fn.colorable
    <3>1. ASSUME NEW d \in D \ {n}
          PROVE  /\ HomeBytes(n) \cap HomeBytes(d) = {}
                 /\ HomeReg(n) \in Regs => HomeReg(n) # HomeReg(d)
      <4>1. CASE d \notin fn.colorable
        BY <1>1, <1>2, <3>1, <4>1, HomeOnFrame
      <4>2. CASE d \in fn.colorable
        <5>1. {d, n} \in EdgesAt(d, LiveColorable(s, 0) \cup (PhiDsts(fn, s) \cap fn.colorable))
          BY <1>3, <2>3, <3>1 DEF EdgesAt, LiveColorable
        <5>2. {d, n} \in BlockEdges(s)
          BY <3>1, <4>2, <5>1 DEF BlockEdges
        <5>3. {d, n} = {n, d}
          OBVIOUS
        <5>4. {n, d} \in BlockEdges(s) /\ n # d /\ d \in Names /\ phase \notin Early
          BY <1>1, <1>2, <3>1, <5>2, <5>3 DEF Early
        <5>5. QED
          BY <1>1, <2>1, <5>4, HomesApart
      <4>3. QED
        BY <4>1, <4>2
    <3>2. n \in D \/ Holds(n)
      <4>1. CASE n \notin D
        <5>1. n \in Gen(fn, s) \cup (liveOut[s] \ Kill(fn, s))
          BY <1>1, <1>3, <4>1, LiveEnds DEF LiveAfter
        <5>2. n \in liveIn[s]
          BY <1>1, <5>1 DEF LiveInv, Stable, NewIn
        <5>3. n \in liveOut[blk]
          BY <1>1, <5>2 DEF LiveInv, Stable, NewOut
        <5>4. n \in LiveAfter(blk, idx)
          BY <1>1, <5>3, LiveEnds DEF LiveAfter
        <5>5. n \in defd
          BY <1>1, <1>3, <4>1 DEF AssignNames
        <5>6. QED
          BY <1>1, <1>3, <5>4, <5>5 DEF RunInv
      <4>2. QED
        BY <4>1
    <3> HIDE DEF D
    <3>3. QED
      BY <1>1, <1>2, <2>1, <3>1, <3>2, HoldsAfter
  <2>4. QED
    BY <2>2, <2>3
<1>4. \A n : n \in LiveAfter(blk, idx)' <=> n \in LiveAfter(s, 0)
  BY <1>1 DEF LiveAfter
<1>5. QED
  BY <1>1, <1>3, <1>4 DEF RunInv

(* Nothing runs before the allocation is through.                          *)
LEMMA RunNext == CIInv /\ [Next]_vars => RunInv'
<1> SUFFICES ASSUME CIInv, [Next]_vars PROVE RunInv'
  OBVIOUS
<1>1. RunInv
  BY DEF CIInv
<1>2. CASE Allocate
  <2>1. phase \notin {"running", "returned"} /\ defd' = defd
    BY <1>2 DEF Allocate, FlowBlock, NextSweep, EndLiveness, AddBlock, EndInterference, Coalesce,
                PinRequired, RefuseRequired, PinHint, Color, EndLoop, Successor, machine
  <2>2. QED
    BY <1>1, <2>1 DEF RunInv
<1>3. CASE Execute
  BY <1>3, RunExecute
<1>4. CASE \E s \in Blocks(fn) : TakeEdge(s)
  BY <1>4, RunEdge
<1>5. CASE Return
  BY <1>5 DEF RunInv, Return
<1>6. CASE UNCHANGED vars
  <2>1. /\ \A n : Holds(n)' = Holds(n)
        /\ LiveAfter(blk, idx)' = LiveAfter(blk, idx)
    BY <1>6, SameHomes DEF Holds, LiveAfter, vars, analysis, machine
  <2>2. QED
    BY <1>1, <1>6, <2>1 DEF RunInv, vars, machine
<1>7. QED
  BY <1>2, <1>3, <1>4, <1>5, <1>6 DEF Next

-----------------------------------------------------------------------------
LEMMA InitCIInv == Init => CIInv
<1> SUFFICES ASSUME Init PROVE CIInv
  OBVIOUS
<1>1. /\ fn \in Functions /\ 1 \in Blocks(fn) /\ fn.colorable \subseteq Names
      /\ \A b \in Blocks(fn) : ~(b < 1)
  <2>1. fn \in Functions
    BY DEF Init
  <2>2. fn.colorable \subseteq Names
    BY <2>1, FnShape DEF IsFunction
  <2>3. QED
    BY <2>1, <2>2, FnShape
<1>2. TypeOK
  <2>1. 0 \in 0 .. Last(fn, 1)
    BY <1>1, BlockShape
  <2>2. /\ rep \in [Names -> Names] /\ base \in [Names -> Nat]
        /\ pin \in [Names -> Regs \cup {"none"}]
        /\ zp \in [Bytes -> Names \cup {NoName}] /\ reg \in [Regs -> Names \cup {NoName}]
    BY DEF Init
  <2>3. 1 \in Nat \ {0} /\ blk \in Blocks(fn) /\ idx \in 0 .. Last(fn, blk)
    BY <1>1, <2>1 DEF Init
  <2>4. /\ liveIn \in [Blocks(fn) -> SUBSET Names] /\ liveOut \in [Blocks(fn) -> SUBSET Names]
        /\ changed \in BOOLEAN
    BY DEF Init
  <2>5. QED
    BY <1>1, <2>2, <2>3, <2>4 DEF Init, TypeOK
<1>3. LiveInv
  BY <1>1 DEF Init, LiveInv
<1>4. EdgesKept /\ AcrossKept /\ GraphInv
  BY DEF Init, EdgesKept, AcrossKept, GraphInv, Early
<1>5. PinInv
  BY DEF Init, PinInv, Regs
<1>6. ColorInv
  BY DEF Init, ColorInv
<1>7. RunInv
  BY DEF Init, RunInv
<1>8. QED
  BY <1>2, <1>3, <1>4, <1>5, <1>6, <1>7 DEF CIInv

LEMMA NextCIInv == CIInv /\ [Next]_vars => CIInv'
<1> SUFFICES ASSUME CIInv, [Next]_vars PROVE CIInv'
  OBVIOUS
<1>1. TypeOK'
  BY TypeNext DEF CIInv
<1>2. LiveInv'
  BY LiveInvNext DEF CIInv
<1>3. EdgesKept' /\ AcrossKept' /\ GraphInv'
  BY GraphNext DEF CIInv, GraphParts
<1>4. PinInv' /\ ColorInv'
  BY PinNext, ColorNext DEF CIInv
<1>5. RunInv'
  BY RunNext
<1>6. QED
  BY <1>1, <1>2, <1>3, <1>4, <1>5 DEF CIInv

(* The whole invariant holds, of every function.                           *)
THEOREM ColoringInvariant == Spec => []CIInv
<1>1. QED
  BY InitCIInv, NextCIInv, PTL DEF Spec

(* No step of the allocator or of the code leaves the types.               *)
THEOREM ColoringTyped == Spec => []TypeOK
<1>1. CIInv => TypeOK
  BY DEF CIInv
<1>2. QED
  BY <1>1, ColoringInvariant, PTL

(* compute_liveness, however many sweeps it makes over whatever flow       *)
(* graph, ends with the names that a path leads to a read of: the fixed    *)
(* point it finds by going up from the empty sets is the least one.        *)
THEOREM LiveAlwaysExact == Spec => []LiveExact
<1>1. CIInv => LiveExact
  BY BalanceIsExact DEF CIInv, LiveExact
<1>2. QED
  BY <1>1, ColoringInvariant, PTL

(* Two colorable names of which one is assigned while the other is live    *)
(* share neither a byte nor a register, whatever names coalescing has made *)
(* one with either, and whatever the order of pairs, pins and nodes.       *)
THEOREM InterferingApart == Spec => []HomesDistinct
<1>1. CIInv => HomesDistinct
  BY HomesApart DEF CIInv, HomesDistinct
<1>2. QED
  BY <1>1, ColoringInvariant, PTL

(* The coloured code reads of every name the value the name was given      *)
(* last, on every path through every function whose calls the walk meets   *)
(* after the names that live across them and whose hidden register writes  *)
(* no pinnable name is live across.                                        *)
THEOREM ReadsAlwaysFindValues ==
  Spec => [](CallsMeetNames(fn) /\ HiddenWritesApart(fn) => ReadsFindValues)
<1>1. CIInv => (CallsMeetNames(fn) /\ HiddenWritesApart(fn) => ReadsFindValues)
  <2> SUFFICES ASSUME CIInv, CallsMeetNames(fn), HiddenWritesApart(fn), phase = "running"
               PROVE  ReadsFindValues
    BY DEF ReadsFindValues
  <2>1. /\ fn \in Functions /\ blk \in Blocks(fn) /\ liveOut \in [Blocks(fn) -> SUBSET Names]
        /\ TypeOK /\ LiveInv /\ defd \subseteq Names
    BY DEF CIInv, TypeOK
  <2>2. \A n \in LiveAfter(blk, idx) \cap defd : Holds(n)
    BY <2>1 DEF CIInv, RunInv
  <2>3. ASSUME idx < Last(fn, blk), NEW n \in Code(fn, blk)[idx + 1].uses \cap defd
        PROVE  Holds(n)
    <3>1. idx \in Nat
      BY <2>1, <2>3, DstNames
    <3>2. n \in LiveAfter(blk, idx)
      BY <2>1, <2>3, <3>1, LiveBefore DEF LiveAfter
    <3>3. QED
      BY <2>2, <2>3, <3>2
  <2>4. ASSUME idx = Last(fn, blk), NEW s \in fn.blocks[blk].succ, NEW p \in fn.blocks[s].phis,
               p.args[blk] \in defd
        PROVE  Holds(p.args[blk])
    <3>1. s \in Blocks(fn)
      BY <2>1, BlockShape
    <3>2. p.args[blk] \in PhiUses(fn, blk)
      BY <2>1, <2>4, <3>1, NamesAssumption DEF PhiUses
    <3>3. p.args[blk] \in liveOut[blk]
      BY <2>1, <3>2 DEF LiveInv, Stable, NewOut
    <3>4. p.args[blk] \in LiveAfter(blk, idx)
      BY <2>1, <2>4, <3>3, LiveEnds DEF LiveAfter
    <3>5. QED
      BY <2>2, <2>4, <3>4
  <2>5. QED
    BY <2>3, <2>4 DEF ReadsFindValues
<1>2. QED
  BY <1>1, ColoringInvariant, PTL
=============================================================================
