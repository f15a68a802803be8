-------------------------- MODULE LengtheningProofs --------------------------
(***************************************************************************)
(* Proofs about Lengthening for functions of any length and any reach: the *)
(* code stays the function that was given, a branch is expanded at most    *)
(* once, and branches that reach when they are measured reach when the     *)
(* linker has placed the slots.                                            *)
(***************************************************************************)
EXTENDS Lengthening, FiniteSetTheorems, WellFoundedInduction, TLAPS

(* A set of naturals that is not empty has a least element.                *)
LEMMA LeastNatural ==
  ASSUME NEW S \in SUBSET Nat, S # {}
  PROVE  \E m \in S : \A x \in S : m <= x
<1> DEFINE Less == {ss \in Nat \X Nat : ss[1] < ss[2]}
<1>1. IsWellFoundedOn(Less, Nat)
  BY NatLessThanWellFounded DEF OpToRel
<1> HIDE DEF Less
<1>2. PICK m \in S : \A x \in S : ~(<<x, m>> \in Less)
  BY <1>1, WFMin
<1>3. \A x \in S : ~(x < m)
  BY <1>2 DEF Less
<1>4. QED
  BY <1>3

-----------------------------------------------------------------------------
(* Sizes. The more names are known to lie in the zero page, the smaller    *)
(* the code; and an operand has an encoding or has none, whatever the      *)
(* addresses turn out to be.                                               *)
Shrinks(small, large) == small \in Nat /\ large \in Nat /\ small <= large /\ (small = 0 <=> large = 0)

LEMMA BothShrinks ==
  ASSUME NEW a, NEW b, NEW c, NEW d, Shrinks(a, b), Shrinks(c, d)
  PROVE  Shrinks(Both(a, c), Both(b, d))
BY DEF Shrinks, Both

LEMMA AbsoluteShrinks ==
  ASSUME NEW op, NEW known, NEW zp, known \subseteq zp
  PROVE  Shrinks(Absolute(op, zp), Absolute(op, known))
BY DEF Shrinks, Absolute, FitsZp

LEMMA AccessShrinks ==
  ASSUME NEW op, NEW known, NEW zp, known \subseteq zp
  PROVE  Shrinks(AccessSize(op, zp), AccessSize(op, known))
BY AbsoluteShrinks DEF Shrinks, AccessSize, IsDataOrZp, ByPointer, Through

LEMMA AccumShrinks ==
  ASSUME NEW op, NEW known, NEW zp, known \subseteq zp
  PROVE  Shrinks(AccumSize(op, zp), AccumSize(op, known))
BY AbsoluteShrinks DEF Shrinks, AccumSize, IsDataOrZp, ByPointer, IsConstant, IsImm, IsImmLabel, IsIndexed

LEMMA InPlaceShrinks ==
  ASSUME NEW op, NEW known, NEW zp, known \subseteq zp
  PROVE  Shrinks(InPlaceSize(op, zp), InPlaceSize(op, known))
BY AbsoluteShrinks DEF Shrinks, InPlaceSize

LEMMA CompareShrinks ==
  ASSUME NEW l, NEW r, NEW known, NEW zp, known \subseteq zp
  PROVE  Shrinks(CompareSize(l, r, zp), CompareSize(l, r, known))
BY AccumShrinks DEF Shrinks, CompareSize

LEMMA MovShrinks ==
  ASSUME NEW s, NEW d, NEW known, NEW zp, known \subseteq zp
  PROVE  Shrinks(MovSize(s, d, zp), MovSize(s, d, known))
<1> USE DEF IsReg, Regs, IsConstant, IsImm, IsImmLabel, IsIndexed
<1>1. Shrinks(0, 0) /\ Shrinks(1, 1) /\ Shrinks(2, 2) /\ Shrinks(3, 3) /\ Shrinks(5, 5)
  BY DEF Shrinks
<1>2. \A op : /\ Shrinks(AccessSize(op, zp), AccessSize(op, known))
              /\ Shrinks(InPlaceSize(op, zp), InPlaceSize(op, known))
              /\ Shrinks(Both(2, AccessSize(op, zp)), Both(2, AccessSize(op, known)))
              /\ Shrinks(Both(3, AccessSize(op, zp)), Both(3, AccessSize(op, known)))
  BY <1>1, AccessShrinks, InPlaceShrinks, BothShrinks
<1>3. Shrinks(Both(AccessSize(s, zp), AccessSize(d, zp)), Both(AccessSize(s, known), AccessSize(d, known)))
  BY <1>2, BothShrinks
<1>4. Shrinks(MovToReg(s, d.k, zp), MovToReg(s, d.k, known))
  BY <1>1, <1>2 DEF MovToReg
<1>5. Shrinks(MovToMemory(s, d, zp), MovToMemory(s, d, known))
  BY <1>1, <1>2, <1>3 DEF MovToMemory
<1>6. QED
  BY <1>1, <1>4, <1>5 DEF MovSize

(* The sizes of the instructions that have no operand in memory.           *)
LEMMA SizeShrinks ==
  ASSUME NEW i \in Instruction, NEW known, NEW zp, known \subseteq zp
  PROVE  Shrinks(Size(i, zp), Size(i, known))
<1> USE DEF IsMov, IsAlu, IsIncDec, IsShift, IsBranch, IsLabel, Conditions
<1>1. /\ Shrinks(MovSize(i.src, i.dst, zp), MovSize(i.src, i.dst, known))
      /\ Shrinks(AccumSize(i.src, zp), AccumSize(i.src, known))
      /\ Shrinks(CompareSize(i.dst, i.src, zp), CompareSize(i.dst, i.src, known))
      /\ \A op : Shrinks(InPlaceSize(op, zp), InPlaceSize(op, known))
  BY MovShrinks, AccumShrinks, CompareShrinks, InPlaceShrinks
<1>2. Shrinks(AddressSize(i, zp), AddressSize(i, known))
  BY AccessShrinks DEF AddressSize, Shrinks
<1>3. Len(i.args) \in Nat
  <2>1. i.args \in Seq([lbl : Names, src : Operand])
    BY DEF Instruction
  <2>2. QED
    BY <2>1
<1>4. Shrinks(FrameSize(i), FrameSize(i)) /\ Shrinks(UnframeSize(i), UnframeSize(i))
  <2>1. FrameSize(i) \in Nat
    BY <1>3 DEF FrameSize
  <2>2. UnframeSize(i) \in Nat
    <3>1. CASE "X" \in i.regs
      BY <1>3, <3>1 DEF UnframeSize
    <3>2. CASE "X" \notin i.regs /\ "A" \in i.regs
      BY <1>3, <3>2 DEF UnframeSize
    <3>3. CASE "X" \notin i.regs /\ "A" \notin i.regs
      BY <1>3, <3>3 DEF UnframeSize
    <3>4. QED
      BY <3>1, <3>2, <3>3
  <2>3. QED
    BY <2>1, <2>2 DEF Shrinks
<1>5. Shrinks(0, 0) /\ Shrinks(1, 1) /\ Shrinks(2, 2) /\ Shrinks(3, 3) /\ Shrinks(9, 9)
  BY DEF Shrinks
<1>6. i.op \in Opcodes
  BY DEF Instruction
<1>7. QED
  BY <1>1, <1>2, <1>4, <1>5, <1>6 DEF Size, Opcodes

LEMMA SizeOfJumps ==
  ASSUME NEW i, NEW zp
  PROVE  /\ IsBranch(i) => Size(i, zp) = 2
         /\ i.op = "jmp" => Size(i, zp) = 3
         /\ IsLabel(i) => Size(i, zp) = 0
BY DEF Size, IsMov, IsAlu, IsIncDec, IsShift, IsBranch, IsLabel, Conditions

-----------------------------------------------------------------------------
(* Addresses. The bytes of the instructions from a to b - 1 lie between    *)
(* their addresses.                                                        *)
Bytes(p, a, b, zp) == Cardinality(BytesOf(p, a..(b - 1), zp))

LEMMA CodeDomain ==
  ASSUME NEW p \in Seq(Instruction)
  PROVE  /\ DOMAIN p = 1..Len(p) /\ Len(p) \in Nat
         /\ \A k \in DOMAIN p : k \in Nat /\ p[k] \in Instruction
<1>1. DOMAIN p = 1..Len(p) /\ Len(p) \in Nat
  OBVIOUS
<1>2. \A k \in 1..Len(p) : p[k] \in Instruction
  OBVIOUS
<1>3. QED
  BY <1>1, <1>2

LEMMA BytesFinite ==
  ASSUME NEW p \in Seq(Instruction), NEW S \in SUBSET DOMAIN p, NEW zp
  PROVE  IsFiniteSet(BytesOf(p, S, zp))
<1> DEFINE f == [j \in S |-> {j} \X (1..Size(p[j], zp))]
           T == {{j} \X (1..Size(p[j], zp)) : j \in S}
<1>1. IsFiniteSet(S)
  <2>1. IsFiniteSet(1..Len(p))
    BY CodeDomain, FS_Interval
  <2>2. QED
    BY <2>1, CodeDomain, FS_Subset
<1>2. IsFiniteSet(T)
  <2>1. f \in Surjection(S, T)
    BY DEF Surjection
  <2> HIDE DEF f, T
  <2>2. QED
    BY <1>1, <2>1, FS_Surjection
<1>3. ASSUME NEW j \in S PROVE IsFiniteSet({j} \X (1..Size(p[j], zp)))
  <2>1. Size(p[j], zp) \in Nat
    BY SizeShrinks, CodeDomain DEF Shrinks
  <2>2. IsFiniteSet(1..Size(p[j], zp))
    BY <2>1, FS_Interval
  <2>3. IsFiniteSet({j})
    BY FS_Singleton
  <2>4. QED
    BY <2>2, <2>3, FS_Product
<1>4. IsFiniteSet(UNION T)
  <2>1. \A U \in T : IsFiniteSet(U)
    BY <1>3
  <2> HIDE DEF T
  <2>2. QED
    BY <1>2, <2>1, FS_UNION
<1>5. QED
  BY <1>4 DEF BytesOf

LEMMA AddressStep ==
  ASSUME NEW p \in Seq(Instruction), NEW a \in 1..(Len(p) + 1), NEW b \in 1..(Len(p) + 1), a <= b, NEW zp
  PROVE  /\ Bytes(p, a, b, zp) \in Nat /\ CodeAddress(p, a, zp) \in Nat
         /\ CodeAddress(p, b, zp) = CodeAddress(p, a, zp) + Bytes(p, a, b, zp)
<1> DEFINE low  == BytesOf(p, 1..(a - 1), zp)
           high == BytesOf(p, a..(b - 1), zp)
<1>1. 1..(a - 1) \in SUBSET DOMAIN p /\ a..(b - 1) \in SUBSET DOMAIN p
  BY CodeDomain
<1>2. IsFiniteSet(low) /\ IsFiniteSet(high)
  BY <1>1, BytesFinite
<1>3. 1..(b - 1) = (1..(a - 1)) \cup (a..(b - 1))
  BY CodeDomain
<1>4. BytesOf(p, 1..(b - 1), zp) = low \cup high
  BY <1>3 DEF BytesOf
<1>5. low \cap high = {}
  <2> SUFFICES ASSUME NEW x \in low, x \in high PROVE FALSE
    OBVIOUS
  <2>1. PICK j \in 1..(a - 1) : x \in {j} \X (1..Size(p[j], zp))
    BY DEF BytesOf
  <2>2. PICK k \in a..(b - 1) : x \in {k} \X (1..Size(p[k], zp))
    BY DEF BytesOf
  <2>3. j = k
    BY <2>1, <2>2
  <2>4. QED
    BY <2>3, CodeDomain
<1> HIDE DEF low, high
<1>6. Cardinality(low \cap high) = 0
  BY <1>5, FS_EmptySet
<1>7. Cardinality(low \cup high) = Cardinality(low) + Cardinality(high) - 0
  BY <1>2, <1>6, FS_Union
<1>8. Cardinality(low) \in Nat /\ Cardinality(high) \in Nat
  BY <1>2, FS_CardinalityType
<1>9. /\ CodeAddress(p, a, zp) = Cardinality(low) /\ Bytes(p, a, b, zp) = Cardinality(high)
      /\ CodeAddress(p, b, zp) = Cardinality(low \cup high)
  BY <1>4 DEF CodeAddress, Bytes, low, high
<1>10. QED
  BY <1>7, <1>8, <1>9

(* One instruction. *)
LEMMA BytesOfOne ==
  ASSUME NEW p \in Seq(Instruction), NEW k \in DOMAIN p, NEW zp
  PROVE  Bytes(p, k, k + 1, zp) = Size(p[k], zp)
<1> DEFINE size == Size(p[k], zp)
<1>1. k \in Nat /\ size \in Nat
  BY CodeDomain, SizeShrinks DEF Shrinks
<1>2. k..(k + 1 - 1) = {k}
  BY <1>1
<1>3. BytesOf(p, {k}, zp) = {k} \X (1..size)
  BY DEF BytesOf
<1> HIDE DEF size
<1>4. Cardinality({k} \X (1..size)) = 1 * size
  <2>1. IsFiniteSet({k}) /\ Cardinality({k}) = 1
    BY FS_Singleton
  <2>2. IsFiniteSet(1..size) /\ Cardinality(1..size) = size
    <3>1. 1 \in Int /\ size \in Int
      BY <1>1
    <3>2. IsFiniteSet(1..size) /\ Cardinality(1..size) = IF 1 > size THEN 0 ELSE size - 1 + 1
      BY ONLY <3>1, FS_Interval
    <3>3. QED
      BY <1>1, <3>2
  <2>3. QED
    BY <2>1, <2>2, FS_Product
<1>5. Bytes(p, k, k + 1, zp) = Cardinality(BytesOf(p, {k}, zp))
  <2>1. Bytes(p, k, k + 1, zp) = Cardinality(BytesOf(p, k..(k + 1 - 1), zp))
    BY DEF Bytes
  <2>2. QED
    BY ONLY <1>2, <2>1, Zenon
<1>6. Bytes(p, k, k + 1, zp) = 1 * size
  BY ONLY <1>3, <1>4, <1>5, Zenon
<1>7. QED
  BY <1>1, <1>6 DEF size

(* Where a branch goes to, in bytes.                                       *)
LEMMA BranchDisplacement ==
  ASSUME NEW p \in Seq(Instruction), NEW k \in DOMAIN p, IsBranch(p[k]),
         LabelIndex(p, p[k].to) \in DOMAIN p, NEW zp
  PROVE  LET l == LabelIndex(p, p[k].to) IN
         Displacement(p, k, zp) = IF k < l THEN Bytes(p, k + 1, l, zp) ELSE -Bytes(p, l, k + 1, zp)
<1> DEFINE l == LabelIndex(p, p[k].to)
<1>0. Displacement(p, k, zp) = CodeAddress(p, l, zp) - (CodeAddress(p, k, zp) + 2)
  BY DEF Displacement
<1> HIDE DEF l
<1>1. k \in 1..(Len(p) + 1) /\ k + 1 \in 1..(Len(p) + 1) /\ l \in 1..(Len(p) + 1) /\ k \in Nat /\ l \in Nat
  BY CodeDomain DEF l
<1>2. Bytes(p, k, k + 1, zp) = 2
  BY SizeOfJumps, BytesOfOne
<1>3. CodeAddress(p, k + 1, zp) = CodeAddress(p, k, zp) + 2 /\ CodeAddress(p, k, zp) \in Nat
  BY <1>1, <1>2, AddressStep
<1>4. CASE k < l
  <2>1. CodeAddress(p, l, zp) = CodeAddress(p, k + 1, zp) + Bytes(p, k + 1, l, zp) /\ Bytes(p, k + 1, l, zp) \in Nat
    BY <1>1, <1>4, AddressStep
  <2>2. QED
    BY <1>0, <1>3, <1>4, <2>1 DEF l
<1>5. CASE ~(k < l)
  <2>1. /\ CodeAddress(p, k + 1, zp) = CodeAddress(p, l, zp) + Bytes(p, l, k + 1, zp)
        /\ Bytes(p, l, k + 1, zp) \in Nat /\ CodeAddress(p, l, zp) \in Nat
    BY <1>1, <1>5, AddressStep
  <2>2. QED
    BY <1>0, <1>3, <1>5, <2>1 DEF l
<1>6. QED
  BY <1>4, <1>5

LEMMA BytesShrink ==
  ASSUME NEW p \in Seq(Instruction), NEW a \in 1..(Len(p) + 1), NEW b \in 1..(Len(p) + 1),
         NEW known, NEW zp, known \subseteq zp
  PROVE  /\ Bytes(p, a, b, zp) \in Nat /\ Bytes(p, a, b, known) \in Nat
         /\ Bytes(p, a, b, zp) <= Bytes(p, a, b, known)
<1>1. a..(b - 1) \in SUBSET DOMAIN p
  BY CodeDomain
<1>2. ASSUME NEW j \in a..(b - 1)
      PROVE  1..Size(p[j], zp) \subseteq 1..Size(p[j], known)
  <2>1. Shrinks(Size(p[j], zp), Size(p[j], known))
    BY <1>1, CodeDomain, SizeShrinks
  <2>2. QED
    BY <2>1 DEF Shrinks
<1>3. BytesOf(p, a..(b - 1), zp) \subseteq BytesOf(p, a..(b - 1), known)
  BY <1>2 DEF BytesOf
<1>4. IsFiniteSet(BytesOf(p, a..(b - 1), known)) /\ IsFiniteSet(BytesOf(p, a..(b - 1), zp))
  BY <1>1, BytesFinite
<1>5. QED
  BY <1>3, <1>4, FS_Subset, FS_CardinalityType DEF Bytes

(* What the measuring is for: a branch that reaches while some names still *)
(* count as absolute addresses reaches when they turn out to be zero-page  *)
(* ones.                                                                   *)
LEMMA ReachKept ==
  ASSUME NEW p \in Seq(Instruction), Bound(p), NEW known, NEW zp, known \subseteq zp,
         TooFar(p, known) = {}
  PROVE  TooFar(p, zp) = {}
<1> SUFFICES ASSUME NEW k \in DOMAIN p, IsBranch(p[k])
             PROVE  Displacement(p, k, zp) \in -Reach..(Reach - 1)
  BY DEF TooFar
<1> DEFINE l == LabelIndex(p, p[k].to)
<1>1. l \in DOMAIN p
  BY DEF Bound, LabelsIn, LabelIndex
<1>2. Displacement(p, k, known) \in -Reach..(Reach - 1)
  BY DEF TooFar
<1>3. /\ Displacement(p, k, zp) = IF k < l THEN Bytes(p, k + 1, l, zp) ELSE -Bytes(p, l, k + 1, zp)
      /\ Displacement(p, k, known) = IF k < l THEN Bytes(p, k + 1, l, known) ELSE -Bytes(p, l, k + 1, known)
  BY <1>1, BranchDisplacement
<1> HIDE DEF l
<1>4. k + 1 \in 1..(Len(p) + 1) /\ l \in 1..(Len(p) + 1)
  BY <1>1, CodeDomain
<1>5. /\ Bytes(p, k + 1, l, zp) \in Nat /\ Bytes(p, k + 1, l, zp) <= Bytes(p, k + 1, l, known)
      /\ Bytes(p, l, k + 1, zp) \in Nat /\ Bytes(p, l, k + 1, zp) <= Bytes(p, l, k + 1, known)
      /\ Bytes(p, k + 1, l, known) \in Nat /\ Bytes(p, l, k + 1, known) \in Nat
  BY <1>4, BytesShrink
<1>6. QED
  BY <1>2, <1>3, <1>5, ReachAssumption

-----------------------------------------------------------------------------
(* The three instructions that replace a branch.                           *)
LEMMA Minted ==
  ASSUME NEW c \in Conditions, NEW l \in Names \cup SkipLabels, NEW n \in Nat
  PROVE  /\ SkipLabel(n) \in SkipLabels
         /\ Branch(Inverted[c], SkipLabel(n)) \in Instruction /\ IsBranch(Branch(Inverted[c], SkipLabel(n)))
         /\ Branch(Inverted[c], SkipLabel(n)).to = SkipLabel(n) /\ ~IsLabel(Branch(Inverted[c], SkipLabel(n)))
         /\ Jump(l) \in Instruction /\ ~IsBranch(Jump(l)) /\ ~IsLabel(Jump(l)) /\ Jump(l).op = "jmp"
         /\ Label(SkipLabel(n)) \in Instruction /\ ~IsBranch(Label(SkipLabel(n)))
         /\ IsLabel(Label(SkipLabel(n))) /\ Label(SkipLabel(n)).to = SkipLabel(n)
<1> USE DEF IsBranch, IsLabel, Conditions
<1>1. Op("none", <<>>, 0) \in Operand
  <2>1. <<>> \in Names
    BY FunctionsAssumption
  <2>5. "none" \in Classes
    BY DEF Classes
  <2>2. 0 \in Int
    OBVIOUS
  <2>3. [k |-> "none", n |-> <<>>, o |-> 0] \in [k : Classes, n : Names, o : Int]
    BY ONLY <2>1, <2>2, <2>5
  <2>4. QED
    BY ONLY <2>3, Zenon DEF Op, Operand
<1>2. <<>> \in Seq([lbl : Names, src : Operand]) /\ {} \in SUBSET Regs /\ <<>> \in Names \cup SkipLabels
  BY FunctionsAssumption
<1>3. SkipLabel(n) \in SkipLabels
  BY DEF SkipLabel, SkipLabels
<1>4. Inverted[c] \in Conditions
  BY DEF Inverted
<1>5. ASSUME NEW op \in Opcodes, NEW t \in Names \cup SkipLabels
      PROVE  LET i == [Instr(op, None, None) EXCEPT !.to = t] IN
             i \in Instruction /\ i.op = op /\ i.to = t
  BY <1>1, <1>2 DEF Instr, None, Instruction
<1>6. /\ Branch(Inverted[c], SkipLabel(n)) \in Instruction
      /\ Branch(Inverted[c], SkipLabel(n)).op = Inverted[c]
      /\ Branch(Inverted[c], SkipLabel(n)).to = SkipLabel(n)
  <2>1. Inverted[c] \in Opcodes
    BY <1>4 DEF Opcodes
  <2>2. QED
    BY <1>3, <1>5, <2>1 DEF Branch
<1>7. Jump(l) \in Instruction /\ Jump(l).op = "jmp"
  <2>1. "jmp" \in Opcodes
    BY DEF Opcodes
  <2>2. QED
    BY <1>5, <2>1 DEF Jump
<1>8. /\ Label(SkipLabel(n)) \in Instruction
      /\ Label(SkipLabel(n)).op = "label" /\ Label(SkipLabel(n)).to = SkipLabel(n)
  <2>1. "label" \in Opcodes
    BY DEF Opcodes
  <2>2. QED
    BY <1>3, <1>5, <2>1 DEF Label
<1>9. QED
  BY <1>3, <1>4, <1>6, <1>7, <1>8

(* ExpandAt: what is before the branch stays, what is behind it moves by   *)
(* two.                                                                    *)
LEMMA ExpandAtShape ==
  ASSUME NEW p \in Seq(Instruction), NEW k \in DOMAIN p, IsBranch(p[k]), NEW n \in Nat
  PROVE  LET q == ExpandAt(p, k, n) IN
         /\ q \in Seq(Instruction) /\ Len(q) = Len(p) + 2
         /\ \A m \in DOMAIN p : m < k => q[m] = p[m]
         /\ \A m \in DOMAIN p : m > k => q[m + 2] = p[m]
         /\ q[k]     = Branch(Inverted[p[k].op], SkipLabel(n))
         /\ q[k + 1] = Jump(p[k].to)
         /\ q[k + 2] = Label(SkipLabel(n))
<1> DEFINE B == Branch(Inverted[p[k].op], SkipLabel(n))
           J == Jump(p[k].to)
           L == Label(SkipLabel(n))
           head == SubSeq(p, 1, k - 1)
           tail == SubSeq(p, k + 1, Len(p))
<1>1. p[k].op \in Conditions /\ p[k].to \in Names \cup SkipLabels
  BY CodeDomain DEF IsBranch, Instruction
<1>2. B \in Instruction /\ J \in Instruction /\ L \in Instruction
  BY <1>1, Minted
<1>3. Lengthened(p[k], n) = <<B, J, L>>
  BY DEF Lengthened
<1> HIDE DEF B, J, L
<1>4. k \in 1..Len(p) /\ Len(p) \in Nat /\ k \in Nat
  BY CodeDomain
<1>5. /\ head \in Seq(Instruction) /\ Len(head) = k - 1
      /\ \A m \in 1..(k - 1) : head[m] = p[m]
  BY <1>4
<1>6. /\ tail \in Seq(Instruction) /\ Len(tail) = Len(p) - k
      /\ \A m \in 1..(Len(p) - k) : tail[m] = p[k + m]
  BY <1>4
<1> HIDE DEF head, tail
<1>7. <<B, J, L>> \in Seq(Instruction) /\ Len(<<B, J, L>>) = 3
  BY <1>2
<1> DEFINE mid == head \o <<B, J, L>>
<1>8. /\ mid \in Seq(Instruction) /\ Len(mid) = k + 2
      /\ \A m \in 1..(k - 1) : mid[m] = head[m]
      /\ mid[k] = B /\ mid[k + 1] = J /\ mid[k + 2] = L
  BY <1>4, <1>5, <1>7
<1> HIDE DEF mid
<1> DEFINE q == mid \o tail
<1>9. ExpandAt(p, k, n) = q
  BY <1>3 DEF ExpandAt, mid, head, tail
<1>10. /\ q \in Seq(Instruction) /\ Len(q) = Len(p) + 2
       /\ \A m \in 1..(k + 2) : q[m] = mid[m]
       /\ \A m \in 1..(Len(p) - k) : q[k + 2 + m] = tail[m]
  BY <1>4, <1>6, <1>8
<1> HIDE DEF q
<1>11. ASSUME NEW m \in DOMAIN p, m < k PROVE q[m] = p[m]
  <2>1. m \in 1..(k - 1) /\ m \in 1..(k + 2)
    BY <1>4, <1>11, CodeDomain
  <2>2. q[m] = mid[m] /\ mid[m] = head[m] /\ head[m] = p[m]
    BY <1>5, <1>8, <1>10, <2>1
  <2>3. QED
    BY <2>2
<1>12. ASSUME NEW m \in DOMAIN p, m > k PROVE q[m + 2] = p[m]
  <2>1. m - k \in 1..(Len(p) - k) /\ k + 2 + (m - k) = m + 2 /\ k + (m - k) = m
    BY <1>4, <1>12, CodeDomain
  <2>2. q[k + 2 + (m - k)] = tail[m - k] /\ tail[m - k] = p[k + (m - k)]
    BY <1>6, <1>10, <2>1
  <2>3. QED
    BY <2>1, <2>2
<1>13. q[k] = B /\ q[k + 1] = J /\ q[k + 2] = L
  BY <1>4, <1>8, <1>10
<1>14. QED
  BY <1>9, <1>10, <1>11, <1>12, <1>13 DEF B, J, L

-----------------------------------------------------------------------------
(* The invariant. That places increase is FlowKept for one instruction and *)
(* the next, and has to be known of any two.                               *)
Ordered == \A j, k \in DOMAIN place : j < k => place[j] < place[k]
Structure == TypeOK /\ Ordered /\ FlowKept
LIInv == Structure /\ IndicesStayValid /\ LabelsStayDistinct /\ ExpandedOnce
         /\ RefusedAsGiven /\ ReachesWhenLinked

(* What is at m is an instruction that was given, or one of the three that *)
(* replace a branch that was given.                                        *)
LEMMA OriginAt ==
  ASSUME Structure, NEW m \in DOMAIN instrs
  PROVE  \E k \in DOMAIN origin : \/ Untouched(k) /\ m = place[k]
                                  \/ Expanded(k) /\ m \in place[k]..(place[k] + 2)
<1> DEFINE N == Len(origin) + 1
           S == {k \in 1..N : place[k] > m}
<1>1. /\ origin \in Seq(Instruction) /\ DOMAIN origin = 1..Len(origin) /\ Len(origin) \in Nat
      /\ DOMAIN instrs = 1..Len(instrs) /\ Len(instrs) \in Nat
      /\ place \in [1..N -> 1..(Len(instrs) + 1)]
  BY FunctionsAssumption, CodeDomain DEF Structure, TypeOK, IsFunction
<1>2. place[1] = 1 /\ place[N] = Len(instrs) + 1
  BY DEF Structure, FlowKept
<1>3. N \in S /\ S \in SUBSET Nat
  BY <1>1, <1>2
<1>4. PICK j \in S : \A x \in S : j <= x
  BY <1>3, LeastNatural
<1>5. j # 1 /\ j \in 1..N /\ place[j] > m
  BY <1>1, <1>2, <1>4
<1>6. j - 1 \in DOMAIN origin /\ j - 1 \in 1..N /\ j - 1 + 1 = j
  BY <1>1, <1>5
<1>7. place[j - 1] <= m
  <2>1. j - 1 \notin S
    BY <1>3, <1>4
  <2>2. place[j - 1] \in Int /\ m \in Int
    BY <1>1, <1>6
  <2>3. QED
    BY <1>6, <2>1, <2>2
<1>8. Untouched(j - 1) \/ Expanded(j - 1)
  BY <1>6 DEF Structure, FlowKept
<1>9. place[j - 1] \in Int /\ place[j] \in Int /\ m \in Int
  BY <1>1, <1>5, <1>6
<1>10. CASE Untouched(j - 1)
  <2>1. place[j] = place[j - 1] + 1
    BY <1>6, <1>10 DEF Untouched
  <2>2. QED
    BY <1>5, <1>6, <1>7, <1>9, <1>10, <2>1
<1>11. CASE Expanded(j - 1)
  <2>1. place[j] = place[j - 1] + 3
    BY <1>6, <1>11 DEF Expanded
  <2>2. m \in place[j - 1]..(place[j - 1] + 2)
    BY <1>5, <1>7, <1>9, <2>1
  <2>3. QED
    BY <1>6, <1>11, <2>2
<1>12. QED
  BY <1>8, <1>10, <1>11

LEMMA OriginTyped ==
  ASSUME TypeOK
  PROVE  /\ origin \in Seq(Instruction) /\ DOMAIN origin = 1..Len(origin) /\ Len(origin) \in Nat
         /\ \A k \in DOMAIN origin : origin[k] \in Instruction /\ origin[k].to \notin SkipLabels
         /\ instrs \in Seq(Instruction) /\ DOMAIN instrs = 1..Len(instrs) /\ Len(instrs) \in Nat
         /\ \A m \in DOMAIN instrs : instrs[m] \in Instruction
         /\ DOMAIN place = 1..(Len(origin) + 1)
         /\ \A k \in DOMAIN place : place[k] \in Nat /\ place[k] \in 1..(Len(instrs) + 1)
         /\ \A k \in DOMAIN origin : k \in Nat /\ k \in DOMAIN place /\ k + 1 \in DOMAIN place
<1>1. IsFunction(origin) /\ instrs \in Seq(Instruction)
  BY FunctionsAssumption DEF TypeOK
<1>2. /\ origin \in Seq(Instruction) /\ DOMAIN origin = 1..Len(origin) /\ Len(origin) \in Nat
      /\ \A k \in DOMAIN origin : origin[k] \in Instruction /\ origin[k].to \notin SkipLabels
  BY <1>1, CodeDomain DEF IsFunction
<1>3. /\ DOMAIN instrs = 1..Len(instrs) /\ Len(instrs) \in Nat
      /\ \A m \in DOMAIN instrs : instrs[m] \in Instruction
  BY <1>1, CodeDomain
<1>4. place \in [1..(Len(origin) + 1) -> 1..(Len(instrs) + 1)]
  BY DEF TypeOK
<1>5. /\ DOMAIN place = 1..(Len(origin) + 1)
      /\ \A k \in DOMAIN place : place[k] \in Nat /\ place[k] \in 1..(Len(instrs) + 1)
  BY <1>3, <1>4
<1>6. \A k \in DOMAIN origin : k \in Nat /\ k \in DOMAIN place /\ k + 1 \in DOMAIN place
  BY <1>2, <1>5
<1>7. QED
  BY <1>1, <1>2, <1>3, <1>5, <1>6

(* An expanded branch, with its jump and its label in the code.            *)
LEMMA ExpandedAt ==
  ASSUME Structure, NEW k \in DOMAIN origin, Expanded(k)
  PROVE  \E n \in FirstCounter..(counter - 1) :
           LET m == place[k] IN
           /\ m \in DOMAIN instrs /\ m + 1 \in DOMAIN instrs /\ m + 2 \in DOMAIN instrs
           /\ n \in Nat /\ n < counter /\ m \in Nat
           /\ IsBranch(instrs[m]) /\ ~IsLabel(instrs[m]) /\ instrs[m].to = SkipLabel(n)
           /\ instrs[m + 1].op = "jmp" /\ ~IsBranch(instrs[m + 1]) /\ ~IsLabel(instrs[m + 1])
           /\ IsLabel(instrs[m + 2]) /\ ~IsBranch(instrs[m + 2]) /\ instrs[m + 2].to = SkipLabel(n)
           /\ SkipLabel(n) \in SkipLabels
<1> DEFINE m == place[k]
<1>1. /\ place[k + 1] = m + 3 /\ m \in Nat /\ m >= 1 /\ place[k + 1] <= Len(instrs) + 1
      /\ DOMAIN instrs = 1..Len(instrs) /\ Len(instrs) \in Nat
      /\ IsBranch(origin[k]) /\ origin[k] \in Instruction
  BY OriginTyped DEF Expanded, Structure
<1>2. m \in DOMAIN instrs /\ m + 1 \in DOMAIN instrs /\ m + 2 \in DOMAIN instrs
  BY <1>1
<1>3. PICK n \in FirstCounter..(counter - 1) :
       /\ instrs[m]     = Branch(Inverted[origin[k].op], SkipLabel(n))
       /\ instrs[m + 1] = Jump(origin[k].to)
       /\ instrs[m + 2] = Label(SkipLabel(n))
  BY DEF Expanded
<1>4. n \in Nat /\ n < counter
  BY <1>3, FunctionsAssumption DEF Structure, TypeOK
<1>5. origin[k].op \in Conditions /\ origin[k].to \in Names \cup SkipLabels
  BY <1>1 DEF IsBranch, Instruction
<1> HIDE DEF m
<1>6. QED
  BY <1>1, <1>2, <1>3, <1>4, <1>5, Minted DEF m

(* The skip labels in the code are numbered below the counter.             *)
LEMMA SkipLabelsMinted ==
  ASSUME Structure, NEW m \in DOMAIN instrs, IsLabel(instrs[m]), instrs[m].to \in SkipLabels
  PROVE  \E n \in Nat : n < counter /\ instrs[m].to = SkipLabel(n)
<1>1. PICK k \in DOMAIN origin : \/ Untouched(k) /\ m = place[k]
                                 \/ Expanded(k) /\ m \in place[k]..(place[k] + 2)
  BY OriginAt
<1>2. CASE Untouched(k) /\ m = place[k]
  BY <1>2, OriginTyped DEF Structure, Untouched
<1>3. CASE Expanded(k) /\ m \in place[k]..(place[k] + 2)
  <2>1. place[k] \in Nat
    BY OriginTyped DEF Structure
  <2>2. m = place[k] \/ m = place[k] + 1 \/ m = place[k] + 2
    BY <1>3, <2>1
  <2>3. QED
    BY <1>3, <2>2, ExpandedAt
<1>4. QED
  BY <1>1, <1>2, <1>3

(* A branch in the code is one that was given, untouched, or the inverted  *)
(* one of a triple, whose target lies three bytes further on: that one     *)
(* reaches.                                                                *)
LEMMA BranchAt ==
  ASSUME Structure, LabelsStayDistinct, NEW m \in DOMAIN instrs, IsBranch(instrs[m]), NEW zp
  PROVE  \/ \E k \in DOMAIN origin : place[k] = m /\ Untouched(k) /\ IsBranch(origin[k])
         \/ instrs[m].to \in LabelsIn(instrs) /\ m \notin TooFar(instrs, zp)
<1>1. PICK k \in DOMAIN origin : \/ Untouched(k) /\ m = place[k]
                                 \/ Expanded(k) /\ m \in place[k]..(place[k] + 2)
  BY OriginAt
<1>2. CASE Untouched(k) /\ m = place[k]
  <2>1. instrs[m] = origin[k]
    BY <1>2 DEF Untouched
  <2>2. QED
    BY <1>2, <2>1
<1>3. CASE Expanded(k) /\ m \in place[k]..(place[k] + 2)
  <2>1. place[k] \in Nat
    BY OriginTyped DEF Structure
  <2>2. m = place[k] \/ m = place[k] + 1 \/ m = place[k] + 2
    BY <1>3, <2>1
  <2>3. m = place[k]
    BY <1>3, <2>2, ExpandedAt
  <2>4. PICK n \in FirstCounter..(counter - 1) :
          /\ m \in DOMAIN instrs /\ m + 1 \in DOMAIN instrs /\ m + 2 \in DOMAIN instrs
          /\ instrs[m].to = SkipLabel(n) /\ instrs[m + 1].op = "jmp"
          /\ IsLabel(instrs[m + 2]) /\ instrs[m + 2].to = SkipLabel(n)
    BY <1>3, <2>3, ExpandedAt
  <2>5. LabelIndex(instrs, instrs[m].to) = m + 2
    <3>1. \A j \in DOMAIN instrs : IsLabel(instrs[j]) /\ instrs[j].to = instrs[m].to => j = m + 2
      BY <2>4 DEF LabelsStayDistinct, Distinct
    <3>2. QED
      BY <2>4, <3>1 DEF LabelIndex
  <2>6. instrs[m].to \in LabelsIn(instrs)
    BY <2>4 DEF LabelsIn
  <2>7. Displacement(instrs, m, zp) = Bytes(instrs, m + 1, m + 2, zp)
    <3>1. instrs \in Seq(Instruction)
      BY DEF Structure, TypeOK
    <3>2. m < m + 2
      BY <2>1, <2>3
    <3>3. QED
      BY <2>4, <2>5, <3>1, <3>2, BranchDisplacement
  <2>8. Bytes(instrs, m + 1, m + 2, zp) = 3
    <3>1. instrs \in Seq(Instruction)
      BY DEF Structure, TypeOK
    <3>2. Bytes(instrs, m + 1, (m + 1) + 1, zp) = Size(instrs[m + 1], zp)
      BY <2>4, <3>1, BytesOfOne
    <3>3. Size(instrs[m + 1], zp) = 3
      BY <2>4, SizeOfJumps
    <3>4. (m + 1) + 1 = m + 2
      BY <2>1, <2>3
    <3>5. QED
      BY ONLY <3>2, <3>3, <3>4, Zenon
  <2>9. Displacement(instrs, m, zp) \in -Reach..(Reach - 1)
    <3>1. Displacement(instrs, m, zp) = 3
      BY ONLY <2>7, <2>8, Zenon
    <3>2. QED
      BY <3>1, ReachAssumption
  <2>10. QED
    BY <2>6, <2>9 DEF TooFar
<1>4. QED
  BY <1>1, <1>2, <1>3

(* The labels that were given are there still.                             *)
LEMMA LabelsThere ==
  ASSUME Structure
  PROVE  LabelsIn(origin) \subseteq LabelsIn(instrs)
<1> SUFFICES ASSUME NEW k \in DOMAIN origin, IsLabel(origin[k])
             PROVE  origin[k].to \in LabelsIn(instrs)
  BY DEF LabelsIn
<1>1. ~IsBranch(origin[k])
  BY DEF IsLabel, IsBranch, Conditions
<1>2. Untouched(k)
  BY <1>1 DEF Structure, FlowKept, Expanded
<1>3. place[k] \in DOMAIN instrs
  <2>1. /\ place[k + 1] = place[k] + 1 /\ place[k] \in 1..(Len(instrs) + 1)
        /\ place[k + 1] \in 1..(Len(instrs) + 1) /\ Len(instrs) \in Nat /\ DOMAIN instrs = 1..Len(instrs)
    BY <1>2, OriginTyped DEF Structure, Untouched
  <2>2. QED
    BY <2>1
<1>4. instrs[place[k]] = origin[k]
  BY <1>2 DEF Untouched
<1>5. QED
  BY <1>3, <1>4 DEF LabelsIn

(* A target that is missing now was missing at first.                      *)
LEMMA BoundKept ==
  ASSUME Structure, LabelsStayDistinct, Bound(origin)
  PROVE  Bound(instrs)
<1> SUFFICES ASSUME NEW m \in DOMAIN instrs, IsBranch(instrs[m])
             PROVE  instrs[m].to \in LabelsIn(instrs)
  BY DEF Bound
<1>1. CASE \E k \in DOMAIN origin : place[k] = m /\ Untouched(k) /\ IsBranch(origin[k])
  BY <1>1, LabelsThere DEF Bound, Untouched
<1>2. CASE instrs[m].to \in LabelsIn(instrs) /\ m \notin TooFar(instrs, DefaultZp)
  BY <1>2
<1>3. QED
  BY <1>1, <1>2, BranchAt

LEMMA InitKeeps == Init => LIInv
<1> SUFFICES ASSUME Init PROVE LIInv
  OBVIOUS
<1>1. /\ origin \in Functions /\ instrs = origin /\ tooFar = {} /\ counter = FirstCounter
      /\ place = [k \in 1..(Len(origin) + 1) |-> k] /\ phase = "measure"
  BY DEF Init
<1>2. /\ origin \in Seq(Instruction) /\ Distinct(origin) /\ FirstCounter \in Nat
      /\ DOMAIN origin = 1..Len(origin) /\ Len(origin) \in Nat
  BY <1>1, FunctionsAssumption, CodeDomain DEF IsFunction
<1>3. TypeOK
  BY <1>1, <1>2 DEF TypeOK
<1>4. Ordered
  BY <1>1, <1>2 DEF Ordered
<1>5. \A k \in DOMAIN origin : place[k] = k /\ place[k + 1] = k + 1 /\ k \in Nat
  BY <1>1, <1>2
<1>6. \A k \in DOMAIN origin : Untouched(k)
  BY <1>1, <1>5 DEF Untouched
<1>7. FlowKept
  BY <1>1, <1>2, <1>6 DEF FlowKept
<1>8. IndicesStayValid
  BY <1>1 DEF IndicesStayValid
<1>9. LabelsStayDistinct
  BY <1>1, <1>2 DEF LabelsStayDistinct
<1>10. ExpandedOnce
  <2>1. \A k \in DOMAIN origin : ~Expanded(k)
    BY <1>5 DEF Expanded
  <2>2. {k \in DOMAIN origin : Expanded(k)} = {}
    BY <2>1
  <2>3. Cardinality({k \in DOMAIN origin : Expanded(k)}) = 0
    BY <2>2, FS_EmptySet
  <2>4. QED
    BY <1>1, <1>2, <2>3 DEF ExpandedOnce
<1>11. RefusedAsGiven /\ ReachesWhenLinked
  BY <1>1 DEF RefusedAsGiven, ReachesWhenLinked
<1>12. QED
  BY <1>3, <1>4, <1>7, <1>8, <1>9, <1>10, <1>11 DEF LIInv, Structure

LEMMA MissingTargetKeeps == LIInv /\ MissingTarget => LIInv'
<1> SUFFICES ASSUME LIInv, MissingTarget PROVE LIInv'
  OBVIOUS
<1>1. /\ origin' = origin /\ instrs' = instrs /\ tooFar' = tooFar /\ counter' = counter
      /\ place' = place /\ phase' = "ValueError" /\ ~Bound(instrs)
  BY DEF MissingTarget
<1>2. /\ TypeOK /\ Ordered /\ FlowKept /\ IndicesStayValid /\ LabelsStayDistinct /\ ExpandedOnce /\ Structure
  BY DEF LIInv, Structure
<1>3. TypeOK'
  BY <1>1, <1>2 DEF TypeOK
<1>4. Ordered' /\ FlowKept'
  BY <1>1, <1>2 DEF Ordered, FlowKept, Untouched, Expanded
<1>5. IndicesStayValid' /\ LabelsStayDistinct'
  BY <1>1, <1>2 DEF IndicesStayValid, LabelsStayDistinct, Untouched
<1>6. ExpandedOnce'
  BY <1>1, <1>2 DEF ExpandedOnce, Expanded
<1>7. RefusedAsGiven'
  BY <1>1, <1>2, BoundKept DEF RefusedAsGiven
<1>8. ReachesWhenLinked'
  BY <1>1 DEF ReachesWhenLinked
<1>9. QED
  BY <1>3, <1>4, <1>5, <1>6, <1>7, <1>8 DEF LIInv, Structure

LEMMA MeasureKeeps == LIInv /\ Measure => LIInv'
<1> SUFFICES ASSUME LIInv, Measure PROVE LIInv'
  OBVIOUS
<1>1. /\ origin' = origin /\ instrs' = instrs /\ counter' = counter /\ place' = place
      /\ Bound(instrs) /\ tooFar' = TooFar(instrs, DefaultZp)
      /\ phase' = IF tooFar' = {} THEN "done" ELSE "expand"
  BY DEF Measure
<1>2. /\ TypeOK /\ Ordered /\ FlowKept /\ LabelsStayDistinct /\ ExpandedOnce /\ Structure
  BY DEF LIInv, Structure
<1>3. tooFar' \subseteq DOMAIN instrs
  BY <1>1 DEF TooFar
<1>4. TypeOK'
  BY <1>1, <1>2, <1>3 DEF TypeOK
<1>5. Ordered' /\ FlowKept'
  BY <1>1, <1>2 DEF Ordered, FlowKept, Untouched, Expanded
<1>6. IndicesStayValid'
  <2>1. \A i \in tooFar' : \E k \in DOMAIN origin : place[k] = i /\ Untouched(k) /\ IsBranch(origin[k])
    <3> SUFFICES ASSUME NEW i \in tooFar'
                 PROVE  \E k \in DOMAIN origin : place[k] = i /\ Untouched(k) /\ IsBranch(origin[k])
      OBVIOUS
    <3>1. i \in DOMAIN instrs /\ IsBranch(instrs[i]) /\ i \in TooFar(instrs, DefaultZp)
      BY <1>1 DEF TooFar
    <3>2. QED
      BY <1>2, <3>1, BranchAt
  <2>2. QED
    BY <1>1, <2>1 DEF IndicesStayValid, Untouched
<1>7. LabelsStayDistinct' /\ ExpandedOnce'
  BY <1>1, <1>2 DEF LabelsStayDistinct, ExpandedOnce, Expanded
<1>8. RefusedAsGiven'
  BY <1>1 DEF RefusedAsGiven
<1>9. ReachesWhenLinked'
  <2> SUFFICES ASSUME phase' = "done" PROVE TooFar(instrs, FinalZp(instrs)) = {}
    BY <1>1 DEF ReachesWhenLinked
  <2>1. TooFar(instrs, DefaultZp) = {}
    BY <1>1
  <2>2. DefaultZp \subseteq FinalZp(instrs)
    BY DEF FinalZp
  <2>3. instrs \in Seq(Instruction)
    BY <1>2 DEF TypeOK
  <2>4. QED
    BY <1>1, <2>1, <2>2, <2>3, ReachKept
<1>10. QED
  BY <1>4, <1>5, <1>6, <1>7, <1>8, <1>9 DEF LIInv, Structure

(* One branch is expanded: its triple takes its place, what is behind it   *)
(* moves by two. The facts about the step the conjuncts share.             *)
Splice(k0, i) ==
  /\ k0 \in DOMAIN origin /\ place[k0] = i /\ Untouched(k0) /\ IsBranch(origin[k0])
  /\ i \in DOMAIN instrs /\ i \in Nat /\ k0 \in Nat
  /\ origin' = origin /\ counter' = counter + 1 /\ counter \in Nat
  /\ DOMAIN place' = DOMAIN place
  /\ \A k \in DOMAIN place : place'[k] = IF k <= k0 THEN place[k] ELSE place[k] + 2
  /\ \A k \in DOMAIN place : k <= k0 => place[k] <= i
  /\ \A k \in DOMAIN place : k > k0 => place[k] > i
  /\ instrs' \in Seq(Instruction) /\ Len(instrs') = Len(instrs) + 2
  /\ \A m \in DOMAIN instrs : m < i => instrs'[m] = instrs[m]
  /\ \A m \in DOMAIN instrs : m > i => instrs'[m + 2] = instrs[m]
  /\ instrs'[i]     = Branch(Inverted[origin[k0].op], SkipLabel(counter))
  /\ instrs'[i + 1] = Jump(origin[k0].to)
  /\ instrs'[i + 2] = Label(SkipLabel(counter))
  /\ origin[k0].op \in Conditions /\ origin[k0].to \in Names \cup SkipLabels

LEMMA ExpandIndexSplices ==
  ASSUME LIInv, ExpandIndex
  PROVE  \E k0 \in DOMAIN origin, i \in tooFar :
           Splice(k0, i) /\ IsLast(i) /\ tooFar' = tooFar \ {i}
<1>1. PICK i \in tooFar :
       /\ IsLast(i) /\ instrs' = ExpandAt(instrs, i, counter) /\ tooFar' = tooFar \ {i}
       /\ place' = [k \in DOMAIN place |-> IF place[k] <= i THEN place[k] ELSE place[k] + 2]
  BY DEF ExpandIndex
<1>2. counter' = counter + 1 /\ origin' = origin
  BY DEF ExpandIndex
<1>3. TypeOK /\ Ordered /\ FlowKept /\ IndicesStayValid /\ Structure /\ counter \in Nat
  BY DEF LIInv, Structure, TypeOK
<1>4. PICK k0 \in DOMAIN origin : place[k0] = i /\ Untouched(k0) /\ IsBranch(origin[k0])
  BY <1>3 DEF IndicesStayValid
<1>5. instrs[i] = origin[k0] /\ IsBranch(instrs[i])
  BY <1>4 DEF Untouched
<1>6. i \in DOMAIN instrs /\ instrs \in Seq(Instruction)
  BY <1>3 DEF TypeOK
<1>7. /\ instrs' \in Seq(Instruction) /\ Len(instrs') = Len(instrs) + 2
      /\ \A m \in DOMAIN instrs : m < i => instrs'[m] = instrs[m]
      /\ \A m \in DOMAIN instrs : m > i => instrs'[m + 2] = instrs[m]
      /\ instrs'[i]     = Branch(Inverted[origin[k0].op], SkipLabel(counter))
      /\ instrs'[i + 1] = Jump(origin[k0].to)
      /\ instrs'[i + 2] = Label(SkipLabel(counter))
  BY <1>1, <1>3, <1>5, <1>6, ExpandAtShape
<1>8. k0 \in DOMAIN place /\ k0 \in Nat /\ i \in Nat /\ \A k \in DOMAIN place : k \in Nat /\ place[k] \in Nat
  BY <1>3, <1>4, OriginTyped
<1>9. \A k \in DOMAIN place : (k <= k0 => place[k] <= i) /\ (k > k0 => place[k] > i)
  <2> SUFFICES ASSUME NEW k \in DOMAIN place PROVE (k <= k0 => place[k] <= i) /\ (k > k0 => place[k] > i)
    OBVIOUS
  <2>1. (k < k0 => place[k] < place[k0]) /\ (k0 < k => place[k0] < place[k])
    BY <1>3, <1>8 DEF Ordered
  <2>2. QED
    BY <1>4, <1>8, <2>1
<1>10. DOMAIN place' = DOMAIN place
  BY <1>1
<1>11. \A k \in DOMAIN place : place'[k] = IF k <= k0 THEN place[k] ELSE place[k] + 2
  <2> SUFFICES ASSUME NEW k \in DOMAIN place
               PROVE  place'[k] = IF k <= k0 THEN place[k] ELSE place[k] + 2
    OBVIOUS
  <2>1. place'[k] = IF place[k] <= i THEN place[k] ELSE place[k] + 2
    BY <1>1
  <2>2. place[k] <= i <=> k <= k0
    BY <1>8, <1>9
  <2>3. QED
    BY <2>1, <2>2
<1>12. origin[k0].op \in Conditions /\ origin[k0].to \in Names \cup SkipLabels
  BY <1>3, <1>4, OriginTyped DEF IsBranch, Instruction
<1>13. Splice(k0, i)
  BY <1>2, <1>3, <1>4, <1>6, <1>7, <1>8, <1>9, <1>10, <1>11, <1>12 DEF Splice
<1>14. QED
  BY <1>1, <1>13

(* Every other instruction keeps what has become of it.                    *)
LEMMA SpliceKeepsOthers ==
  ASSUME Structure, NEW k0, NEW i, Splice(k0, i), NEW k \in DOMAIN origin, k # k0
  PROVE  /\ Untouched(k) => Untouched(k)'
         /\ Expanded(k) => Expanded(k)'
         /\ k < k0 => place'[k] = place[k]
<1>1. /\ k \in Nat /\ k + 1 \in DOMAIN place /\ k \in DOMAIN place /\ place[k] \in Nat /\ place[k + 1] \in Nat
      /\ place[k] >= 1 /\ place[k + 1] <= Len(instrs) + 1 /\ DOMAIN instrs = 1..Len(instrs) /\ Len(instrs) \in Nat
      /\ i \in Nat /\ k0 \in Nat
  <2>1. /\ k \in Nat /\ k + 1 \in DOMAIN place /\ k \in DOMAIN place
        /\ place[k] \in Nat /\ place[k + 1] \in Nat
        /\ place[k] \in 1..(Len(instrs) + 1) /\ place[k + 1] \in 1..(Len(instrs) + 1)
        /\ DOMAIN instrs = 1..Len(instrs) /\ Len(instrs) \in Nat
    BY OriginTyped DEF Structure
  <2>2. i \in Nat /\ k0 \in Nat
    BY DEF Splice
  <2>3. QED
    BY <2>1, <2>2
<1>2. /\ origin' = origin /\ counter' = counter + 1 /\ counter \in Nat
      /\ \A m \in DOMAIN instrs : m < i => instrs'[m] = instrs[m]
      /\ \A m \in DOMAIN instrs : m > i => instrs'[m + 2] = instrs[m]
  BY DEF Splice
<1>3. CASE k < k0
  <2>1. k <= k0 /\ k + 1 <= k0
    BY <1>1, <1>3
  <2>2. place'[k] = place[k] /\ place'[k + 1] = place[k + 1] /\ place[k + 1] <= i
    BY <1>1, <2>1 DEF Splice
  <2>3. ASSUME Untouched(k) PROVE Untouched(k)'
    <3>1. place[k + 1] = place[k] + 1 /\ instrs[place[k]] = origin[k]
      BY <2>3 DEF Untouched
    <3>2. place[k] \in DOMAIN instrs /\ place[k] < i
      BY <1>1, <2>2, <3>1
    <3>3. instrs'[place[k]] = instrs[place[k]]
      BY <1>2, <3>2
    <3>4. QED
      BY <1>2, <2>2, <3>1, <3>3 DEF Untouched
  <2>4. ASSUME Expanded(k) PROVE Expanded(k)'
    <3>1. place[k + 1] = place[k] + 3 /\ IsBranch(origin[k])
      BY <2>4 DEF Expanded
    <3>2. PICK n \in FirstCounter..(counter - 1) :
            /\ instrs[place[k]]     = Branch(Inverted[origin[k].op], SkipLabel(n))
            /\ instrs[place[k] + 1] = Jump(origin[k].to)
            /\ instrs[place[k] + 2] = Label(SkipLabel(n))
      BY <2>4 DEF Expanded
    <3>3. /\ place[k] \in DOMAIN instrs /\ place[k] < i
          /\ place[k] + 1 \in DOMAIN instrs /\ place[k] + 1 < i
          /\ place[k] + 2 \in DOMAIN instrs /\ place[k] + 2 < i
      BY <1>1, <2>2, <3>1
    <3>4. /\ instrs'[place[k]] = instrs[place[k]]
          /\ instrs'[place[k] + 1] = instrs[place[k] + 1]
          /\ instrs'[place[k] + 2] = instrs[place[k] + 2]
      BY <1>2, <3>3
    <3>5. n \in FirstCounter..(counter' - 1)
      BY <1>2, <3>2, FunctionsAssumption
    <3>6. /\ instrs'[place'[k]]     = Branch(Inverted[origin'[k].op], SkipLabel(n))
          /\ instrs'[place'[k] + 1] = Jump(origin'[k].to)
          /\ instrs'[place'[k] + 2] = Label(SkipLabel(n))
      BY <1>2, <2>2, <3>2, <3>4
    <3>7. IsBranch(origin'[k]) /\ place'[k + 1] = place'[k] + 3
      BY <1>2, <2>2, <3>1
    <3>8. QED
      BY <3>5, <3>6, <3>7 DEF Expanded
  <2>5. QED
    BY <2>2, <2>3, <2>4
<1>4. CASE k > k0
  <2>1. ~(k <= k0) /\ ~(k + 1 <= k0) /\ k > k0
    BY <1>1, <1>4
  <2>2. place'[k] = place[k] + 2 /\ place'[k + 1] = place[k + 1] + 2 /\ place[k] > i
    BY <1>1, <2>1 DEF Splice
  <2>3. ASSUME Untouched(k) PROVE Untouched(k)'
    <3>1. place[k + 1] = place[k] + 1 /\ instrs[place[k]] = origin[k]
      BY <2>3 DEF Untouched
    <3>2. place[k] \in DOMAIN instrs
      BY <1>1, <3>1
    <3>3. instrs'[place[k] + 2] = instrs[place[k]]
      BY <1>2, <2>2, <3>2
    <3>4. place'[k + 1] = place'[k] + 1
      BY <1>1, <2>2, <3>1
    <3>5. QED
      BY <1>2, <2>2, <3>1, <3>3, <3>4 DEF Untouched
  <2>4. ASSUME Expanded(k) PROVE Expanded(k)'
    <3>1. place[k + 1] = place[k] + 3 /\ IsBranch(origin[k])
      BY <2>4 DEF Expanded
    <3>2. PICK n \in FirstCounter..(counter - 1) :
            /\ instrs[place[k]]     = Branch(Inverted[origin[k].op], SkipLabel(n))
            /\ instrs[place[k] + 1] = Jump(origin[k].to)
            /\ instrs[place[k] + 2] = Label(SkipLabel(n))
      BY <2>4 DEF Expanded
    <3>3. /\ place[k] \in DOMAIN instrs /\ place[k] > i
          /\ place[k] + 1 \in DOMAIN instrs /\ place[k] + 1 > i
          /\ place[k] + 2 \in DOMAIN instrs /\ place[k] + 2 > i
      BY <1>1, <2>2, <3>1
    <3>4. /\ instrs'[place[k] + 2] = instrs[place[k]]
          /\ instrs'[(place[k] + 1) + 2] = instrs[place[k] + 1]
          /\ instrs'[(place[k] + 2) + 2] = instrs[place[k] + 2]
      BY <1>2, <3>3
    <3>5. /\ (place[k] + 1) + 2 = place'[k] + 1 /\ (place[k] + 2) + 2 = place'[k] + 2
          /\ place'[k + 1] = place'[k] + 3
      BY <1>1, <2>2, <3>1
    <3>6. /\ instrs'[place'[k]] = instrs[place[k]]
          /\ instrs'[place'[k] + 1] = instrs[place[k] + 1]
          /\ instrs'[place'[k] + 2] = instrs[place[k] + 2]
      BY ONLY <2>2, <3>4, <3>5, Zenon
    <3>7. n \in FirstCounter..(counter' - 1)
      BY <1>2, <3>2, FunctionsAssumption
    <3>8. /\ instrs'[place'[k]]     = Branch(Inverted[origin'[k].op], SkipLabel(n))
          /\ instrs'[place'[k] + 1] = Jump(origin'[k].to)
          /\ instrs'[place'[k] + 2] = Label(SkipLabel(n))
      BY <1>2, <3>2, <3>6
    <3>9. IsBranch(origin'[k]) /\ place'[k + 1] = place'[k] + 3
      BY <1>2, <3>1, <3>5
    <3>10. QED
      BY <3>7, <3>8, <3>9 DEF Expanded
  <2>5. QED
    BY <1>1, <1>4, <2>3, <2>4
<1>5. QED
  BY <1>1, <1>3, <1>4

LEMMA ExpandIndexKeepsStructure ==
  ASSUME LIInv, ExpandIndex
  PROVE  Structure' /\ IndicesStayValid'
<1>1. PICK k0 \in DOMAIN origin, i \in tooFar : Splice(k0, i) /\ IsLast(i) /\ tooFar' = tooFar \ {i}
  BY ExpandIndexSplices
<1>2. Structure /\ TypeOK /\ Ordered /\ FlowKept /\ IndicesStayValid
  BY DEF LIInv, Structure
<1>3. /\ origin' = origin /\ counter' = counter + 1 /\ counter \in Nat
      /\ i \in Nat /\ k0 \in Nat /\ i \in DOMAIN instrs /\ DOMAIN place' = DOMAIN place
      /\ instrs' \in Seq(Instruction) /\ Len(instrs') = Len(instrs) + 2
      /\ place[k0] = i /\ k0 \in DOMAIN origin
  BY <1>1 DEF Splice
<1>4. \A k \in DOMAIN place : place'[k] = IF k <= k0 THEN place[k] ELSE place[k] + 2
  BY <1>1 DEF Splice
<1>5. /\ DOMAIN instrs = 1..Len(instrs) /\ Len(instrs) \in Nat
      /\ DOMAIN place = 1..(Len(origin) + 1) /\ Len(origin) \in Nat
      /\ \A k \in DOMAIN place : k \in Nat /\ place[k] \in Nat /\ place[k] \in 1..(Len(instrs) + 1)
      /\ \A k \in DOMAIN origin : k \in DOMAIN place /\ k + 1 \in DOMAIN place /\ k \in Nat
      /\ DOMAIN origin = 1..Len(origin)
  BY <1>2, OriginTyped
<1>6. TypeOK'
  <2>1. DOMAIN instrs' = 1..(Len(instrs) + 2)
    BY <1>3, CodeDomain
  <2>2. tooFar' \subseteq DOMAIN instrs'
    <3>1. DOMAIN instrs \subseteq DOMAIN instrs'
      BY <1>5, <2>1
    <3>2. tooFar \subseteq DOMAIN instrs
      BY <1>2 DEF TypeOK
    <3>3. QED
      BY <1>1, <3>1, <3>2
  <2>3. \A k \in DOMAIN place' : place'[k] \in 1..(Len(instrs') + 1)
    <3> SUFFICES ASSUME NEW k \in DOMAIN place PROVE place'[k] \in 1..(Len(instrs) + 2 + 1)
      BY <1>3
    <3>1. place[k] \in 1..(Len(instrs) + 1) /\ place'[k] = IF k <= k0 THEN place[k] ELSE place[k] + 2
      BY <1>4, <1>5
    <3>2. QED
      BY <1>5, <3>1
  <2>4. place' = [k \in 1..(Len(origin') + 1) |-> place'[k]]
    <3>1. place' = [k \in DOMAIN place |-> place'[k]]
      BY DEF ExpandIndex
    <3>2. QED
      BY <1>3, <1>5, <3>1
  <2>5. place' \in [1..(Len(origin') + 1) -> 1..(Len(instrs') + 1)]
    BY <1>3, <1>5, <2>3, <2>4
  <2>6. origin' \in Functions /\ counter' \in Nat
    BY <1>2, <1>3 DEF TypeOK
  <2>7. phase' \in {"measure", "expand", "done", "ValueError"}
    BY DEF ExpandIndex
  <2>8. QED
    BY <1>3, <2>2, <2>5, <2>6, <2>7 DEF TypeOK
<1>7. Ordered'
  <2> SUFFICES ASSUME NEW j \in DOMAIN place, NEW k \in DOMAIN place, j < k
               PROVE  place'[j] < place'[k]
    BY <1>3 DEF Ordered
  <2>1. place[j] < place[k]
    BY <1>2 DEF Ordered
  <2>2. place'[j] = (IF j <= k0 THEN place[j] ELSE place[j] + 2) /\ place'[k] = IF k <= k0 THEN place[k] ELSE place[k] + 2
    BY <1>4
  <2>3. j \in Nat /\ k \in Nat /\ place[j] \in Nat /\ place[k] \in Nat
    BY <1>5
  <2>4. QED
    BY <1>3, <2>1, <2>2, <2>3
<1>8. Expanded(k0)'
  <2>1. place'[k0] = i /\ place'[k0 + 1] = place[k0 + 1] + 2
    BY <1>3, <1>4, <1>5
  <2>2. place[k0 + 1] = i + 1 /\ IsBranch(origin[k0])
    BY <1>1 DEF Splice, Untouched
  <2>3. counter \in FirstCounter..(counter' - 1)
    <3>1. FirstCounter <= counter
      <4>1. Cardinality({k \in DOMAIN origin : Expanded(k)}) \in Nat
        <5>1. IsFiniteSet(DOMAIN origin)
          BY <1>5, FS_Interval
        <5>2. IsFiniteSet({k \in DOMAIN origin : Expanded(k)})
          BY <5>1, FS_Subset
        <5>3. QED
          BY <5>2, FS_CardinalityType
      <4>2. counter = FirstCounter + Cardinality({k \in DOMAIN origin : Expanded(k)})
        BY DEF LIInv, ExpandedOnce
      <4>3. QED
        BY <4>1, <4>2, FunctionsAssumption
    <3>2. QED
      BY <1>3, <3>1, FunctionsAssumption
  <2>4. /\ instrs'[place'[k0]]     = Branch(Inverted[origin'[k0].op], SkipLabel(counter))
        /\ instrs'[place'[k0] + 1] = Jump(origin'[k0].to)
        /\ instrs'[place'[k0] + 2] = Label(SkipLabel(counter))
    BY <1>1, <1>3, <2>1 DEF Splice
  <2>5. IsBranch(origin'[k0]) /\ place'[k0 + 1] = place'[k0] + 3
    BY <1>3, <2>1, <2>2
  <2>6. QED
    BY <2>3, <2>4, <2>5 DEF Expanded
<1>9. FlowKept'
  <2>1. place'[1] = 1
    <3>1. 1 \in DOMAIN place /\ 1 <= k0 /\ place[1] = 1
      BY <1>2, <1>3, <1>5 DEF FlowKept
    <3>2. QED
      BY <1>4, <3>1
  <2>2. place'[Len(origin') + 1] = Len(instrs') + 1
    <3>1. Len(origin) + 1 \in DOMAIN place /\ ~(Len(origin) + 1 <= k0) /\ place[Len(origin) + 1] = Len(instrs) + 1
      BY <1>2, <1>3, <1>5 DEF FlowKept
    <3>2. place'[Len(origin) + 1] = Len(instrs) + 1 + 2
      BY <1>4, <3>1
    <3>3. QED
      BY <1>3, <1>5, <3>2
  <2>3. \A k \in DOMAIN origin : Untouched(k)' \/ Expanded(k)'
    BY <1>1, <1>2, <1>8, SpliceKeepsOthers DEF FlowKept
  <2>4. QED
    BY <1>3, <2>1, <2>2, <2>3 DEF FlowKept
<1>10. IndicesStayValid'
  <2> SUFFICES ASSUME NEW j \in tooFar, j # i
               PROVE  \E k \in DOMAIN origin : place'[k] = j /\ Untouched(k)' /\ IsBranch(origin[k])
    BY <1>1, <1>3 DEF IndicesStayValid
  <2>1. PICK k \in DOMAIN origin : place[k] = j /\ Untouched(k) /\ IsBranch(origin[k])
    BY <1>2 DEF IndicesStayValid
  <2>2. j < i
    <3>1. j <= i
      BY <1>1 DEF IsLast
    <3>2. j \in Nat
      BY <1>5, <2>1
    <3>3. QED
      BY <1>3, <3>1, <3>2
  <2>3. k < k0
    <3>1. k0 < k => place[k0] < place[k]
      BY <1>2, <1>5, <2>1 DEF Ordered
    <3>2. k # k0
      BY <1>3, <2>1, <2>2
    <3>3. QED
      BY <1>3, <1>5, <2>1, <2>2, <3>1, <3>2
  <2>4. k # k0
    BY <1>3, <1>5, <2>3
  <2>5. place'[k] = place[k] /\ Untouched(k)'
    BY <1>1, <1>2, <2>1, <2>3, <2>4, SpliceKeepsOthers
  <2>6. QED
    BY <2>1, <2>5
<1>11. QED
  BY <1>6, <1>7, <1>9, <1>10 DEF Structure

(* The label that is minted is bound nowhere else.                         *)
LEMMA ExpandIndexKeepsLabels ==
  ASSUME LIInv, ExpandIndex
  PROVE  LabelsStayDistinct'
<1>1. PICK k0 \in DOMAIN origin, i \in tooFar : Splice(k0, i)
  BY ExpandIndexSplices
<1>2. Structure /\ TypeOK /\ LabelsStayDistinct
  BY DEF LIInv, Structure
<1>3. /\ counter \in Nat /\ i \in Nat /\ i \in DOMAIN instrs
      /\ \A m \in DOMAIN instrs : m < i => instrs'[m] = instrs[m]
      /\ \A m \in DOMAIN instrs : m > i => instrs'[m + 2] = instrs[m]
      /\ instrs'[i]     = Branch(Inverted[origin[k0].op], SkipLabel(counter))
      /\ instrs'[i + 1] = Jump(origin[k0].to)
      /\ instrs'[i + 2] = Label(SkipLabel(counter))
      /\ origin[k0].op \in Conditions /\ origin[k0].to \in Names \cup SkipLabels
  BY <1>1 DEF Splice
<1>4. DOMAIN instrs = 1..Len(instrs) /\ Len(instrs) \in Nat /\ DOMAIN instrs' = 1..(Len(instrs) + 2)
  <2>1. instrs' \in Seq(Instruction) /\ Len(instrs') = Len(instrs) + 2
    BY <1>1 DEF Splice
  <2>2. QED
    BY <1>2, <2>1, OriginTyped, CodeDomain
<1>5. ~IsLabel(instrs'[i]) /\ ~IsLabel(instrs'[i + 1]) /\ instrs'[i + 2].to = SkipLabel(counter)
      /\ SkipLabel(counter) \in SkipLabels
  BY <1>3, Minted
(* Where a label of the new list was in the old one. *)
<1> DEFINE from(m) == IF m < i THEN m ELSE m - 2
<1>6. ASSUME NEW m \in DOMAIN instrs', IsLabel(instrs'[m]), m # i + 2
      PROVE  from(m) \in DOMAIN instrs /\ instrs'[m] = instrs[from(m)] /\ (m < i \/ m > i + 2)
  <2>1. m # i /\ m # i + 1
    BY <1>5, <1>6
  <2>2. CASE m < i
    <3>1. m \in DOMAIN instrs
      BY <1>3, <1>4, <2>2
    <3>2. QED
      BY <1>3, <2>2, <3>1
  <2>3. CASE ~(m < i)
    <3>1. m \in Nat /\ m > i + 2
      BY <1>3, <1>4, <1>6, <2>1, <2>3
    <3>2. m - 2 \in DOMAIN instrs /\ m - 2 > i /\ (m - 2) + 2 = m
      BY <1>3, <1>4, <3>1
    <3>3. instrs'[(m - 2) + 2] = instrs[m - 2]
      BY <1>3, <3>2
    <3>4. QED
      BY <2>3, <3>1, <3>2, <3>3
  <2>4. QED
    BY <2>2, <2>3
<1>7. ASSUME NEW m \in DOMAIN instrs', IsLabel(instrs'[m]), instrs'[m].to = SkipLabel(counter)
      PROVE  m = i + 2
  <2> SUFFICES ASSUME m # i + 2 PROVE FALSE
    OBVIOUS
  <2>1. from(m) \in DOMAIN instrs /\ instrs'[m] = instrs[from(m)]
    BY <1>6, <1>7
  <2> HIDE DEF from
  <2>2. PICK n \in Nat : n < counter /\ instrs[from(m)].to = SkipLabel(n)
    BY <1>2, <1>5, <1>7, <2>1, SkipLabelsMinted
  <2>3. SkipLabel(n) = SkipLabel(counter)
    BY <1>7, <2>1, <2>2
  <2>4. n = counter
    BY <2>3 DEF SkipLabel
  <2>5. QED
    BY <1>3, <2>2, <2>4
<1>8. ASSUME NEW j \in DOMAIN instrs', NEW k \in DOMAIN instrs',
             IsLabel(instrs'[j]), IsLabel(instrs'[k]), instrs'[j].to = instrs'[k].to
      PROVE  j = k
  <2>1. CASE j = i + 2 \/ k = i + 2
    BY <1>5, <1>7, <1>8, <2>1
  <2>2. CASE j # i + 2 /\ k # i + 2
    <3>1. /\ from(j) \in DOMAIN instrs /\ instrs'[j] = instrs[from(j)] /\ (j < i \/ j > i + 2)
          /\ from(k) \in DOMAIN instrs /\ instrs'[k] = instrs[from(k)] /\ (k < i \/ k > i + 2)
      BY <1>6, <1>8, <2>2
    <3>2. from(j) = from(k)
      <4> HIDE DEF from
      <4>1. QED
        BY <1>2, <1>8, <3>1 DEF LabelsStayDistinct, Distinct
    <3>3. j \in Nat /\ k \in Nat
      BY <1>4
    <3>4. QED
      BY <1>3, <3>1, <3>2, <3>3
  <2>3. QED
    BY <2>1, <2>2
<1>9. QED
  BY <1>8 DEF LabelsStayDistinct, Distinct

(* One more branch is expanded, and one more label minted.                 *)
LEMMA ExpandIndexCounts ==
  ASSUME LIInv, ExpandIndex
  PROVE  ExpandedOnce'
<1>1. PICK k0 \in DOMAIN origin, i \in tooFar : Splice(k0, i)
  BY ExpandIndexSplices
<1>2. Structure /\ TypeOK /\ FlowKept /\ Structure' /\ TypeOK'
  BY ExpandIndexKeepsStructure DEF LIInv, Structure
<1> DEFINE before == {k \in DOMAIN origin : Expanded(k)}
           after  == {k \in DOMAIN origin : Expanded(k)'}
<1>3. /\ origin' = origin /\ counter' = counter + 1 /\ counter \in Nat /\ k0 \in DOMAIN origin
      /\ Untouched(k0) /\ IsBranch(origin[k0])
  BY <1>1 DEF Splice
<1>4. \A k \in DOMAIN origin : place[k] \in Nat /\ place'[k] \in Nat
  <2>1. \A k \in DOMAIN origin : place[k] \in Nat
    BY <1>2, OriginTyped
  <2>2. \A k \in DOMAIN origin : place'[k] \in Nat
    <3>1. \A k \in DOMAIN place : place'[k] = IF k <= k0 THEN place[k] ELSE place[k] + 2
      BY <1>1 DEF Splice
    <3>2. \A k \in DOMAIN origin : k \in DOMAIN place
      BY <1>2, OriginTyped
    <3>3. QED
      BY <2>1, <3>1, <3>2
  <2>3. QED
    BY <2>1, <2>2
<1>5. \A k \in DOMAIN origin : Untouched(k) => ~Expanded(k)
  BY <1>4 DEF Untouched, Expanded
<1>6. \A k \in DOMAIN origin : Untouched(k)' => ~Expanded(k)'
  BY <1>4 DEF Untouched, Expanded
<1>7. Expanded(k0)'
  <2>1. place'[k0 + 1] = place'[k0] + 3
    <3>1. k0 + 1 \in DOMAIN place /\ k0 \in DOMAIN place /\ k0 \in Nat /\ place[k0] \in Nat
      BY <1>2, OriginTyped
    <3>2. place'[k0] = place[k0] /\ place'[k0 + 1] = place[k0 + 1] + 2
      BY <1>1, <3>1 DEF Splice
    <3>3. place[k0 + 1] = place[k0] + 1
      BY <1>3 DEF Untouched
    <3>4. QED
      BY <3>1, <3>2, <3>3
  <2>2. ~Untouched(k0)'
    BY <1>3, <1>4, <2>1 DEF Untouched
  <2>3. Untouched(k0)' \/ Expanded(k0)'
    BY <1>2, <1>3 DEF Structure, FlowKept
  <2>4. QED
    BY <2>2, <2>3
<1>8. after = before \cup {k0}
  <2>1. ASSUME NEW k \in DOMAIN origin, k # k0 PROVE Expanded(k) <=> Expanded(k)'
    BY <1>1, <1>2, <1>6, <2>1, SpliceKeepsOthers DEF FlowKept
  <2>2. QED
    BY <1>3, <1>7, <2>1
<1>9. k0 \notin before
  BY <1>3, <1>5
<1>10. IsFiniteSet(before)
  <2>1. IsFiniteSet(1..Len(origin)) /\ DOMAIN origin = 1..Len(origin)
    BY <1>2, OriginTyped, FS_Interval
  <2>2. QED
    BY <2>1, FS_Subset
<1>11. counter = FirstCounter + Cardinality(before)
  BY DEF LIInv, ExpandedOnce
<1>12. {k \in DOMAIN origin' : Expanded(k)'} = after
  BY <1>3
<1> HIDE DEF before, after
<1>13. Cardinality(before) \in Nat /\ Cardinality(after) = Cardinality(before) + 1
  BY <1>8, <1>9, <1>10, FS_AddElement, FS_CardinalityType
<1>14. counter' = FirstCounter + Cardinality(after)
  BY <1>3, <1>11, <1>13, FunctionsAssumption
<1>15. QED
  BY <1>12, <1>14 DEF ExpandedOnce

LEMMA ExpandIndexKeeps == LIInv /\ ExpandIndex => LIInv'
<1> SUFFICES ASSUME LIInv, ExpandIndex PROVE LIInv'
  OBVIOUS
<1>1. phase' # "done" /\ phase' # "ValueError"
  BY DEF ExpandIndex
<1>2. RefusedAsGiven' /\ ReachesWhenLinked'
  BY <1>1 DEF RefusedAsGiven, ReachesWhenLinked
<1>3. QED
  BY <1>2, ExpandIndexKeepsStructure, ExpandIndexKeepsLabels, ExpandIndexCounts DEF LIInv

-----------------------------------------------------------------------------
(* Everything below is read off this invariant of _expand_function.        *)
THEOREM LengthenInvariant == Spec => []LIInv
<1>1. LIInv /\ [Next]_vars => LIInv'
  <2> SUFFICES ASSUME LIInv, [Next]_vars PROVE LIInv'
    OBVIOUS
  <2>1. CASE UNCHANGED vars
    <3>1. /\ origin' = origin /\ instrs' = instrs /\ tooFar' = tooFar /\ counter' = counter
          /\ place' = place /\ phase' = phase
      BY <2>1 DEF vars
    <3>2. Structure'
      BY <3>1 DEF LIInv, Structure, TypeOK, Ordered, FlowKept, Untouched, Expanded
    <3>3. IndicesStayValid' /\ LabelsStayDistinct'
      BY <3>1 DEF LIInv, IndicesStayValid, LabelsStayDistinct, Untouched
    <3>4. ExpandedOnce'
      BY <3>1 DEF LIInv, ExpandedOnce, Expanded
    <3>5. RefusedAsGiven' /\ ReachesWhenLinked'
      BY <3>1 DEF LIInv, RefusedAsGiven, ReachesWhenLinked
    <3>6. QED
      BY <3>2, <3>3, <3>4, <3>5 DEF LIInv
  <2>2. CASE Next
    BY <2>2, MissingTargetKeeps, MeasureKeeps, ExpandIndexKeeps DEF Next
  <2>3. QED
    BY <2>1, <2>2
<1>2. QED
  BY InitKeeps, <1>1, PTL DEF Spec

(* The lists of instructions, the places and the counter are what they are *)
(* declared to be, and every index in tooFar is one of the list.           *)
THEOREM LengthenTyped == Spec => []TypeOK
<1>1. LIInv => TypeOK
  BY DEF LIInv, Structure
<1>2. QED
  BY LengthenInvariant, <1>1, PTL

(* expand_program leaves no branch that does not reach, also when the      *)
(* linker makes the code shorter: instruction_size overestimates, and no   *)
(* displacement grows when an operand's address takes a byte less.         *)
THEOREM ReachAlwaysKept == Spec => []ReachesWhenLinked
<1>1. LIInv => ReachesWhenLinked
  BY DEF LIInv
<1>2. QED
  BY LengthenInvariant, <1>1, PTL

(* _expand_indices splices in place: whatever has been done, the code is   *)
(* the function given, in order, with some branches replaced by triples;   *)
(* the indices of a round point at their branches still; no label is bound *)
(* twice; and the ValueError of _find_too_far_branches is about a branch   *)
(* that was emitted without its target, never one the lengthening made.    *)
THEOREM CodeAlwaysKept == Spec => []CodeKept
<1>1. LIInv => CodeKept
  BY DEF LIInv, Structure, CodeKept
<1>2. QED
  BY LengthenInvariant, <1>1, PTL

(* The inverted branch of a triple always reaches, so a branch is expanded *)
(* at most once, and the rounds are bounded by the branches given.         *)
THEOREM ExpandedAtMostOnce == Spec => []ExpandedOnce
<1>1. LIInv => ExpandedOnce
  BY DEF LIInv
<1>2. QED
  BY LengthenInvariant, <1>1, PTL
=============================================================================
