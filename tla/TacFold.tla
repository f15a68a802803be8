------------------------------ MODULE TacFold ------------------------------
(***************************************************************************)
(* The rewrites of the TAC SSA form.  First what makes it simpler: code    *)
(* nobody reaches (unreachable_code_elimination.py), copies                *)
(* (copy_propagation.py, copy_folding.py), definitions nobody reads        *)
(* (dead_store_elimination.py) and constants (static_const_fold.py,        *)
(* constant_folding.py).  Then what looks at where an operand comes from:  *)
(* cheaper arithmetic (strength_reduction.py), a jump on what was computed *)
(* for it (cmp_zero_, and_zero_, lnot_jump_fold.py), conversions undone    *)
(* (truncate_extend_fold.py, narrow_widened_arith.py), additions that meet *)
(* (reassoc_const.py) and addresses that are an index away from a base     *)
(* (extend_add_chain.py, recognize_*.py).  ssa is the set of the variables *)
(* with one definition.                                                    *)
(***************************************************************************)
EXTENDS TacSsa

(* A phi keeps the arguments that come from a predecessor that is left; a  *)
(* single one makes it a copy.                                             *)
PrunePhis(code, labels) ==
  LET pruned == Map(LAMBDA i : IF i.op = "phi"
                                 THEN TPhi(i.dst, SelectSeq(i.args, LAMBDA a : a.lbl \in labels)) ELSE i, code)
      folded == Map(LAMBDA i : IF i.op = "phi" /\ Len(i.args) = 1
                                 THEN TCopy(i.args[1].src, i.dst) ELSE i, pruned)
  IN SelectSeq(folded, LAMBDA i : i.op = "phi" => i.args # <<>>)
RemoveUselessLabels(bl) ==
  LET code    == Concat(bl)
      targets == {i.to : i \in {j \in RangeOf(code) : IsJump(j)}}
                 \cup UNION {{i.args[a].lbl : a \in DOMAIN i.args} : i \in {j \in RangeOf(code) : j.op = "phi"}}
  IN Concat(Map(LAMBDA b : IF b # <<>> /\ IsLabelTac(b[1]) /\ b[1].to \notin targets THEN Tail(b) ELSE b, bl))
UnreachableIn(bl, succ, reached) ==
  LET order     == SelectSeq([b \in DOMAIN bl |-> b], LAMBDA b : b \in reached)
      labels(b) == {bl[a][1].to : a \in {q \in RangeOf(order) : b \in RangeOf(succ[q]) /\ IsLabelTac(bl[q][1])}}
      code(b)   == PrunePhis(bl[b], labels(b))
      jumpsOn(k) == /\ k < Len(order) /\ RangeOf(succ[order[k]]) = {order[k + 1]}
                    /\ code(order[k]) # <<>> /\ IsJump(Last(code(order[k])))
  IN RemoveUselessLabels([k \in DOMAIN order |->
        IF jumpsOn(k) THEN SubSeq(code(order[k]), 1, Len(code(order[k])) - 1) ELSE code(order[k])])
UnreachableOver(bl, succ) == UnreachableIn(bl, succ, RangeOf(ReversePostorder(succ)))
UnreachableOf(bl) == UnreachableOver(bl, TacSuccessorMap(bl))
EliminateUnreachableCode(p) == UnreachableOf(TacBlocks(p))

----------------------------------------------------------------------------
TacCopySources(p, ssa) ==
  LET copies == {k \in DOMAIN p : p[k].op = "copy" /\ p[k].dst \in ssa /\ (IsConst(p[k].a) \/ p[k].a \in ssa)}
  IN Table([d \in {p[k].dst : k \in copies} |-> p[Greatest({k \in copies : p[k].dst = d})].a])
(* The accesses at a number and through a pointer keep their operands. *)
SubstituteAll(p, sub) ==
  Map(LAMBDA i : IF i.op \in {"absload", "indload", "indstore"} THEN i ELSE RewriteUsesIn(i, sub), p)
TacCopyPropagate(p, ssa) == SubstituteAll(p, ResolveAll(TacCopySources(p, ssa)))

PureDefs == {"copy", "unary", "binary", "convert", "load", "addr", "idxload", "phi"}
RECURSIVE EliminateDeadStores(_, _), DeadStoresAgain(_, _, _)
DeadStoresAgain(p, q, ssa) == IF q = p THEN p ELSE EliminateDeadStores(q, ssa)
EliminateDeadStores(p, ssa) ==
  LET used    == RangeOf(AllUses(p))
      dead(i) == i.dst \in ssa \ used
  IN DeadStoresAgain(p, Map(LAMBDA i : IF i.op = "call" /\ dead(i) THEN [i EXCEPT !.dst = NoVal] ELSE i,
                            SelectSeq(p, LAMBDA i : ~(i.op \in PureDefs /\ ~i.vol /\ dead(i)))), ssa)

(* An operation whose only use is the copy after it writes the copy's      *)
(* destination.                                                            *)
FoldCopies(p) ==
  LET folds(k) == /\ k < Len(p) /\ p[k + 1].op = "copy" /\ IsVar(p[k + 1].a)
                  /\ p[k].op \in (PureDefs \ {"phi"}) \cup {"call"} /\ p[k].dst = p[k + 1].a
                  /\ CountUses(p, p[k].dst) = 1
  IN Rewrite(p, LAMBDA k : IF folds(k) THEN [take |-> 2, new |-> <<[p[k] EXCEPT !.dst = p[k + 1].dst]>>]
                                       ELSE Keep(p[k]))

(* consts: the value of each static scalar that is const. *)
FoldStaticConstReads(p, consts) == Map(LAMBDA i : RewriteUsesIn(i, consts), p)

----------------------------------------------------------------------------
(* Constants.  A constant has the variant of its type: char is unsigned. A *)
(* destination that is a pointer, or volatile, has none.                   *)
Variant(t)      == CASE t = "char" -> "uchar" [] t = "ptr" -> "none" [] OTHER -> t
VariantOf(v)    == IF IsVar(v) /\ v.n \in Volatile THEN "none" ELSE Variant(v.t)
UnsignedOf(t)   == CASE t \in {"schar", "uchar"} -> "uchar" [] t \in {"int", "uint"} -> "uint"
                     [] OTHER -> "ulong"
Wrapped(t, v)   == IF t \in SignedTypes THEN Signed(Wrap(v, SizeOf(t)), SizeOf(t)) ELSE Wrap(v, SizeOf(t))
WrapInt(t, v)   == Const(t, Wrapped(t, v))
ConstVariant(c) == Variant(c.t)
OperandValue(c) == Wrapped(ConstVariant(c), c.v)

FoldedValue(o, a, b, w) ==
  CASE o = "add" -> a + b
    [] o = "sub" -> a - b
    [] o = "mul" -> a * b
    [] o = "div" -> QuotientS(a, b)
    [] o = "mod" -> a - QuotientS(a, b) * b
    [] o = "shl" -> a * 2^b
    [] o = "shr" -> a \div 2^b
    [] OTHER     -> Bytewise(o, Wrap(a, w), Wrap(b, w), w)
(* The variant in which both sides are taken, or "none". *)
BinaryVariant(o, x, y) ==
  LET vx == ConstVariant(x)  vy == ConstVariant(y) IN
  IF o \in {"shl", "shr"} THEN IF OperandValue(y) \in 0..(ByteBits * SizeOf(vx) - 1) THEN vx ELSE "none"
  ELSE IF o \in {"div", "mod"} /\ OperandValue(y) = 0 THEN "none"
  ELSE IF vx = vy THEN vx
  ELSE IF o \notin Comparisons \cup {"div", "mod"} /\ SizeOf(vx) = SizeOf(vy) THEN UnsignedOf(vx) ELSE "none"
FoldBinary(o, x, y) ==
  LET t == BinaryVariant(o, x, y)
      a == Wrapped(t, x.v)
      b == IF o \in {"shl", "shr"} THEN OperandValue(y) ELSE Wrapped(t, y.v)
  IN IF t = "none" THEN NoVal
     ELSE IF o \in Comparisons THEN Const("int", IF Holds(o, a, b) THEN 1 ELSE 0)
     ELSE WrapInt(t, FoldedValue(o, a, b, SizeOf(t)))
FoldUnary(o, x) ==
  CASE o = "lnot" -> Const("int", IF x.v = 0 THEN 1 ELSE 0)
    [] o = "neg"  -> WrapInt(ConstVariant(x), -OperandValue(x))
    [] o = "com"  -> WrapInt(ConstVariant(x), -OperandValue(x) - 1)
(* A widening must widen, a truncation must narrow. *)
FoldConversion(o, x, d) ==
  LET from == SizeOf(x.t)  t == VariantOf(d) IN
  IF t = "none" THEN NoVal
  ELSE CASE o = "sext"  -> IF SizeOf(t) > from THEN WrapInt(t, Signed(Wrap(x.v, from), from)) ELSE NoVal
         [] o = "zext"  -> IF SizeOf(t) > from THEN WrapInt(t, Wrap(x.v, from)) ELSE NoVal
         [] o = "trunc" -> IF SizeOf(t) < from THEN WrapInt(t, x.v) ELSE NoVal
FoldCopy(x, d) ==
  LET t == VariantOf(d) IN
  IF t \notin {"none", ConstVariant(x)} /\ SizeOf(t) = SizeOf(x.t) THEN WrapInt(t, x.v) ELSE NoVal
(* An element of a static array that is const; tables has the size and the *)
(* initial values of its elements.                                         *)
FoldIndexedLoad(table, x, d) ==
  LET e == x.v \div table.size IN
  IF x.v % table.size = 0 /\ e + 1 \in DOMAIN table.values /\ Width(d) = table.size
    THEN Const(IF d.t = "ptr" THEN "uint" ELSE Variant(d.t), table.values[e + 1]) ELSE NoVal
FoldPhi(args) == IF \A a \in DOMAIN args : args[a].src = args[1].src THEN args[1].src ELSE NoVal

FoldedSource(i, tables) ==
  CASE i.op = "unary" /\ IsConst(i.a)   -> FoldUnary(i.o, i.a)
    [] i.op = "binary" /\ IsConst(i.a) /\ IsConst(i.b) -> FoldBinary(i.o, i.a, i.b)
    [] i.op = "convert" /\ IsConst(i.a) -> FoldConversion(i.o, i.a, i.dst)
    [] i.op = "copy" /\ IsConst(i.a)    -> FoldCopy(i.a, i.dst)
    [] i.op = "idxload" /\ IsConst(i.a) /\ ~i.vol /\ i.to \in DOMAIN tables -> FoldIndexedLoad(tables[i.to], i.a, i.dst)
    [] i.op = "phi" /\ i.args # <<>>    -> FoldPhi(i.args)
    [] OTHER -> NoVal
JumpsAlways(i) == (i.op = "jtrue") = (i.a.v # 0)
FoldInto(i, source) ==
  CASE source # NoVal -> <<TCopy(source, i.dst)>>
    [] source = NoVal /\ i.op \in {"jtrue", "jfalse"} /\ IsConst(i.a) ->
         IF JumpsAlways(i) THEN <<TJump(i.to)>> ELSE <<>>
    [] OTHER -> <<i>>
ConstantFold(p, tables) == Concat(Map(LAMBDA i : FoldInto(i, FoldedSource(i, tables)), p))

-----------------------------------------------------------------------------
IsExtend(i)  == i.op = "convert" /\ i.o \in {"sext", "zext"}
BoundIn(p, v, Defs(_)) == LET S == {k \in DOMAIN p : v \in Defs(p[k])} IN IF S = {} THEN NoInstr ELSE p[Greatest(S)]
DefAt(p, v)  == IF IsVar(v) THEN BoundIn(p, v, TacDefsIn) ELSE NoInstr
IsUsedOnce(p, v) == IsVar(v) /\ CountUses(p, v) = 1

(* Multiplications, divisions and remainders by a power of two.            *)
IsPowerOfTwo(v) == IsConst(v) /\ v.v > 0 /\ \E k \in 0..30 : 2^k = v.v
Exponent(v)     == CHOOSE k \in 0..30 : 2^k = v.v
UnsignedSource(v) == v.t \in UnsignedTypes /\ (IsVar(v) => v.n \notin Volatile)
(* The zero of a char is an unsigned int, that of a signed char an int.    *)
ZeroFor(v) == CASE IsConst(v) -> Const(v.t, 0)
                [] IsVar(v) /\ v.t = "ptr" -> NoVal
                [] IsVar(v) /\ v.t \in {"char", "uchar"} -> Const("uint", 0)
                [] IsVar(v) /\ v.t = "schar" -> Const("int", 0)
                [] OTHER -> Const(v.t, 0)
ShiftBy(o, v, k, d) == IF k = 0 THEN TCopy(v, d) ELSE TBinary(o, v, Const("int", k), d)
Reduced(i) ==
  CASE i.op = "binary" /\ i.o = "mul" /\ ~(IsConst(i.a) /\ IsConst(i.b)) ->
         (CASE IsPowerOfTwo(i.b) -> ShiftBy("shl", i.a, Exponent(i.b), i.dst)
            [] ~IsPowerOfTwo(i.b) /\ IsPowerOfTwo(i.a) -> ShiftBy("shl", i.b, Exponent(i.a), i.dst)
            [] OTHER -> i)
    [] i.op = "binary" /\ i.o = "div" /\ IsPowerOfTwo(i.b)
       /\ (IF i.b.v = 1 THEN IsVar(i.a) ELSE UnsignedSource(i.a)) -> ShiftBy("shr", i.a, Exponent(i.b), i.dst)
    [] i.op = "binary" /\ i.o = "mod" /\ IsPowerOfTwo(i.b) /\ i.b.v = 1 /\ ZeroFor(i.a) # NoVal ->
         TCopy(ZeroFor(i.a), i.dst)
    [] i.op = "binary" /\ i.o = "mod" /\ IsPowerOfTwo(i.b) /\ i.b.v > 1 /\ UnsignedSource(i.a) ->
         TBinary("and", i.a, Const(i.b.t, i.b.v - 1), i.dst)
    [] OTHER -> i
ReduceStrength(p) == Map(Reduced, p)

----------------------------------------------------------------------------
(* A conditional jump on what the instruction before it computes for it.   *)
IsZero(v) == IsConst(v) /\ v.v = 0
IsByteConst(v) == IsConst(v) /\ v.v \in 0..MaxByte
Negated(o) == CASE o = "eq" -> "ne" [] o = "ne" -> "eq" [] o = "lt" -> "ge"
                 [] o = "ge" -> "lt" [] o = "gt" -> "le" [] o = "le" -> "gt"
JumpIf(true, v, l) == IF true THEN TJumpIfTrue(v, l) ELSE TJumpIfFalse(v, l)

(* What v, used once, is the extension of, when that has a type of types.  *)
ExtendedFrom(p, v, o, types) ==
  LET d == DefAt(p, v) IN
  IF IsUsedOnce(p, v) /\ d.op = "convert" /\ d.o = o /\ IsVar(d.a) /\ d.a.n \notin Volatile /\ d.a.t \in types
    THEN d.a ELSE NoVal
RECURSIVE TraceThroughZeroExtend(_, _)
TraceThroughZeroExtend(p, v) ==
  LET d == DefAt(p, v) IN
  IF IsUsedOnce(p, v) /\ d.op = "convert" /\ d.o = "zext" THEN TraceThroughZeroExtend(p, d.a) ELSE v

(* The sides of the comparison, as bytes when both are. *)
NarrowTo(p, v) == ExtendedFrom(p, v, "zext", {"char", "uchar"})
NarrowConst(v) == IF IsByteConst(v) THEN Const("uchar", v.v) ELSE NoVal
UnsignedSides(na, nb, a, b) ==
  CASE na # NoVal /\ nb # NoVal -> <<na, nb>>
    [] na # NoVal /\ nb = NoVal -> <<na, NarrowConst(b)>>
    [] na = NoVal /\ nb # NoVal -> <<NarrowConst(a), nb>>
    [] OTHER -> <<NoVal, NoVal>>
SignedSides(o, sa, sb, a, b) ==
  CASE o \in {"ge", "lt"} /\ sa # NoVal /\ IsZero(b) -> <<sa, Const("schar", 0)>>
    [] o \in {"ge", "lt"} /\ ~(sa # NoVal /\ IsZero(b)) /\ sb # NoVal /\ IsZero(a) -> <<Const("schar", 0), sb>>
    [] OTHER -> <<a, b>>
Sides(p, i) ==
  LET narrow == UnsignedSides(NarrowTo(p, i.a), NarrowTo(p, i.b), i.a, i.b) IN
  IF NoVal \notin RangeOf(narrow) THEN narrow
  ELSE SignedSides(i.o, ExtendedFrom(p, i.a, "sext", {"schar"}), ExtendedFrom(p, i.b, "sext", {"schar"}), i.a, i.b)
CompareJump(i, jump, sides) ==
  TJumpIfCmp(IF jump.op = "jtrue" THEN i.o ELSE Negated(i.o), sides[1], sides[2], jump.to)
FoldCompare(p, i, jump) ==
  IF i.o \in {"eq", "ne"} /\ IsZero(i.a) # IsZero(i.b)
    THEN JumpIf((jump.op = "jtrue") = (i.o = "ne"),
                TraceThroughZeroExtend(p, IF IsZero(i.a) THEN i.b ELSE i.a), jump.to)
    ELSE CompareJump(i, jump, Sides(p, i))
(* A test of some bits of a byte. *)
FoldAnd(p, i, jump) ==
  LET test(v, mask) == IF IsByteConst(mask) THEN NarrowTo(p, v) ELSE NoVal
      first == test(i.a, i.b)  second == test(i.b, i.a)
      masked(v, mask) == <<TJumpIfMasked(v, mask, jump.op = "jtrue", jump.to)>>
  IN CASE first # NoVal -> masked(first, i.b.v)
       [] first = NoVal /\ second # NoVal -> masked(second, i.a.v)
       [] OTHER -> <<i, jump>>
FoldProducerJumps(p) ==
  LET feeds(k) == /\ k < Len(p) /\ p[k + 1].op \in {"jtrue", "jfalse"}
                  /\ p[k + 1].a = p[k].dst /\ IsUsedOnce(p, p[k].dst)
      both(k) == CASE p[k].op = "binary" /\ p[k].o \in Comparisons -> <<FoldCompare(p, p[k], p[k + 1])>>
                   [] p[k].op = "binary" /\ p[k].o = "and" -> FoldAnd(p, p[k], p[k + 1])
                   [] p[k].op = "unary" /\ p[k].o = "lnot" ->
                        <<JumpIf(p[k + 1].op = "jfalse", p[k].a, p[k + 1].to)>>
                   [] OTHER -> <<p[k], p[k + 1]>>
  IN Rewrite(p, LAMBDA k : IF feeds(k) THEN [take |-> 2, new |-> both(k)] ELSE Keep(p[k]))

----------------------------------------------------------------------------
(* Passes over definitions and uses (framework/defuse.py): Edit gives what *)
(* an instruction becomes and the variables whose definitions go; the      *)
(* definitions are those of the list as it is being rewritten, the numbers *)
(* of uses those of the list it was.                                       *)
Becomes(i, drop) == [to |-> i, drop |-> drop]
Unchanged        == Becomes(NoInstr, {})
DefOf(view, v)   == IF IsVar(v) THEN BoundIn(view, v, LAMBDA i : {i.dst}) ELSE NoInstr
DefPosition(p, v) == LET S == {k \in DOMAIN p : p[k].dst = v} IN IF S = {} THEN 0 ELSE Greatest(S)
DefUse(p, Edit(_, _)) ==
  LET replace(acc, k, e, gone) ==
        IF e = Unchanged \/ gone \cap acc.gone # {} THEN acc
        ELSE [view |-> [acc.view EXCEPT ![k] = e.to], gone |-> acc.gone \cup gone]
      edited(acc, k, e) == replace(acc, k, e, {DefPosition(p, v) : v \in e.drop} \ {0})
      done == Fold(LAMBDA acc, k : edited(acc, k, Edit(acc.view, p[k])), [view |-> p, gone |-> {}],
                   [k \in DOMAIN p |-> k])
  IN Without(done.view, done.gone)

(* A truncation of an extension. *)
IsTruncate(i) == i.op = "convert" /\ i.o = "trunc" /\ IsVar(i.a)
TruncateOf(i, cast) ==
  CASE ~IsExtend(cast) \/ ~IsVar(cast.a) -> Unchanged
    [] IsExtend(cast) /\ IsVar(cast.a) /\ Width(i.dst) > Width(cast.a) -> Unchanged
    [] IsExtend(cast) /\ IsVar(cast.a) /\ Width(i.dst) = Width(cast.a) -> Becomes(TCopy(cast.a, i.dst), {})
    [] OTHER -> Becomes(TConvert("trunc", cast.a, i.dst), {})
FoldTruncateExtend(p, ssa) ==
  DefUse(p, LAMBDA view, i : IF IsTruncate(i) /\ i.a \in ssa THEN TruncateOf(i, DefOf(view, i.a)) ELSE Unchanged)

(* A truncation of arithmetic on extensions. *)
NarrowOps == {"add", "sub", "mul", "and", "or", "xor"}
NarrowVariant(d) == CASE Width(d) = 1 -> IF d.t \in UnsignedTypes THEN "uchar" ELSE "schar"
                      [] Width(d) = 2 -> IF d.t \in UnsignedTypes THEN "uint" ELSE "int"
                      [] OTHER -> IF d.t \in UnsignedTypes THEN "ulong" ELSE "long"
NarrowOperand(view, v, d, ssa) ==
  LET cast == DefOf(view, v) IN
  CASE IsConst(v) -> WrapInt(NarrowVariant(d), v.v)
    [] v \in ssa /\ IsExtend(cast) /\ IsVar(cast.a) /\ Width(cast.a) = Width(d) -> cast.a
    [] OTHER -> NoVal
(* Mutant: the extensions go although others use them. *)
NarrowedAll(p, view, i, o, a, b, ssa) ==
  LET dead == {v \in {o.a, o.b} : v \in ssa /\ IsExtend(DefOf(view, v))}
  IN IF NoVal \in {a, b} THEN Unchanged ELSE Becomes(TBinary(o.o, a, b, i.dst), {o.dst} \cup dead)
Narrowed(p, view, i, o, a, b, ssa) ==
  LET dead == {v \in {o.a, o.b} : v \in ssa /\ IsExtend(DefOf(view, v)) /\ CountUses(p, v) = 1}
  IN IF NoVal \in {a, b} THEN Unchanged ELSE Becomes(TBinary(o.o, a, b, i.dst), {o.dst} \cup dead)
NarrowOf(p, view, i, o, ssa) ==
  IF o.op = "binary" /\ o.o \in NarrowOps /\ Width(i.dst) < Width(o.dst)
    THEN Narrowed(p, view, i, o, NarrowOperand(view, o.a, i.dst, ssa), NarrowOperand(view, o.b, i.dst, ssa), ssa)
    ELSE Unchanged
NarrowWidenedArith(p, ssa) ==
  DefUse(p, LAMBDA view, i : IF IsTruncate(i) /\ i.a \in ssa THEN NarrowOf(p, view, i, DefOf(view, i.a), ssa)
                             ELSE Unchanged)

(* (x + c) + d. *)
ConstSide(i) == IF IsConst(i.a) THEN i.a ELSE i.b
OtherSide(i) == IF IsConst(i.a) THEN i.b ELSE i.a
IsAdd(i)     == i.op = "binary" /\ i.o = "add"
AddsConst(i) == IsAdd(i) /\ (IsConst(i.a) \/ IsConst(i.b))
Reassociated(i, inner) ==
  LET c == ConstSide(i) IN
  IF AddsConst(inner) /\ Width(c) = Width(ConstSide(inner))
    THEN Becomes(TBinary("add", Const(c.t, Wrapped(ConstVariant(c), c.v + ConstSide(inner).v)),
                         OtherSide(inner), i.dst), {OtherSide(i)})
    ELSE Unchanged
ReassocConstants(p, ssa) ==
  DefUse(p, LAMBDA view, i :
    IF AddsConst(i) /\ OtherSide(i) \in ssa /\ i.dst # OtherSide(i) /\ CountUses(p, OtherSide(i)) = 1
      THEN Reassociated(i, DefOf(view, OtherSide(i))) ELSE Unchanged)

----------------------------------------------------------------------------
(* An address that is a base plus the extension of a byte, both used once: *)
(* the base, and the variables that make it up; NoChain when it is not.    *)
NoChain == [base |-> NoVal, index |-> NoVal, drop |-> {}]
IndexChain(p, add, ext, base, cast, ssa) ==
  IF ext \in ssa /\ CountUses(p, ext) = 1 /\ IsVar(cast.a) /\ Width(cast.a) = 1
    THEN [base |-> base, index |-> cast.a, drop |-> {add.dst, ext}] ELSE NoChain
ChainOf(p, view, add, ssa) ==
  CASE ~IsAdd(add) -> NoChain
    [] IsAdd(add) /\ IsExtend(DefOf(view, add.b)) -> IndexChain(p, add, add.b, add.a, DefOf(view, add.b), ssa)
    [] IsAdd(add) /\ ~IsExtend(DefOf(view, add.b)) /\ IsExtend(DefOf(view, add.a)) ->
         IndexChain(p, add, add.a, add.b, DefOf(view, add.a), ssa)
    [] OTHER -> NoChain
ExtendAddChain(p, view, v, ssa) ==
  IF v \in ssa /\ CountUses(p, v) = 1 THEN ChainOf(p, view, DefOf(view, v), ssa) ELSE NoChain

IsByteLoad(i)  == i.op = "load" /\ IsVar(i.a) /\ Width(i.dst) = 1
IsByteStore(i) == i.op = "store" /\ IsVar(i.b) /\ Width(i.a) = 1
AtNumber(c)    == IsConst(c.base) /\ c.base.v \in 0..(ByteSize * MaxByte)
Like(i, new)   == [new EXCEPT !.vol = i.vol]
IndexedStoreAt(i, c) ==
  IF AtNumber(c) THEN Becomes(Like(i, TIndexedNumStore(c.base.v, c.index, i.a)), c.drop) ELSE Unchanged
IndexedLoadAt(i, c) ==
  IF AtNumber(c) THEN Becomes(Like(i, TIndexedConstLoad(c.base.v, c.index, i.dst)), c.drop) ELSE Unchanged
RecognizeIndexedStore(p, ssa) ==
  DefUse(p, LAMBDA view, i : IF IsByteStore(i) THEN IndexedStoreAt(i, ExtendAddChain(p, view, i.b, ssa)) ELSE Unchanged)
RecognizeIndexedLoad(p, ssa) ==
  DefUse(p, LAMBDA view, i : IF IsByteLoad(i) THEN IndexedLoadAt(i, ExtendAddChain(p, view, i.a, ssa)) ELSE Unchanged)

RECURSIVE ResolvesToConstant(_, _, _)
ResolvesToConstant(view, v, seen) ==
  LET d == DefOf(view, v) IN
  CASE v \in seen \/ d.op # "copy" -> FALSE
    [] v \notin seen /\ d.op = "copy" /\ IsConst(d.a) -> TRUE
    [] OTHER -> ResolvesToConstant(view, d.a, seen \cup {v})
ThroughPointerAt(i, view, c) ==
  CASE ~IsVar(c.base) \/ ResolvesToConstant(view, c.base, {}) -> Unchanged
    [] IsVar(c.base) /\ ~ResolvesToConstant(view, c.base, {}) /\ i.op = "load" ->
         Becomes(Like(i, TIndirectIndexedLoad(c.base, c.index, i.dst)), c.drop)
    [] OTHER -> Becomes(Like(i, TIndirectIndexedStore(c.base, c.index, i.a)), c.drop)
RecognizeIndirectIndexed(p, ssa) ==
  DefUse(p, LAMBDA view, i :
    IF IsByteLoad(i) THEN ThroughPointerAt(i, view, ExtendAddChain(p, view, i.a, ssa))
    ELSE IF IsByteStore(i) THEN ThroughPointerAt(i, view, ExtendAddChain(p, view, i.b, ssa)) ELSE Unchanged)
=============================================================================
