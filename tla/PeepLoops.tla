----------------------------- MODULE PeepLoops -----------------------------
(***************************************************************************)
(* The passes that move work out of loops or into registers: constants     *)
(* hoisted to the preheader, a pointer step carried in A, a counter kept   *)
(* in X, an X saved in memory and read back, a second index in Y.          *)
(***************************************************************************)
EXTENDS PeepValues

IsGoto(i) == IsBranch(i) \/ i.op = "jmp"
WritesOperand(i, d) == (IsMov(i) \/ IsIncDec(i) \/ IsShift(i) \/ i.op = "lea") /\ i.dst = d

(* apply_licm: the shortest loop first, one hoist at a time.  A loop is    *)
(* the stretch from a label back to which something jumps.                 *)
Hoistable(p) ==
  LET loops == {<<h, k>> \in (DOMAIN p) \X (DOMAIN p) :
                  h < k /\ IsLabel(p[h]) /\ IsGoto(p[k]) /\ p[k].to = p[h].to}
      writes(l, d) == Cardinality({k \in l[1]..l[2] : WritesOperand(p[k], d)})
      singleEntry(l) == \A k \in DOMAIN p \ (l[1]..l[2]), j \in l[1]..l[2] :
                          IsGoto(p[k]) /\ p[j] = Label(p[k].to) => p[k].to = p[l[1]].to
      constant(l, k) == /\ PlainMov(p[k]) /\ IsImm(p[k].src) /\ IsDataOrZp(p[k].dst)
                        /\ writes(l, p[k].dst) = 1
      copied(l, k) == /\ k < l[2] /\ LoadsA(p[k]) /\ StoresAStable(p[k + 1])
                      /\ writes(l, p[k + 1].dst) = 1
                      /\ \/ IsImm(p[k].src)
                         \/ IsDataOrZp(p[k].src) /\ writes(l, p[k].src) = 0
      movable(l) == {k \in l[1]..l[2] : constant(l, k) \/ copied(l, k)}
      ready == {l \in loops : singleEntry(l) /\ movable(l) # {} /\ \A k \in l[1]..l[2] : p[k].op # "call"}
  IN {<<l[1], l[2], Least(movable(l))>> : l \in ready}
(* h: <<the header, the back edge, what moves>>. *)
Hoist(p, h) ==
  LET next == IF IsImm(p[h[3]].src) /\ IsDataOrZp(p[h[3]].dst) THEN h[3] + 1 ELSE h[3] + 2
  IN SubSeq(p, 1, h[1] - 1) \o SubSeq(p, h[3], next - 1)
     \o SubSeq(p, h[1], h[3] - 1) \o SubSeq(p, next, Len(p))
Innermost(loops) ==
  CHOOSE l \in loops : \A m \in loops :
    m[2] - m[1] > l[2] - l[1] \/ (m[2] - m[1] = l[2] - l[1] /\ m[2] >= l[2])
RECURSIVE Licm(_), HoistFrom(_, _)
HoistFrom(p, loops) == IF loops = {} THEN p ELSE Licm(Hoist(p, Innermost(loops)))
Licm(p) == HoistFrom(p, Hoistable(p))

----------------------------------------------------------------------------
(* LDY s; INC s at the top of a loop, s saved from A on entry and used for *)
(* nothing else, carries s in A round the back edge.                       *)
PromoteLoopCarriedToA(p, name) ==
  LET saved(i) == PlainMov(i) /\ IsReg(i.src) /\ i.dst.k = "data" /\ i.dst.o = 0
      parameter(i) == saved(i) /\ i.dst.n[1] = "zpabi" /\ i.dst.n[2] = name
      entry == FirstFrom(p, 1, LAMBDA i : ~IsLabel(i) /\ ~parameter(i))
      isSave == saved(p[entry]) /\ p[entry].dst.n[1] = "local" /\ p[entry].dst.n[2] = name /\ p[entry].src = RegA
      slot == p[entry].dst
      pairs == {k \in entry + 1..Len(p) - 1 : IsMov(p[k]) /\ p[k].src = slot /\ p[k].dst = RegY /\ p[k + 1] = Inc(slot)}
      pair == Least(pairs)
      above == {k \in entry + 1..pair - 1 : \A j \in k..pair - 1 : IsLabel(p[j])}
      top == Least(above)
      onlyUse == \A k \in DOMAIN p \ {entry, pair, pair + 1} :
                   \A op \in Operands(p[k]) : ~(op.k = "data" /\ op.n = slot.n)
      backs == {k \in pair + 2..Len(p) : IsGoto(p[k]) /\ p[k].to = p[top].to}
      back == Least(backs)
      setsNZ(i) == \/ IsAlu(i) \/ IsIncDec(i) \/ IsShift(i) \/ i.op \in {"cmp", "bit", "pop"}
                   \/ IsMov(i) /\ IsReg(i.dst)
      unread(k) == LET S == {j \in k + 1..back : IsBranch(p[j]) \/ setsNZ(p[j])}
                   IN S = {} \/ ~IsBranch(p[Least(S)])
      leavesA(k) == /\ ~MovTo(p[k], RegA) /\ ~IsAlu(p[k]) /\ p[k].op \notin {"pop", "call", "lea", "push"}
                    /\ ~(IsShift(p[k]) /\ p[k].dst = RegA)
                    /\ ~MovFrom(p[k], RegA)
                    /\ p[k].op = "cmp" => \/ RegA \notin {p[k].src, p[k].dst}
                                          \/ p[k].dst = RegA /\ unread(k)
      code(k) == CASE k = entry -> <<Mov(RegA, RegY)>>
                   [] k = top -> <<Mov(RegY, RegA), p[k]>>
                   [] k = pair -> <<MovV(RegA, RegY, p[pair].vol)>>
                   [] k = pair + 1 -> <<ClearCarry, Add(Imm(1))>>
                   [] OTHER -> <<p[k]>>
  IN IF /\ entry # 0 /\ isSave /\ pairs # {} /\ above # {} /\ onlyUse
        /\ \A k \in entry + 1..top - 1 : RegY \notin Operands(p[k])
        /\ backs # {} /\ \A k \in pair + 2..back - 1 : leavesA(k)
     THEN Concat(Listed([k \in DOMAIN p |-> code(k)])) ELSE p

----------------------------------------------------------------------------
(* A byte m set once, counted down once at the bottom of a loop and loaded *)
(* into X at its top lives in X; the other uses of X there move to Y, and  *)
(* calls are bracketed by a save and a reload.                             *)
IsLdx(i) == IsMov(i) /\ i.dst = RegX /\ ~IsReg(i.src)
SelfCopy(i) == IsMov(i) /\ i.src = i.dst /\ IsDataOrZp(i.src)
RolesOf(i) ==
  CASE SelfCopy(i) -> {}
    [] IsLdx(i) -> {<<"ldx", i.src>>}
    [] IsMov(i) /\ i.dst = RegA /\ ~IsReg(i.src) -> {<<"lda", i.src>>}
    [] IsMov(i) /\ ~IsReg(i.dst) /\ i.src # i.dst -> {<<"init", i.dst>>}
    [] i.op = "dec" -> {<<"dec", i.dst>>}
    [] i.op = "inc" -> {<<"other", i.dst>>}
    [] i.op \in {"add", "sub", "and", "or"} -> {<<"other", i.src>>}
    [] i.op = "cmp" -> {<<"other", i.src>>, <<"other", i.dst>>}
    [] MovTo(i, RegY) -> {<<"other", i.src>>}
    [] OTHER -> {}
RECURSIVE LoopTop(_, _, _)
LoopTop(p, l, seen) ==   \* the load of X that a branch to l reaches first, or 0
  IF l \notin LabelsIn(p) \/ l \in seen THEN 0
  ELSE LET k == FirstFrom(p, LabelIndex(p, l) + 1, LAMBDA i : ~IsLabel(i) /\ ~SelfCopy(i))
       IN IF k = 0 THEN 0 ELSE IF p[k].op = "jmp" THEN LoopTop(p, p[k].to, seen \cup {l})
          ELSE IF IsLdx(p[k]) THEN k ELSE 0
ReadsX(i) == Reads(i, "X") /\ i.op \notin {"call", "jmp"}
RECURSIVE XReadFrom(_, _, _)
XReadFrom(p, todo, seen) ==
  IF todo = {} THEN FALSE
  ELSE LET k == CHOOSE k \in todo : TRUE
           i == p[k]
           target == IF IsGoto(i) THEN {j \in DOMAIN p : p[j] = Label(i.to)} ELSE {}
           next == CASE IsReturn(i) \/ i.op = "call" \/ MovTo(i, RegX) -> {}
                     [] i.op = "jmp" -> target
                     [] OTHER -> target \cup ({k + 1} \cap DOMAIN p)
       IN \/ ReadsX(i) \/ (IsReturn(i) /\ "X" \in i.regs)
          \/ XReadFrom(p, (todo \cup next) \ (seen \cup {k}), seen \cup {k})
CounterOf(p) ==          \* the byte and the load at the loop's top: {} or a singleton
  LET at(role, m) == {k \in DOMAIN p : <<role, m>> \in RolesOf(p[k])}
      bottom(m) == LET d == CHOOSE d \in at("dec", m) : TRUE
                   IN FirstFrom(p, d + 1, LAMBDA i : ~IsLabel(i) \/ i.to \in Targets(p))
      top(m) == LET b == bottom(m) IN
                IF b # 0 /\ p[b].op \in {"EQ", "NE", "MI", "PL"} THEN LoopTop(p, p[b].to, {}) ELSE 0
      counters == {m \in {p[k].dst : k \in {j \in DOMAIN p : IsMov(p[j]) /\ IsDataOrZp(p[j].dst)}} :
                     /\ Cardinality(at("init", m)) = 1 /\ Cardinality(at("dec", m)) = 1
                     /\ at("ldx", m) # {} /\ at("other", m) = {}
                     /\ top(m) \in at("ldx", m)}
      start(m) == CHOOSE k \in at("init", m) : TRUE
  IN {[m |-> m, top |-> top(m), start |-> start(m)]
       : m \in {c \in counters : \A d \in counters : start(c) <= start(d)}}
CounterInX(p, counter) ==
  LET m == counter.m
      start == counter.start
      others == {k \in DOMAIN p : MovTo(p[k], RegX) /\ p[k].src # m}
      stops(i) == IsLabel(i) \/ IsTerminator(i) \/ i.op = "call" \/ MovTo(i, RegX) \/ (IsIncDec(i) /\ i.dst = RegX)
      pivot(k) == {j \in k..Len(p) : \A n \in k + 1..j : ~stops(p[n])}
      yFree(i) == /\ IsMov(i) => /\ i.dst # RegY /\ i.src \notin {RegX, RegY}
                                 /\ \A op \in {i.src, i.dst} : op.k # "idxY" /\ op.k \notin ThroughPointer
                  /\ IsIncDec(i) => i.dst # RegY
                  /\ i.op = "cmp" => i.dst \notin {RegX, RegY}
      pivoted == UNION {pivot(k) : k \in others}
      toY(op) == IF op.k = "idxX" THEN IndexedY(op.n, op.o) ELSE op
      turned(i) ==
        CASE IsMov(i) -> LET d == IF i.dst = RegX THEN RegY ELSE toY(i.dst)
                         IN IF toY(i.src) = i.src /\ d = i.dst THEN i ELSE Mov(toY(i.src), d)
          [] i.op \in {"add", "sub", "and", "or"} -> [i EXCEPT !.src = toY(@)]
          [] OTHER -> i
      code(k) == CASE MovTo(p[k], RegX) /\ p[k].src = m -> <<>>
                   [] p[k].op = "call" -> <<Mov(RegX, m), p[k], Mov(m, RegX)>>
                   [] k \in pivoted -> <<turned(p[k])>>
                   [] k \notin pivoted /\ <<"lda", m>> \in RolesOf(p[k]) -> <<Mov(RegX, RegA)>>
                   [] k \notin pivoted /\ p[k] = Dec(m) -> <<Dec(RegX)>>
                   [] k \notin pivoted /\ k = start -> <<p[k], Mov(RegA, RegX)>>
                   [] OTHER -> <<p[k]>>
  IN IF /\ \A k \in others : ~IsReg(p[k].src) /\ \A j \in pivot(k) \ {k} : yFree(p[j])
        /\ \A k \in DOMAIN p : ~(IsIncDec(p[k]) /\ p[k].dst = RegX)
        /\ \A k \in DOMAIN p : p[k].op = "call" => ~XReadFrom(p, {k + 1} \cap DOMAIN p, {})
     THEN Concat(Listed([k \in DOMAIN p |-> code(k)])) ELSE p
LoopCounterToX(p) ==
  LET CounterLoop(found) == IF found = {} THEN p ELSE CounterInX(p, CHOOSE c \in found : TRUE)
  IN CounterLoop(CounterOf(p))

----------------------------------------------------------------------------
(* The only byte X is saved to, written otherwise only with what X is set  *)
(* to next, is read from X.                                                *)
XSaveSlotLoad(p) ==
  LET saves == {p[k].dst : k \in {j \in DOMAIN p : MovFrom(p[j], RegX) /\ IsDataOrZp(p[j].dst)}}
      slot == CHOOSE d \in saves : TRUE
      tax(k) == LET j == FirstFrom(p, k + 1, LAMBDA i : ~IsLabel(i) /\ (~IsMov(i) \/ i.dst \in {RegA, RegX}))
                IN j # 0 /\ MovTo(p[j], RegX) /\ p[j].src = RegA
      spoils(k) == /\ WritesOperand(p[k], slot) /\ p[k].op # "lea"
                   /\ ~(IsMov(p[k]) /\ (p[k].src = RegX \/ (p[k].src # RegY /\ tax(k))))
  IN IF Cardinality(saves) = 1 /\ \A k \in DOMAIN p : ~spoils(k)
     THEN Map(LAMBDA i : IF MovFrom(i, slot) /\ (i.dst = RegA \/ IsDataOrZp(i.dst))
                         THEN [i EXCEPT !.src = RegX] ELSE i, p)
     ELSE p

----------------------------------------------------------------------------
(* The byte most often loaded into X, when X has another use and Y has     *)
(* none, is loaded into Y on entry.  A tie is broken by name in the code.  *)
DualIndexPromotion(p) ==
  LET usesY(i) == \E op \in Operands(i) : op.k \in {"Y", "idxY", "ind", "indY", "indZpY", "frame"}
      ldx(k, n) == MovTo(p[k], RegX) /\ p[k].src = Data(n, 0)
      count(n) == Cardinality({k \in DOMAIN p : ldx(k, n)})
      names == {n \in {p[k].src.n : k \in {j \in DOMAIN p : IsLdx(p[j])}} : count(n) >= 2}
      name == CHOOSE n \in names : \A o \in names : count(n) >= count(o)
      ends(i) == \/ MovTo(i, RegX) \/ (IsIncDec(i) /\ i.dst = RegX)
                 \/ IsLabel(i) \/ IsTerminator(i) \/ i.op \in {"call", "prologue", "lea"}
      active(k) == LET S == {j \in 1..k - 1 : ends(p[j])} IN S # {} /\ ldx(Greatest(S), name)
      rmw(i) == (IsIncDec(i) \/ IsShift(i)) /\ i.dst.k = "idxX"
      toY(op) == IF op.k = "idxX" THEN IndexedY(op.n, op.o) ELSE op
      turned(i) == IF IsMov(i) \/ IsAlu(i) \/ i.op = "cmp" THEN [i EXCEPT !.src = toY(@), !.dst = toY(@)] ELSE i
      first == LET k == FirstFrom(p, 1, LAMBDA i : ~IsLabel(i) /\ i.op # "prologue") IN IF k = 0 THEN Len(p) + 1 ELSE k
      code(k) == (IF k = first THEN <<Mov(Data(name, 0), RegY)>> ELSE <<>>)
                 \o (IF ldx(k, name) THEN <<>> ELSE IF active(k) /\ ~ends(p[k]) THEN <<turned(p[k])>> ELSE <<p[k]>>)
  IN IF /\ \A k \in DOMAIN p : ~usesY(p[k])
        /\ names # {}
        /\ \E k \in DOMAIN p : MovTo(p[k], RegX) /\ ~ldx(k, name)
        /\ \A k \in DOMAIN p : active(k) => ~rmw(p[k])
     THEN Concat(Listed([k \in DOMAIN p |-> code(k)])) ELSE p
=============================================================================
