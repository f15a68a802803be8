----------------------------- MODULE Lengthening -----------------------------
(***************************************************************************)
(* _expand_function (long_branches.py) step by step: measure the branches  *)
(* of a function; if some do not reach, replace them, from the last to the *)
(* first so that the indices of the others stay valid, and measure again.  *)
(*                                                                         *)
(* origin is the list as it was given and place[k] is where its k-th       *)
(* instruction, or what has become of it, is now: they record what was     *)
(* done and do not influence it.                                           *)
(***************************************************************************)
EXTENDS LongBranches

CONSTANTS
  Names,         \* the names of objects and of the given labels
  Functions,     \* the lists of instructions considered
  FirstCounter   \* the counter, as the functions before have left it

(* Labels are bound once, and the compiler's other parts mint no .lb_skip@ *)
(* names. A branch to a label of another function is not ruled out.        *)
SkipLabels == {"lb_skip"} \X Nat
Classes == Regs \cup {"none", "imm", "immLo", "immHi", "pseudo", "data", "zp", "frame", "ind",
                      "indY", "indZp", "indZpY", "idxX", "idxY"}
Operand == [k : Classes, n : Names, o : Int]
Opcodes == Conditions \cup
  {"mov", "add", "sub", "and", "or", "xor", "cmp", "bit", "clc", "sec", "push", "pop", "rts",
   "inc", "dec", "asl", "lsr", "rol", "ror", "call", "jmp", "label", "prologue", "ret", "lea"}
Instruction ==
  [op : Opcodes, src : Operand, dst : Operand, vol : BOOLEAN, to : Names \cup SkipLabels,
   regs : SUBSET Regs, args : Seq([lbl : Names, src : Operand])]
Distinct(p) == \A j, k \in DOMAIN p : IsLabel(p[j]) /\ IsLabel(p[k]) /\ p[j].to = p[k].to => j = k
IsFunction(p) ==
  /\ p \in Seq(Instruction)
  /\ Distinct(p)
  /\ \A k \in DOMAIN p : p[k].to \notin SkipLabels

ASSUME FunctionsAssumption ==
  /\ FirstCounter \in Nat /\ <<>> \in Names
  /\ \A p \in Functions : IsFunction(p)

VARIABLES
  origin,   \* the instructions given
  instrs,   \* the instructions now
  tooFar,   \* the indices that are still to be replaced in this round
  counter,  \* the number of the next skip label
  place,    \* where the instructions of origin are in instrs
  phase     \* "measure", "expand", "done" or "ValueError"

vars == <<origin, instrs, tooFar, counter, place, phase>>

Init ==
  /\ origin \in Functions /\ instrs = origin
  /\ tooFar = {} /\ counter = FirstCounter
  /\ place = [k \in 1..(Len(origin) + 1) |-> k]
  /\ phase = "measure"

Bound(p) == \A k \in DOMAIN p : IsBranch(p[k]) => p[k].to \in LabelsIn(p)

(* _find_too_far_branches: a target that is not found is an error.         *)
MissingTarget ==
  /\ phase = "measure" /\ ~Bound(instrs)
  /\ phase' = "ValueError"
  /\ UNCHANGED <<origin, instrs, tooFar, counter, place>>

(* Mutant: nothing ends the loop.                                          *)
MeasureAgain ==
  /\ phase = "measure" /\ Bound(instrs)
  /\ tooFar' = TooFar(instrs, DefaultZp)
  /\ phase' = IF tooFar' = {} THEN "measure" ELSE "expand"
  /\ UNCHANGED <<origin, instrs, counter, place>>
Measure ==
  /\ phase = "measure" /\ Bound(instrs)
  /\ tooFar' = TooFar(instrs, DefaultZp)
  /\ phase' = IF tooFar' = {} THEN "done" ELSE "expand"
  /\ UNCHANGED <<origin, instrs, counter, place>>

(* Mutant: in the order of the list. *)
IsFirst(i) == i \in tooFar /\ \A j \in tooFar : i <= j
(* _expand_indices: for i in reversed(too_far).                            *)
IsLast(i) == i \in tooFar /\ \A j \in tooFar : j <= i

(* Mutants: there is one round only; the labels of a round have the same   *)
(* number.                                                                 *)
ExpandIndexOneRound ==
  /\ phase = "expand"
  /\ \E i \in tooFar :
       /\ IsLast(i) /\ instrs' = ExpandAt(instrs, i, counter) /\ tooFar' = tooFar \ {i}
       /\ place' = [k \in DOMAIN place |-> IF place[k] <= i THEN place[k] ELSE place[k] + 2]
  /\ counter' = counter + 1
  /\ phase' = IF tooFar' = {} THEN "done" ELSE "expand"
  /\ UNCHANGED origin
ExpandIndexByRound ==
  /\ phase = "expand"
  /\ \E i \in tooFar :
       /\ IsLast(i) /\ instrs' = ExpandAt(instrs, i, counter) /\ tooFar' = tooFar \ {i}
       /\ place' = [k \in DOMAIN place |-> IF place[k] <= i THEN place[k] ELSE place[k] + 2]
  /\ phase' = IF tooFar' = {} THEN "measure" ELSE "expand"
  /\ counter' = IF tooFar' = {} THEN counter + 1 ELSE counter
  /\ UNCHANGED origin
ExpandIndex ==
  /\ phase = "expand"
  /\ \E i \in tooFar :
       /\ IsLast(i)
       /\ instrs' = ExpandAt(instrs, i, counter)
       /\ tooFar' = tooFar \ {i}
       /\ place' = [k \in DOMAIN place |-> IF place[k] <= i THEN place[k] ELSE place[k] + 2]
  /\ counter' = counter + 1
  /\ phase' = IF tooFar' = {} THEN "measure" ELSE "expand"
  /\ UNCHANGED origin

Next == MissingTarget \/ Measure \/ ExpandIndex

(* One thread of control that runs to the end. *)
Spec == Init /\ [][Next]_vars /\ WF_vars(Next)

-----------------------------------------------------------------------------
TypeOK ==
  /\ origin \in Functions /\ instrs \in Seq(Instruction)
  /\ tooFar \subseteq DOMAIN instrs
  /\ counter \in Nat
  /\ place \in [1..(Len(origin) + 1) -> 1..(Len(instrs) + 1)]
  /\ phase \in {"measure", "expand", "done", "ValueError"}

(* The branches are measured before the linker has placed the slots. When  *)
(* it has, and some addresses take a byte less, every branch still reaches *)
(* ("no over-long branches" of expand_program).                            *)
ReachesWhenLinked == phase = "done" => TooFar(instrs, FinalZp(instrs)) = {}

(* What has become of the k-th instruction: nothing, or an inverted branch *)
(* over a jump to where it went, whose skip label is bound behind the jump.*)
Untouched(k) == place[k + 1] = place[k] + 1 /\ instrs[place[k]] = origin[k]
Expanded(k) ==
  /\ IsBranch(origin[k]) /\ place[k + 1] = place[k] + 3
  /\ \E n \in FirstCounter..(counter - 1) :
       /\ instrs[place[k]]     = Branch(Inverted[origin[k].op], SkipLabel(n))
       /\ instrs[place[k] + 1] = Jump(origin[k].to)
       /\ instrs[place[k] + 2] = Label(SkipLabel(n))

(* The parts of CodeKept.                                                  *)
(* At every moment the code is the function that was given, in its order,  *)
(* with some of its branches replaced and nothing else changed.            *)
FlowKept ==
  /\ place[1] = 1 /\ place[Len(origin) + 1] = Len(instrs) + 1
  /\ \A k \in DOMAIN origin : Untouched(k) \/ Expanded(k)

(* "Process from the back so earlier indices stay valid": an index that is *)
(* still to be replaced is a branch of the function that was given.        *)
IndicesStayValid == \A i \in tooFar : \E k \in DOMAIN origin :
  place[k] = i /\ Untouched(k) /\ IsBranch(origin[k])

(* A skip label is minted for one branch and bound once.                   *)
LabelsStayDistinct == Distinct(instrs)

(* Only a branch that was given without its target is refused.             *)
RefusedAsGiven == phase = "ValueError" => ~Bound(origin)

(* What was given is kept, and nothing is refused that was not wrong.      *)
CodeKept == FlowKept /\ IndicesStayValid /\ LabelsStayDistinct /\ RefusedAsGiven

(* "once a branch is expanded it stays expanded": the labels minted are    *)
(* one for each expanded branch, so there are no more rounds than branches.*)
ExpandedOnce ==
  counter = FirstCounter + Cardinality({k \in DOMAIN origin : Expanded(k)})

(* "Termination is guaranteed because the function only grows".            *)
LengtheningEnds == <>(phase \in {"done", "ValueError"})
=============================================================================
