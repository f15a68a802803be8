----------------------------- MODULE ZpRuntime -----------------------------
(***************************************************************************)
(* What the generated code does with the memory plan of ZpSlots when it    *)
(* runs. A call writes the callee's parameter slots (zp_abi) or pushes on  *)
(* the soft stack, a prologue saves the callee-saved bytes the body uses,  *)
(* a body writes its own bytes, an epilogue restores. Memory is one array  *)
(* of bytes shared by all activations; a byte holds the stack depth of     *)
(* the activation whose value is in it (0: nobody's).                      *)
(***************************************************************************)
EXTENDS ZpSlots, Sequences

CONSTANT MaxDepth  \* bound on the depth of the call stack

ASSUME DepthAssumption == MaxDepth \in Nat

VARIABLES
  stack,  \* the activations, outermost first
  mem     \* owner of the value in each byte

vars == <<prog, phase, abi, placed, slots, pooled, pools, stack, mem>>

(* An activation: its function, the convention its arguments were passed   *)
(* with, the bytes whose values it still needs, and the bytes its prologue *)
(* put away on the soft stack.                                             *)
IsActivation(x) ==
  /\ x.fn \in Names /\ x.how \in {"zp", "soft"}
  /\ x.live \subseteq Addresses
  /\ DOMAIN x.saved \subseteq Addresses /\ x.saved \in [DOMAIN x.saved -> Nat]

-----------------------------------------------------------------------------
(* Where regalloc puts a body's bytes (color_graph, _find_fit).            *)

(* _blocked_addrs_for: own slots and those of the direct zp_abi callees.   *)
BlockedAddrs(f) == slots[f] \cup UNION {slots[g] : g \in Callees(prog.calls, f)}

(* First fit of n single bytes. *)
LowestFree(region, blocked, n) ==
  {a \in region \ blocked : Cardinality({b \in region \ blocked : b < a}) < n}

(* The default partition: bytes that live across a call are callee-saved,  *)
(* the others caller-saved first. What does not fit is on the soft stack.  *)
AcrossBytes(f) == LowestFree(CalleeSaved, BlockedAddrs(f), prog.across[f])

TempBytes(f) ==
  LET window == LowestFree(CallerSaved, BlockedAddrs(f), prog.temps[f])
  IN  window \cup LowestFree(CalleeSaved, BlockedAddrs(f) \cup AcrossBytes(f),
                             prog.temps[f] - Cardinality(window))

(* An eligible function draws on its pool alone. *)
BodyBytes(f) == IF f \in pooled THEN pools[f] ELSE AcrossBytes(f) \cup TempBytes(f)

(* The body bytes a function still needs after a call it makes. *)
KeptBytes(f) == IF f \in pooled THEN pools[f] ELSE AcrossBytes(f)

(* FrameDims.callee_saved_addrs *)
SavedBytes(f) == BodyBytes(f) \cap CalleeSaved

-----------------------------------------------------------------------------
Top == stack[Len(stack)]

(* The bytes `written` get values of the activation at depth d. *)
Written(written, d) == [a \in Addresses |-> IF a \in written THEN d ELSE mem[a]]

(* At a call, the running activation gives up what it does not keep. *)
Suspended == [Top EXCEPT !.live = @ \cap (slots[Top.fn] \cup KeptBytes(Top.fn))]
Below == IF stack = <<>> THEN <<>> ELSE [stack EXCEPT ![Len(stack)] = Suspended]

(* Arguments passed `how`, JSR, prologue: f runs on top of the stack.      *)
Enter(f, how) ==
  LET d == Len(stack) + 1
      arrived == IF how = "zp" THEN slots[f] ELSE {}
  IN  /\ Len(stack) < MaxDepth
      /\ mem' = Written(arrived, d)
      /\ stack' = Append(Below, [fn |-> f, how |-> how, live |-> slots[f],
                                 saved |-> [a \in SavedBytes(f) |-> mem'[a]]])

(* The startup code, or another unit, calls any function of the program.   *)
Start(f) ==
  /\ phase = "done" /\ stack = <<>>
  /\ f \in prog.defined
  /\ Enter(f, abi[f])
  /\ UNCHANGED planVars

(* _translate_function_call: the callee's layout picks the convention.     *)
Call(f) ==
  /\ phase = "done" /\ stack # <<>>
  /\ <<Top.fn, f>> \in prog.calls /\ f \in prog.defined
  /\ Enter(f, abi[f])
  /\ UNCHANGED planVars

(* _translate_indirect_call: arguments always go on the soft stack. The    *)
(* pointer can hold any function whose address the program stores.         *)
PointerTargets == {f \in prog.defined : f \in prog.inits \/ \E g \in Names : <<g, f>> \in prog.taken}

IndirectCall(f) ==
  /\ phase = "done" /\ stack # <<>>
  /\ Top.fn \in prog.indirect /\ f \in PointerTargets
  /\ Enter(f, "soft")
  /\ UNCHANGED planVars

(* A call of an extern and its return. A zp_abi extern is trusted to write *)
(* its slots only; any other may use every caller-saved byte.              *)
CallExtern(f) ==
  /\ phase = "done" /\ stack # <<>>
  /\ <<Top.fn, f>> \in prog.calls /\ f \notin prog.defined
  /\ mem' = Written(IF abi[f] = "zp" THEN slots[f] ELSE CallerSaved, 0)
  /\ stack' = Below
  /\ UNCHANGED planVars

(* The running body computes: every byte it uses now has its own value.    *)
Body ==
  /\ phase = "done" /\ stack # <<>>
  /\ mem' = Written(BodyBytes(Top.fn), Len(stack))
  /\ stack' = [stack EXCEPT ![Len(stack)].live = @ \cup BodyBytes(Top.fn)]
  /\ UNCHANGED planVars

(* Epilogue and RTS. What is left of the activation's values is nobody's.  *)
Return ==
  /\ phase = "done" /\ stack # <<>>
  /\ mem' = [a \in Addresses |-> IF a \in DOMAIN Top.saved THEN Top.saved[a]
                                ELSE IF mem[a] = Len(stack) THEN 0 ELSE mem[a]]
  /\ stack' = SubSeq(stack, 1, Len(stack) - 1)
  /\ UNCHANGED planVars

Init == PlanInit /\ stack = <<>> /\ mem = [a \in Addresses |-> 0]

Plan == PlanNext /\ UNCHANGED <<stack, mem>>

Next ==
  \/ Plan
  \/ \E f \in Names : Start(f)
  \/ \E f \in Names : Call(f)
  \/ \E f \in Names : IndirectCall(f)
  \/ \E f \in Names : CallExtern(f)
  \/ Body
  \/ Return

Spec == Init /\ [][Next]_vars

-----------------------------------------------------------------------------
TypeOK ==
  /\ PlanTypeOK
  /\ Len(stack) <= MaxDepth /\ \A i \in 1 .. Len(stack) : IsActivation(stack[i])
  /\ mem \in [Addresses -> Nat]

(* The value byte a will have for the activation at depth i once those     *)
(* above it have returned: what the lowest prologue above i saved of it.   *)
Savers(frames, i, a) == {j \in (i + 1) .. Len(frames) : a \in DOMAIN frames[j].saved}
Restored(frames, m, i, a) ==
  IF Savers(frames, i, a) = {} THEN m[a] ELSE frames[Least(Savers(frames, i, a))].saved[a]

(* Every body byte an activation still needs has its value, or will have   *)
(* it back: no body, argument write or epilogue above it destroys it,      *)
(* whatever the program (zp_local_allocation.py, "a caller's locals        *)
(* survive when this function executes").                                  *)
LocalsKept ==
  \A i \in 1 .. Len(stack) :
    \A a \in stack[i].live \ slots[stack[i].fn] : Restored(stack, mem, i, a) = i

(* f has a pool, and so has everything below it; and each zp_abi function  *)
(* below f is called from f through zp_abi functions alone.                *)
SeenByAllocators(f) ==
  /\ f \in Eligible(prog, abi)
  /\ \A g \in ZpNames(abi) : f \in Ancestors(prog.calls, g) => f \in Ancestors(ZpCalls(prog, abi), g)

(* The parameters of such a function are untouched until it returns        *)
(* (zp_slot_allocation.py, "B's call-site arg writes would clobber A's     *)
(* still-live params").                                                    *)
ParamsKept ==
  \A i \in 1 .. Len(stack) :
    stack[i].how = "zp" /\ SeenByAllocators(stack[i].fn) => \A a \in slots[stack[i].fn] : mem[a] = i

(* The same for every zp_abi function: what the docstrings promise.        *)
EveryParamKept ==
  \A i \in 1 .. Len(stack) :
    stack[i].how = "zp" => \A a \in slots[stack[i].fn] : mem[a] = i

(* Caller and callee agree on where the arguments are.                     *)
ConventionsAgree == \A i \in 1 .. Len(stack) : stack[i].how = abi[stack[i].fn]
=============================================================================
