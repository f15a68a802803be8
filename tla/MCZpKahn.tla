------------------------------ MODULE MCZpKahn ------------------------------
(***************************************************************************)
(* Bounds for KahnSlots: three functions, every graph of direct calls      *)
(* between them, parameter blocks of 0 to 2 bytes; a window of 3 bytes and *)
(* a spill region of 2, so that chains fit in the window, move to the      *)
(* spill region, or fit nowhere.                                           *)
(***************************************************************************)
EXTENDS KahnSlots

Three == 1 .. 3

(* Whole units without pointers: zp_abi is lost on cycles and by refusal.  *)
(* Names are sorted by the code, so every labelling of a graph is a case   *)
(* of its own.                                                             *)
Units(refused, strict) ==
  [defined : {Three}, calls : SUBSET (Three \X Three),
   indirect : {{}}, taken : {{}}, inits : {{}}, refused : {refused}, strict : {strict},
   params : {<<0, 2, 1>>, <<1, 1, 1>>, <<2, 1, 2>>},
   temps : {<<0, 0, 0>>}, across : {<<0, 0, 0>>}]

DirectPrograms == Units({}, {}) \cup Units({2}, {1})
=============================================================================
