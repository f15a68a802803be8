------------------------------ MODULE PhiEdge -------------------------------
(***************************************************************************)
(* What the Phi instructions of a block mean on one incoming edge: all     *)
(* sources are read, then all destinations are written, at once. A store   *)
(* maps each storage location to the value it holds; at the start every    *)
(* location holds a value of its own, named after the location.            *)
(***************************************************************************)
EXTENDS Naturals, Sequences

CONSTANTS
  Storage,     \* storage keys of operands: bytes and registers
  Immediates,  \* operands that no Mov can change
  MovLists     \* the lists of Movs considered, one per edge

VARIABLES movs, taken, store

edgeVars == <<movs, taken, store>>

EdgeInit ==
  /\ movs \in MovLists
  /\ taken = FALSE
  /\ store = [s \in Storage |-> s]

(* The store after the edge: destination i holds what source i held. *)
Outcome ==
  [s \in Storage |-> IF \E i \in DOMAIN movs : movs[i].dst = s
                       THEN movs[CHOOSE i \in DOMAIN movs : movs[i].dst = s].src ELSE s]

TakeEdge ==
  /\ ~taken /\ taken' = TRUE
  /\ store' = Outcome
  /\ UNCHANGED movs

EdgeSpec == EdgeInit /\ [][TakeEdge]_edgeVars
=============================================================================
