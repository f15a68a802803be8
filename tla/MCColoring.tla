----------------------------- MODULE MCColoring -----------------------------
(***************************************************************************)
(* Bounds for Coloring: functions of three blocks over three names, a loop *)
(* and a diamond, with every two pieces of code in the middle block; a few *)
(* written out for what needs more.                                        *)
(***************************************************************************)
EXTENDS Coloring

CONSTANTS a, b, c

Plain == [dst |-> NoName, uses |-> {}, copy |-> NoName, call |-> FALSE,
          writes |-> {}, from |-> NoName, hidden |-> {}]
Set(n)      == <<[Plain EXCEPT !.dst = n]>>
Read(n)     == <<[Plain EXCEPT !.uses = {n}]>>
Inc(n)      == <<[Plain EXCEPT !.dst = n, !.uses = {n}]>>
Copy(n, m)  == Read(n) \o <<[Plain EXCEPT !.dst = m, !.copy = n]>>
Index(n, r) == Read(n) \o <<[Plain EXCEPT !.writes = {r}, !.from = n]>>
Load(r)     == <<[Plain EXCEPT !.writes = {r}]>>
Jsr         == <<[Plain EXCEPT !.call = TRUE]>>
Deref       == <<[Plain EXCEPT !.hidden = {"Y"}]>>

Block(phis, code, succ) == [phis |-> phis, code |-> code, succ |-> succ]
Phi(n, args) == [dst |-> n, args |-> args]

(* With the default pool and hints; with a pool of its own, too small for  *)
(* a pair of bytes and a slot, and a register local.                       *)
Shared(blocks) ==
  [blocks |-> blocks, colorable |-> Names, width |-> [n \in Names |-> 1],
   eligible |-> [r \in Regs |-> Names], hints |-> [X |-> {a, c}, Y |-> {b}],
   required |-> {}, private |-> FALSE, pool |-> {}, blocked |-> {10}]
Own(blocks) ==
  [Shared(blocks) EXCEPT !.private = TRUE, !.pool = {10, 11, 12}, !.blocked = {},
                         !.width = [n \in Names |-> IF n = c THEN 2 ELSE 1],
                         !.hints = [X |-> {a}, Y |-> {}], !.required = {b},
                         !.eligible = [r \in Regs |-> {a, b}]]

Pieces == {Set(a), Set(b), Read(b), Inc(a), Copy(a, b), Copy(b, c), Index(a, "X"), Load("X"), Jsr, Deref}
Starts == {Set(a) \o Set(b), Set(b)}
Ends   == {Read(a) \o Read(b), Index(a, "X") \o Read(c)}
LoopPhis == {{}, {Phi(c, <<a, b, NoName>>)}, {Phi(a, <<a, b, NoName>>), Phi(b, <<b, a, NoName>>)}}

Loop(phis, x, y, z)    == <<Block({}, x, {2}), Block(phis, y, {2, 3}), Block({}, z, {})>>
Diamond(phis, x, y, z) == <<Block({}, x, {2, 3}), Block({}, y, {3}), Block(phis, z, {})>>
Small ==
  {Loop(ph, x, p \o q, z) : ph \in LoopPhis, x \in Starts, p \in Pieces, q \in Pieces, z \in Ends}
  \cup {Diamond(ph, x, p \o q, z) : ph \in {{}, {Phi(c, <<a, b, NoName>>)}},
                                    x \in Starts, p \in Pieces, q \in Pieces, z \in Ends}

(* The counter of a loop that starts with a call: the blocks that read it  *)
(* are behind the call, and so are the phis of the call's own block for    *)
(* the walk.                                                               *)
CallInHeader ==
  <<Block({}, Set(a), {2}), Block({Phi(b, <<a, NoName, c, NoName>>)}, Jsr, {3}),
    Block({}, Index(b, "X") \o Read(b) \o Set(c), {2, 4}), Block({}, <<>>, {})>>

Considered == {Shared(bl) : bl \in Small} \cup {Own(bl) : bl \in Small}
Foreseen == {f \in Considered : CallsMeetNames(f) /\ HiddenWritesApart(f)}
MetTooLate == {Shared(CallInHeader)}
(* A register local and an access through a pointer: Y is overwritten.     *)
DerefMeetsPin == {Own(<<Block({}, Set(b) \o Deref \o Read(b), {})>>)}
=============================================================================
