---------------------------- MODULE MCLengthening ----------------------------
(***************************************************************************)
(* Bounds for Lengthening: every list of up to six instructions among two  *)
(* labels (each at most once), branches to them, and stores to a byte of a *)
(* slot that takes five bytes before the linker has placed it and four     *)
(* afterwards. A branch reaches -9 .. 8.                                   *)
(***************************************************************************)
EXTENDS Lengthening

CONSTANT MaxLength

SlotName == <<"local", "f", 0>>
Slot == Data(SlotName, 0)
SmallNames == {<<>>, <<"a">>, <<"b">>, SlotName}
Alphabet == {Label(<<"a">>), Label(<<"b">>), Branch("EQ", <<"a">>), Branch("CC", <<"b">>),
             Mov(Imm(1), Slot)}
SmallFunctions == {p \in UNION {[1..n -> Alphabet] : n \in 1..MaxLength} : Distinct(p)}
=============================================================================
