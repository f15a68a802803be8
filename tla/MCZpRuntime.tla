---------------------------- MODULE MCZpRuntime -----------------------------
(***************************************************************************)
(* Bounds for ZpRuntime: three functions a, b, c and a call stack of up to *)
(* three activations, so that a function can be entered again while it is  *)
(* active. Window 0..1, callee-saved bytes 2..3, spill region 4..10.       *)
(***************************************************************************)
EXTENDS ZpRuntime, TLC

CONSTANTS a, b, c

Symmetric == Permutations(Names)

Sized(f, g, h) == (a :> f) @@ (b :> g) @@ (c :> h)
AllOf(n) == Sized(n, n, n)

(* Units whose functions call each other in every possible way, with small *)
(* and large parameter blocks; some cannot be zp_abi, some must be.        *)
Direct(refusals, sizes) ==
  [defined : {Names}, calls : SUBSET (Names \X Names),
   indirect : {{}}, taken : {{}}, inits : {{}}, refused : refusals, strict : {{}},
   params : sizes, temps : {AllOf(1)}, across : {AllOf(1)}]

DirectPrograms == Direct({{}, {c}}, {AllOf(1)}) \cup Direct({{}}, {Sized(2, 1, 0)})

(* Units with function pointers: c is stored by a, a is stored by b.       *)
PointerPrograms ==
  [defined : {Names}, calls : SUBSET {<<a, b>>, <<b, c>>, <<a, c>>, <<c, b>>},
   indirect : SUBSET {a, b}, taken : SUBSET {<<a, c>>, <<b, a>>}, inits : {{}},
   refused : {{}}, strict : {{}, {c}},
   params : {AllOf(1), AllOf(2)}, temps : {AllOf(1)}, across : {AllOf(1)}]

(* Units in which c is an extern.                                          *)
ExternPrograms ==
  [defined : {{a, b}}, calls : SUBSET ({a, b} \X Names),
   indirect : {{}}, taken : {{}}, inits : {{}}, refused : {{}, {c}}, strict : {{}, {a}},
   params : {AllOf(1), Sized(1, 0, 4)}, temps : {Sized(1, 2, 0)}, across : {AllOf(1)}]

UnitPrograms == DirectPrograms \cup PointerPrograms \cup ExternPrograms

-----------------------------------------------------------------------------
(* a, with a parameter, calls b, which calls itself or c.                  *)
SoftBetweenPrograms ==
  [defined : {Names}, calls : {{<<a, b>>, <<b, b>>}, {<<a, b>>, <<b, c>>}},
   indirect : {{}}, taken : {{}}, inits : {{}}, refused : {{}, {b}}, strict : {{}},
   params : {AllOf(1)}, temps : {AllOf(1)}, across : {AllOf(0)}]

(* b calls through a pointer that holds c, stored by a static initializer  *)
(* alone.                                                                  *)
InitializerPrograms ==
  [defined : {Names}, calls : {{<<a, b>>}}, indirect : {{b}}, taken : {{}}, inits : {{}, {c}},
   refused : {{}}, strict : {{}}, params : {AllOf(1)}, temps : {AllOf(1)}, across : {AllOf(0)}]
=============================================================================
