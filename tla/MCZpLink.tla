------------------------------ MODULE MCZpLink ------------------------------
(***************************************************************************)
(* Bounds for ZpLink: two units with three functions between them. Window  *)
(* 0..1, callee-saved half 2..3 (not used by the allocators), spill region *)
(* 4..6.                                                                   *)
(***************************************************************************)
EXTENDS ZpLink, TLC

CONSTANTS a, b, c

Sized(f, g, h) == (a :> f) @@ (b :> g) @@ (c :> h)

Unit(defined, calls, shared, indirect, taken, refused, params) ==
  LET mine == {e \in calls : e[1] \in defined}
      called == {e[2] : e \in mine}
  IN  [defined |-> defined, calls |-> mine, declared |-> (called \cup shared) \ defined,
       indirect |-> indirect \cap defined, taken |-> {e \in taken : e[1] \in defined},
       inits |-> {}, refused |-> refused, strict |-> {}, params |-> params,
       temps |-> Sized(1, 1, 1), across |-> Sized(0, 0, 0)]

Link(d1, d2, calls, shared, indirect, taken, refused, params, params2) ==
  <<Unit(d1, calls, shared, indirect, taken, refused, params),
    Unit(d2, calls, {}, indirect, taken, refused, params2)>>

ParamSizes == {Sized(f, g, h) : f \in {0, 1}, g \in {0, 1}, h \in {0, 1}}

(* Every call graph without self loops and every choice of functions with  *)
(* a parameter.                                                            *)
PlainLinks ==
  {Link({a, b}, {c}, calls, {}, {}, {}, {}, params, params) :
     calls \in SUBSET {e \in Names \X Names : e[1] # e[2]}, params \in ParamSizes}

(* A unit that declares more than it calls, calls through pointers, and    *)
(* functions that cannot be zp_abi: acyclic graphs and one cycle.          *)
MixedLinks ==
  {Link({a, b}, {c}, calls, shared, indirect, taken, refused, Sized(1, 1, 1), Sized(1, 1, 1)) :
     calls \in SUBSET {<<a, b>>, <<b, c>>, <<a, c>>, <<c, c>>},
     shared \in {{}, {c}}, indirect \in {{}, {b}}, taken \in {{}, {<<c, b>>}, {<<a, b>>}},
     refused \in {{}, {b}, {c}}}

(* c is defined in no unit, or in both; declared alike, or not.            *)
OddLinks ==
  {Link({a}, d2, calls, {}, {}, {}, {}, params, params2) :
     d2 \in {{b}, {b, a}, {b, c}}, calls \in SUBSET {<<a, b>>, <<b, c>>, <<a, c>>},
     params \in {Sized(1, 1, 1), Sized(2, 0, 1)}, params2 \in {Sized(1, 1, 1), Sized(1, 1, 2)}}

UnitLinks == PlainLinks \cup MixedLinks \cup OddLinks

(* Calls in one direction, a to b to c.                                    *)
ChainLinks ==
  {Link({a, b}, {c}, calls, shared, {}, {}, {}, params, params) :
     calls \in SUBSET {<<a, b>>, <<b, c>>, <<a, c>>}, shared \in {{}, {c}}, params \in ParamSizes}

(* Calls across the units in both directions.                              *)
LoopLinks ==
  {Link({a, b}, {c}, calls, {}, {}, {}, {}, params, params) :
     calls \in SUBSET {<<a, b>>, <<b, c>>, <<c, a>>, <<a, c>>}, params \in ParamSizes}

NoPrograms == {}
=============================================================================
