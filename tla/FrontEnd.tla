------------------------------ MODULE FrontEnd ------------------------------
(***************************************************************************)
(* compile.py's front end: one source file on its way from the parser to   *)
(* TAC, one stage a step, in the order of _resolved.  A stage hands on the *)
(* tree it has rewritten or refuses the file.                              *)
(*                                                                         *)
(* The input is a record: prog, the tree the parser delivers; refusedBy,   *)
(* the stage that has to refuse it, or ""; main, the function it is        *)
(* observed through; calls, the arguments that is called with; watched,    *)
(* the cells looked at when it returns.  unroll is the option of that name.*)
(*                                                                         *)
(* meaning is what the input does on each of the calls, by the C standard, *)
(* found out once at the start.                                            *)
(***************************************************************************)
EXTENDS CMeaning, Names, TacGen

CONSTANT Inputs   \* the source files

VARIABLES input, unroll, stage, tree, symbols, tac, meaning
vars == <<input, unroll, stage, tree, symbols, tac, meaning>>

Outcomes(i, prog) == [args \in i.calls |-> MeaningOf(prog, i.main, <<>>, args, i.watched)]
NoSymbols == [n \in {} |-> <<>>]
NoTac     == [functions |-> <<>>, statics |-> {}]
Init ==
  /\ input \in Inputs
  /\ unroll \in BOOLEAN
  /\ stage = "parsed"
  /\ tree = input.prog
  /\ symbols = NoSymbols
  /\ tac = NoTac
  /\ meaning = IF input.refusedBy \in {"", "unroll"} THEN Outcomes(input, input.prog) ELSE <<>>

(* The stage named s goes from the stage before it to the next one, unless *)
(* it finds fault with the program: then compilation ends.                 *)
Hand(from, to, s, result, bad) ==
  /\ stage = from
  /\ IF bad THEN stage' = "refused by " \o s /\ UNCHANGED tree
     ELSE stage' = to /\ tree' = result
  /\ UNCHANGED <<input, unroll, meaning>>

UnrollLoops ==
  /\ LET Pass(q) == Hand("parsed", "unrolled", "unroll", q, Rejected(q))
     IN Pass(IF unroll THEN UnrollProgram(tree) ELSE tree)
  /\ UNCHANGED <<symbols, tac>>
ResolveIdentifiers ==
  /\ LET Pass(r) == Hand("unrolled", "resolved", "names", r.out, r.bad) IN Pass(ResolveProgram(tree))
  /\ UNCHANGED <<symbols, tac>>
ResolveJumps ==
  /\ LET Pass(q) == Hand("resolved", "jumps", "labels", q, Rejected(q)) IN Pass(ResolveLabels(tree))
  /\ UNCHANGED <<symbols, tac>>
LabelLoops ==
  /\ LET Pass(r) == Hand("jumps", "labelled", "loops", r.out, r.bad) IN Pass(LabelProgram(tree))
  /\ UNCHANGED <<symbols, tac>>
TypeCheck ==
  /\ LET Pass(r) == /\ Hand("labelled", "typed", "types", r.out, r.bad)
                    /\ symbols' = r.tab
     IN Pass(CheckProgram(tree))
  /\ UNCHANGED tac
TranslateToTac ==
  /\ Hand("typed", "tac", "tac", tree, FALSE)
  /\ tac' = TacProgram(tree, symbols)
  /\ UNCHANGED symbols

Next == \/ UnrollLoops \/ ResolveIdentifiers \/ ResolveJumps \/ LabelLoops \/ TypeCheck \/ TranslateToTac
Spec == Init /\ [][Next]_vars

----------------------------------------------------------------------------
(* What the TAC does: the parameters are the variables of their names, the *)
(* static objects start with their bytes.                                  *)
Parameters(f, args) ==
  LET Bytes(k) == [c \in {f.params[k].n} \X (0..BytesOf(f.params[k].t) - 1) |->
                     (args[k] \div ByteSize^c[2]) % ByteSize]
  IN FoldLeft(LAMBDA m, k : m @@ Bytes(k), <<>>, [k \in DOMAIN f.params |-> k])
StaticCells == UNION {{<<o.n, k>> : k \in DOMAIN o.bytes} : o \in tac.statics}
StaticMemory == [c \in StaticCells |-> (CHOOSE o \in tac.statics : o.n = c[1]).bytes[c[2]]]
Main == SelectSeq(tac.functions, LAMBDA f : f.n = input.main)[1]
TacOutcome(args) ==
  LET s == TacRun(Main.code, Parameters(Main, args) @@ StaticMemory)
  IN [ends |-> s.done, value |-> s.value, log |-> s.log,
      statics |-> [c \in input.watched |-> Fetch(s, c)]]

----------------------------------------------------------------------------
TreeStages == {"parsed", "unrolled", "resolved", "jumps", "labelled", "typed"}
Resolved   == {"resolved", "jumps", "labelled", "typed", "tac"}
Refusals   == {"refused by unroll", "refused by names", "refused by labels", "refused by loops",
               "refused by types"}

(* No stage changes what the program does: from the parsed tree to the TAC *)
(* it returns the same values, makes the same calls and leaves the same in *)
(* its static objects as C says (_resolved, check_program,                 *)
(* translate_program).                                                     *)
MeaningKept ==
  /\ stage \in TreeStages /\ meaning # <<>> => Outcomes(input, tree) = meaning
  /\ stage = "tac" => \A args \in input.calls : TacOutcome(args) = meaning[args]

(* A file is refused by the stage that has to and by no other: what is     *)
(* accepted is well-formed, and the copies unrolling makes do not make a   *)
(* program wrong that was right.                                           *)
RefusedForCause ==
  /\ stage \in Refusals => stage = "refused by " \o input.refusedBy
  /\ stage = "tac" => input.refusedBy = "" \/ (input.refusedBy = "unroll" /\ ~unroll)

(* Once names are resolved, no two objects without linkage have the same   *)
(* name, none has that of a function or an object at file scope, and a     *)
(* function uses only its own and those (identifier_resolution.py): the    *)
(* symbol table is one for the whole file.                                 *)
FileNames == {d.n : d \in ToSet(tree)}
Linkless(d) == d.k = "var" /\ d.sc # "extern"
OwnNames(d) ==
  Map(LAMBDA p : p.n, d.params) \o Map(LAMBDA v : v.n, SelectSeq(BlockDecls(BodyOf(d)), Linkless))
ParamNamesIn(d) == FlattenSeq(Map(LAMBDA p : Map(LAMBDA q : q.n, p.params), BlockDecls(BodyOf(d))))
LinkedIn(d) == {v.n : v \in {u \in DeclsIn(BodyOf(d)) : ~Linkless(u)}}
UsedIn(d)   == {x.n : x \in {y \in ExpsIn(BodyOf(d)) : y.k \in {"var", "call"}}}
NamesUnique ==
  stage \in Resolved =>
    LET own == FlattenSeq(Map(LAMBDA d : OwnNames(d) \o ParamNamesIn(d), tree))
    IN /\ IsInjective(own)
       /\ ToSet(own) \cap FileNames = {}
       /\ \A d \in ToSet(tree) : UsedIn(d) \subseteq ToSet(OwnNames(d)) \cup FileNames \cup LinkedIn(d)

(* Every jump has one target, in its own function: a goto its label, a     *)
(* break and a continue the innermost loop (or switch) around them, a      *)
(* switch exactly the cases in it that are in no other switch; and in the  *)
(* TAC of the file no label is planted twice (label_resolution.py,         *)
(* loop_labeling.py, the labels of c99_to_tac.py).                         *)
Around(st, body, kinds) == {s \in SubStms(body) : s.k \in kinds /\ st \in SubStms(s.b[1])}
Innermost(S) == {s \in S : \A u \in S \ {s} : u \notin SubStms(s.b[1])}
Breakable == LoopKinds \cup {"switch"}
JumpFits(st, body) ==
  CASE st.k = "goto"     -> Cardinality({s \in SubStms(body) : s.k = "label" /\ s.l = st.l}) = 1
    [] st.k = "break"    -> {s.l : s \in Innermost(Around(st, body, Breakable))} = {st.l}
    [] st.k = "continue" -> {s.l : s \in Innermost(Around(st, body, LoopKinds))} = {st.l}
    [] st.k = "switch"   ->
         /\ Map(LAMBDA c : c.l, st.cases) = Map(LAMBDA c : c.l, SelectSeq(CasesIn(st.b[1]), LAMBDA c : c.k = "case"))
         /\ (IF st.dflt = <<>> THEN {} ELSE {st.dflt}) = {c.l : c \in {q \in ToSet(CasesIn(st.b[1])) : q.k = "default"}}
    [] OTHER -> TRUE
Targets(code) == {code[k].to : k \in {j \in DOMAIN code : code[j].op \in {"jump", "jtrue", "jfalse"}}}
Planted(code) == Map(LAMBDA t : t.to, SelectSeq(code, LAMBDA t : t.op = "label"))
TargetsBound ==
  /\ stage \in {"labelled", "typed"} =>
       \A d \in ToSet(tree) : \A st \in SubStms(BodyOf(d)) : JumpFits(st, BodyOf(d))
  /\ \A f \in ToSet(tac.functions) : Targets(f.code) \subseteq ToSet(Planted(f.code))
  /\ IsInjective(FlattenSeq(Map(LAMBDA f : Planted(f.code), tac.functions)))

(* The operands of every instruction of the TAC have the widths it works   *)
(* with: type checking has put a cast wherever they could differ.  An      *)
(* instruction reads as many bytes as its first operand has, so one that   *)
(* is too wide reads what does not belong to it.                           *)
ParamTypes(f) == symbols[f].params
WidthsAgree(t, f) ==
  CASE t.op = "copy"    -> Width(t.a) = Width(t.dst)
    [] t.op = "convert" -> IF t.o = "trunc" THEN Width(t.a) > Width(t.dst) ELSE Width(t.a) < Width(t.dst)
    [] t.op = "unary"   -> t.o = "lnot" \/ Width(t.a) = Width(t.dst)
    [] t.op = "binary"  -> /\ (t.o \in Shifts \/ Width(t.a) = Width(t.b))
                           /\ (t.o \in Comparisons \/ Width(t.a) = Width(t.dst))
    [] t.op \in {"load", "addr"} -> t.op = "load" \/ Width(t.dst) = 2
    [] t.op = "call"    -> /\ Len(t.args) = Len(ParamTypes(t.to))
                           /\ \A k \in DOMAIN t.args : Width(t.args[k]) = BytesOf(ParamTypes(t.to)[k])
    [] t.op = "ret"     -> IF f.t = "void" THEN t.a = NoVal ELSE Width(t.a) = BytesOf(f.t)
    [] OTHER -> TRUE
OperandsAgree ==
  \A f \in ToSet(tac.functions) : \A k \in DOMAIN f.code : WidthsAgree(f.code[k], f)

(* A static object is emitted once if one of its declarations defines it   *)
(* (anything but extern without an initializer), with the bytes of its     *)
(* initializer or zeros, and is visible outside unless its first           *)
(* declaration is static (type_checking's merge of the declarations,       *)
(* c99_to_tac's static variables).                                         *)
DeclaredStatic == {d \in StaticDecls(tree) : d.sc # "extern" \/ d.init # NoExp}
BytesDeclared(n) ==
  LET inits == {d \in DeclaredStatic : d.n = n /\ d.init # NoExp}
      t == (CHOOSE d \in DeclaredStatic : d.n = n).t
  IN [k \in 0..BytesOf(t) - 1 |-> IF inits = {} THEN 0 ELSE InitByte(CHOOSE d \in inits : TRUE, k)]
FirstOf(n) == SelectSeq(tree, LAMBDA d : d.k = "var" /\ d.n = n)
Visible(n) == FirstOf(n) # <<>> /\ FirstOf(n)[1].sc # "static"
StaticsDefined ==
  stage = "tac" =>
    {<<o.n, o.bytes, o.global>> : o \in tac.statics}
      = {<<n, BytesDeclared(n), Visible(n)>> : n \in {d.n : d \in DeclaredStatic}}
=============================================================================
