-------------------------- MODULE MCOQASMCompiler --------------------------
(***************************************************************************)
(* Sources for the compiler.  A source is given as kernels of statements,  *)
(* each statement with its tokens and with what it means, so that what the *)
(* compiler makes of the tokens can be compared with the meaning.          *)
(***************************************************************************)
EXTENDS OQASMCompiler, TLC

CONSTANTS Statements, Programs, Huge

VARIABLE source      \* the source, as kernels of statements

-----------------------------------------------------------------------------
MCNames == {"f", "g", "q", "c", "n", "h", "cx", "cz", "rx", "u1", "u2", "u3", "b"}
MCCapitalized ==
    [f |-> "F", g |-> "G", q |-> "Q", c |-> "C", n |-> "N", h |-> "H", cx |-> "Cx",
     cz |-> "Cz", rx |-> "Rx", u1 |-> "U1", u2 |-> "U2", u3 |-> "U3", b |-> "B"]
MCRegistry == [H |-> 0, CNOT |-> 0, CZ |-> 0, Rx |-> 1, U |-> 3, Measure |-> 1]
MCWords == STRING
MCNumerals == {"0", "1", "2", "99999999999"}
MCStoi == ("0" :> 0) @@ ("1" :> 1) @@ ("2" :> 2) @@ ("99999999999" :> Huge)
(* exprtk knows pi and no other name, and calls the logarithm log *)
MCEvaluable == {text \in Seq(STRING) : \A i \in DOMAIN text : text[i] \notin {"n", "ln"}}

(* Literal tokens, and tokens with a text *)
L(literal) == [type |-> literal, text |-> literal]
Lit(literals) == [i \in DOMAIN literals |-> L(literals[i])]
K(type_, text) == <<[type |-> type_, text |-> text]>>
Id(name) == K("ID", name)
Whole(numeral) == K("INT", numeral)
Op(text) == K("'" \o text \o "'", text)
At(register, numeral) == Id(register) \o Op("[") \o Whole(numeral) \o Op("]")
End == Op(";")
In(tokens) == Op("(") \o tokens \o Op(")")
Gate(name, tokens) == Id(name) \o tokens \o At("q", "0") \o End

-----------------------------------------------------------------------------
(* Statements: `makes' is what they add to the kernel, `ends' how they end the *)
(* compilation instead                                                         *)
Statement(tokens, makes, ends, callee) ==
    [tokens |-> tokens, makes |-> makes, ends |-> ends, callee |-> callee]
Adds(tokens, name, bits, params) ==
    Statement(tokens, <<Instruction(name, bits, params)>>, "", "")
Silent(tokens) == Statement(tokens, <<>>, "", "")
Ends(how, tokens) == Statement(tokens, <<>>, how, "")
Calls(name, tokens) == Statement(Id(name) \o In(tokens) \o End, <<>>, "", name)

N == Variable(<<"n">>)
D(text) == Double(<<text>>)

Gates == {
    Adds(Gate("h", <<>>), "H", <<0>>, <<>>),
    Adds(Gate("rx", In(Id("n"))), "Rx", <<0>>, <<N>>),
    Adds(Gate("rx", In(K("REAL", "1.5"))), "Rx", <<0>>, <<D("1.5")>>),
    Adds(Gate("rx", In(<<>>)), "Rx", <<0>>, <<D("0")>>),
    Adds(Gate("rx", In(Op("-") \o In(K("'sin'", "sin") \o In(Op("pi")) \o Op("*") \o Id("n")))),
         "Rx", <<0>>, <<Variable(<<"-", "(", "sin", "(", "pi", ")", "*", "n", ")">>)>>),
    Adds(Gate("u1", In(Id("n"))), "U", <<0>>, <<D("0"), D("0"), N>>),
    Adds(Gate("u2", In(Id("n") \o Op(",") \o Whole("1"))), "U", <<0>>,
         <<Double(HalfPi), N, D("1")>>),
    Adds(Gate("u3", In(Id("n") \o Op(",") \o Op("pi") \o Op("/") \o Whole("2")
                        \o Op(",") \o Op("pi"))), "U", <<0>>,
         <<N, Double(HalfPi), D("pi")>>),
    Adds(Op("U") \o In(Op("pi") \o Op(",") \o Id("n") \o Op(",") \o Whole("0"))
            \o At("q", "1") \o End, "U", <<1>>, <<D("pi"), N, D("0")>>),
    Adds(Op("CX") \o At("q", "0") \o Op(",") \o At("q", "1") \o End, "CNOT", <<0, 1>>, <<>>),
    Adds(Id("cx") \o At("q", "1") \o Op(",") \o At("q", "0") \o End, "CNOT", <<1, 0>>, <<>>),
    Adds(K("MEASURE", "measure") \o At("q", "1") \o Op("->") \o At("c", "0") \o End,
         "Measure", <<1>>, <<Integer("0")>>),
    Adds(Id("h") \o At("q", "0") \o K("unknown", "$") \o K("WS", " ") \o End,
         "H", <<0>>, <<>>)}

Declarations == {
    Silent(K("QREG", "qreg") \o At("q", "2") \o End),
    Silent(K("CREG", "creg") \o Id("c") \o End),
    Silent(K("COMMENT", "//")),
    Silent(Op("include") \o K("STRING", "qelib1.inc") \o End),
    Silent(K("GATE", "gate") \o Id("g") \o Id("q")),
    Silent(K("GATE", "gate") \o Id("g") \o In(Id("n") \o Op(",") \o Id("b")) \o Id("q")
            \o Op("{") \o Op("}")),
    Silent(K("OPAQUE", "opaque") \o Id("g") \o In(<<>>) \o At("q", "0") \o Op(",")
            \o At("q", "1") \o End),
    Silent(K("BARRIER", "barrier") \o Id("q") \o Op(",") \o Id("c") \o End),
    Silent(K("RESET", "reset") \o At("q", "0") \o End),
    Silent(Op("if") \o In(Id("c") \o Op("==") \o Whole("1")) \o K("RESET", "reset")
            \o Id("q") \o End)}

(* Gates without an index, too few angles, an index beyond an int, gates XACC *)
(* has no such name or parameter for, and texts that are not OpenQASM         *)
Refused == {
    Ends("crashed", Id("h") \o Id("q") \o End),
    Ends("crashed", K("MEASURE", "measure") \o Id("q") \o Op("->") \o Id("c") \o End),
    Ends("crashed", Op("U") \o In(Id("n")) \o At("q", "0") \o End),
    Ends("crashed", Op("U") \o In(<<>>) \o At("q", "0") \o End),
    Ends("thrown", Id("h") \o At("q", "99999999999") \o End),
    Ends("exited", Gate("cz", <<>>)),
    Ends("exited", Gate("h", In(Whole("1")))),
    Ends("invalid", Id("h") \o At("q", "0")),
    Ends("invalid", Gate("rx", In(Whole("1") \o Op("+")))),
    Ends("invalid", Id("f") \o Op("(") \o End),
    Ends("invalid", Gate("h", <<>>) \o K("EOL", "\r\n"))}

KernelCalls == {Calls("f", <<>>), Calls("g", Id("n")), Calls("f", Id("b") \o Op(",") \o Id("n"))}

(* Gates applied under a condition, or when the gate declared is *)
Guarded == {
    Silent(Op("if") \o In(Id("c") \o Op("==") \o Whole("1")) \o Gate("h", <<>>)),
    Silent(K("GATE", "gate") \o Id("g") \o At("q", "0") \o Op("{") \o Gate("h", <<>>) \o Op("}"))}

PlainStatements == Gates \cup Declarations \cup Refused \cup KernelCalls
GuardedStatements == Guarded \cup Gates

-----------------------------------------------------------------------------
(* Sources: kernels, and where the text goes astray between them *)
Kernel(name, typed, statements) ==
    [name |-> name, typed |-> typed, statements |-> statements]
Stray == Kernel("", FALSE, <<>>)

KernelText(k) ==
    IF k = Stray THEN Id("n")
    ELSE Lit(<<"'__qpu__'">>) \o Id(k.name) \o Op("(") \o Lit(<<"'AcceleratorBuffer'">>)
            \o Id("b") \o (IF k.typed THEN Op(",") \o Op("double") \o Id("n") ELSE <<>>)
            \o Op(")") \o Op("{") \o K("COMMENT", "//") \o K("OPENQASM", "OPENQASM")
            \o K("REAL", "2.0") \o Op(";")
            \o FlattenSeq([i \in DOMAIN k.statements |-> k.statements[i].tokens])
            \o Op("}")
TextOfProgram(p) == FlattenSeq([i \in DOMAIN p |-> KernelText(p[i])])

Linking == {Calls("f", <<>>), Calls("g", Id("n")), Adds(Gate("h", <<>>), "H", <<0>>, <<>>),
            Ends("invalid", Id("h") \o At("q", "0"))}

MCPrograms ==
    {<<>>, <<Stray>>} \cup
    {<<Kernel("f", typed, <<s>>)>> : typed \in BOOLEAN, s \in Statements} \cup
    {<<Kernel("f", TRUE, <<s, t>>)>> : s \in Statements, t \in Statements} \cup
    {<<Kernel("f", FALSE, <<s>>), Kernel(name, FALSE, <<t>>), Kernel("g", FALSE, <<u>>)>> :
        name \in {"f", "g"}, s \in Linking, t \in Linking, u \in Linking} \cup
    {<<Kernel("f", FALSE, <<s>>), Stray, Kernel("g", FALSE, <<t>>)>> :
        s \in Linking, t \in Linking}

MCTexts == {TextOfProgram(p) : p \in Programs}

MCInit == /\ source \in Programs
          /\ ListenerInit /\ ParserInit(Tokens(TextOfProgram(source)))
MCNext == Next /\ UNCHANGED source
MCSpec == MCInit /\ [][MCNext]_<<source, compilerVars>> /\ WF_<<source, compilerVars>>(MCNext)

-----------------------------------------------------------------------------
(* What a source means *)

(* xaccsrc() returns at the first token that begins no kernel *)
Read == LET strays == {i \in DOMAIN source : source[i] = Stray} IN
        IF strays = {} THEN source ELSE SubSeq(source, 1, Min(strays) - 1)

Callees(k, name) == {j \in 1..k : Read[j].name = name}

(* How the statement ends the compilation, "" if it does not *)
EndOf(k, s) ==
    IF s.callee # "" /\ Callees(k, s.callee) = {} THEN "exited"
    ELSE s.ends

BodyOf(k) == FlattenSeq([i \in DOMAIN Read[k].statements |->
                LET s == Read[k].statements[i] IN
                IF s.callee = "" THEN s.makes ELSE <<Call(Min(Callees(k, s.callee)))>>])

EndsOfProgram == FlattenSeq([k \in DOMAIN Read |->
                    [i \in DOMAIN Read[k].statements |-> EndOf(k, Read[k].statements[i])]])

Invalid == \E k \in DOMAIN Read : \E i \in DOMAIN Read[k].statements :
                Read[k].statements[i].ends = "invalid"

Outcome ==
    IF Invalid THEN "exited"
    ELSE LET ends == SelectSeq(EndsOfProgram, LAMBDA e : e # "") IN
         IF ends = <<>> THEN "done" ELSE ends[1]

Ended == status \in {"done", "exited", "crashed", "thrown"}

(* A compilation ends as its source says, and then every kernel holds what its  *)
(* statements mean, in their order: one gate for each, with its qubits, defaults *)
(* and angles, and calls to the kernels named; declarations add nothing.  (The   *)
(* parser's choices between alternatives, and the listener, :76-195.)            *)
CompiledMeansSource ==
    /\ Ended => status = Outcome
    /\ status = "done" =>
        /\ Len(kernels) = Len(Read)
        /\ \A k \in DOMAIN Read :
            kernels[k].name = Read[k].name /\ kernels[k].body = BodyOf(k)

(* A source with a syntax error makes no kernel, even of those before the error: *)
(* OQASMErrorListener ends the process while the listener has not begun.         *)
InvalidMakesNothing == Invalid => kernels = <<>> /\ ir = <<>>

(* Every compilation ends: no text makes the parser or the walk go on for ever. *)
CompileEnds == <>Ended

(* compiler/OQASM2.g4: "A classical conditional expression", "The program *)
(* defining the gate".  Neither acts by standing in a kernel.             *)
GuardedStaysGuarded ==
    status = "done" => \A k \in DOMAIN Read : Len(kernels[k].body) <= Len(BodyOf(k))
=============================================================================
