---------------------------- MODULE OQASM2Parser ----------------------------
(***************************************************************************)
(* The parser the compiler runs over OpenQASM text, compiler/generated/    *)
(* OQASM2Parser.cpp: one function per rule, each calling the functions of  *)
(* its parts.  Here a rule is data, the sequence of its alternatives, and  *)
(* the functions are one machine over a stack of calls: a frame holds the  *)
(* rule being parsed, what its function has still to do and the children   *)
(* its context has so far.                                                 *)
(*                                                                         *)
(* Token types carry the names of the generated vocabulary, literals in    *)
(* quotes; every other symbol is a key of Grammar.  A symbol with a `*' or *)
(* `?' is a loop or option inside a function and has no context.           *)
(***************************************************************************)
EXTENDS ParseTree, FiniteSetsExt

CONSTANTS Lookahead     \* tokens adaptivePredict looks at; ANTLR needs no bound

ASSUME LookaheadAssumption == Lookahead \in Nat \ {0}

VARIABLES
    stream,  \* the tokens of the CommonTokenStream
    input,   \* those not consumed
    stack,   \* calls of rule functions, the running one last
    tree     \* what xaccsrc() returned

parserVars == <<stream, input, stack, tree>>

Optional(x, default) == <<x, default>>
Loop(x, loop) == << Append(x, loop), <<>> >>
AnyOf(types) == [i \in DOMAIN types |-> <<types[i]>>]

-----------------------------------------------------------------------------
(* Rules particular to XACC *)

xaccsrc == << <<"xacckernel*">> >>
xacckernel == << <<"'__qpu__'", "id", "'('", "'AcceleratorBuffer'", "id",
                   "typedparam*", "')'", "'{'", "mainprog", "'}'">> >>
typedparam == << <<"type", "param">> >>
type == AnyOf(<<"'int'", "'double'", "'float'">>)
kernelcall == << <<"id", "'('", "param?", "param*", "')'">> >>

(* Programs, lines and statements *)

mainprog == << <<"comment*", "OPENQASM", "real", "';'", "program?">> >>
program == << <<"line", "line*">> >>
line == << <<"statement", "statement*">>, <<"comment">>,
           <<"include", "include*">> >>
statement == << <<"regdecl", "';'">>, <<"gatedecl">>, <<"opaque", "';'">>,
                <<"qop", "';'">>, <<"conditional", "';'">>,
                <<"kernelcall", "';'">> >>
comment == << <<"COMMENT">> >>
include == << <<"'include'", "filename", "';'">> >>
filename == << <<"string">> >>

(* Declarations *)

regdecl == << <<"qreg", "qregister">>, <<"creg", "cregister">> >>
qregister == << <<"id", "'['", "registersize", "']'">>, <<"id">> >>
cregister == << <<"id", "'['", "registersize", "']'">>, <<"id">> >>
registersize == << <<"INT">> >>
gatedecl == << <<"gate", "gatename", "gatearglist", "gatebody?">> >>
gatename == << <<"id">>, <<"id", "'('", "paramlist?", "')'">> >>
gatearglist == << <<"gatearg", "gatearg*">> >>
gatearg == << <<"id", "'['", "INT", "']'">>, <<"id">> >>
gatebody == << <<"'{'", "gateprog", "'}'">> >>
gateprog == << <<"gateline*">> >>
gateline == << <<"uop", "';'">> >>
paramlist == << <<"param", "paramlist,?">> >>
param == << <<"id">> >>
opaque == << <<"OPAQUE", "opaquename", "opaquearglist">> >>
opaquename == << <<"id">>, <<"id", "'('", "paramlist?", "')'">> >>
opaquearglist == << <<"opaquearg", "opaquearglist?">> >>
opaquearg == << <<"id", "'['", "INT", "']'">> >>

(* Operations; the three alternatives of uop have contexts of their own *)

qop == << <<"uop">>, <<"reeset">>, <<"measure">>, <<"barrier">> >>
uop == << <<"U">>, <<"CX">>, <<"UserDefGate">> >>
U == << <<"'U'", "'('", "explist?", "')'", "gatearg">> >>
CX == << <<"'CX'", "gatearg", "','", "gatearg">> >>
UserDefGate == << <<"gatename", "(explist)?", "gatearglist">> >>
conditional == << <<"'if'", "'('", "id", "'=='", "INT", "')'", "action">> >>
action == << <<"qop">> >>
measure == << <<"MEASURE", "qbit", "'->'", "cbit">> >>
reeset == << <<"RESET", "resettable">> >>
barrier == << <<"BARRIER", "gatearglist">> >>

(* Expressions.  Precedence, which decides how contexts of exp nest and not *)
(* which texts they span, is left out: an exp is a chain of operands.       *)

explist == << <<"exp", "exp*">> >>
exp == << <<"operand", "operand*">> >>
operand == << <<"real">>, <<"INT">>, <<"'pi'">>, <<"id">>,
              <<"'-'", "operand">>, <<"'('", "exp", "')'">>,
              <<"unaryop", "'('", "exp", "')'">> >>
Operation(symbol) == <<symbol, "operand", "operand*">>
operators == << Operation("'+'"), Operation("'-'"), Operation("'*'"),
                Operation("'/'"), Operation("'^'"), <<>> >>
unaryop == AnyOf(<<"'sin'", "'cos'", "'tan'", "'exp'", "'ln'", "'sqrt'">>)

(* Terminals with a context of their own *)

qreg == << <<"QREG">> >>
creg == << <<"CREG">> >>
gate == << <<"GATE">> >>
id == << <<"ID">> >>
real == << <<"REAL">> >>
string == << <<"STRING">> >>

Rules ==
    [xaccsrc |-> xaccsrc, xacckernel |-> xacckernel, typedparam |-> typedparam,
     type |-> type, kernelcall |-> kernelcall, mainprog |-> mainprog,
     program |-> program, line |-> line, statement |-> statement,
     comment |-> comment, include |-> include, filename |-> filename,
     regdecl |-> regdecl, qregister |-> qregister, cregister |-> cregister,
     registersize |-> registersize, gatedecl |-> gatedecl, gatename |-> gatename,
     gatearglist |-> gatearglist, gatearg |-> gatearg, gatebody |-> gatebody,
     gateprog |-> gateprog, gateline |-> gateline, paramlist |-> paramlist,
     param |-> param, opaque |-> opaque, opaquename |-> opaquename,
     opaquearglist |-> opaquearglist, opaquearg |-> opaquearg, qop |-> qop,
     U |-> U, CX |-> CX, UserDefGate |-> UserDefGate,
     conditional |-> conditional, action |-> action, explist |-> explist,
     exp |-> exp, unaryop |-> unaryop, qreg |-> qreg, creg |-> creg,
     gate |-> gate, measure |-> measure, reeset |-> reeset,
     barrier |-> barrier, id |-> id, real |-> real, string |-> string]

(* The loops and options the functions decide on one token, LA(1) *)
Branches ==
    [symbol \in {"xacckernel*", "typedparam*", "param?", "param*", "comment*",
                 "program?", "line*", "gatebody?", "gatearg*", "gateline*",
                 "paramlist?", "paramlist,?", "opaquearglist?", "explist?",
                 "(explist)?", "exp*", "uop", "operand"} |->
        CASE symbol = "xacckernel*" -> Loop(<<"xacckernel">>, symbol)
          [] symbol = "typedparam*" -> Loop(<<"','", "typedparam">>, symbol)
          [] symbol = "param?" -> Optional(<<"param">>, <<>>)
          [] symbol = "param*" -> Loop(<<"','", "param">>, symbol)
          [] symbol = "comment*" -> Loop(<<"comment">>, symbol)
          [] symbol = "program?" -> Optional(<<"program">>, <<>>)
          [] symbol = "line*" -> Loop(<<"line">>, symbol)
          [] symbol = "gatebody?" -> Optional(<<"gatebody">>, <<>>)
          [] symbol = "gatearg*" -> Loop(<<"','", "gatearg">>, symbol)
          [] symbol = "gateline*" -> Loop(<<"gateline">>, symbol)
          [] symbol = "paramlist?" -> Optional(<<"paramlist">>, <<>>)
          [] symbol = "paramlist,?" -> Optional(<<"','", "paramlist">>, <<>>)
          [] symbol = "opaquearglist?" -> Optional(<<"','", "opaquearglist">>, <<>>)
          [] symbol = "explist?" -> Optional(<<"explist">>, <<>>)
          [] symbol = "(explist)?" -> Optional(<<"'('", "explist", "')'">>, <<>>)
          [] symbol = "exp*" -> Loop(<<"','", "exp">>, symbol)
          [] symbol = "uop" -> uop
          [] symbol = "operand" -> operand]

(* and those they leave to adaptivePredict, as they do the rules named last *)
AdaptiveBranches ==
    [symbol \in {"statement*", "include*", "operand*", "qbit", "cbit", "resettable"} |->
        CASE symbol = "statement*" -> Loop(<<"statement">>, symbol)
          [] symbol = "include*" -> Loop(<<"include">>, symbol)
          [] symbol = "operand*" -> operators
          [] symbol = "qbit" -> << <<"gatearg">>, <<"qregister">> >>
          [] symbol = "cbit" -> << <<"gatearg">>, <<"cregister">> >>
          [] symbol = "resettable" -> << <<"gatearg">>, <<"qregister">>, <<"cregister">> >>]

Adaptive == DOMAIN AdaptiveBranches \cup
            {"statement", "qregister", "cregister", "gatename", "gatearg",
             "opaquename"}

Grammar ==
    [symbol \in DOMAIN Rules \cup DOMAIN Branches \cup DOMAIN AdaptiveBranches |->
        CASE symbol \in DOMAIN Rules -> Rules[symbol]
          [] symbol \in DOMAIN Branches -> Branches[symbol]
          [] symbol \in DOMAIN AdaptiveBranches -> AdaptiveBranches[symbol]]

Symbols == UNION {UNION {Range(Grammar[rule][i]) : i \in DOMAIN Grammar[rule]} :
                    rule \in DOMAIN Grammar}
\* An EOL, two characters, is no white space, and no rule takes it.
TokenTypes == (Symbols \ DOMAIN Grammar) \cup {"EOL"}

-----------------------------------------------------------------------------
(* Prediction *)

(* The symbols can begin with the first k tokens.  Nothing has to follow the *)
(* last kernel: xaccsrc does not ask for the end of the input.               *)
Viable(symbols, tokens, k) ==
    LET viable[p \in Seq(Symbols) \X (0..k)] ==
            LET s == p[1]
                n == p[2]
            IN  \/ n = k \/ s = <<>>
                \/ IF Head(s) \in DOMAIN Grammar
                   THEN \E i \in DOMAIN Grammar[Head(s)] :
                            viable[<<Grammar[Head(s)][i] \o Tail(s), n>>]
                   ELSE /\ n < Len(tokens)
                        /\ tokens[n + 1].type = Head(s)
                        /\ viable[<<Tail(s), n + 1>>]
    IN  viable[<<symbols, 0>>]

running == Last(stack)

(* What is left to do in the calls on the stack, the innermost first *)
Continuation == FlattenSeq(Reverse([i \in DOMAIN stack |->
                    IF i = Len(stack) THEN Tail(stack[i].rest) ELSE stack[i].rest]))

(* The alternatives a decision could take.  It takes the first; a function *)
(* without a decision does not look ahead.                                 *)
Candidates(symbol) ==
    LET alternatives == Grammar[symbol] IN
    {i \in DOMAIN alternatives :
        \/ Len(alternatives) = 1
        \/ IF symbol \in Adaptive
           THEN \E symbols \in {alternatives[i] \o Continuation} :
                    Viable(symbols, input, Lookahead)
           ELSE Viable(alternatives[i], input, 1)}

-----------------------------------------------------------------------------
Frame(rule, todo) == [rule |-> rule, rest |-> todo, children |-> <<>>]

(* The running call, gone on to its next symbol with the steps todo before it *)
GoneOn(todo) == [running EXCEPT !.rest = todo \o Tail(@)]

(* match(type), consume() *)
match ==
    /\ stack # <<>> /\ running.rest # <<>> /\ input # <<>>
    /\ Head(running.rest) = Head(input).type
    /\ input' = Tail(input)
    /\ stack' = Append(Front(stack), [GoneOn(<<>>) EXCEPT
                    !.children = Append(@, Token(Head(input)))])
    /\ UNCHANGED <<stream, tree>>

(* A decision inside a function, its outcome put in its place *)
branch ==
    /\ stack # <<>> /\ running.rest # <<>>
    /\ LET symbol == Head(running.rest) IN
        /\ symbol \in DOMAIN Grammar \ DOMAIN Rules
        /\ Candidates(symbol) # {}
        /\ stack' = Append(Front(stack),
                           GoneOn(Grammar[symbol][Min(Candidates(symbol))]))
    /\ UNCHANGED <<stream, input, tree>>

(* The call of a rule's function, up to its first step *)
enterRule ==
    /\ stack # <<>> /\ running.rest # <<>>
    /\ LET symbol == Head(running.rest) IN
        /\ symbol \in DOMAIN Rules
        /\ Candidates(symbol) # {}
        /\ stack' = Front(stack) \o
                    <<GoneOn(<<>>), Frame(symbol, Rules[symbol][Min(Candidates(symbol))])>>
    /\ UNCHANGED <<stream, input, tree>>

(* Its return: the context becomes a child of its caller's *)
exitRule ==
    /\ stack # <<>> /\ running.rest = <<>>
    /\ LET node == Context(running.rule, running.children)
           callers == Front(stack)
       IN  IF callers = <<>>
           THEN stack' = <<>> /\ tree' = node
           ELSE /\ stack' = Append(Front(callers), [Last(callers) EXCEPT
                                                    !.children = Append(@, node)])
                /\ UNCHANGED tree
    /\ UNCHANGED <<stream, input>>

(* A RecognitionException, or an error met by sync *)
Unexpected ==
    /\ stack # <<>> /\ running.rest # <<>>
    /\ LET symbol == Head(running.rest) IN
        IF symbol \in DOMAIN Grammar
        THEN Candidates(symbol) = {}
        ELSE input = <<>> \/ Head(input).type # symbol

(* OQASMErrorListener ends the process *)
syntaxError ==
    /\ Unexpected
    /\ stack' = <<>>
    /\ UNCHANGED <<stream, input, tree>>

ParserInit(tokens) ==
    /\ stream = tokens
    /\ input = tokens
    /\ stack = <<Frame("xaccsrc", xaccsrc[1])>>
    /\ tree = NoNode

ParserNext == match \/ branch \/ enterRule \/ exitRule
=============================================================================
