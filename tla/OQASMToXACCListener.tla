------------------------ MODULE OQASMToXACCListener ------------------------
(***************************************************************************)
(* compiler/OQASMToXACCListener.cpp: the callbacks that turn the parse     *)
(* tree of an OpenQASM source into kernels.  A walk of the tree is the     *)
(* sequence of the callbacks the listener overrides, each with what it     *)
(* reads of its context.                                                   *)
(*                                                                         *)
(* Functions are shared pointers, here places in kernels: the map          *)
(* functions, curFunc and the instructions that call a kernel all point to *)
(* the same objects.                                                       *)
(***************************************************************************)
EXTENDS Naturals, Sequences

CONSTANTS
    Words,        \* texts of tokens
    Names,        \* identifiers
    Capitalized,  \* an identifier with its first letter in upper case
    Registry,     \* gates createInstruction knows, and how many parameters each has
    Numerals,     \* texts of INT tokens
    OutOfRange,   \* what std::stoi makes of a numeral too long for an int
    Stoi,         \* numeral -> its value, or OutOfRange
    Evaluable,    \* texts exprtk evaluates to a number
    NoNode        \* a null pointer where a child of a context was asked for

ASSUME RegistryAssumption ==
    /\ \A gate \in DOMAIN Registry : Registry[gate] \in Nat
    /\ {"U", "CNOT", "Measure"} \subseteq DOMAIN Registry
    /\ Registry["U"] = 3 /\ Registry["CNOT"] = 0 /\ Registry["Measure"] = 1
    /\ "call" \notin DOMAIN Registry

(* Texts of expressions, token by token *)
Expressions == Seq(Words)

ASSUME TextsAssumption ==
    /\ Names \subseteq DOMAIN Capitalized
    /\ Numerals \subseteq Words \cap DOMAIN Stoi
    /\ {"0", "pi", "/", "2"} \subseteq Words
    /\ \A n \in Numerals : Stoi[n] \in Nat \/ Stoi[n] = OutOfRange
    /\ OutOfRange \notin Nat
    /\ NoNode \notin Numerals
    /\ NoNode \notin Seq(Expressions)

VARIABLES
    status,     \* ready, walking, done; or how it ended: exited, crashed, thrown
    walk,       \* callbacks to come
    kernels,    \* every function made, in the order it was
    functions,  \* name -> place in kernels
    curFunc,    \* place in kernels, 0 a null pointer
    ir          \* kernels added to the IR, by their places

listenerVars == <<status, walk, kernels, functions, curFunc, ir>>

Callbacks == {"enterXacckernel", "exitXacckernel", "exitKernelcall", "exitU",
              "exitCX", "exitUserDefGate", "exitMeasure"}

(* What callbacks read of their contexts: a name, the INT of each qubit or bit, *)
(* the texts of expressions or parameters (NoNode without a list of them)       *)
Event == {e \in [on : Callbacks, name : Names,
                 ints : Seq(Numerals \cup {NoNode}),
                 texts : Seq(Expressions) \cup {NoNode}] :
            /\ e.on = "enterXacckernel" => e.texts # NoNode
            /\ e.on = "exitMeasure" => Len(e.ints) = 2}

(* Callbacks come as the grammar nests them: kernels one after the other, and *)
(* everything else within one.                                                *)
WellNested(w) ==
    \A i \in 1..Len(w) :
        /\ w[i].on = "enterXacckernel" <=> (i = 1 \/ w[i - 1].on = "exitXacckernel")
        /\ i = Len(w) => w[i].on = "exitXacckernel"

-----------------------------------------------------------------------------
Double(text) == [type |-> "double", text |-> text]
Variable(text) == [type |-> "string", text |-> text]
Integer(numeral) == [type |-> "int", text |-> <<numeral>>]
Zero == <<"0">>
HalfPi == <<"pi", "/", "2">>

(* A text exprtk cannot evaluate, a NaN, is kept as the name of a variable *)
strToParam(text) == IF text \in Evaluable THEN Double(text) ELSE Variable(text)

(* IRProvider::createInstruction of a gate it knows; a call holds its callee *)
Instruction(gate, bits, params) ==
    [gate |-> gate, bits |-> bits, params |-> params, callee |-> 0]
createInstruction(gate, bits) ==
    Instruction(gate, bits, [i \in 1..Registry[gate] |-> Double(Zero)])
Call(callee) == [gate |-> "call", bits |-> <<>>, params |-> <<>>, callee |-> callee]

(* setParameter for each text, from place `first' on *)
WithParameters(instruction, first, texts) ==
    [instruction EXCEPT !.params =
        [i \in DOMAIN @ |-> IF i \in first .. first + Len(texts) - 1
                            THEN strToParam(texts[i - first + 1]) ELSE @[i]]]

(* getText() of a null INT, or std::stoi, on the first numeral that has no value *)
Valued(int) == int # NoNode /\ Stoi[int] # OutOfRange
Unvalued(ints) == {i \in DOMAIN ints : ~ Valued(ints[i])}
Fault(ints) ==
    LET first == CHOOSE i \in Unvalued(ints) : \A j \in Unvalued(ints) : i <= j
    IN  IF ints[first] = NoNode THEN "crashed" ELSE "thrown"
Bits(ints) == [i \in DOMAIN ints |-> Stoi[ints[i]]]

-----------------------------------------------------------------------------
event == Head(walk)
On(callback) == status = "walking" /\ walk # <<>> /\ event.on = callback

Left(how) == status' = how /\ UNCHANGED <<walk, kernels, functions, curFunc, ir>>

addInstruction(instruction) ==
    /\ kernels' = [kernels EXCEPT ![curFunc].body = Append(@, instruction)]
    /\ walk' = Tail(walk)
    /\ UNCHANGED <<status, functions, curFunc, ir>>

\* Variant: functions[name] = function.
assign(named, function) ==
    [name \in DOMAIN functions \cup {named} |->
        IF name = named THEN function ELSE functions[name]]

(* functions.insert leaves an entry of the same name as it is *)
insert(named, function) ==
    [name \in DOMAIN functions \cup {named} |->
        IF name \in DOMAIN functions THEN functions[name] ELSE function]

enterXacckernel ==
    /\ On("enterXacckernel")
    /\ kernels' = Append(kernels,
                    [name |-> event.name, body |-> <<>>,
                     params |-> [i \in DOMAIN event.texts |-> Variable(event.texts[i])]])
    /\ curFunc' = Len(kernels')
    /\ functions' = insert(event.name, curFunc')
    /\ walk' = Tail(walk)
    /\ UNCHANGED <<status, ir>>

\* Variant: a kernel is added if its name is new.
AddedByName(function) ==
    IF functions[kernels[function].name] = function THEN Append(ir, function) ELSE ir

(* ir->addKernel *)
addKernel(function) == Append(ir, function)

exitXacckernel ==
    /\ On("exitXacckernel")
    /\ ir' = addKernel(curFunc)
    /\ walk' = Tail(walk)
    /\ UNCHANGED <<status, kernels, functions, curFunc>>

(* The arguments of a call are not read *)
exitKernelcall ==
    /\ On("exitKernelcall")
    /\ IF event.name \in DOMAIN functions
       THEN addInstruction(Call(functions[event.name]))
       ELSE Left("exited")

exitU ==
    /\ On("exitU")
    /\ IF Unvalued(event.ints) # {} THEN Left(Fault(event.ints))
       ELSE IF event.texts = NoNode THEN Left("crashed")
       ELSE IF Len(event.texts) < 3 THEN Left("crashed")
       ELSE addInstruction(WithParameters(createInstruction("U", Bits(event.ints)), 1,
                                          SubSeq(event.texts, 1, 3)))

exitCX ==
    /\ On("exitCX")
    /\ IF Unvalued(event.ints) # {} THEN Left(Fault(event.ints))
       ELSE addInstruction(createInstruction("CNOT", Bits(event.ints)))

\* Variant: angles are written from the first place on.
AnglesFirst(name) ==
    IF name \in {"U1", "U2", "U3"} THEN [gate |-> "U", first |-> 1]
    ELSE [gate |-> name, first |-> 1]

(* The XACC gate an OpenQASM gate is made of and the place of its first written *)
(* parameter                                                                    *)
GateOf(name) ==
    CASE name = "U1" -> [gate |-> "U", first |-> 3]
      [] name = "U2" -> [gate |-> "U", first |-> 2]
      [] name = "U3" -> [gate |-> "U", first |-> 1]
      [] OTHER -> [gate |-> name, first |-> 1]

\* Variant: the default angle is put before the others.
Inserted(name, instruction) ==
    IF name = "U2" THEN [instruction EXCEPT !.params = <<Double(HalfPi)>> \o @]
    ELSE instruction

(* The angle of U2 that the source does not write *)
Defaults(name, instruction) ==
    IF name = "U2" THEN [instruction EXCEPT !.params[1] = Double(HalfPi)]
    ELSE instruction

Written == IF event.texts = NoNode THEN <<>> ELSE event.texts

(* createInstruction refuses unknown gates, setParameter places a gate does not *)
(* have                                                                         *)
exitUserDefGate ==
    /\ On("exitUserDefGate")
    /\ LET name == Capitalized[event.name]
           as == GateOf(name)
       IN  IF Unvalued(event.ints) # {} THEN Left(Fault(event.ints))
           ELSE IF name = "Cx" THEN addInstruction(createInstruction("CNOT", Bits(event.ints)))
           ELSE IF as.gate \notin DOMAIN Registry THEN Left("exited")
           ELSE IF as.first + Len(Written) - 1 > Registry[as.gate] /\ Written # <<>>
                THEN Left("exited")
           ELSE addInstruction(WithParameters(
                    Defaults(name, createInstruction(as.gate, Bits(event.ints))),
                    as.first, Written))

exitMeasure ==
    /\ On("exitMeasure")
    /\ IF Unvalued(event.ints) # {} THEN Left(Fault(event.ints))
       ELSE addInstruction(Instruction("Measure", <<Stoi[event.ints[1]]>>,
                                       <<Integer(event.ints[2])>>))

(* The walk of a tree begins, and ends with its last callback *)
Walk ==
    /\ status = "ready" /\ status' = "walking"
    /\ walk' \in Seq(Event) /\ WellNested(walk')
    /\ UNCHANGED <<kernels, functions, curFunc, ir>>

\* Variant: it returns an IR with a kernel only, and never one without.
ReturnsWithKernel ==
    /\ status = "walking" /\ walk = <<>> /\ ir # <<>>
    /\ Left("done")

Return ==
    /\ status = "walking" /\ walk = <<>>
    /\ Left("done")

(* The source is refused before there is a tree *)
NoTree == status = "ready" /\ Left("exited")

Listen == enterXacckernel \/ exitXacckernel \/ exitKernelcall \/ exitU \/ exitCX
            \/ exitUserDefGate \/ exitMeasure

ListenerInit ==
    /\ status = "ready"
    /\ walk = <<>> /\ kernels = <<>> /\ ir = <<>>
    /\ functions = [name \in {} |-> 0]
    /\ curFunc = 0

ListenerNext == NoTree \/ Walk \/ Listen \/ Return

ListenerSpec == ListenerInit /\ [][ListenerNext]_listenerVars

-----------------------------------------------------------------------------
Parameter == [type : {"double", "string", "int"}, text : Seq(Words)]
Instructions ==
    {i \in [gate : DOMAIN Registry \cup {"call"}, bits : Seq(Nat),
            params : Seq(Parameter), callee : Nat] :
        i.gate # "call" => Len(i.params) = Registry[i.gate]}
Kernels == [name : Names, params : Seq(Parameter), body : Seq(Instructions)]

(* Every value is of its kind, a gate has its number of parameters, and *)
(* pointers point to functions there are.                               *)
TypeOK ==
    /\ status \in {"ready", "walking", "done", "exited", "crashed", "thrown"}
    /\ walk \in Seq(Event)
    /\ kernels \in Seq(Kernels)
    /\ DOMAIN functions \subseteq Names
    /\ \A name \in DOMAIN functions : functions[name] \in 1..Len(kernels)
    /\ curFunc \in 0..Len(kernels)
    /\ ir \in Seq(1..Len(kernels))

(* A call goes to the first kernel of its name, never to one made after its    *)
(* caller: so kernels do not call in circles, self-calls apart, and the callee *)
(* is the one IR::getKernel answers, whatever the text defines again (:85).    *)
FirstOfItsName(k, made) == \A j \in 1..(k - 1) : made[j].name # made[k].name
CallsGoBack ==
    \A k \in 1..Len(kernels) : \A i \in 1..Len(kernels[k].body) :
        LET instruction == kernels[k].body[i] IN
        instruction.gate = "call" =>
            instruction.callee \in 1..k /\ FirstOfItsName(instruction.callee, kernels)

(* The IR that compile returns holds every kernel once, in the order of the *)
(* source: none is left open, none added twice (exitXacckernel, :88).       *)
IRInOrder == status = "done" => ir = [k \in 1..Len(kernels) |-> k]
=============================================================================
