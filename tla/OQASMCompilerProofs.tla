------------------------ MODULE OQASMCompilerProofs ------------------------
(***************************************************************************)
(* What holds of the listener for every well-nested walk of every tree,    *)
(* and that the parser hands it no other: so what is proved of the         *)
(* listener holds of the compiler, whatever the source.                    *)
(***************************************************************************)
EXTENDS OQASMCompiler, FlattenLemmas, TLAPS


-----------------------------------------------------------------------------
(* The instructions the callbacks make *)

LEMMA StringSeqs == Zero \in Seq(Words) /\ HalfPi \in Seq(Words)
<1>1. \A a, b, c \in Words : <<a>> \in Seq(Words) /\ <<a, b, c>> \in Seq(Words)
  BY SMT
<1> QED
  BY <1>1, TextsAssumption, Zenon DEF Zero, HalfPi

LEMMA EventFacts ==
    ASSUME NEW w \in Seq(Event), w # <<>>
    PROVE  /\ Head(w) \in Event /\ Tail(w) \in Seq(Event)
           /\ Head(w).on \in Callbacks /\ Head(w).name \in Names
           /\ Head(w).ints \in Seq(Numerals \cup {NoNode})
           /\ Head(w).texts # NoNode => Head(w).texts \in Seq(Seq(Words))
           /\ Head(w).on = "enterXacckernel" => Head(w).texts # NoNode
           /\ Head(w).on = "exitMeasure" => Len(Head(w).ints) = 2
<1>1. Head(w) \in Event /\ Tail(w) \in Seq(Event)
  BY SMT
<1> QED
  BY <1>1, SMT DEF Event, Expressions

LEMMA BitsType ==
    ASSUME NEW ints \in Seq(Numerals \cup {NoNode}), Unvalued(ints) = {}
    PROVE  /\ Bits(ints) \in Seq(Nat)
           /\ \A i \in 1..Len(ints) : ints[i] \in Numerals /\ Stoi[ints[i]] \in Nat
<1>1. ASSUME NEW i \in 1..Len(ints)
      PROVE  ints[i] \in Numerals /\ Stoi[ints[i]] \in Nat
  <2>1. i \in DOMAIN ints /\ ints[i] \in Numerals \cup {NoNode}
    BY SMT
  <2>2. Valued(ints[i])
    BY <2>1, Zenon DEF Unvalued
  <2> QED
    BY <2>1, <2>2, TextsAssumption, Zenon DEF Valued
<1>2. Bits(ints) = [i \in 1..Len(ints) |-> Stoi[ints[i]]]
  BY SMT DEF Bits
<1>3. \A i \in 1..Len(ints) : Stoi[ints[i]] \in Nat
  BY <1>1
<1>4. [i \in 1..Len(ints) |-> Stoi[ints[i]]] \in Seq(Nat)
  BY <1>3, SMT
<1> QED
  BY <1>1, <1>2, <1>4

LEMMA ParamType ==
    ASSUME NEW text \in Seq(Words)
    PROVE  /\ strToParam(text) \in Parameter
           /\ Double(text) \in Parameter
           /\ Variable(text) \in Parameter
BY SMT DEF strToParam, Double, Variable, Parameter

LEMMA CreatedType ==
    ASSUME NEW g \in DOMAIN Registry, NEW bits \in Seq(Nat)
    PROVE  /\ createInstruction(g, bits) \in Instructions
           /\ createInstruction(g, bits).gate = g
<1>1. Registry[g] \in Nat /\ Double(Zero) \in Parameter /\ g # "call"
  BY RegistryAssumption, StringSeqs, ParamType, Zenon
<1> DEFINE params == [i \in 1..Registry[g] |-> Double(Zero)]
<1>2. params \in Seq(Parameter) /\ Len(params) = Registry[g]
  BY <1>1, SMT
<1> QED
  BY <1>1, <1>2, SMT DEF createInstruction, Instruction, Instructions

LEMMA ParamsReplaced ==
    ASSUME NEW G, NEW B, NEW P, NEW C, NEW p \in P,
           NEW made \in [gate : G, bits : B, params : P, callee : C]
    PROVE  /\ [made EXCEPT !.params = p] \in [gate : G, bits : B, params : P, callee : C]
           /\ [made EXCEPT !.params = p].gate = made.gate
           /\ [made EXCEPT !.params = p].params = p
BY SMT

LEMMA WithType ==
    ASSUME NEW made \in Instructions, made.gate # "call", NEW first \in Nat \ {0},
           NEW texts \in Seq(Seq(Words))
    PROVE  /\ WithParameters(made, first, texts) \in Instructions
           /\ WithParameters(made, first, texts).gate = made.gate
<1> DEFINE params == [i \in 1..Len(made.params) |->
                        IF i \in first .. first + Len(texts) - 1
                        THEN strToParam(texts[i - first + 1]) ELSE made.params[i]]
<1>1. made.params \in Seq(Parameter) /\ Len(made.params) = Registry[made.gate]
      /\ DOMAIN made.params = 1..Len(made.params) /\ Len(made.params) \in Nat
  BY SMT DEF Instructions
<1>2. ASSUME NEW i \in 1..Len(made.params)
      PROVE  (IF i \in first .. first + Len(texts) - 1
              THEN strToParam(texts[i - first + 1]) ELSE made.params[i]) \in Parameter
  <2>1. CASE i \in first .. first + Len(texts) - 1
    <3>1. texts[i - first + 1] \in Seq(Words)
      BY <2>1, SMT
    <3> QED
      BY <2>1, <3>1, ParamType, Zenon
  <2>2. CASE i \notin first .. first + Len(texts) - 1
    <3>1. made.params[i] \in Parameter
      BY <1>1, SMT
    <3> QED
      BY <2>2, <3>1, Zenon
  <2> QED
    BY <2>1, <2>2
<1>3. params \in [1..Len(made.params) -> Parameter]
  BY <1>2, Zenon
<1>4. /\ params \in Seq(Parameter) /\ Len(params) = Len(made.params)
  <2> HIDE DEF params
  <2> QED
    BY <1>1, <1>3, SMTT(40)
<1>5. WithParameters(made, first, texts) = [made EXCEPT !.params = params]
  BY <1>1, Zenon DEF WithParameters
<1> HIDE DEF params
<1>6. made \in [gate : DOMAIN Registry \cup {"call"}, bits : Seq(Nat),
               params : Seq(Parameter), callee : Nat]
  BY Zenon DEF Instructions
<1>7. /\ [made EXCEPT !.params = params] \in
            [gate : DOMAIN Registry \cup {"call"}, bits : Seq(Nat),
             params : Seq(Parameter), callee : Nat]
      /\ [made EXCEPT !.params = params].gate = made.gate
      /\ [made EXCEPT !.params = params].params = params
  BY <1>4, <1>6, ParamsReplaced, Zenon
<1> QED
  BY <1>1, <1>4, <1>5, <1>7, Zenon DEF Instructions

LEMMA CallType ==
    ASSUME NEW callee \in Nat
    PROVE  Call(callee) \in Instructions /\ Call(callee).callee = callee
BY SMT DEF Call, Instructions

-----------------------------------------------------------------------------
(* The inductive invariant.  Inside a kernel the walk has its exit still to *)
(* come, and the kernel is the last one made; the IR has those before it.   *)

Inside == walk # <<>> /\ walk[1].on # "enterXacckernel"

Nesting ==
    /\ \A i \in 2..Len(walk) :
        walk[i].on = "enterXacckernel" <=> walk[i - 1].on = "exitXacckernel"
    /\ walk # <<>> => walk[Len(walk)].on = "exitXacckernel"

WalkInv ==
    status = "walking" =>
        /\ Nesting
        /\ curFunc = Len(kernels)
        /\ Inside => Len(kernels) > 0
        /\ ir = [k \in 1..(IF Inside THEN Len(kernels) - 1 ELSE Len(kernels)) |-> k]

ReadyInv == status = "ready" => walk = <<>> /\ kernels = <<>> /\ ir = <<>> /\ curFunc = 0

(* functions maps every name of a kernel to the first that has it *)
FunctionsInv ==
    /\ \A k \in 1..Len(kernels) : kernels[k].name \in DOMAIN functions
    /\ \A name \in DOMAIN functions :
        kernels[functions[name]].name = name /\ FirstOfItsName(functions[name], kernels)

ListenerInv == TypeOK /\ CallsGoBack /\ IRInOrder /\ WalkInv /\ ReadyInv /\ FunctionsInv

LEMMA KernelFacts ==
    ASSUME NEW K \in Kernels
    PROVE  K.name \in Names /\ K.params \in Seq(Parameter) /\ K.body \in Seq(Instructions)
BY SMT DEF Kernels

LEMMA BodyReplaced ==
    ASSUME NEW N, NEW P, NEW B, NEW body \in B,
           NEW K \in [name : N, params : P, body : B]
    PROVE  /\ [K EXCEPT !.body = body] \in [name : N, params : P, body : B]
           /\ [K EXCEPT !.body = body].name = K.name
           /\ [K EXCEPT !.body = body].body = body
BY SMT

LEMMA ElementReplaced ==
    ASSUME NEW S, NEW s \in Seq(S), NEW c \in 1..Len(s), NEW e \in S
    PROVE  /\ [s EXCEPT ![c] = e] \in Seq(S)
           /\ Len([s EXCEPT ![c] = e]) = Len(s)
           /\ \A k \in 1..Len(s) : [s EXCEPT ![c] = e][k] = IF k = c THEN e ELSE s[k]
BY SMT

LEMMA BodyGrows ==
    ASSUME kernels \in Seq(Kernels), curFunc \in 1..Len(kernels),
           NEW instruction \in Instructions,
           kernels' = [kernels EXCEPT ![curFunc].body = Append(@, instruction)]
    PROVE  /\ kernels' \in Seq(Kernels) /\ Len(kernels') = Len(kernels)
           /\ \A k \in 1..Len(kernels) : kernels'[k].name = kernels[k].name
           /\ \A k \in 1..Len(kernels) : k # curFunc => kernels'[k].body = kernels[k].body
           /\ kernels[curFunc].body \in Seq(Instructions)
           /\ kernels'[curFunc].body = Append(kernels[curFunc].body, instruction)
<1> DEFINE body == Append(kernels[curFunc].body, instruction)
           kernel == [kernels[curFunc] EXCEPT !.body = body]
<1>1. kernels[curFunc] \in Kernels
  BY SMT
<1>2. kernels[curFunc].body \in Seq(Instructions)
  BY <1>1, KernelFacts, Zenon
<1>3. body \in Seq(Instructions)
  BY <1>2, SMT
<1>4. kernel \in Kernels /\ kernel.name = kernels[curFunc].name /\ kernel.body = body
  <2> HIDE DEF body
  <2> QED
    BY <1>1, <1>3, BodyReplaced, Zenon DEF Kernels
<1>5. kernels' = [kernels EXCEPT ![curFunc] = kernel]
  BY Zenon
<1> HIDE DEF kernel
<1> DEFINE replaced == [kernels EXCEPT ![curFunc] = kernel]
<1>a. /\ replaced \in Seq(Kernels) /\ Len(replaced) = Len(kernels)
      /\ \A k \in 1..Len(kernels) : replaced[k] = IF k = curFunc THEN kernel ELSE kernels[k]
  BY <1>4, ElementReplaced
<1> HIDE DEF replaced
<1>b. kernels' = replaced
  BY <1>5 DEF replaced
<1>6. /\ kernels' \in Seq(Kernels) /\ Len(kernels') = Len(kernels)
      /\ \A k \in 1..Len(kernels) : kernels'[k] = IF k = curFunc THEN kernel ELSE kernels[k]
  BY ONLY <1>a, <1>b
<1>7. /\ kernels'[curFunc] = kernel
      /\ \A k \in 1..Len(kernels) : k # curFunc => kernels'[k] = kernels[k]
  BY <1>6, Zenon
<1>8. kernels'[curFunc].body = Append(kernels[curFunc].body, instruction) /\ kernels'[curFunc].name = kernels[curFunc].name
  BY <1>4, <1>7, Zenon
<1>9. \A k \in 1..Len(kernels) : kernels'[k].name = kernels[k].name
  BY <1>7, <1>8, Zenon
<1> QED
  BY <1>2, <1>6, <1>7, <1>8, <1>9, Zenon

LEMMA TailFacts ==
    ASSUME NEW S, NEW s \in Seq(S), s # <<>>
    PROVE  /\ Len(s) \in Nat /\ Len(s) > 0
           /\ Len(Tail(s)) = Len(s) - 1
           /\ \A i \in 1..Len(Tail(s)) : Tail(s)[i] = s[i + 1]
           /\ Head(s) = s[1] /\ Tail(s) \in Seq(S)
           /\ Tail(s) = <<>> <=> Len(s) = 1
<1>1. /\ Len(s) \in Nat /\ Len(s) > 0
      /\ Len(Tail(s)) = Len(s) - 1 /\ Tail(s) \in Seq(S)
      /\ Head(s) = s[1]
  BY SMT
<1>2. \A i \in 1..Len(Tail(s)) : Tail(s)[i] = s[i + 1]
  BY SMT
<1>3. \A t \in Seq(S) : t = <<>> <=> Len(t) = 0
  BY SMT
<1>4. Len(Tail(s)) = 0 <=> Len(s) = 1
  BY <1>1, SMT
<1> QED
  BY <1>1, <1>2, <1>3, <1>4, Zenon

LEMMA WalkOn ==
    ASSUME walk \in Seq(Event), walk # <<>>, Nesting, walk' = Tail(walk)
    PROVE  /\ Nesting'
           /\ Head(walk).on = "exitXacckernel" => ~ Inside'
           /\ Head(walk).on # "exitXacckernel" => Inside'
           /\ Head(walk) = walk[1]
           /\ walk' \in Seq(Event)
<1>1. /\ Len(walk) \in Nat /\ Len(walk) > 0
      /\ Len(walk') = Len(walk) - 1
      /\ \A i \in 1..Len(walk') : walk'[i] = walk[i + 1]
      /\ Head(walk) = walk[1] /\ walk' \in Seq(Event)
      /\ walk' = <<>> <=> Len(walk) = 1
  BY TailFacts, Zenon
<1>2. /\ \A i \in 2..Len(walk) :
            walk[i].on = "enterXacckernel" <=> walk[i - 1].on = "exitXacckernel"
      /\ walk[Len(walk)].on = "exitXacckernel"
  BY Zenon DEF Nesting
<1>3. \A i \in 2..Len(walk') :
        walk'[i].on = "enterXacckernel" <=> walk'[i - 1].on = "exitXacckernel"
  <2> TAKE i \in 2..Len(walk')
  <2>1. /\ walk'[i] = walk[i + 1] /\ walk'[i - 1] = walk[i]
        /\ i + 1 \in 2..Len(walk) /\ (i + 1) - 1 = i
    <3>1. i \in 1..Len(walk') /\ i - 1 \in 1..Len(walk') /\ (i - 1) + 1 = i
      BY <1>1, SMT
    <3>2. i + 1 \in 2..Len(walk) /\ (i + 1) - 1 = i
      BY <1>1, SMT
    <3> QED
      BY <3>1, <3>2, <1>1, Zenon
  <2> QED
    BY <2>1, <1>2, Zenon
<1>4. walk' # <<>> => walk'[Len(walk')].on = "exitXacckernel"
  <2> HAVE walk' # <<>>
  <2>1. Len(walk') \in 1..Len(walk') /\ Len(walk') + 1 = Len(walk)
    BY <1>1, SMT
  <2> QED
    BY <2>1, <1>1, <1>2, Zenon
<1>5. CASE walk' = <<>>
  <2>1. Head(walk).on = "exitXacckernel"
    BY <1>1, <1>2, <1>5
  <2> QED
    BY <2>1, <1>1, <1>3, <1>4, <1>5, Zenon DEF Nesting, Inside
<1>6. CASE walk' # <<>>
  <2>1. 2 \in 2..Len(walk) /\ walk'[1] = walk[2] /\ 2 - 1 = 1
    BY <1>1, <1>6, SMT
  <2>2. walk'[1].on = "enterXacckernel" <=> walk[1].on = "exitXacckernel"
    BY <2>1, <1>2, Zenon
  <2> QED
    BY <2>2, <1>1, <1>3, <1>4, <1>6, Zenon DEF Nesting, Inside
<1> QED
  BY <1>5, <1>6

-----------------------------------------------------------------------------
(* An instruction added inside a kernel *)
LEMMA InstructionAdded ==
    ASSUME ListenerInv, status = "walking", walk # <<>>,
           Head(walk).on \notin {"enterXacckernel", "exitXacckernel"},
           NEW instruction \in Instructions,
           instruction.gate = "call" =>
               instruction.callee \in 1..Len(kernels) /\ FirstOfItsName(instruction.callee, kernels),
           addInstruction(instruction)
    PROVE  ListenerInv'
<1> USE DEF ListenerInv
<1>1. /\ walk \in Seq(Event) /\ Nesting /\ walk' = Tail(walk)
      /\ kernels \in Seq(Kernels)
      /\ curFunc = Len(kernels)
      /\ UNCHANGED <<status, functions, curFunc, ir>>
  BY Zenon DEF TypeOK, WalkInv, addInstruction
<1>2. /\ Nesting' /\ Inside' /\ walk' \in Seq(Event) /\ Head(walk) = walk[1]
  BY <1>1, WalkOn, Zenon
<1>3. Inside /\ Len(kernels) > 0 /\ ir = [k \in 1..(Len(kernels) - 1) |-> k]
  <2>1. Inside
    BY <1>2, Zenon DEF Inside
  <2> QED
    BY <2>1, Zenon DEF WalkInv
<1>4. curFunc \in 1..Len(kernels)
  BY <1>1, <1>3, SMT
<1>5. /\ kernels' \in Seq(Kernels) /\ Len(kernels') = Len(kernels)
      /\ \A k \in 1..Len(kernels) : kernels'[k].name = kernels[k].name
      /\ \A k \in 1..Len(kernels) : k # curFunc => kernels'[k].body = kernels[k].body
      /\ kernels[curFunc].body \in Seq(Instructions)
      /\ kernels'[curFunc].body = Append(kernels[curFunc].body, instruction)
  <2>1. kernels' = [kernels EXCEPT ![curFunc].body = Append(@, instruction)]
    BY Zenon DEF addInstruction
  <2> QED
    BY <1>1, <1>4, <2>1, BodyGrows
<1>6. \A k \in 1..Len(kernels) : FirstOfItsName(k, kernels) => FirstOfItsName(k, kernels')
  <2> TAKE k \in 1..Len(kernels)
  <2>1. \A j \in 1..(k - 1) : j \in 1..Len(kernels)
    BY <1>1, SMT
  <2> QED
    BY <1>5, <2>1, Zenon DEF FirstOfItsName
<1>7. TypeOK'
  BY <1>1, <1>2, <1>5, Zenon DEF TypeOK
<1>8. CallsGoBack'
  <2> SUFFICES ASSUME NEW k \in 1..Len(kernels), NEW i \in 1..Len(kernels'[k].body),
                      kernels'[k].body[i].gate = "call"
               PROVE  /\ kernels'[k].body[i].callee \in 1..k
                      /\ FirstOfItsName(kernels'[k].body[i].callee, kernels')
    BY <1>5, Zenon DEF CallsGoBack
  <2>1. ASSUME i \in 1..Len(kernels[k].body), kernels'[k].body[i] = kernels[k].body[i]
        PROVE  /\ kernels'[k].body[i].callee \in 1..k
               /\ FirstOfItsName(kernels'[k].body[i].callee, kernels')
    <3>1. /\ kernels[k].body[i].callee \in 1..k
          /\ FirstOfItsName(kernels[k].body[i].callee, kernels)
      BY <2>1, Zenon DEF CallsGoBack
    <3>2. kernels[k].body[i].callee \in 1..Len(kernels)
      BY <3>1, <1>1, SMT
    <3> QED
      BY <2>1, <3>1, <3>2, <1>6, Zenon
  <2>2. CASE k # curFunc
    BY <2>1, <2>2, <1>5, Zenon
  <2>3. CASE k = curFunc /\ i = Len(kernels[k].body) + 1
    <3>1. kernels'[k].body[i] = instruction
      BY <1>5, <2>3, SMT
    <3> QED
      BY <1>1, <1>6, <2>3, <3>1, Zenon
  <2>4. CASE k = curFunc /\ i # Len(kernels[k].body) + 1
    <3>1. i \in 1..Len(kernels[k].body) /\ kernels'[k].body[i] = kernels[k].body[i]
      BY <1>5, <2>4, SMTT(40)
    <3> QED
      BY <3>1, <2>1, Zenon
  <2> QED
    BY <2>2, <2>3, <2>4
<1>9. FunctionsInv'
  <2>1. \A name \in DOMAIN functions : functions[name] \in 1..Len(kernels)
    BY Zenon DEF TypeOK
  <2> QED
    BY <1>1, <1>5, <1>6, <2>1, Zenon DEF FunctionsInv
<1>10. WalkInv'
  BY <1>1, <1>2, <1>3, <1>5, Zenon DEF WalkInv
<1> QED
  BY <1>1, <1>7, <1>8, <1>9, <1>10, Zenon DEF IRInOrder, ReadyInv

(* A compilation that ends early leaves everything else as it is *)
LEMMA EndedEarly ==
    ASSUME ListenerInv, NEW how \in {"exited", "crashed", "thrown"}, Left(how)
    PROVE  ListenerInv'
<1>1. /\ how # "walking" /\ how # "ready" /\ how # "done"
      /\ status' = how
      /\ UNCHANGED <<walk, kernels, functions, curFunc, ir>>
  BY Zenon DEF Left
<1>2. TypeOK'
  BY <1>1, Zenon DEF ListenerInv, TypeOK
<1>3. CallsGoBack' /\ FunctionsInv'
  BY <1>1, Zenon DEF ListenerInv, CallsGoBack, FunctionsInv
<1> QED
  BY <1>1, <1>2, <1>3, Zenon DEF ListenerInv, IRInOrder, WalkInv, ReadyInv

LEMMA FaultEnds ==
    ASSUME NEW ints PROVE Fault(ints) \in {"exited", "crashed", "thrown"}
BY Zenon DEF Fault

(* Callbacks inside a kernel *)
LEMMA CallbackFacts ==
    ASSUME ListenerInv, NEW callback, On(callback)
    PROVE  /\ status = "walking" /\ walk # <<>> /\ Head(walk).on = callback
           /\ Head(walk).name \in Names
           /\ Head(walk).ints \in Seq(Numerals \cup {NoNode})
           /\ Head(walk).texts # NoNode => Head(walk).texts \in Seq(Seq(Words))
           /\ callback = "enterXacckernel" => Head(walk).texts # NoNode
           /\ callback = "exitMeasure" => Len(Head(walk).ints) = 2
<1>1. walk \in Seq(Event)
  BY Zenon DEF ListenerInv, TypeOK
<1> QED
  BY <1>1, EventFacts, Zenon DEF On, event

LEMMA GateStep ==
    ASSUME ListenerInv, status = "walking", walk # <<>>,
           Head(walk).on \notin {"enterXacckernel", "exitXacckernel"},
           NEW instruction \in Instructions, instruction.gate \in DOMAIN Registry,
           addInstruction(instruction)
    PROVE  ListenerInv'
<1>1. instruction.gate # "call"
  BY RegistryAssumption, Zenon
<1> QED
  BY <1>1, InstructionAdded, Zenon

LEMMA CallStep == ListenerInv /\ exitKernelcall => ListenerInv'
<1> SUFFICES ASSUME ListenerInv, exitKernelcall PROVE ListenerInv'
  OBVIOUS
<1>1. status = "walking" /\ walk # <<>> /\ Head(walk).on = "exitKernelcall"
  BY CallbackFacts, Zenon DEF exitKernelcall
<1>2. CASE event.name \in DOMAIN functions
  <2> DEFINE callee == functions[event.name]
  <2>1. addInstruction(Call(callee))
    BY <1>2, Zenon DEF exitKernelcall
  <2>2. callee \in 1..Len(kernels) /\ FirstOfItsName(callee, kernels)
    BY <1>2, Zenon DEF ListenerInv, TypeOK, FunctionsInv
  <2>3. callee \in Nat
    BY <2>2, SMT
  <2> HIDE DEF callee
  <2>4. Call(callee) \in Instructions /\ Call(callee).callee = callee
    BY <2>3, CallType, Zenon
  <2> QED
    BY <1>1, <2>1, <2>2, <2>4, InstructionAdded, Zenon
<1>3. CASE event.name \notin DOMAIN functions
  BY <1>3, EndedEarly, Zenon DEF exitKernelcall
<1> QED
  BY <1>2, <1>3

LEMMA UStep == ListenerInv /\ exitU => ListenerInv'
<1> SUFFICES ASSUME ListenerInv, exitU PROVE ListenerInv'
  OBVIOUS
<1>1. /\ status = "walking" /\ walk # <<>> /\ Head(walk).on = "exitU"
      /\ event.ints \in Seq(Numerals \cup {NoNode})
      /\ event.texts # NoNode => event.texts \in Seq(Seq(Words))
  BY CallbackFacts, Zenon DEF exitU, event
<1>2. CASE Unvalued(event.ints) # {}
  BY <1>2, FaultEnds, EndedEarly, Zenon DEF exitU
<1>3. CASE Unvalued(event.ints) = {} /\ event.texts = NoNode
  BY <1>3, EndedEarly, Zenon DEF exitU
<1>4. CASE Unvalued(event.ints) = {} /\ event.texts # NoNode /\ Len(event.texts) < 3
  BY <1>4, EndedEarly, Zenon DEF exitU
<1>5. CASE Unvalued(event.ints) = {} /\ event.texts # NoNode /\ ~ (Len(event.texts) < 3)
  <2> DEFINE made == createInstruction("U", Bits(event.ints))
             angles == SubSeq(event.texts, 1, 3)
  <2>1. addInstruction(WithParameters(made, 1, angles))
    BY <1>5, Zenon DEF exitU
  <2>2. made \in Instructions /\ made.gate = "U" /\ "U" \in DOMAIN Registry /\ made.gate # "call"
    <3>1. Bits(event.ints) \in Seq(Nat)
      BY <1>1, <1>5, BitsType, Zenon
    <3>2. "U" \in DOMAIN Registry
      BY RegistryAssumption, Zenon
    <3> QED
      BY <3>1, <3>2, CreatedType, Zenon
  <2>3. angles \in Seq(Seq(Words))
    <3>1. \A S : \A t \in Seq(S) : ~ (Len(t) < 3) => SubSeq(t, 1, 3) \in Seq(S)
      BY SMT
    <3> QED
      BY <3>1, <1>1, <1>5, Zenon
  <2>4. 1 \in Nat \ {0}
    BY SMT
  <2> HIDE DEF made, angles
  <2>5. /\ WithParameters(made, 1, angles) \in Instructions
        /\ WithParameters(made, 1, angles).gate = "U"
    BY <2>2, <2>3, <2>4, WithType, Zenon
  <2> QED
    BY <1>1, <2>1, <2>2, <2>5, GateStep, Zenon
<1> QED
  BY <1>2, <1>3, <1>4, <1>5

LEMMA CNOTStep ==
    ASSUME ListenerInv, status = "walking", walk # <<>>,
           Head(walk).on \notin {"enterXacckernel", "exitXacckernel"},
           event.ints \in Seq(Numerals \cup {NoNode}), Unvalued(event.ints) = {},
           addInstruction(createInstruction("CNOT", Bits(event.ints)))
    PROVE  ListenerInv'
<1>1. Bits(event.ints) \in Seq(Nat)
  BY BitsType, Zenon
<1>2. "CNOT" \in DOMAIN Registry
  BY RegistryAssumption, Zenon
<1> QED
  BY <1>1, <1>2, CreatedType, GateStep, Zenon

LEMMA CXStep == ListenerInv /\ exitCX => ListenerInv'
<1> SUFFICES ASSUME ListenerInv, exitCX PROVE ListenerInv'
  OBVIOUS
<1>1. /\ status = "walking" /\ walk # <<>> /\ Head(walk).on = "exitCX"
      /\ event.ints \in Seq(Numerals \cup {NoNode})
  BY CallbackFacts, Zenon DEF exitCX, event
<1>2. CASE Unvalued(event.ints) # {}
  BY <1>2, FaultEnds, EndedEarly, Zenon DEF exitCX
<1>3. CASE Unvalued(event.ints) = {}
  BY <1>1, <1>3, CNOTStep, Zenon DEF exitCX
<1> QED
  BY <1>2, <1>3

(* U2 has its first angle written over, and remains an instruction *)
LEMMA DefaultsType ==
    ASSUME NEW name, NEW made \in Instructions, made.gate # "call"
    PROVE  /\ Defaults(name, made) \in Instructions
           /\ Defaults(name, made).gate = made.gate
<1>1. CASE name # "U2"
  BY <1>1, Zenon DEF Defaults
<1>2. CASE name = "U2"
  <2> DEFINE params == [made.params EXCEPT ![1] = Double(HalfPi)]
  <2>1. /\ made \in [gate : DOMAIN Registry \cup {"call"}, bits : Seq(Nat),
                     params : Seq(Parameter), callee : Nat]
        /\ made.params \in Seq(Parameter) /\ Len(made.params) = Registry[made.gate]
    BY SMT DEF Instructions
  <2>2. \A S : \A t \in Seq(S) : \A e \in S :
            [t EXCEPT ![1] = e] \in Seq(S) /\ Len([t EXCEPT ![1] = e]) = Len(t)
    <3> SUFFICES ASSUME NEW S, NEW t \in Seq(S), NEW e \in S
                 PROVE  [t EXCEPT ![1] = e] \in Seq(S) /\ Len([t EXCEPT ![1] = e]) = Len(t)
      OBVIOUS
    <3> DEFINE u == [i \in 1..Len(t) |-> IF i = 1 THEN e ELSE t[i]]
    <3>1. u \in Seq(S) /\ Len(u) = Len(t)
      BY SMT
    <3>2. DOMAIN t = 1..Len(t)
      BY SMT
    <3>3. [t EXCEPT ![1] = e] = u
      BY <3>2, Zenon
    <3> QED
      BY <3>1, <3>3, Zenon
  <2>3. params \in Seq(Parameter) /\ Len(params) = Len(made.params)
    BY <2>1, <2>2, StringSeqs, ParamType, Zenon
  <2>4. Defaults(name, made) = [made EXCEPT !.params = params]
    BY <1>2, Zenon DEF Defaults
  <2> HIDE DEF params
  <2>5. /\ [made EXCEPT !.params = params] \in
              [gate : DOMAIN Registry \cup {"call"}, bits : Seq(Nat),
               params : Seq(Parameter), callee : Nat]
        /\ [made EXCEPT !.params = params].gate = made.gate
        /\ [made EXCEPT !.params = params].params = params
    BY <2>1, <2>3, ParamsReplaced, Zenon
  <2> QED
    BY <2>1, <2>3, <2>4, <2>5, Zenon DEF Instructions
<1> QED
  BY <1>1, <1>2

LEMMA UserDefGateStep == ListenerInv /\ exitUserDefGate => ListenerInv'
<1> SUFFICES ASSUME ListenerInv, exitUserDefGate PROVE ListenerInv'
  OBVIOUS
<1> DEFINE name == Capitalized[event.name]
           as == GateOf(name)
<1>1. /\ status = "walking" /\ walk # <<>> /\ Head(walk).on = "exitUserDefGate"
      /\ event.ints \in Seq(Numerals \cup {NoNode})
      /\ event.texts # NoNode => event.texts \in Seq(Seq(Words))
  BY CallbackFacts, Zenon DEF exitUserDefGate, event
<1>2. Written \in Seq(Seq(Words))
  <2>1. \A S : <<>> \in Seq(S)
    BY SMT
  <2> QED
    BY <1>1, <2>1, Zenon DEF Written
<1>3. as.first \in Nat \ {0}
  BY SMT DEF GateOf
<1> DEFINE made == createInstruction(as.gate, Bits(event.ints))
<1>4. \/ Unvalued(event.ints) # {} /\ Left(Fault(event.ints))
      \/ /\ Unvalued(event.ints) = {}
         /\ addInstruction(createInstruction("CNOT", Bits(event.ints)))
      \/ Left("exited")
      \/ /\ Unvalued(event.ints) = {} /\ as.gate \in DOMAIN Registry
         /\ addInstruction(WithParameters(Defaults(name, made), as.first, Written))
  BY Zenon DEF exitUserDefGate
<1> HIDE DEF as, name
<1>5. CASE Unvalued(event.ints) # {} /\ Left(Fault(event.ints))
  BY <1>5, FaultEnds, EndedEarly, Zenon
<1>6. CASE /\ Unvalued(event.ints) = {}
           /\ addInstruction(createInstruction("CNOT", Bits(event.ints)))
  BY <1>1, <1>6, CNOTStep, Zenon
<1>7. CASE Left("exited")
  BY <1>7, EndedEarly, Zenon
<1>8. CASE /\ Unvalued(event.ints) = {} /\ as.gate \in DOMAIN Registry
           /\ addInstruction(WithParameters(Defaults(name, made), as.first, Written))
  <2>1. made \in Instructions /\ made.gate = as.gate /\ made.gate # "call"
    <3>1. Bits(event.ints) \in Seq(Nat)
      BY <1>1, <1>8, BitsType, Zenon
    <3>2. as.gate # "call"
      BY <1>8, RegistryAssumption, Zenon
    <3> QED
      BY <1>8, <3>1, <3>2, CreatedType, Zenon
  <2> HIDE DEF made
  <2>2. Defaults(name, made) \in Instructions /\ Defaults(name, made).gate = as.gate
    BY <2>1, DefaultsType, Zenon
  <2>3. /\ WithParameters(Defaults(name, made), as.first, Written) \in Instructions
        /\ WithParameters(Defaults(name, made), as.first, Written).gate = as.gate
    BY <1>2, <1>3, <2>1, <2>2, WithType, Zenon
  <2> QED
    BY <1>1, <1>8, <2>3, GateStep, Zenon
<1> QED
  BY <1>4, <1>5, <1>6, <1>7, <1>8

LEMMA MeasureType ==
    ASSUME NEW bits \in Seq(Nat), NEW params \in Seq(Parameter), Len(params) = 1
    PROVE  /\ Instruction("Measure", bits, params) \in Instructions
           /\ Instruction("Measure", bits, params).gate = "Measure"
<1> DEFINE gates == DOMAIN Registry \cup {"call"}
           made == Instruction("Measure", bits, params)
<1>1. "Measure" \in gates /\ Registry["Measure"] = 1
  BY RegistryAssumption, Zenon
<1> HIDE DEF gates
<1>2. /\ made \in [gate : gates, bits : Seq(Nat), params : Seq(Parameter), callee : Nat]
      /\ made.gate = "Measure" /\ made.params = params
  BY <1>1, SMT DEF Instruction
<1> HIDE DEF made
<1>3. made.gate # "call" => Len(made.params) = Registry[made.gate]
  BY <1>1, <1>2, Zenon
<1>4. made \in Instructions
  BY <1>2, <1>3, Zenon DEF Instructions, gates
<1> QED
  BY <1>2, <1>4 DEF made

LEMMA MeasureStep == ListenerInv /\ exitMeasure => ListenerInv'
<1> SUFFICES ASSUME ListenerInv, exitMeasure PROVE ListenerInv'
  OBVIOUS
<1>1. /\ status = "walking" /\ walk # <<>> /\ Head(walk).on = "exitMeasure"
      /\ event.ints \in Seq(Numerals \cup {NoNode}) /\ Len(event.ints) = 2
  BY CallbackFacts, Zenon DEF exitMeasure, event
<1>2. CASE Unvalued(event.ints) # {}
  BY <1>2, FaultEnds, EndedEarly, Zenon DEF exitMeasure
<1>3. CASE Unvalued(event.ints) = {}
  <2> DEFINE made == Instruction("Measure", <<Stoi[event.ints[1]]>>, <<Integer(event.ints[2])>>)
  <2>1. 1 \in 1..Len(event.ints) /\ 2 \in 1..Len(event.ints)
    BY <1>1, SMT
  <2>2. Stoi[event.ints[1]] \in Nat /\ event.ints[2] \in Words
    BY <1>1, <1>3, <2>1, BitsType, TextsAssumption, Zenon
  <2>3. Integer(event.ints[2]) \in Parameter
    BY <2>2, SMT DEF Integer, Parameter
  <2>4. "Measure" \in DOMAIN Registry /\ Registry["Measure"] = 1
    BY RegistryAssumption, Zenon
  <2>5. \A S : \A e \in S : <<e>> \in Seq(S) /\ Len(<<e>>) = 1
    BY SMT
  <2>6. made \in Instructions /\ made.gate = "Measure"
    <3>1. /\ <<Stoi[event.ints[1]]>> \in Seq(Nat)
          /\ <<Integer(event.ints[2])>> \in Seq(Parameter)
          /\ Len(<<Integer(event.ints[2])>>) = 1
      BY <2>2, <2>3, <2>5, Zenon
    <3> QED
      BY <3>1, MeasureType, Zenon
  <2> HIDE DEF made
  <2>7. addInstruction(made)
    BY <1>3, Zenon DEF exitMeasure, made
  <2> QED
    BY <1>1, <2>4, <2>6, <2>7, GateStep, Zenon
<1> QED
  BY <1>2, <1>3

-----------------------------------------------------------------------------
(* A kernel begins *)
LEMMA KernelMade ==
    ASSUME NEW S, NEW s \in Seq(S), NEW e \in S
    PROVE  /\ Append(s, e) \in Seq(S) /\ Len(Append(s, e)) = Len(s) + 1
           /\ Len(s) \in Nat /\ 1..(Len(s) + 1) = 1..Len(s) \cup {Len(s) + 1}
           /\ 1..Len(s) \subseteq 1..(Len(s) + 1) /\ Len(s) + 1 \notin 1..Len(s)
           /\ Len(s) + 1 \in 0..(Len(s) + 1)
           /\ Append(s, e)[Len(s) + 1] = e
           /\ \A k \in 1..Len(s) : Append(s, e)[k] = s[k]
BY SMT

LEMMA EnterStep == ListenerInv /\ enterXacckernel => ListenerInv'
<1> SUFFICES ASSUME ListenerInv, enterXacckernel PROVE ListenerInv'
  OBVIOUS
<1> USE DEF ListenerInv
<1> DEFINE made == [name |-> event.name, body |-> <<>>,
                    params |-> [i \in DOMAIN event.texts |-> Variable(event.texts[i])]]
           last == Len(kernels) + 1
<1>1. /\ status = "walking" /\ walk # <<>> /\ Head(walk).on = "enterXacckernel"
      /\ event.name \in Names
      /\ event.texts \in Seq(Seq(Words))
  BY CallbackFacts, Zenon DEF enterXacckernel, event
<1>2. /\ walk \in Seq(Event) /\ Nesting /\ walk' = Tail(walk)
      /\ kernels \in Seq(Kernels) /\ kernels' = Append(kernels, made)
      /\ ir \in Seq(1..Len(kernels)) /\ curFunc' = Len(kernels')
      /\ functions' = [name \in DOMAIN functions \cup {event.name} |->
                         IF name \in DOMAIN functions THEN functions[name] ELSE curFunc']
      /\ UNCHANGED <<status, ir>>
  BY <1>1, Zenon DEF TypeOK, WalkInv, enterXacckernel, insert
<1>3. /\ Nesting' /\ Inside' /\ walk' \in Seq(Event) /\ Head(walk) = walk[1]
  BY <1>1, <1>2, WalkOn, Zenon
<1>4. made \in Kernels /\ made.name = event.name /\ made.body = <<>>
  <2> DEFINE params == [i \in DOMAIN event.texts |-> Variable(event.texts[i])]
  <2>1. params \in Seq(Parameter)
    <3>1. ASSUME NEW i \in DOMAIN event.texts PROVE Variable(event.texts[i]) \in Parameter
      <4>1. event.texts[i] \in Seq(Words)
        BY <1>1, SMT
      <4> QED
        BY <4>1, ParamType, Zenon
    <3>2. DOMAIN event.texts = 1..Len(event.texts)
      BY <1>1, SMT
    <3>3. params \in [1..Len(event.texts) -> Parameter]
      BY <3>1, <3>2, Zenon
    <3>4. Len(event.texts) \in Nat
      BY <1>1, SMT
    <3> HIDE DEF params
    <3>5. \A S : \A n \in Nat : \A s \in [1..n -> S] : s \in Seq(S)
      BY SMT
    <3> QED
      BY <3>3, <3>4, <3>5, Zenon
  <2> HIDE DEF params
  <2>2. \A N, P, B : \A n \in N, p \in P, b \in B :
            /\ [name |-> n, body |-> b, params |-> p] \in [name : N, params : P, body : B]
            /\ [name |-> n, body |-> b, params |-> p].name = n
            /\ [name |-> n, body |-> b, params |-> p].body = b
    BY SMT
  <2>3. <<>> \in Seq(Instructions)
    BY SMT
  <2>4. made = [name |-> event.name, body |-> <<>>, params |-> params]
    BY Zenon DEF params
  <2> QED
    BY <1>1, <2>1, <2>2, <2>3, <2>4, Zenon DEF Kernels
<1> HIDE DEF made
<1> DEFINE grown == Append(kernels, made)
<1>a. /\ grown \in Seq(Kernels) /\ Len(grown) = Len(kernels) + 1
      /\ Len(kernels) \in Nat
      /\ 1..(Len(kernels) + 1) = 1..Len(kernels) \cup {Len(kernels) + 1}
      /\ 1..Len(kernels) \subseteq 1..(Len(kernels) + 1)
      /\ Len(kernels) + 1 \notin 1..Len(kernels)
      /\ Len(kernels) + 1 \in 0..(Len(kernels) + 1)
      /\ grown[Len(kernels) + 1] = made
      /\ \A k \in 1..Len(kernels) : grown[k] = kernels[k]
  BY <1>2, <1>4, KernelMade
<1> HIDE DEF grown
<1>b. kernels' = grown
  BY <1>2 DEF grown
<1>5. /\ kernels' \in Seq(Kernels) /\ Len(kernels') = last
      /\ 1..last = 1..Len(kernels) \cup {last} /\ last \notin 1..Len(kernels)
      /\ last \in 1..last /\ last \in 0..last
      /\ kernels'[last] = made
      /\ \A k \in 1..Len(kernels) : kernels'[k] = kernels[k] /\ k \in 1..last
  BY <1>a, <1>b, Zenon
<1>6. Len(kernels) \in Nat /\ last - 1 = Len(kernels) /\ last > 0
  BY <1>2, SMT
<1>7. ir = [k \in 1..Len(kernels) |-> k]
  <2>1. ~ Inside
    BY <1>1, <1>3, Zenon DEF Inside
  <2> QED
    BY <1>1, <2>1, Zenon DEF WalkInv
<1> HIDE DEF last
<1>8. \A k \in 1..Len(kernels) : \A j \in 1..(k - 1) : j \in 1..Len(kernels)
  BY <1>6, SMT
<1>9. \A k \in 1..Len(kernels) : FirstOfItsName(k, kernels) => FirstOfItsName(k, kernels')
  BY <1>5, <1>8, Zenon DEF FirstOfItsName
<1>10. /\ DOMAIN functions' = DOMAIN functions \cup {event.name}
       /\ \A name \in DOMAIN functions :
            functions'[name] = functions[name] /\ functions[name] \in 1..Len(kernels)
       /\ event.name \notin DOMAIN functions => functions'[event.name] = last
  BY <1>2, <1>5, Zenon DEF TypeOK
<1>11. TypeOK'
  <2>1. \A name \in DOMAIN functions' : functions'[name] \in 1..last
    BY <1>5, <1>10, Zenon
  <2>2. DOMAIN functions' \subseteq Names
    BY <1>1, <1>10, Zenon DEF TypeOK
  <2>3. ir \in Seq(1..last)
    BY <1>2, <1>5, <1>6, SMT
  <2> QED
    BY <1>2, <1>3, <1>5, <2>1, <2>2, <2>3, Zenon DEF TypeOK
<1>12. CallsGoBack'
  <2> SUFFICES ASSUME NEW k \in 1..last, NEW i \in 1..Len(kernels'[k].body),
                      kernels'[k].body[i].gate = "call"
               PROVE  /\ kernels'[k].body[i].callee \in 1..k
                      /\ FirstOfItsName(kernels'[k].body[i].callee, kernels')
    BY <1>5, Zenon DEF CallsGoBack
  <2>1. k \in 1..Len(kernels)
    <3>1. ~ \E j \in 1..Len(<<>>) : TRUE
      BY SMT
    <3> QED
      BY <3>1, <1>4, <1>5, Zenon
  <2>2. /\ kernels[k].body[i].callee \in 1..k
        /\ FirstOfItsName(kernels[k].body[i].callee, kernels)
    BY <2>1, <1>5, Zenon DEF CallsGoBack
  <2>3. kernels[k].body[i].callee \in 1..Len(kernels)
    BY <1>6, <2>1, <2>2, SMT
  <2> QED
    BY <1>5, <1>9, <2>1, <2>2, <2>3, Zenon
<1>13. FunctionsInv'
  <2>1. \A k \in 1..last : kernels'[k].name \in DOMAIN functions'
    BY <1>4, <1>5, <1>10, Zenon DEF FunctionsInv
  <2>2. ASSUME NEW name \in DOMAIN functions'
        PROVE  kernels'[functions'[name]].name = name /\ FirstOfItsName(functions'[name], kernels')
    <3>1. CASE name \in DOMAIN functions
      <4>1. functions'[name] = functions[name] /\ functions[name] \in 1..Len(kernels)
        BY <1>10, <3>1, Zenon
      <4>2. kernels[functions[name]].name = name /\ FirstOfItsName(functions[name], kernels)
        BY <3>1, Zenon DEF FunctionsInv
      <4>3. kernels'[functions[name]] = kernels[functions[name]]
        BY <1>5, <4>1, Zenon
      <4> QED
        BY <1>9, <4>1, <4>2, <4>3, Zenon
    <3>2. CASE name \notin DOMAIN functions
      <4>1. name = event.name /\ functions'[name] = last
        BY <1>10, <3>2, Zenon
      <4>2. \A j \in 1..(last - 1) : kernels'[j].name # name
        <5>1. \A j \in 1..Len(kernels) : kernels[j].name \in DOMAIN functions
          BY Zenon DEF FunctionsInv
        <5>2. last - 1 = Len(kernels)
          BY <1>6, Zenon
        <5> QED
          BY <1>5, <3>2, <5>1, <5>2, Zenon
      <4> QED
        BY <1>4, <1>5, <4>1, <4>2, Zenon DEF FirstOfItsName
    <3> QED
      BY <3>1, <3>2
  <2> QED
    BY <1>5, <2>1, <2>2, Zenon DEF FunctionsInv
<1>14. WalkInv'
  BY <1>2, <1>3, <1>5, <1>6, <1>7, Zenon DEF WalkInv
<1> QED
  BY <1>1, <1>2, <1>11, <1>12, <1>13, <1>14, Zenon DEF IRInOrder, ReadyInv

(* A kernel ends, and is added to the IR *)
LEMMA IdentityGrows ==
    ASSUME NEW n \in Nat, n > 0
    PROVE  /\ Append([k \in 1..(n - 1) |-> k], n) = [k \in 1..n |-> k]
           /\ [k \in 1..n |-> k] \in Seq(1..n)
<1> DEFINE s == [k \in 1..(n - 1) |-> k]
<1>1. s \in Seq(Nat) /\ Len(s) = n - 1
  BY SMT
<1>2. /\ Append(s, n) \in Seq(Nat) /\ Len(Append(s, n)) = n
      /\ \A k \in 1..n : Append(s, n)[k] = k
  BY <1>1, SMT
<1>3. [k \in 1..n |-> k] \in Seq(1..n) /\ [k \in 1..n |-> k] \in Seq(Nat)
      /\ Len([k \in 1..n |-> k]) = n
  BY SMT
<1> HIDE DEF s
<1>4. \A S : \A a, b \in Seq(S) :
        Len(a) = Len(b) /\ (\A k \in 1..Len(a) : a[k] = b[k]) => a = b
  BY SMT
<1>5. \A k \in 1..n : Append(s, n)[k] = [j \in 1..n |-> j][k]
  BY <1>2, Zenon
<1>6. Append(s, n) = [k \in 1..n |-> k]
  BY <1>2, <1>3, <1>4, <1>5, Zenon
<1> QED
  BY <1>3, <1>6, Zenon DEF s

LEMMA ExitStep == ListenerInv /\ exitXacckernel => ListenerInv'
<1> SUFFICES ASSUME ListenerInv, exitXacckernel PROVE ListenerInv'
  OBVIOUS
<1> USE DEF ListenerInv
<1>1. status = "walking" /\ walk # <<>> /\ Head(walk).on = "exitXacckernel"
  BY CallbackFacts, Zenon DEF exitXacckernel
<1>2. /\ walk \in Seq(Event) /\ Nesting /\ walk' = Tail(walk)
      /\ kernels \in Seq(Kernels) /\ curFunc = Len(kernels)
      /\ ir' = Append(ir, curFunc)
      /\ UNCHANGED <<status, kernels, functions, curFunc>>
  BY <1>1, Zenon DEF TypeOK, WalkInv, exitXacckernel, addKernel
<1>3. Nesting' /\ ~ Inside' /\ walk' \in Seq(Event) /\ Head(walk) = walk[1]
  BY <1>1, <1>2, WalkOn, Zenon
<1>4. Inside /\ Len(kernels) > 0 /\ ir = [k \in 1..(Len(kernels) - 1) |-> k]
  <2>1. Inside
    BY <1>1, <1>3, Zenon DEF Inside
  <2> QED
    BY <1>1, <2>1, Zenon DEF WalkInv
<1>5. Len(kernels) \in Nat
  BY <1>2, SMT
<1>6. ir' = [k \in 1..Len(kernels) |-> k] /\ ir' \in Seq(1..Len(kernels))
  BY <1>2, <1>4, <1>5, IdentityGrows, Zenon
<1>7. TypeOK'
  BY <1>2, <1>3, <1>6, Zenon DEF TypeOK
<1>8. CallsGoBack' /\ FunctionsInv'
  BY <1>2, Zenon DEF CallsGoBack, FunctionsInv
<1>9. WalkInv'
  BY <1>2, <1>3, <1>6, Zenon DEF WalkInv
<1> QED
  BY <1>1, <1>2, <1>7, <1>8, <1>9, Zenon DEF IRInOrder, ReadyInv

-----------------------------------------------------------------------------
(* The walk as a whole *)
LEMMA WalkStep == ListenerInv /\ Walk => ListenerInv'
<1> SUFFICES ASSUME ListenerInv, Walk PROVE ListenerInv'
  OBVIOUS
<1> USE DEF ListenerInv
<1>1. /\ status = "ready" /\ status' = "walking"
      /\ walk' \in Seq(Event) /\ WellNested(walk')
      /\ UNCHANGED <<kernels, functions, curFunc, ir>>
      /\ kernels = <<>> /\ ir = <<>> /\ curFunc = 0
  BY Zenon DEF Walk, ReadyInv
<1>2. curFunc = Len(kernels) /\ ir = [k \in 1..Len(kernels) |-> k]
  <2>1. Len(<<>>) = 0 /\ <<>> = [k \in 1..0 |-> k]
    BY SMT
  <2> QED
    BY <1>1, <2>1
<1>3. \A S : \A w \in Seq(S) :
        /\ \A i \in 2..Len(w) : i \in 1..Len(w) /\ i # 1
        /\ w # <<>> => 1 \in 1..Len(w) /\ Len(w) \in 1..Len(w)
  BY SMT
<1>4. Nesting' /\ ~ Inside'
  BY <1>1, <1>3, Zenon DEF WellNested, Nesting, Inside
<1>5. TypeOK'
  BY <1>1, Zenon DEF TypeOK
<1>6. WalkInv'
  BY <1>1, <1>2, <1>4, Zenon DEF WalkInv
<1> QED
  BY <1>1, <1>5, <1>6, ZenonT(40) DEF CallsGoBack, FunctionsInv, IRInOrder, ReadyInv

LEMMA ReturnStep == ListenerInv /\ Return => ListenerInv'
<1> SUFFICES ASSUME ListenerInv, Return PROVE ListenerInv'
  OBVIOUS
<1> USE DEF ListenerInv
<1>1. /\ status = "walking" /\ status' = "done" /\ walk = <<>>
      /\ UNCHANGED <<walk, kernels, functions, curFunc, ir>>
  BY Zenon DEF Return, Left
<1>2. ir = [k \in 1..Len(kernels) |-> k]
  BY <1>1, Zenon DEF WalkInv, Inside
<1>3. TypeOK'
  BY <1>1, Zenon DEF TypeOK
<1>4. CallsGoBack' /\ FunctionsInv'
  BY <1>1, Zenon DEF CallsGoBack, FunctionsInv
<1> QED
  BY <1>1, <1>2, <1>3, <1>4, Zenon DEF IRInOrder, WalkInv, ReadyInv

LEMMA ListenerStarts == ListenerInit => ListenerInv
<1> SUFFICES ASSUME ListenerInit PROVE ListenerInv
  OBVIOUS
<1>1. /\ status = "ready" /\ walk = <<>> /\ kernels = <<>> /\ ir = <<>> /\ curFunc = 0
      /\ DOMAIN functions = {}
  BY Zenon DEF ListenerInit
<1>2. /\ \A S : <<>> \in Seq(S)
      /\ Len(<<>>) = 0 /\ 0 \in 0..0 /\ 1..0 = {}
  BY SMT
<1>3. TypeOK
  BY <1>1, <1>2, Zenon DEF TypeOK
<1> QED
  BY <1>1, <1>2, <1>3, Zenon DEF ListenerInv, CallsGoBack, IRInOrder, WalkInv, ReadyInv, FunctionsInv

LEMMA ListenerKeeps == ListenerInv /\ [ListenerNext]_listenerVars => ListenerInv'
<1> SUFFICES ASSUME ListenerInv, [ListenerNext]_listenerVars PROVE ListenerInv'
  OBVIOUS
<1>1. CASE NoTree
  BY <1>1, EndedEarly, Zenon DEF NoTree
<1>2. CASE Walk
  BY <1>2, WalkStep
<1>3. CASE Return
  BY <1>3, ReturnStep
<1>4. CASE Listen
  BY <1>4, EnterStep, ExitStep, CallStep, UStep, CXStep, UserDefGateStep, MeasureStep, Zenon
     DEF Listen
<1>5. CASE UNCHANGED listenerVars
  BY <1>5, Zenon DEF listenerVars, ListenerInv, TypeOK, CallsGoBack, IRInOrder, WalkInv,
     ReadyInv, FunctionsInv, Nesting, Inside
<1> QED
  BY <1>1, <1>2, <1>3, <1>4, <1>5, Zenon DEF ListenerNext

LEMMA ListenerInvariant == ListenerSpec => []ListenerInv
BY ListenerStarts, ListenerKeeps, PTL DEF ListenerSpec

(* Every value is of its kind whatever the walk: a gate has the parameters its *)
(* class has, and every pointer points to a kernel (exitUserDefGate, :130).    *)
THEOREM ListenerTypeCorrect == ListenerSpec => []TypeOK
<1>1. ListenerInv => TypeOK
  BY Zenon DEF ListenerInv
<1> QED
  BY <1>1, ListenerInvariant, PTL

(* No walk makes a call that goes forward or to a later kernel of the name *)
(* (enterXacckernel, :76, and exitKernelcall, :93).                        *)
THEOREM ListenerCallsGoBack == ListenerSpec => []CallsGoBack
<1>1. ListenerInv => CallsGoBack
  BY Zenon DEF ListenerInv
<1> QED
  BY <1>1, ListenerInvariant, PTL

(* A compilation that ends well has every kernel in the IR, once and in order *)
(* (exitXacckernel, :88).                                                     *)
THEOREM ListenerIRInOrder == ListenerSpec => []IRInOrder
<1>1. ListenerInv => IRInOrder
  BY Zenon DEF ListenerInv
<1> QED
  BY <1>1, ListenerInvariant, PTL

-----------------------------------------------------------------------------
(* The grammar as data: no alternative but those of xaccsrc calls a kernel *)

Special == {"xaccsrc", "xacckernel", "xacckernel*"}
Fine(alt) == alt \in Seq(Range(alt)) /\ \A i \in DOMAIN alt : alt[i] \notin Special
Sound(alts) == DOMAIN alts \subseteq Nat /\ \A i \in DOMAIN alts : Fine(alts[i])

LEMMA Fine0 == Fine(<<>>)
BY SMT DEF Fine, Range
LEMMA Fine1 ==
    \A a : a \notin Special => Fine(<<a>>)
BY SMT DEF Fine, Range
LEMMA Fine2 ==
    \A a, b : a \notin Special /\ b \notin Special => Fine(<<a, b>>)
BY SMT DEF Fine, Range
LEMMA Fine3 ==
    \A a, b, c : a \notin Special /\ b \notin Special /\ c \notin Special => Fine(<<a, b, c>>)
BY SMT DEF Fine, Range
LEMMA Fine4 ==
    \A a, b, c, d : a \notin Special /\ b \notin Special /\ c \notin Special /\ d \notin Special => Fine(<<a, b, c, d>>)
BY SMT DEF Fine, Range
LEMMA Fine5 ==
    \A a, b, c, d, e : a \notin Special /\ b \notin Special /\ c \notin Special /\ d \notin Special /\ e \notin Special => Fine(<<a, b, c, d, e>>)
BY SMT DEF Fine, Range
LEMMA Fine7 ==
    \A a, b, c, d, e, f, g : a \notin Special /\ b \notin Special /\ c \notin Special /\ d \notin Special /\ e \notin Special /\ f \notin Special /\ g \notin Special => Fine(<<a, b, c, d, e, f, g>>)
BY SMT DEF Fine, Range
LEMMA Fine10 ==
    ASSUME NEW a, NEW b, NEW c, NEW d, NEW e, NEW f, NEW g, NEW h, NEW i, NEW j,
           a \notin Special, b \notin Special, c \notin Special, d \notin Special,
           e \notin Special, f \notin Special, g \notin Special, h \notin Special,
           i \notin Special, j \notin Special
    PROVE  Fine(<<a, b, c, d, e, f, g, h, i, j>>)
<1>1. <<a, b, c, d, e, f, g, h, i, j>> \in Seq(Range(<<a, b, c, d, e, f, g, h, i, j>>))
  BY SMT DEF Range
<1>2. \A k \in DOMAIN <<a, b, c, d, e, f, g, h, i, j>> :
        <<a, b, c, d, e, f, g, h, i, j>>[k] \notin Special
  BY SMT
<1> QED
  BY <1>1, <1>2, Zenon DEF Fine
LEMMA Sound1 == \A a :
    Fine(a) => Sound(<<a>>)
BY SMT DEF Sound
LEMMA Sound2 == \A a, b :
    Fine(a) /\ Fine(b) => Sound(<<a, b>>)
BY SMT DEF Sound
LEMMA Sound3 == \A a, b, c :
    Fine(a) /\ Fine(b) /\ Fine(c) => Sound(<<a, b, c>>)
BY SMT DEF Sound
LEMMA Sound4 == \A a, b, c, d :
    Fine(a) /\ Fine(b) /\ Fine(c) /\ Fine(d) => Sound(<<a, b, c, d>>)
BY SMT DEF Sound
LEMMA Sound6 == \A a, b, c, d, e, f :
    Fine(a) /\ Fine(b) /\ Fine(c) /\ Fine(d) /\ Fine(e) /\ Fine(f) => Sound(<<a, b, c, d, e, f>>)
BY SMT DEF Sound
LEMMA Sound7 == \A a, b, c, d, e, f, g :
    Fine(a) /\ Fine(b) /\ Fine(c) /\ Fine(d) /\ Fine(e) /\ Fine(f) /\ Fine(g) => Sound(<<a, b, c, d, e, f, g>>)
BY SMT DEF Sound
LEMMA SoundAnyOf ==
    ASSUME NEW types, DOMAIN types \subseteq Nat, \A i \in DOMAIN types : types[i] \notin Special
    PROVE  Sound(AnyOf(types))
<1>1. \A i \in DOMAIN types : Fine(<<types[i]>>)
  BY Fine1, SMT
<1> QED
  BY <1>1, SMT DEF Sound, AnyOf

LEMMA S_xacckernel == Sound(xacckernel)
BY Fine10, Sound1, Zenon DEF xacckernel, Special
LEMMA S_typedparam == Sound(typedparam)
BY Fine2, Sound1, Zenon DEF typedparam, Special
LEMMA S_type == Sound(type)
<1> DEFINE types == <<"'int'", "'double'", "'float'">>
<1>1. DOMAIN types \subseteq Nat /\ Range(types) \cap Special = {}
  <2>1. DOMAIN types \subseteq Nat /\ Range(types) = {"'int'", "'double'", "'float'"}
    BY SMT DEF Range
  <2> QED BY <2>1, Zenon DEF Special
<1>2. \A i \in DOMAIN types : types[i] \notin Special
  BY <1>1, Zenon DEF Range
<1> HIDE DEF types
<1> QED BY <1>1, <1>2, SoundAnyOf, Zenon DEF type, types
LEMMA S_kernelcall == Sound(kernelcall)
BY Fine5, Sound1, Zenon DEF kernelcall, Special
LEMMA S_mainprog == Sound(mainprog)
BY Fine5, Sound1, Zenon DEF mainprog, Special
LEMMA S_program == Sound(program)
BY Fine2, Sound1, Zenon DEF program, Special
LEMMA S_line == Sound(line)
BY Fine1, Fine2, Sound3, Zenon DEF line, Special
LEMMA S_statement == Sound(statement)
BY Fine1, Fine2, Sound6, Zenon DEF statement, Special
LEMMA S_comment == Sound(comment)
BY Fine1, Sound1, Zenon DEF comment, Special
LEMMA S_include == Sound(include)
BY Fine3, Sound1, Zenon DEF include, Special
LEMMA S_filename == Sound(filename)
BY Fine1, Sound1, Zenon DEF filename, Special
LEMMA S_regdecl == Sound(regdecl)
BY Fine2, Sound2, Zenon DEF regdecl, Special
LEMMA S_qregister == Sound(qregister)
BY Fine1, Fine4, Sound2, Zenon DEF qregister, Special
LEMMA S_cregister == Sound(cregister)
BY Fine1, Fine4, Sound2, Zenon DEF cregister, Special
LEMMA S_registersize == Sound(registersize)
BY Fine1, Sound1, Zenon DEF registersize, Special
LEMMA S_gatedecl == Sound(gatedecl)
BY Fine4, Sound1, Zenon DEF gatedecl, Special
LEMMA S_gatename == Sound(gatename)
BY Fine1, Fine4, Sound2, Zenon DEF gatename, Special
LEMMA S_gatearglist == Sound(gatearglist)
BY Fine2, Sound1, Zenon DEF gatearglist, Special
LEMMA S_gatearg == Sound(gatearg)
BY Fine1, Fine4, Sound2, Zenon DEF gatearg, Special
LEMMA S_gatebody == Sound(gatebody)
BY Fine3, Sound1, Zenon DEF gatebody, Special
LEMMA S_gateprog == Sound(gateprog)
BY Fine1, Sound1, Zenon DEF gateprog, Special
LEMMA S_gateline == Sound(gateline)
BY Fine2, Sound1, Zenon DEF gateline, Special
LEMMA S_paramlist == Sound(paramlist)
BY Fine2, Sound1, Zenon DEF paramlist, Special
LEMMA S_param == Sound(param)
BY Fine1, Sound1, Zenon DEF param, Special
LEMMA S_opaque == Sound(opaque)
BY Fine3, Sound1, Zenon DEF opaque, Special
LEMMA S_opaquename == Sound(opaquename)
BY Fine1, Fine4, Sound2, Zenon DEF opaquename, Special
LEMMA S_opaquearglist == Sound(opaquearglist)
BY Fine2, Sound1, Zenon DEF opaquearglist, Special
LEMMA S_opaquearg == Sound(opaquearg)
BY Fine4, Sound1, Zenon DEF opaquearg, Special
LEMMA S_qop == Sound(qop)
BY Fine1, Sound4, Zenon DEF qop, Special
LEMMA S_U == Sound(U)
BY Fine5, Sound1, Zenon DEF U, Special
LEMMA S_CX == Sound(CX)
BY Fine4, Sound1, Zenon DEF CX, Special
LEMMA S_UserDefGate == Sound(UserDefGate)
BY Fine3, Sound1, Zenon DEF UserDefGate, Special
LEMMA S_conditional == Sound(conditional)
BY Fine7, Sound1, Zenon DEF conditional, Special
LEMMA S_action == Sound(action)
BY Fine1, Sound1, Zenon DEF action, Special
LEMMA S_explist == Sound(explist)
BY Fine2, Sound1, Zenon DEF explist, Special
LEMMA S_exp == Sound(exp)
BY Fine2, Sound1, Zenon DEF exp, Special
LEMMA S_unaryop == Sound(unaryop)
<1> DEFINE types == <<"'sin'", "'cos'", "'tan'", "'exp'", "'ln'", "'sqrt'">>
<1>1. DOMAIN types \subseteq Nat /\ Range(types) \cap Special = {}
  <2>1. DOMAIN types \subseteq Nat /\ Range(types) = {"'sin'", "'cos'", "'tan'", "'exp'", "'ln'", "'sqrt'"}
    BY SMT DEF Range
  <2> QED BY <2>1, Zenon DEF Special
<1>2. \A i \in DOMAIN types : types[i] \notin Special
  BY <1>1, Zenon DEF Range
<1> HIDE DEF types
<1> QED BY <1>1, <1>2, SoundAnyOf, Zenon DEF unaryop, types
LEMMA S_qreg == Sound(qreg)
BY Fine1, Sound1, Zenon DEF qreg, Special
LEMMA S_creg == Sound(creg)
BY Fine1, Sound1, Zenon DEF creg, Special
LEMMA S_gate == Sound(gate)
BY Fine1, Sound1, Zenon DEF gate, Special
LEMMA S_measure == Sound(measure)
BY Fine4, Sound1, Zenon DEF measure, Special
LEMMA S_reeset == Sound(reeset)
BY Fine2, Sound1, Zenon DEF reeset, Special
LEMMA S_barrier == Sound(barrier)
BY Fine2, Sound1, Zenon DEF barrier, Special
LEMMA S_id == Sound(id)
BY Fine1, Sound1, Zenon DEF id, Special
LEMMA S_real == Sound(real)
BY Fine1, Sound1, Zenon DEF real, Special
LEMMA S_string == Sound(string)
BY Fine1, Sound1, Zenon DEF string, Special
LEMMA SoundRules == \A s \in DOMAIN Rules : s = "xaccsrc" \/ Sound(Rules[s])
BY S_xacckernel, S_typedparam, S_type, S_kernelcall, S_mainprog, S_program, S_line, S_statement, S_comment, S_include, S_filename, S_regdecl, S_qregister, S_cregister, S_registersize, S_gatedecl, S_gatename, S_gatearglist, S_gatearg, S_gatebody, S_gateprog, S_gateline, S_paramlist, S_param, S_opaque, S_opaquename, S_opaquearglist, S_opaquearg, S_qop, S_U, S_CX, S_UserDefGate, S_conditional, S_action, S_explist, S_exp, S_unaryop, S_qreg, S_creg, S_gate, S_measure, S_reeset, S_barrier, S_id, S_real, S_string, SMTT(60) DEF Rules

LEMMA AppendIs ==
    ASSUME NEW S, NEW s \in Seq(S), NEW t \in Seq(S), NEW x \in S,
           Len(t) = Len(s) + 1, t[Len(s) + 1] = x, \A i \in 1..Len(s) : t[i] = s[i]
    PROVE  Append(s, x) = t
<1>1. /\ Append(s, x) \in Seq(S) /\ Len(Append(s, x)) = Len(t)
      /\ \A i \in 1..Len(t) : Append(s, x)[i] = t[i]
  BY SMT
<1> QED
  BY ONLY <1>1, SeqEqual, SMT
LEMMA Append1 == ASSUME NEW a, NEW x PROVE Append(<<a>>, x) = <<a, x>>
<1> DEFINE s == <<a>>  t == <<a, x>> S == {a, x}
<1>1. s \in Seq(S) /\ t \in Seq(S) /\ x \in S /\ Len(s) = 1 /\ Len(t) = 2 /\ s[1] = a /\ t[1] = a /\ t[2] = x
  BY SMT
<1> HIDE DEF s, t, S
<1>2. Len(t) = Len(s) + 1 /\ t[Len(s) + 1] = x /\ \A i \in 1..Len(s) : t[i] = s[i]
  BY <1>1, SMT
<1>3. Append(s, x) = t
  BY <1>1, <1>2, AppendIs, Zenon
<1> QED BY <1>3 DEF s, t
LEMMA Append2 == ASSUME NEW a, NEW b, NEW x PROVE Append(<<a, b>>, x) = <<a, b, x>>
<1> DEFINE s == <<a, b>>  t == <<a, b, x>> S == {a, b, x}
<1>1. /\ s \in Seq(S) /\ t \in Seq(S) /\ x \in S /\ Len(s) = 2 /\ Len(t) = 3
      /\ s[1] = a /\ s[2] = b /\ t[1] = a /\ t[2] = b /\ t[3] = x
  BY SMT
<1> HIDE DEF s, t, S
<1>2. Len(t) = Len(s) + 1 /\ t[Len(s) + 1] = x /\ \A i \in 1..Len(s) : t[i] = s[i]
  BY <1>1, SMT
<1>3. Append(s, x) = t
  BY <1>1, <1>2, AppendIs, Zenon
<1> QED BY <1>3 DEF s, t
LEMMA SoundLoop1 ==
    ASSUME NEW a, NEW loop, a \notin Special, loop \notin Special
    PROVE  Sound(Loop(<<a>>, loop))
<1>1. Fine(<<a, loop>>) /\ Fine(<<>>)
  BY Fine0, Fine2, Zenon
<1>2. Append(<<a>>, loop) = <<a, loop>>
  BY Append1, SMT
<1> QED
  BY <1>1, <1>2, Sound2, Zenon DEF Loop
LEMMA SoundLoop2 ==
    ASSUME NEW a, NEW b, NEW loop, a \notin Special, b \notin Special, loop \notin Special
    PROVE  Sound(Loop(<<a, b>>, loop))
<1>1. Fine(<<a, b, loop>>) /\ Fine(<<>>)
  BY Fine0, Fine3, Zenon
<1>2. Append(<<a, b>>, loop) = <<a, b, loop>>
  BY Append2, SMT
<1> QED
  BY <1>1, <1>2, Sound2, Zenon DEF Loop
LEMMA SoundOptional ==
    ASSUME NEW s, NEW t, Fine(s), Fine(t)
    PROVE  Sound(Optional(s, t))
BY Sound2, Zenon DEF Optional
LEMMA S_uop == Sound(uop)
BY Fine1, Sound3, Zenon DEF uop, Special
LEMMA S_operand == Sound(operand)
BY Fine1, Fine2, Fine3, Fine4, Sound7, Zenon DEF operand, Special
LEMMA S_operators == Sound(operators)
BY Fine0, Fine3, Sound6, Zenon DEF operators, Operation, Special
LEMMA SoundBranches == \A s \in DOMAIN Branches : s = "xacckernel*" \/ Sound(Branches[s])
<1>1. Branches["typedparam*"] = Loop(<<"','", "typedparam">>, "typedparam*") /\ "typedparam*" \in DOMAIN Branches
  BY SMT DEF Branches
<1>2. Sound(Branches["typedparam*"])
  BY <1>1, SoundLoop2, Zenon DEF Special
<1>3. Branches["param?"] = Optional(<<"param">>, <<>>) /\ "param?" \in DOMAIN Branches
  BY SMT DEF Branches
<1>4. Sound(Branches["param?"])
  BY <1>3, SoundOptional, Fine0, Fine1, Fine2, Fine3, Zenon DEF Special
<1>5. Branches["param*"] = Loop(<<"','", "param">>, "param*") /\ "param*" \in DOMAIN Branches
  BY SMT DEF Branches
<1>6. Sound(Branches["param*"])
  BY <1>5, SoundLoop2, Zenon DEF Special
<1>7. Branches["comment*"] = Loop(<<"comment">>, "comment*") /\ "comment*" \in DOMAIN Branches
  BY SMT DEF Branches
<1>8. Sound(Branches["comment*"])
  BY <1>7, SoundLoop1, Zenon DEF Special
<1>9. Branches["program?"] = Optional(<<"program">>, <<>>) /\ "program?" \in DOMAIN Branches
  BY SMT DEF Branches
<1>10. Sound(Branches["program?"])
  BY <1>9, SoundOptional, Fine0, Fine1, Fine2, Fine3, Zenon DEF Special
<1>11. Branches["line*"] = Loop(<<"line">>, "line*") /\ "line*" \in DOMAIN Branches
  BY SMT DEF Branches
<1>12. Sound(Branches["line*"])
  BY <1>11, SoundLoop1, Zenon DEF Special
<1>13. Branches["gatebody?"] = Optional(<<"gatebody">>, <<>>) /\ "gatebody?" \in DOMAIN Branches
  BY SMT DEF Branches
<1>14. Sound(Branches["gatebody?"])
  BY <1>13, SoundOptional, Fine0, Fine1, Fine2, Fine3, Zenon DEF Special
<1>15. Branches["gatearg*"] = Loop(<<"','", "gatearg">>, "gatearg*") /\ "gatearg*" \in DOMAIN Branches
  BY SMT DEF Branches
<1>16. Sound(Branches["gatearg*"])
  BY <1>15, SoundLoop2, Zenon DEF Special
<1>17. Branches["gateline*"] = Loop(<<"gateline">>, "gateline*") /\ "gateline*" \in DOMAIN Branches
  BY SMT DEF Branches
<1>18. Sound(Branches["gateline*"])
  BY <1>17, SoundLoop1, Zenon DEF Special
<1>19. Branches["paramlist?"] = Optional(<<"paramlist">>, <<>>) /\ "paramlist?" \in DOMAIN Branches
  BY SMT DEF Branches
<1>20. Sound(Branches["paramlist?"])
  BY <1>19, SoundOptional, Fine0, Fine1, Fine2, Fine3, Zenon DEF Special
<1>21. Branches["paramlist,?"] = Optional(<<"','", "paramlist">>, <<>>) /\ "paramlist,?" \in DOMAIN Branches
  BY SMT DEF Branches
<1>22. Sound(Branches["paramlist,?"])
  BY <1>21, SoundOptional, Fine0, Fine1, Fine2, Fine3, Zenon DEF Special
<1>23. Branches["opaquearglist?"] = Optional(<<"','", "opaquearglist">>, <<>>) /\ "opaquearglist?" \in DOMAIN Branches
  BY SMT DEF Branches
<1>24. Sound(Branches["opaquearglist?"])
  BY <1>23, SoundOptional, Fine0, Fine1, Fine2, Fine3, Zenon DEF Special
<1>25. Branches["explist?"] = Optional(<<"explist">>, <<>>) /\ "explist?" \in DOMAIN Branches
  BY SMT DEF Branches
<1>26. Sound(Branches["explist?"])
  BY <1>25, SoundOptional, Fine0, Fine1, Fine2, Fine3, Zenon DEF Special
<1>27. Branches["(explist)?"] = Optional(<<"'('", "explist", "')'">>, <<>>) /\ "(explist)?" \in DOMAIN Branches
  BY SMT DEF Branches
<1>28. Sound(Branches["(explist)?"])
  BY <1>27, SoundOptional, Fine0, Fine1, Fine2, Fine3, Zenon DEF Special
<1>29. Branches["exp*"] = Loop(<<"','", "exp">>, "exp*") /\ "exp*" \in DOMAIN Branches
  BY SMT DEF Branches
<1>30. Sound(Branches["exp*"])
  BY <1>29, SoundLoop2, Zenon DEF Special
<1>31. Branches["uop"] = uop /\ "uop" \in DOMAIN Branches
  BY SMT DEF Branches
<1>32. Sound(Branches["uop"])
  BY <1>31, S_uop, Zenon DEF Special
<1>33. Branches["operand"] = operand /\ "operand" \in DOMAIN Branches
  BY SMT DEF Branches
<1>34. Sound(Branches["operand"])
  BY <1>33, S_operand, Zenon DEF Special
<1>35. DOMAIN Branches = {"xacckernel*", "typedparam*", "param?", "param*", "comment*", "program?", "line*", "gatebody?", "gatearg*", "gateline*", "paramlist?", "paramlist,?", "opaquearglist?", "explist?", "(explist)?", "exp*", "uop", "operand"}
  BY Zenon DEF Branches
<1> QED
  BY <1>2, <1>4, <1>6, <1>8, <1>10, <1>12, <1>14, <1>16, <1>18, <1>20, <1>22, <1>24, <1>26, <1>28, <1>30, <1>32, <1>34, <1>35, Zenon
LEMMA SoundAdaptive == \A s \in DOMAIN AdaptiveBranches : Sound(AdaptiveBranches[s])
<1>1. AdaptiveBranches["statement*"] = Loop(<<"statement">>, "statement*")
  BY SMT DEF AdaptiveBranches
<1>2. Sound(AdaptiveBranches["statement*"])
  BY <1>1, SoundLoop1, Zenon DEF Special
<1>3. AdaptiveBranches["include*"] = Loop(<<"include">>, "include*")
  BY SMT DEF AdaptiveBranches
<1>4. Sound(AdaptiveBranches["include*"])
  BY <1>3, SoundLoop1, Zenon DEF Special
<1>5. AdaptiveBranches["operand*"] = operators
  BY SMT DEF AdaptiveBranches
<1>6. Sound(AdaptiveBranches["operand*"])
  BY <1>5, S_operators, Zenon DEF Special
<1>7. AdaptiveBranches["qbit"] = << <<"gatearg">>, <<"qregister">> >>
  BY SMT DEF AdaptiveBranches
<1>8. Sound(AdaptiveBranches["qbit"])
  BY <1>7, Fine1, Sound2, Sound3, Zenon DEF Special
<1>9. AdaptiveBranches["cbit"] = << <<"gatearg">>, <<"cregister">> >>
  BY SMT DEF AdaptiveBranches
<1>10. Sound(AdaptiveBranches["cbit"])
  BY <1>9, Fine1, Sound2, Sound3, Zenon DEF Special
<1>11. AdaptiveBranches["resettable"] = << <<"gatearg">>, <<"qregister">>, <<"cregister">> >>
  BY SMT DEF AdaptiveBranches
<1>12. Sound(AdaptiveBranches["resettable"])
  BY <1>11, Fine1, Sound2, Sound3, Zenon DEF Special
<1>13. DOMAIN AdaptiveBranches = {"statement*", "include*", "operand*", "qbit", "cbit", "resettable"}
  BY Zenon DEF AdaptiveBranches
<1> QED
  BY <1>2, <1>4, <1>6, <1>8, <1>10, <1>12, <1>13, Zenon

LEMMA OneAlternative == \A a : DOMAIN <<a>> = {1} /\ <<a>>[1] = a
BY SMT
LEMMA TwoAlternatives ==
    \A a, b : DOMAIN <<a, b>> = {1, 2} /\ <<a, b>>[1] = a /\ <<a, b>>[2] = b
BY SMT
LEMMA Range1 == \A a : Range(<<a>>) = {a}
BY SMT DEF Range
LEMMA First1 == \A a : a \in Range(<<a>>)
BY SMT DEF Range
LEMMA First4 == \A a, b, c, d : a \in Range(<<a, b, c, d>>)
BY SMT DEF Range
LEMMA First5 == \A a, b, c, d, e : a \in Range(<<a, b, c, d, e>>)
BY SMT DEF Range
LEMMA FirstAndLast3 == \A a, b, c : a \in Range(<<a, b, c>>) /\ c \in Range(<<a, b, c>>)
BY SMT DEF Range
LEMMA Second2 == \A a, b : b \in Range(<<a, b>>)
BY SMT DEF Range
LEMMA Second10 == \A a, b, c, d, e, f, g, h, i, j :
    b \in Range(<<a, b, c, d, e, f, g, h, i, j>>)
BY SMT DEF Range

Holds(alts, b) == \A i \in DOMAIN alts : b \in Range(alts[i])
LEMMA Holds1 == \A s, b : b \in Range(s) => Holds(<<s>>, b)
BY SMT DEF Holds
LEMMA Holds2 == \A s, t, b : b \in Range(s) /\ b \in Range(t) => Holds(<<s, t>>, b)
BY SMT DEF Holds

Kernelwise == {"xacckernel", "xacckernel*"}
Qubits == {"qbit", "gatearg"}
Cbits == {"cbit", "gatearg"}
(* What a rule's function has called and is still to do *)
Complete(rule, form) ==
    /\ rule = "xacckernel" => "id" \in Range(form)
    /\ rule = "typedparam" => "param" \in Range(form)
    /\ rule = "kernelcall" => "id" \in Range(form)
    /\ rule = "gatename" => "id" \in Range(form)
    /\ rule = "UserDefGate" => "gatename" \in Range(form) /\ "gatearglist" \in Range(form)
Apart(rule, form) ==
    IF rule = "xaccsrc" THEN Range(form) \subseteq Kernelwise
    ELSE Range(form) \cap Special = {}
Measures(form) ==
    \E a \in Qubits, b \in Cbits : form = <<"MEASURE", a, "'->'", b>>
FormOK(rule, form) ==
    /\ Complete(rule, form) /\ Apart(rule, form)
    /\ rule = "id" => form = <<"ID">>
    /\ rule = "measure" => Measures(form)

LEMMA NeededRules ==
    /\ Rules["xacckernel"] = xacckernel /\ Rules["typedparam"] = typedparam
    /\ Rules["kernelcall"] = kernelcall /\ Rules["gatename"] = gatename
    /\ Rules["UserDefGate"] = UserDefGate /\ Rules["id"] = id /\ Rules["measure"] = measure
    /\ Rules["xaccsrc"] = xaccsrc
BY SMT DEF Rules
LEMMA CompleteStarts ==
    ASSUME NEW rule \in DOMAIN Rules, NEW i \in DOMAIN Rules[rule]
    PROVE  Complete(rule, Rules[rule][i])
<1>1. Holds(xacckernel, "id")
  BY Holds1, Second10, Zenon DEF xacckernel
<1>2. Holds(typedparam, "param")
  BY Holds1, Second2, Zenon DEF typedparam
<1>3. Holds(kernelcall, "id")
  BY Holds1, First5, Zenon DEF kernelcall
<1>4. Holds(gatename, "id")
  BY Holds2, First1, First4, Zenon DEF gatename
<1>5. Holds(UserDefGate, "gatename") /\ Holds(UserDefGate, "gatearglist")
  BY Holds1, FirstAndLast3, Zenon DEF UserDefGate
<1> QED
  BY <1>1, <1>2, <1>3, <1>4, <1>5, NeededRules, Zenon DEF Holds, Complete

LEMMA FormStarts ==
    ASSUME NEW rule \in DOMAIN Rules, NEW i \in DOMAIN Rules[rule]
    PROVE  FormOK(rule, Rules[rule][i])
<1>1. Complete(rule, Rules[rule][i])
  BY CompleteStarts, Zenon
<1>2. rule # "xaccsrc" => Range(Rules[rule][i]) \cap Special = {}
  BY SoundRules, Zenon DEF Sound, Fine, Range
<1>3. rule = "xaccsrc" => Range(Rules[rule][i]) \subseteq Kernelwise
  <2> SUFFICES ASSUME rule = "xaccsrc" PROVE Range(Rules[rule][i]) \subseteq Kernelwise
    OBVIOUS
  <2>1. Rules[rule] = << <<"xacckernel*">> >>
    BY NeededRules, Zenon DEF xaccsrc
  <2>2. Rules[rule][i] = <<"xacckernel*">>
    BY <2>1, OneAlternative, SMT
  <2>3. Range(<<"xacckernel*">>) = {"xacckernel*"}
    BY Range1, Zenon
  <2> QED
    BY <2>2, <2>3, Zenon DEF Kernelwise
<1>4. rule = "id" => Rules[rule][i] = <<"ID">>
  <2> SUFFICES ASSUME rule = "id" PROVE Rules[rule][i] = <<"ID">>
    OBVIOUS
  <2>1. Rules[rule] = << <<"ID">> >>
    BY NeededRules, Zenon DEF id
  <2> QED
    BY <2>1, OneAlternative, SMT
<1>5. rule = "measure" => Measures(Rules[rule][i])
  <2> SUFFICES ASSUME rule = "measure" PROVE Measures(Rules[rule][i])
    OBVIOUS
  <2>1. Rules[rule] = << <<"MEASURE", "qbit", "'->'", "cbit">> >>
    BY NeededRules, Zenon DEF measure
  <2>2. Rules[rule][i] = <<"MEASURE", "qbit", "'->'", "cbit">>
    BY <2>1, OneAlternative, SMT
  <2> QED
    BY <2>2, Zenon DEF Measures, Qubits, Cbits
<1> QED
  BY <1>1, <1>2, <1>3, <1>4, <1>5, Zenon DEF FormOK, Apart

RuleNames ==
    {"xaccsrc", "xacckernel", "typedparam", "type", "kernelcall", "mainprog",
     "program", "line", "statement", "comment", "include", "filename",
     "regdecl", "qregister", "cregister", "registersize", "gatedecl",
     "gatename", "gatearglist", "gatearg", "gatebody", "gateprog",
     "gateline", "paramlist", "param", "opaque", "opaquename",
     "opaquearglist", "opaquearg", "qop", "U", "CX", "UserDefGate",
     "conditional", "action", "explist", "exp", "unaryop", "qreg", "creg",
     "gate", "measure", "reeset", "barrier", "id", "real", "string"}
LEMMA RuleNamed == DOMAIN Rules = RuleNames
BY SMT DEF Rules, RuleNames
LEMMA Unnamed ==
    /\ \A s \in DOMAIN Branches : s \notin DOMAIN Rules /\ s \notin DOMAIN AdaptiveBranches
    /\ \A s \in DOMAIN AdaptiveBranches : s \notin DOMAIN Rules
<1>1. \A s \in DOMAIN Branches : s \notin DOMAIN Rules
  BY RuleNamed, ZenonT(60) DEF Branches, RuleNames
<1>2. \A s \in DOMAIN Branches : s \notin DOMAIN AdaptiveBranches
  BY Zenon DEF Branches, AdaptiveBranches
<1>3. \A s \in DOMAIN AdaptiveBranches : s \notin DOMAIN Rules
  BY RuleNamed, ZenonT(60) DEF AdaptiveBranches, RuleNames
<1> QED
  BY <1>1, <1>2, <1>3, Zenon
LEMMA GrammarOf ==
    /\ DOMAIN Grammar = DOMAIN Rules \cup DOMAIN Branches \cup DOMAIN AdaptiveBranches
    /\ \A s \in DOMAIN Rules : Grammar[s] = Rules[s]
    /\ \A s \in DOMAIN Branches : Grammar[s] = Branches[s]
    /\ \A s \in DOMAIN AdaptiveBranches : Grammar[s] = AdaptiveBranches[s]
BY Unnamed, Zenon DEF Grammar
LEMMA NoEOL == "EOL" \notin DOMAIN Grammar /\ "EOL" \notin DOMAIN Rules
<1>1. "EOL" \notin DOMAIN Rules
  BY RuleNamed, Zenon DEF RuleNames
<1>2. "EOL" \notin DOMAIN Branches /\ "EOL" \notin DOMAIN AdaptiveBranches
  BY Zenon DEF Branches, AdaptiveBranches
<1> QED
  BY <1>1, <1>2, GrammarOf, Zenon
LEMMA SoundGrammar == \A s \in DOMAIN Grammar : s \in {"xaccsrc", "xacckernel*"} \/ Sound(Grammar[s])
BY GrammarOf, SoundRules, SoundBranches, SoundAdaptive, Zenon
LEMMA KernelGrammar ==
    /\ Grammar["xaccsrc"] = << <<"xacckernel*">> >>
    /\ Grammar["xacckernel*"] = << <<"xacckernel", "xacckernel*">>, <<>> >>
    /\ "xacckernel*" \in DOMAIN Grammar /\ "xaccsrc" \in DOMAIN Grammar
<1>1. "xacckernel*" \notin DOMAIN Rules /\ "xaccsrc" \in DOMAIN Rules
  BY SMT DEF Rules
<1>2. Branches["xacckernel*"] = Loop(<<"xacckernel">>, "xacckernel*") /\ "xacckernel*" \in DOMAIN Branches
  BY SMT DEF Branches
<1>3. Append(<<"xacckernel">>, "xacckernel*") = <<"xacckernel", "xacckernel*">>
  BY Append1
<1> QED
  BY <1>1, <1>2, <1>3, GrammarOf, NeededRules, Zenon DEF xaccsrc, Loop
LEMMA GrammarType ==
    ASSUME NEW s \in DOMAIN Grammar
    PROVE  DOMAIN Grammar[s] \subseteq Nat /\ \A i \in DOMAIN Grammar[s] : Grammar[s][i] \in Seq(Symbols)
<1>1. DOMAIN Grammar[s] \subseteq Nat /\ \A i \in DOMAIN Grammar[s] : Grammar[s][i] \in Seq(Range(Grammar[s][i]))
  <2>1. CASE Sound(Grammar[s])
    BY <2>1, Zenon DEF Sound, Fine
  <2>2. CASE s = "xaccsrc"
    <3>1. <<"xacckernel*">> \in Seq(Range(<<"xacckernel*">>)) /\ {1} \subseteq Nat
      BY SMT DEF Range
    <3>2. Grammar[s] = << <<"xacckernel*">> >>
      BY <2>2, KernelGrammar, Zenon
    <3>3. DOMAIN Grammar[s] = {1} /\ Grammar[s][1] = <<"xacckernel*">>
      BY <3>2, OneAlternative, SMT
    <3> QED
      BY <3>1, <3>3, Zenon
  <2>3. CASE s = "xacckernel*"
    <3>1. <<"xacckernel", "xacckernel*">> \in Seq(Range(<<"xacckernel", "xacckernel*">>)) /\ <<>> \in Seq(Range(<<>>))
      BY SMT DEF Range
    <3>2. {1, 2} \subseteq Nat
      BY SMT
    <3>3. Grammar[s] = << <<"xacckernel", "xacckernel*">>, <<>> >>
      BY <2>3, KernelGrammar, Zenon
    <3>4. /\ DOMAIN Grammar[s] = {1, 2} /\ Grammar[s][2] = <<>>
          /\ Grammar[s][1] = <<"xacckernel", "xacckernel*">>
      BY <3>3, TwoAlternatives, SMT
    <3> QED
      BY <3>1, <3>2, <3>4, Zenon
  <2> QED
    BY <2>1, <2>2, <2>3, SoundGrammar, Zenon
<1>2. ASSUME NEW i \in DOMAIN Grammar[s]
      PROVE  Range(Grammar[s][i]) \subseteq Symbols
  <2>1. ASSUME NEW x \in Range(Grammar[s][i])
        PROVE  x \in Symbols
    <3> DEFINE R(rule) == UNION {Range(Grammar[rule][k]) : k \in DOMAIN Grammar[rule]}
    <3>1. x \in R(s)
      BY <2>1, Zenon
    <3>2. Symbols = UNION {R(rule) : rule \in DOMAIN Grammar}
      BY Zenon DEF Symbols
    <3> HIDE DEF R
    <3> QED
      BY <3>1, <3>2, Zenon
  <2> QED
    BY <2>1, Zenon
<1>3. \A A, B : A \subseteq B => Seq(A) \subseteq Seq(B)
  BY SMT
<1> QED
  BY <1>1, <1>2, <1>3, Zenon

-----------------------------------------------------------------------------
(* What callbacks read of a context, and the walk below it *)

Plain == {e \in Event : e.on \notin {"enterXacckernel", "exitXacckernel"}}
KernelWalk(w) ==
    \E e \in Event, p \in Seq(Plain), x \in Event :
        e.on = "enterXacckernel" /\ x.on = "exitXacckernel" /\ w = (<<e>> \o p) \o <<x>>
WalkOK(rule, w) ==
    IF rule = "xaccsrc" THEN w \in Seq(Event) /\ WellNested(w)
    ELSE IF rule = "xacckernel" THEN KernelWalk(w)
    ELSE w \in Seq(Plain)
Ints == Numerals \cup {NoNode}

(* What the rest of the tree relies on, of a context or token *)
Good(n) ==
    /\ n.rule \in DOMAIN Rules \cup TokenTypes
    /\ n.text \in Seq(Words)
    /\ n.rule \in {"ID", "id"} => n.text[1] \in Names
    /\ n.rule = "INT" => n.text[1] \in Numerals
    /\ n.rule = "gatename" => NameOf(n) \in Names
    /\ n.rule = "typedparam" => FirstChild(n, "param").text \in Seq(Words)
    /\ IntOf(n) \in Ints
    /\ IntsOf(n) \in Seq(Ints)
    /\ TextsIn(ChildrenOf(n, "exp")) \in Seq(Expressions)
    /\ WalkOK(n.rule, n.walk)
AllGood(S) == \A n \in S : Good(n)

LEMMA FunctionIsSeq ==
    ASSUME NEW Q, NEW n \in Nat, NEW f, f = [i \in 1..n |-> f[i]], \A i \in 1..n : f[i] \in Q
    PROVE  f \in Seq(Q) /\ Len(f) = n
<1>1. f \in [1..n -> Q]
  BY Zenon
<1> QED
  BY <1>1, SMT

LEMMA ElementsType ==
    ASSUME NEW S, NEW s \in Seq(S), NEW places, NEW P,
           \A i \in DOMAIN s : i \in places => s[i] \in P
    PROVE  ElementsAt(s, places) \in Seq(P)
<1> DEFINE ss == [i \in DOMAIN s |-> IF i \in places THEN <<s[i]>> ELSE <<>>]
           Q == Seq(P)
<1>1. \A i \in DOMAIN s : (IF i \in places THEN <<s[i]>> ELSE <<>>) \in Q
  <2>1. \A x \in P : <<x>> \in Q
    BY SMT
  <2>2. <<>> \in Q
    BY SMT
  <2> HIDE DEF Q
  <2> QED
    BY <2>1, <2>2, Zenon
<1>2. ss \in Seq(Q)
  <2> HIDE DEF Q
  <2>1. DOMAIN s = 1..Len(s) /\ Len(s) \in Nat
    BY SMT
  <2>2. /\ ss = [i \in 1..Len(s) |-> ss[i]]
        /\ \A i \in 1..Len(s) : ss[i] \in Q
    BY <1>1, <2>1, Zenon
  <2> HIDE DEF ss
  <2> QED
    BY <2>1, <2>2, FunctionIsSeq, Zenon
<1> HIDE DEF ss
<1>3. FlattenSeq(ss) \in Seq(P)
  BY <1>2, FlattenType, Zenon DEF Q
<1> QED
  BY <1>3, Zenon DEF ElementsAt, ss

LEMMA ChildrenFacts ==
    ASSUME NEW S, NEW c, c.children \in Seq(S), NEW rule
    PROVE  /\ ChildrenOf(c, rule) \in Seq({n \in S : n.rule = rule})
           /\ \/ /\ FirstChild(c, rule) = NoNode
                 /\ \A i \in DOMAIN c.children : c.children[i].rule # rule
              \/ FirstChild(c, rule) \in S /\ FirstChild(c, rule).rule = rule
<1> DEFINE ch == c.children
           P == {n \in S : n.rule = rule}
           places == PlacesOf(c, rule)
<1>1. /\ \A i \in DOMAIN ch : ch[i] \in S /\ i \in Nat
      /\ \A i : i \in places <=> i \in DOMAIN ch /\ ch[i].rule = rule
  BY SMT DEF PlacesOf
<1>2. ChildrenOf(c, rule) \in Seq(P)
  <2>1. \A i \in DOMAIN ch : i \in places => ch[i] \in P
    BY <1>1, Zenon
  <2>2. ChildrenOf(c, rule) = ElementsAt(ch, places)
    BY Zenon DEF ChildrenOf
  <2> HIDE DEF ch, places, P
  <2>3. ch \in Seq(S)
    BY Zenon DEF ch
  <2> QED
    BY <2>1, <2>2, <2>3, ElementsType, Zenon
<1>3. CASE places = {}
  BY <1>1, <1>2, <1>3, Zenon DEF FirstChild
<1>4. CASE places # {}
  <2>1. FirstChild(c, rule) = ch[Min(places)]
    BY <1>4, Zenon DEF FirstChild
  <2>2. Min(places) \in places
    <3> HIDE DEF places, ch
    <3>1. places \subseteq Nat
      BY <1>1, Zenon
    <3>2. \E x \in places : \A y \in places : x <= y
      BY <1>4, <3>1, LeastOfNaturals, Zenon
    <3> QED
      BY <3>2, Zenon DEF Min
  <2> QED
    BY <1>1, <1>2, <2>1, <2>2, Zenon
<1> QED
  BY <1>3, <1>4

(* A function of the elements of a sequence, element by element *)
LEMMA ImageIsSeq ==
    ASSUME NEW S, NEW s \in Seq(S), NEW Q, NEW f, f = [i \in DOMAIN s |-> f[i]],
           \A i \in DOMAIN s : f[i] \in Q
    PROVE  f \in Seq(Q) /\ Len(f) = Len(s)
<1>1. DOMAIN s = 1..Len(s) /\ Len(s) \in Nat
  BY SMT
<1> QED
  BY <1>1, FunctionIsSeq, Zenon

LEMMA ElementIn == ASSUME NEW S, NEW s \in Seq(S) PROVE \A i \in DOMAIN s : s[i] \in S
BY SMT

LEMMA AskedOf ==
    ASSUME NEW S, AllGood(S), NEW c, c.children \in Seq(S)
    PROVE  /\ IntOf(c) \in Ints
           /\ IntsOf(c) \in Seq(Ints) /\ Len(IntsOf(c)) = Len(ChildrenOf(c, "gatearg"))
           /\ TextsIn(ChildrenOf(c, "exp")) \in Seq(Expressions)
           /\ TextsOf(c) \in Seq(Expressions) \cup {NoNode}
<1>1. IntOf(c) \in Ints
  <2>1. FirstChild(c, "INT") = NoNode \/ FirstChild(c, "INT").text[1] \in Numerals
    BY ChildrenFacts, Zenon DEF AllGood, Good
  <2> QED
    BY <2>1, Zenon DEF IntOf, Ints
<1>2. IntsOf(c) \in Seq(Ints) /\ Len(IntsOf(c)) = Len(ChildrenOf(c, "gatearg"))
  <2> DEFINE arguments == ChildrenOf(c, "gatearg")
             P == {n \in S : n.rule = "gatearg"}
             ints == [i \in DOMAIN arguments |-> IntOf(arguments[i])]
  <2>1. arguments \in Seq(P)
    BY ChildrenFacts, Zenon
  <2>2. \A n \in P : IntOf(n) \in Ints
    BY Zenon DEF AllGood, Good
  <2>3. IntsOf(c) = ints
    BY Zenon DEF IntsOf
  <2> HIDE DEF arguments, P
  <2>4. \A i \in DOMAIN arguments : arguments[i] \in P
    BY <2>1, ElementIn, Zenon
  <2>5. ints = [i \in DOMAIN arguments |-> ints[i]] /\ \A i \in DOMAIN arguments : ints[i] \in Ints
    BY <2>2, <2>4, Zenon
  <2> HIDE DEF ints
  <2>6. ints \in Seq(Ints) /\ Len(ints) = Len(arguments)
    BY <2>1, <2>5, ImageIsSeq, Zenon
  <2> QED
    BY <2>3, <2>6 DEF arguments
<1>3. TextsIn(ChildrenOf(c, "exp")) \in Seq(Expressions)
  <2> DEFINE list == ChildrenOf(c, "exp")
             P == {n \in S : n.rule = "exp"}
             texts == [i \in DOMAIN list |-> list[i].text]
  <2>1. list \in Seq(P)
    BY ChildrenFacts, Zenon
  <2>2. \A n \in P : n.text \in Expressions
    BY Zenon DEF AllGood, Good, Expressions
  <2>3. TextsIn(list) = texts
    BY Zenon DEF TextsIn
  <2> HIDE DEF list, P
  <2>4. \A i \in DOMAIN list : list[i] \in P
    BY <2>1, ElementIn, Zenon
  <2>5. texts = [i \in DOMAIN list |-> texts[i]] /\ \A i \in DOMAIN list : texts[i] \in Expressions
    BY <2>2, <2>4, Zenon
  <2> HIDE DEF texts
  <2> QED
    BY <2>1, <2>3, <2>5, ImageIsSeq, Zenon DEF list
<1>4. TextsOf(c) \in Seq(Expressions) \cup {NoNode}
  <2> DEFINE list == FirstChild(c, "explist")
  <2>1. list = NoNode \/ TextsIn(ChildrenOf(list, "exp")) \in Seq(Expressions)
    BY ChildrenFacts, Zenon DEF AllGood, Good
  <2> QED
    BY <2>1, Zenon DEF TextsOf
<1> QED
  BY <1>1, <1>2, <1>3, <1>4

(* Tokens as the lexer hands them on *)
Lexed == {token \in [type : TokenTypes, text : Words] :
            /\ token.type = "ID" => token.text \in Names
            /\ token.type = "INT" => token.text \in Numerals}

LEMMA TokenNamed ==
    /\ \A s \in TokenTypes : s \notin DOMAIN Rules /\ s \notin DOMAIN Grammar
    /\ \A s \in {"xaccsrc", "xacckernel", "gatename", "typedparam", "id", "gatearg", "measure"} : s \in DOMAIN Rules
<1>1. \A s \in {"xaccsrc", "xacckernel", "gatename", "typedparam", "id", "gatearg", "measure"} : s \in DOMAIN Rules
  BY RuleNamed, Zenon DEF RuleNames
<1> QED
  BY <1>1, GrammarOf, NoEOL, Zenon DEF TokenTypes

LEMMA TokenGood ==
    ASSUME NEW token \in Lexed
    PROVE  Good(Token(token)) /\ Token(token).rule = token.type
<1> DEFINE n == Token(token)
<1>1. n.rule = token.type /\ n.text = <<token.text>> /\ n.children = <<>> /\ n.walk = <<>>
  BY SMT DEF Token
<1>2. token.type \in TokenTypes /\ token.text \in Words
  BY SMT DEF Lexed
<1>3. n.text \in Seq(Words) /\ n.text[1] = token.text
  BY <1>1, <1>2, SMT
<1>4. n.children \in Seq({}) /\ AllGood({})
  BY <1>1, EmptySeq, Zenon DEF AllGood
<1>5. IntOf(n) \in Ints /\ IntsOf(n) \in Seq(Ints) /\ TextsIn(ChildrenOf(n, "exp")) \in Seq(Expressions)
  BY <1>4, AskedOf, Zenon
<1>6. WalkOK(n.rule, n.walk)
  <2>1. <<>> \in Seq(Plain)
    BY SMT
  <2> QED
    BY <1>1, <1>2, <2>1, TokenNamed, Zenon DEF WalkOK
<1>7. n.rule # "gatename" /\ n.rule # "typedparam" /\ n.rule # "id"
  BY <1>1, <1>2, TokenNamed, Zenon
<1>8. /\ n.rule = "ID" => n.text[1] \in Names
      /\ n.rule = "INT" => n.text[1] \in Numerals
  BY <1>1, <1>3, Zenon DEF Lexed
<1> HIDE DEF n
<1> QED
  BY <1>1, <1>2, <1>3, <1>5, <1>6, <1>7, <1>8, Zenon DEF Good, n

(* The kinds of the children a context has *)
Kinds(children) == [j \in DOMAIN children |-> children[j].rule]

LEMMA KindPlace ==
    ASSUME NEW S, NEW ch \in Seq(S), NEW rule, rule \in Range(Kinds(ch))
    PROVE  \E i \in DOMAIN ch : ch[i].rule = rule
BY Zenon DEF Kinds, Range

LEMMA ChildThere ==
    ASSUME NEW S, NEW c, c.children \in Seq(S), NEW rule, rule \in Range(Kinds(c.children))
    PROVE  FirstChild(c, rule) \in S /\ FirstChild(c, rule).rule = rule
<1>1. PICK i \in DOMAIN c.children : c.children[i].rule = rule
  BY KindPlace, Zenon
<1>2. \/ FirstChild(c, rule) = NoNode /\ \A j \in DOMAIN c.children : c.children[j].rule # rule
      \/ FirstChild(c, rule) \in S /\ FirstChild(c, rule).rule = rule
  BY ChildrenFacts
<1> QED
  BY <1>1, <1>2, Zenon

LEMMA NameType ==
    ASSUME NEW S, AllGood(S), NEW c, c.children \in Seq(S), "id" \in Range(Kinds(c.children))
    PROVE  NameOf(c) \in Names
BY ChildThere, Zenon DEF NameOf, AllGood, Good

LEMMA EventMade ==
    ASSUME NEW on \in Callbacks, NEW name \in Names, NEW ints \in Seq(Ints),
           NEW texts \in Seq(Expressions) \cup {NoNode},
           on = "enterXacckernel" => texts # NoNode,
           on = "exitMeasure" => Len(ints) = 2
    PROVE  \E e \in Event : e.on = on /\ Callback(on, name, ints, texts) = <<e>>
<1> DEFINE e == [on |-> on, name |-> name, ints |-> ints, texts |-> texts]
<1>1. e \in Event /\ e.on = on
  BY SMT DEF Event, Ints
<1>2. Callback(on, name, ints, texts) = <<e>>
  BY Zenon DEF Callback
<1> HIDE DEF e
<1> QED
  BY <1>1, <1>2, Zenon

LEMMA AnyNameIs == AnyName \in Names
BY SourcesAssumption, Zenon DEF AnyName

LEMMA NoInts == <<>> \in Seq(Ints) /\ NoNode \notin Seq(Expressions)
BY TextsAssumption, SMT

LEMMA ParamsRead ==
    ASSUME NEW S, AllGood(S), NEW c, c.children \in Seq(S)
    PROVE  LET typed == ChildrenOf(c, "typedparam") IN
           TextsIn([i \in DOMAIN typed |-> FirstChild(typed[i], "param")]) \in Seq(Expressions)
<1> DEFINE typed == ChildrenOf(c, "typedparam")
           P == {n \in S : n.rule = "typedparam"}
           params == [i \in DOMAIN typed |-> FirstChild(typed[i], "param")]
           texts == [i \in DOMAIN params |-> params[i].text]
<1>1. typed \in Seq(P)
  BY ChildrenFacts, Zenon
<1>2. \A n \in P : FirstChild(n, "param").text \in Expressions
  BY Zenon DEF AllGood, Good, Expressions
<1>3. TextsIn(params) = texts
  BY Zenon DEF TextsIn
<1>4. DOMAIN params = DOMAIN typed
  BY Zenon
<1> HIDE DEF typed, P
<1>5. \A i \in DOMAIN typed : typed[i] \in P
  BY <1>1, ElementIn, Zenon
<1>6. \A i \in DOMAIN typed : params[i].text \in Expressions
  BY <1>2, <1>5, Zenon
<1> HIDE DEF params
<1>7. texts = [i \in DOMAIN typed |-> texts[i]] /\ \A i \in DOMAIN typed : texts[i] \in Expressions
  BY <1>4, <1>6, Zenon
<1> HIDE DEF texts
<1>8. texts \in Seq(Expressions)
  BY <1>1, <1>7, ImageIsSeq, Zenon
<1> QED
  BY <1>3, <1>8 DEF typed, params

LEMMA KernelCallbacks ==
    ASSUME NEW S, AllGood(S), NEW c, c.rule = "xacckernel", c.children \in Seq(S),
           Complete(c.rule, Kinds(c.children))
    PROVE  /\ \E e \in Event : e.on = "enterXacckernel" /\ Entered(c) = <<e>>
           /\ \E x \in Event : x.on = "exitXacckernel" /\ Exited(c) = <<x>>
<1>1. NameOf(c) \in Names
  BY NameType, Zenon DEF Complete
<1> DEFINE typed == ChildrenOf(c, "typedparam")
           texts == TextsIn([i \in DOMAIN typed |-> FirstChild(typed[i], "param")])
<1>2. texts \in Seq(Expressions) /\ texts # NoNode
  BY ParamsRead, NoInts, Zenon
<1>3. Entered(c) = Callback("enterXacckernel", NameOf(c), <<>>, texts)
  BY Zenon DEF Entered
<1>4. Exited(c) = Callback("exitXacckernel", NameOf(c), <<>>, NoNode)
  BY Zenon DEF Exited
<1>5. "enterXacckernel" \in Callbacks /\ "exitXacckernel" \in Callbacks
  BY Zenon DEF Callbacks
<1> HIDE DEF texts
<1>6. \E e \in Event : e.on = "enterXacckernel"
        /\ Callback("enterXacckernel", NameOf(c), <<>>, texts) = <<e>>
  <2> DEFINE on == "enterXacckernel" ints == <<>>
  <2>1. /\ on \in Callbacks /\ ints \in Seq(Ints) /\ texts \in Seq(Expressions) \cup {NoNode}
        /\ on = "enterXacckernel" => texts # NoNode
        /\ on = "exitMeasure" => Len(ints) = 2
    BY <1>2, <1>5, NoInts, Zenon
  <2> HIDE DEF on, ints
  <2>2. \E e \in Event : e.on = on /\ Callback(on, NameOf(c), ints, texts) = <<e>>
    BY <1>1, <2>1, EventMade
  <2> QED
    BY <2>2, Zenon DEF on, ints
<1>7. \E x \in Event : x.on = "exitXacckernel"
        /\ Callback("exitXacckernel", NameOf(c), <<>>, NoNode) = <<x>>
  <2> DEFINE on == "exitXacckernel" ints == <<>> none == NoNode
  <2>1. /\ on \in Callbacks /\ ints \in Seq(Ints) /\ none \in Seq(Expressions) \cup {NoNode}
        /\ on = "enterXacckernel" => none # NoNode
        /\ on = "exitMeasure" => Len(ints) = 2
    BY <1>5, NoInts, Zenon
  <2> HIDE DEF on, ints, none
  <2>2. \E e \in Event : e.on = on /\ Callback(on, NameOf(c), ints, none) = <<e>>
    BY <1>1, <2>1, EventMade
  <2> QED
    BY <2>2, Zenon DEF on, ints, none
<1> QED
  BY <1>3, <1>4, <1>6, <1>7, Zenon

Others == {"exitKernelcall", "exitU", "exitCX", "exitUserDefGate", "exitMeasure"}
LEMMA PlainMade ==
    ASSUME NEW on \in Others, NEW name \in Names, NEW ints \in Seq(Ints),
           NEW texts \in Seq(Expressions) \cup {NoNode},
           on = "exitMeasure" => Len(ints) = 2
    PROVE  Callback(on, name, ints, texts) \in Seq(Plain)
<1>1. on \in Callbacks /\ on # "enterXacckernel" /\ on # "exitXacckernel"
  BY Zenon DEF Others, Callbacks
<1>2. PICK e \in Event : e.on = on /\ Callback(on, name, ints, texts) = <<e>>
  BY <1>1, EventMade, Zenon
<1>3. e \in Plain
  BY <1>1, <1>2, Zenon DEF Plain
<1>4. <<e>> \in Seq(Plain)
  BY <1>3, SMT
<1> QED
  BY <1>2, <1>4, Zenon

LEMMA FlattenFour ==
    ASSUME NEW T, NEW a \in Seq(T), NEW b \in Seq(T), NEW c \in Seq(T), NEW d \in Seq(T)
    PROVE  /\ FlattenSeq(<<a, b, c, d>>) \in Seq(T)
           /\ Len(FlattenSeq(<<a, b, c, d>>)) = Len(a) + Len(b) + Len(c) + Len(d)
<1> DEFINE Q == Seq(T)
<1>1. \A w, x, y, z \in Q : /\ <<>> \in Seq(Q) /\ <<w>> \in Seq(Q) /\ <<w, x>> \in Seq(Q)
          /\ <<w, x, y>> \in Seq(Q) /\ <<w, x, y, z>> \in Seq(Q)
          /\ Append(<<>>, w) = <<w>> /\ <<w, x, y, z>>[4] = z
  <2> HIDE DEF Q
  <2> QED
    BY SMT
<1>2. Append(<<a, b, c>>, d) = <<a, b, c, d>>
  <2> HIDE DEF Q
  <2> DEFINE s == <<a, b, c>> t == <<a, b, c, d>>
  <2>1. /\ s \in Seq({a, b, c, d}) /\ t \in Seq({a, b, c, d}) /\ d \in {a, b, c, d}
        /\ Len(s) = 3 /\ Len(t) = 4 /\ t[4] = d
        /\ s[1] = t[1] /\ s[2] = t[2] /\ s[3] = t[3]
    BY SMT
  <2> HIDE DEF s, t
  <2>2. Len(t) = Len(s) + 1 /\ t[Len(s) + 1] = d /\ \A i \in 1..Len(s) : t[i] = s[i]
    BY <2>1, SMT
  <2>3. Append(s, d) = t
    BY <2>1, <2>2, AppendIs, Zenon
  <2> QED
    BY <2>3 DEF s, t
<1>3. /\ <<>> \in Seq(Seq(T)) /\ <<a>> \in Seq(Seq(T)) /\ <<a, b>> \in Seq(Seq(T))
      /\ <<a, b, c>> \in Seq(Seq(T)) /\ Append(<<>>, a) = <<a>>
  BY <1>1, Zenon
<1>4. Append(<<a>>, b) = <<a, b>> /\ Append(<<a, b>>, c) = <<a, b, c>>
  BY Append1, Append2
<1>5. /\ FlattenSeq(Append(<<>>, a)) = FlattenSeq(<<>>) \o a
      /\ FlattenSeq(Append(<<a>>, b)) = FlattenSeq(<<a>>) \o b
      /\ FlattenSeq(Append(<<a, b>>, c)) = FlattenSeq(<<a, b>>) \o c
      /\ FlattenSeq(Append(<<a, b, c>>, d)) = FlattenSeq(<<a, b, c>>) \o d
  BY <1>3, FlattenAppend
<1>6. FlattenSeq(<<a, b, c, d>>) = (((<<>> \o a) \o b) \o c) \o d
  <2>1. FlattenSeq(<<a>>) = <<>> \o a
    BY <1>3, <1>5, EmptyJoined, Zenon
  <2>2. FlattenSeq(<<a, b>>) = (<<>> \o a) \o b
    BY <1>4, <1>5, <2>1, Zenon
  <2>3. FlattenSeq(<<a, b, c>>) = ((<<>> \o a) \o b) \o c
    BY <1>4, <1>5, <2>2, Zenon
  <2> QED
    BY <1>2, <1>5, <2>3, Zenon
<1>7. /\ <<>> \o a = a /\ a \o b \in Seq(T) /\ Len(a \o b) = Len(a) + Len(b)
  BY SMT
<1> DEFINE ab == a \o b
           abc == ab \o c
<1>8. abc \in Seq(T) /\ Len(abc) = Len(ab) + Len(c)
  <2>1. ab \in Seq(T)
    BY <1>7
  <2> HIDE DEF ab
  <2> QED
    BY <2>1, SMT
<1> HIDE DEF abc
<1>9. abc \o d \in Seq(T) /\ Len(abc \o d) = Len(abc) + Len(d)
  BY <1>8, ConcatProperties, Zenon
<1>10. FlattenSeq(<<a, b, c, d>>) = abc \o d
  BY <1>6, <1>7, Zenon DEF abc, ab
<1>11. Len(abc \o d) = Len(a) + Len(b) + Len(c) + Len(d)
  BY <1>7, <1>8, <1>9
<1> QED
  BY <1>9, <1>10, <1>11, Zenon

LEMMA PlainCallbacks ==
    ASSUME NEW S, AllGood(S), NEW c, c.rule # "xacckernel", c.children \in Seq(S),
           Complete(c.rule, Kinds(c.children)),
           c.rule = "measure" => Len(ChildrenOf(c, "gatearg")) = 2
    PROVE  Entered(c) = <<>> /\ Exited(c) \in Seq(Plain)
<1>1. Entered(c) = <<>>
  BY Zenon DEF Entered
<1>2. /\ IntsOf(c) \in Seq(Ints) /\ TextsOf(c) \in Seq(Expressions) \cup {NoNode}
      /\ Len(IntsOf(c)) = Len(ChildrenOf(c, "gatearg"))
      /\ <<>> \in Seq(Ints) /\ NoNode \in Seq(Expressions) \cup {NoNode}
  BY AskedOf, NoInts, Zenon
<1>3. AnyName \in Names
  BY AnyNameIs
<1>4. CASE c.rule = "kernelcall"
  <2>1. Exited(c) = Callback("exitKernelcall", NameOf(c), <<>>, NoNode)
    BY <1>4, Zenon DEF Exited
  <2>2. NameOf(c) \in Names
    BY <1>4, NameType, Zenon DEF Complete
  <2>3. "exitKernelcall" \in Others /\ "exitKernelcall" # "exitMeasure"
    BY Zenon DEF Others
  <2> QED
    BY <1>1, <1>2, <2>1, <2>2, <2>3, PlainMade, Zenon
<1>5. CASE c.rule = "U"
  <2>1. Exited(c) = Callback("exitU", AnyName, IntsOf(c), TextsOf(c))
    BY <1>5, Zenon DEF Exited
  <2>3. "exitU" \in Others /\ "exitU" # "exitMeasure"
    BY Zenon DEF Others
  <2> QED
    BY <1>1, <1>2, <1>3, <2>1, <2>3, PlainMade, Zenon
<1>6. CASE c.rule = "CX"
  <2>1. Exited(c) = Callback("exitCX", AnyName, IntsOf(c), NoNode)
    BY <1>6, Zenon DEF Exited
  <2>3. "exitCX" \in Others /\ "exitCX" # "exitMeasure"
    BY Zenon DEF Others
  <2> QED
    BY <1>1, <1>2, <1>3, <2>1, <2>3, PlainMade, Zenon
<1>7. CASE c.rule = "UserDefGate"
  <2> DEFINE name == FirstChild(c, "gatename")
             list == FirstChild(c, "gatearglist")
  <2>1. Exited(c) = Callback("exitUserDefGate", NameOf(name), IntsOf(list), TextsOf(c))
    BY <1>7, Zenon DEF Exited
  <2>2. name \in S /\ name.rule = "gatename" /\ list \in S
    BY <1>7, ChildThere, Zenon DEF Complete
  <2>3. NameOf(name) \in Names /\ IntsOf(list) \in Seq(Ints)
    BY <2>2, Zenon DEF AllGood, Good
  <2>4. "exitUserDefGate" \in Others /\ "exitUserDefGate" # "exitMeasure"
    BY Zenon DEF Others
  <2> HIDE DEF name, list
  <2> QED
    BY <1>1, <1>2, <2>1, <2>3, <2>4, PlainMade, Zenon
<1>8. CASE c.rule = "measure"
  <2>1. Exited(c) = Callback("exitMeasure", AnyName, IntsOf(c), NoNode)
    BY <1>8, Zenon DEF Exited
  <2>3. "exitMeasure" \in Others /\ Len(IntsOf(c)) = 2
    BY <1>2, <1>8, Zenon DEF Others
  <2> QED
    BY <1>1, <1>2, <1>3, <2>1, <2>3, PlainMade, Zenon
<1>9. CASE c.rule \notin {"kernelcall", "U", "CX", "UserDefGate", "measure"}
  <2>1. Exited(c) = <<>>
    BY <1>9, Zenon DEF Exited
  <2>2. <<>> \in Seq(Plain)
    BY SMT
  <2> QED
    BY <1>1, <2>1, <2>2, Zenon
<1> QED
  BY <1>4, <1>5, <1>6, <1>7, <1>8, <1>9, Zenon

NotCalled(s) == s \in DOMAIN Rules \cup TokenTypes
LEMMA BranchesNotCalled == ~ NotCalled("qbit") /\ ~ NotCalled("cbit") /\ ~ NotCalled("xacckernel*")
<1>1. {"qbit", "cbit"} \subseteq DOMAIN AdaptiveBranches /\ "xacckernel*" \in DOMAIN Branches
  BY Zenon DEF AdaptiveBranches, Branches
<1>2. "qbit" # "EOL" /\ "cbit" # "EOL" /\ "xacckernel*" # "EOL"
  BY Zenon
<1> QED
  BY <1>1, <1>2, Unnamed, GrammarOf, Zenon DEF NotCalled, TokenTypes

LEMMA MeasuredBits ==
    ASSUME NEW S, AllGood(S), NEW c, c.children \in Seq(S), Measures(Kinds(c.children))
    PROVE  Len(ChildrenOf(c, "gatearg")) = 2
<1> DEFINE ch == c.children
           kinds == Kinds(ch)
           places == PlacesOf(c, "gatearg")
<1>1. \A i \in DOMAIN ch : ch[i] \in S
  BY ElementIn, Zenon
<1>2. DOMAIN kinds = DOMAIN ch /\ \A i \in DOMAIN ch : kinds[i] = ch[i].rule
  BY Zenon DEF Kinds
<1>3. PICK a \in Qubits, b \in Cbits : kinds = <<"MEASURE", a, "'->'", b>>
  BY Zenon DEF Measures
<1>4. \A u, v, w, x : DOMAIN <<u, v, w, x>> = {1, 2, 3, 4} /\ <<u, v, w, x>>[1] = u
        /\ <<u, v, w, x>>[2] = v /\ <<u, v, w, x>>[3] = w /\ <<u, v, w, x>>[4] = x
  BY SMT
<1>5. /\ DOMAIN kinds = {1, 2, 3, 4} /\ kinds[1] = "MEASURE" /\ kinds[2] = a
      /\ kinds[3] = "'->'" /\ kinds[4] = b
  BY <1>3, <1>4, SMT
<1>6. a = "gatearg" /\ b = "gatearg"
  <2>1. NotCalled(a) /\ NotCalled(b)
    BY <1>1, <1>2, <1>5, Zenon DEF AllGood, Good, NotCalled
  <2> QED
    BY <1>3, <2>1, BranchesNotCalled, Zenon DEF Qubits, Cbits
<1>7. \A i : i \in places <=> i \in DOMAIN ch /\ ch[i].rule = "gatearg"
  BY Zenon DEF PlacesOf
<1>8. 1 \notin places /\ 2 \in places /\ 3 \notin places /\ 4 \in places
  BY <1>2, <1>5, <1>6, <1>7, Zenon
<1> DEFINE ss == [i \in DOMAIN ch |-> IF i \in places THEN <<ch[i]>> ELSE <<>>]
           four == << <<>>, <<ch[2]>>, <<>>, <<ch[4]>> >>
<1>9. DOMAIN ch = {1, 2, 3, 4} /\ DOMAIN ch = 1..Len(ch) /\ Len(ch) = 4
  <2>1. DOMAIN ch = 1..Len(ch) /\ Len(ch) \in Nat
    BY SMT
  <2>2. DOMAIN ch = {1, 2, 3, 4}
    BY <1>2, <1>5
  <2> DEFINE n == Len(ch)
  <2>3. n \in Nat /\ 1..n = {1, 2, 3, 4}
    BY <2>1, <2>2
  <2> HIDE DEF n, ch
  <2>4. 4 \in 1..n /\ 5 \notin 1..n
    <3>1. 4 \in {1, 2, 3, 4} /\ 5 \notin {1, 2, 3, 4}
      BY SMT
    <3> QED
      BY <2>3, <3>1
  <2>5. n = 4
    BY <2>3, <2>4, SMT
  <2> QED
    BY <2>1, <2>2, <2>5 DEF n
<1>10. ss[1] = <<>> /\ ss[2] = <<ch[2]>> /\ ss[3] = <<>> /\ ss[4] = <<ch[4]>>
  BY <1>8, <1>9, Zenon
<1>11. ss = four
  <2>1. ss = [i \in {1, 2, 3, 4} |-> ss[i]]
    BY <1>9, Zenon
  <2>2. /\ four = [i \in {1, 2, 3, 4} |-> four[i]]
        /\ four[1] = <<>> /\ four[2] = <<ch[2]>> /\ four[3] = <<>> /\ four[4] = <<ch[4]>>
    BY SMT
  <2>3. \A i \in {1, 2, 3, 4} : ss[i] = four[i]
    BY <1>10, <2>2, Zenon
  <2> HIDE DEF ss, four
  <2> QED
    BY <2>1, <2>2, <2>3, Zenon
<1>12. ChildrenOf(c, "gatearg") = FlattenSeq(ss)
  BY Zenon DEF ChildrenOf, ElementsAt
<1>13. /\ <<>> \in Seq(S) /\ <<ch[2]>> \in Seq(S) /\ <<ch[4]>> \in Seq(S)
       /\ Len(<<ch[2]>>) = 1 /\ Len(<<ch[4]>>) = 1 /\ Len(<<>>) = 0
  <2>1. ch[2] \in S /\ ch[4] \in S
    BY <1>1, <1>9, Zenon
  <2> HIDE DEF ch
  <2> QED
    BY <2>1, SMT
<1>14. Len(FlattenSeq(four)) = Len(<<>>) + Len(<<ch[2]>>) + Len(<<>>) + Len(<<ch[4]>>)
  <2> DEFINE none == <<>> q == <<ch[2]>> r == <<ch[4]>>
  <2>1. none \in Seq(S) /\ q \in Seq(S) /\ r \in Seq(S)
    BY <1>13
  <2> HIDE DEF none, q, r
  <2>2. Len(FlattenSeq(<<none, q, none, r>>)) = Len(none) + Len(q) + Len(none) + Len(r)
    BY <2>1, FlattenFour
  <2> QED
    BY <2>2 DEF none, q, r
<1> HIDE DEF ss, four, ch, places
<1>15. Len(FlattenSeq(four)) = 2
  BY <1>13, <1>14
<1> QED
  BY <1>11, <1>12, <1>15, Zenon

LEMMA KernelWalkFacts ==
    ASSUME NEW v, KernelWalk(v)
    PROVE  /\ v \in Seq(Event) /\ Len(v) \in Nat /\ Len(v) >= 2
           /\ v[1].on = "enterXacckernel" /\ v[Len(v)].on = "exitXacckernel"
           /\ \A i \in 2..(Len(v) - 1) :
                v[i].on # "enterXacckernel" /\ v[i].on # "exitXacckernel"
<1>1. PICK e \in Event, p \in Seq(Plain), x \in Event :
        e.on = "enterXacckernel" /\ x.on = "exitXacckernel" /\ v = (<<e>> \o p) \o <<x>>
  BY Zenon DEF KernelWalk
<1>2. Plain \subseteq Event /\ \A q \in Plain : q.on # "enterXacckernel" /\ q.on # "exitXacckernel"
  BY Zenon DEF Plain
<1> DEFINE a == <<e>>  b == <<x>>  ap == a \o p
<1>3. /\ a \in Seq(Event) /\ Len(a) = 1 /\ a[1] = e /\ b \in Seq(Event) /\ Len(b) = 1 /\ b[1] = x
      /\ p \in Seq(Event) /\ Len(p) \in Nat
  <2> HIDE DEF Plain
  <2>1. p \in Seq(Event)
    BY <1>2, SeqMonotonic, Zenon
  <2> QED
    BY <2>1, SMT
<1>4. \A i \in 1..Len(p) : p[i] \in Plain
  BY SMT
<1> HIDE DEF a, b
<1>5. /\ ap \in Seq(Event) /\ Len(ap) = Len(p) + 1
      /\ \A i \in 1..(Len(p) + 1) : ap[i] = IF i <= 1 THEN e ELSE p[i - 1]
  <2>1. /\ ap \in Seq(Event) /\ Len(ap) = Len(a) + Len(p)
        /\ \A i \in 1..(Len(a) + Len(p)) : ap[i] = IF i <= Len(a) THEN a[i] ELSE p[i - Len(a)]
    BY <1>3, ConcatProperties, Zenon
  <2> HIDE DEF ap
  <2> QED
    BY <1>3, <2>1, SMT
<1> HIDE DEF ap
<1>6. v = ap \o b
  BY <1>1, Zenon DEF ap, a, b
<1>7. /\ v \in Seq(Event) /\ Len(v) = Len(p) + 2
      /\ \A i \in 1..(Len(p) + 2) : v[i] = IF i <= Len(p) + 1 THEN ap[i] ELSE b[i - (Len(p) + 1)]
  <2>1. /\ v \in Seq(Event) /\ Len(v) = Len(ap) + Len(b)
        /\ \A i \in 1..(Len(ap) + Len(b)) : v[i] = IF i <= Len(ap) THEN ap[i] ELSE b[i - Len(ap)]
    BY <1>3, <1>5, <1>6, ConcatProperties, Zenon
  <2> QED
    BY <1>3, <1>5, <2>1, SMT
<1>8. v[1] = e
  BY <1>3, <1>5, <1>7, SMT
<1>9. v[Len(v)] = x
  <2> DEFINE l == Len(p)
  <2>1. l + 2 \in 1..(l + 2) /\ ~ (l + 2 <= l + 1) /\ (l + 2) - (l + 1) = 1
    BY <1>3, SMT
  <2> QED
    BY <1>3, <1>7, <2>1, Zenon
<1>10. \A i \in 2..(Len(v) - 1) : v[i] \in Plain
  <2> TAKE i \in 2..(Len(v) - 1)
  <2>1. v[i] = p[i - 1] /\ i - 1 \in 1..Len(p)
    BY <1>3, <1>5, <1>7, SMT
  <2> QED
    BY <1>4, <2>1, Zenon
<1> QED
  BY <1>1, <1>2, <1>3, <1>7, <1>8, <1>9, <1>10, SMT

LEMMA NestedConcat ==
    ASSUME NEW w \in Seq(Event), WellNested(w), NEW v, KernelWalk(v)
    PROVE  w \o v \in Seq(Event) /\ WellNested(w \o v)
<1> DEFINE n == Len(w)
           m == Len(v)
           u == w \o v
           Enters(e) == e.on = "enterXacckernel"
           Exits(e) == e.on = "exitXacckernel"
<1>0. n \in Nat /\ m \in Nat /\ m >= 2 /\ v \in Seq(Event) /\ Enters(v[1]) /\ Exits(v[m])
      /\ \A i \in 2..(m - 1) : ~ Enters(v[i]) /\ ~ Exits(v[i])
  BY KernelWalkFacts, SMT
<1>1. /\ u \in Seq(Event) /\ Len(u) = n + m
      /\ \A i \in 1..(n + m) : u[i] = IF i <= n THEN w[i] ELSE v[i - n]
  <2>1. v \in Seq(Event)
    BY <1>0
  <2> QED
    BY <2>1, ConcatProperties
<1>2. \A i \in 1..n : /\ Enters(w[i]) <=> (i = 1 \/ Exits(w[i - 1]))
                      /\ i = n => Exits(w[i])
  BY Zenon DEF WellNested
<1>a. \A e : ~ (Enters(e) /\ Exits(e))
  BY Zenon
<1> HIDE DEF n, m, u, Enters, Exits
<1>3. ASSUME NEW i \in 1..(n + m)
      PROVE  /\ Enters(u[i]) <=> (i = 1 \/ Exits(u[i - 1]))
             /\ i = n + m => Exits(u[i])
  <2>1. CASE i <= n
    <3>1. i \in 1..n /\ u[i] = w[i] /\ i # n + m
      BY <1>0, <1>1, <2>1, SMT
    <3>2. i # 1 => u[i - 1] = w[i - 1]
      BY <1>0, <1>1, <2>1, SMT
    <3> QED
      BY <1>2, <3>1, <3>2, Zenon
  <2>2. CASE i = n + 1
    <3>1. u[i] = v[1] /\ i # n + m
      BY <1>0, <1>1, <2>2, SMT
    <3>2. i # 1 => n \in 1..n /\ u[i - 1] = w[n]
      BY <1>0, <1>1, <2>2, SMT
    <3> QED
      BY <1>0, <1>2, <3>1, <3>2, Zenon
  <2>3. CASE i > n + 1
    <3> DEFINE k == i - n
    <3>1. /\ k \in 2..m /\ u[i] = v[k] /\ u[i - 1] = v[k - 1] /\ i # 1
          /\ i = n + m <=> k = m
          /\ k = 2 => k - 1 = 1
          /\ k # 2 => k - 1 \in 2..(m - 1)
          /\ k # m => k \in 2..(m - 1)
      BY <1>0, <1>1, <2>3, SMT
    <3> HIDE DEF k
    <3>2. ~ Exits(v[k - 1])
      BY <1>0, <1>a, <3>1, Zenon
    <3>3. ~ Enters(v[k]) /\ (k = m => Exits(v[k]))
      BY <1>0, <1>a, <3>1, Zenon
    <3> QED
      BY <3>1, <3>2, <3>3, Zenon
  <2> QED
    BY <1>0, <2>1, <2>2, <2>3, SMT
<1>4. WellNested(u)
  <2>1. \A i \in 1..Len(u) : /\ Enters(u[i]) <=> (i = 1 \/ Exits(u[i - 1]))
                             /\ i = Len(u) => Exits(u[i])
    BY <1>1, <1>3, Zenon
  <2> QED
    BY <2>1, Zenon DEF WellNested, Enters, Exits
<1> QED
  BY <1>1, <1>4 DEF u

LEMMA NestedKernels ==
    ASSUME NEW ss \in Seq({v \in Seq(Event) : KernelWalk(v)})
    PROVE  FlattenSeq(ss) \in Seq(Event) /\ WellNested(FlattenSeq(ss))
<1> DEFINE V == {v \in Seq(Event) : KernelWalk(v)}
           Nested(s) == FlattenSeq(s) \in Seq(Event) /\ WellNested(FlattenSeq(s))
           Bad == {n \in Nat : \E s \in Seq(V) : Len(s) = n /\ ~ Nested(s)}
<1>1. Nested(<<>>)
  <2>1. <<>> \in Seq(Event) /\ Len(<<>>) = 0
    BY SMT
  <2>2. 1..0 = {}
    BY SMT
  <2>3. WellNested(<<>>)
    BY <2>1, <2>2, Zenon DEF WellNested
  <2> QED
    BY <2>1, <2>3, EmptyJoined, Zenon
<1>2. ASSUME NEW s \in Seq(V), NEW v \in V, Nested(s)
      PROVE  Nested(Append(s, v))
  <2> DEFINE Q == Seq(Event)
  <2>1. V \subseteq Q
    BY Zenon
  <2>2. s \in Seq(Q) /\ v \in Q
    <3> HIDE DEF V, Q
    <3> QED
      BY <2>1, SeqMonotonic, Zenon
  <2>3. FlattenSeq(Append(s, v)) = FlattenSeq(s) \o v
    BY <2>2, FlattenAppend, Zenon
  <2> QED
    BY <1>2, <2>3, NestedConcat, Zenon
<1> SUFFICES ASSUME Bad # {} PROVE FALSE
  <2>1. Len(ss) \in Nat
    OBVIOUS
  <2> QED
    BY <2>1, Zenon
<1>3. PICK n \in Bad : \A m \in Bad : n =< m
  <2>1. Bad \subseteq Nat
    BY Zenon
  <2> HIDE DEF Bad
  <2> QED
    BY <2>1, LeastOfNaturals, Zenon
<1>4. PICK s \in Seq(V) : Len(s) = n /\ ~ Nested(s)
  BY <1>3, Zenon
<1>5. s # <<>>
  BY <1>1, <1>4, Zenon
<1> HIDE DEF V
<1>6. PICK front \in Seq(V) : \E v \in V :
        s = Append(front, v) /\ Len(front) \in Nat /\ Len(s) = Len(front) + 1
  BY <1>5, LastOff, Zenon
<1> HIDE DEF Nested
<1>7. ~ Nested(front)
  BY <1>2, <1>4, <1>6, Zenon
<1>8. Len(front) \in Bad
  BY <1>6, <1>7, Zenon
<1> HIDE DEF Bad
<1>9. n =< Len(front)
  BY <1>3, <1>8, Zenon
<1> QED
  BY <1>4, <1>6, <1>9, SMT

LEMMA ContextFields ==
    ASSUME NEW rule, NEW ch
    PROVE  LET c == [rule |-> rule, children |-> ch]
               n == Context(rule, ch)
           IN  /\ c.rule = rule /\ c.children = ch /\ n.rule = rule /\ n.children = ch
               /\ n.text = FlattenSeq([i \in DOMAIN ch |-> ch[i].text])
               /\ n.walk = (Entered(c) \o FlattenSeq([i \in DOMAIN ch |-> ch[i].walk])) \o Exited(c)
BY SMT DEF Context

LEMMA TextsJoined ==
    ASSUME NEW S, NEW ch \in Seq(S), NEW T, \A n \in S : n.text \in Seq(T)
    PROVE  FlattenSeq([i \in DOMAIN ch |-> ch[i].text]) \in Seq(T)
<1> DEFINE texts == [i \in DOMAIN ch |-> ch[i].text]
           Q == Seq(T)
<1>1. \A n \in S : n.text \in Q
  OBVIOUS
<1>2. \A i \in DOMAIN ch : ch[i] \in S
  BY ElementIn, Zenon
<1>3. texts = [i \in DOMAIN ch |-> texts[i]] /\ \A i \in DOMAIN ch : texts[i] \in Q
  BY <1>1, <1>2, Zenon
<1> HIDE DEF texts, Q
<1>4. texts \in Seq(Q)
  BY <1>3, ImageIsSeq, Zenon
<1>5. FlattenSeq(texts) \in Seq(T)
  BY <1>4, FlattenType, Zenon DEF Q
<1> QED
  BY <1>5 DEF texts

LEMMA WalksSeq ==
    ASSUME NEW S, NEW ch \in Seq(S), NEW Q, \A i \in DOMAIN ch : ch[i].walk \in Q
    PROVE  [i \in DOMAIN ch |-> ch[i].walk] \in Seq(Q)
<1> DEFINE walks == [i \in DOMAIN ch |-> ch[i].walk]
<1>1. walks = [i \in DOMAIN ch |-> walks[i]] /\ \A i \in DOMAIN ch : walks[i] \in Q
  BY Zenon
<1> HIDE DEF walks
<1>2. walks \in Seq(Q)
  BY <1>1, ImageIsSeq, Zenon
<1> QED
  BY <1>2 DEF walks

LEMMA KindsAre ==
    ASSUME NEW S, AllGood(S), NEW ch \in Seq(S)
    PROVE  /\ DOMAIN Kinds(ch) = DOMAIN ch
           /\ \A i \in DOMAIN ch :
                /\ Kinds(ch)[i] = ch[i].rule /\ ch[i].rule \in Range(Kinds(ch))
                /\ ch[i] \in S /\ Good(ch[i]) /\ NotCalled(ch[i].rule)
<1>1. \A i \in DOMAIN ch : ch[i] \in S
  BY ElementIn, Zenon
<1>2. DOMAIN Kinds(ch) = DOMAIN ch /\ \A i \in DOMAIN ch : Kinds(ch)[i] = ch[i].rule
  BY Zenon DEF Kinds
<1>3. \A i \in DOMAIN ch : ch[i].rule \in Range(Kinds(ch))
  BY <1>2, Zenon DEF Range
<1> QED
  BY <1>1, <1>2, <1>3, Zenon DEF AllGood, Good, NotCalled

LEMMA ContextWalk ==
    ASSUME NEW S, AllGood(S), NEW rule \in DOMAIN Rules, NEW ch \in Seq(S),
           FormOK(rule, Kinds(ch))
    PROVE  WalkOK(rule, Context(rule, ch).walk)
<1> DEFINE c == [rule |-> rule, children |-> ch]
           walks == [i \in DOMAIN ch |-> ch[i].walk]
           flat == FlattenSeq(walks)
           w == Context(rule, ch).walk
<1>1. c.rule = rule /\ c.children = ch /\ w = (Entered(c) \o flat) \o Exited(c)
  BY ContextFields, Zenon
<1>2. Complete(c.rule, Kinds(c.children)) /\ Apart(rule, Kinds(ch))
  BY <1>1, Zenon DEF FormOK
<1>3. CASE rule = "xaccsrc"
  <2>1. Entered(c) = <<>> /\ Exited(c) = <<>>
    BY <1>1, <1>3, Zenon DEF Entered, Exited
  <2>2. \A i \in DOMAIN ch : ch[i].rule = "xacckernel"
    BY <1>2, <1>3, KindsAre, BranchesNotCalled, Zenon DEF Apart, Kernelwise
  <2> DEFINE V == {v \in Seq(Event) : KernelWalk(v)}
  <2>3. \A i \in DOMAIN ch : ch[i].walk \in V
    <3>1. \A i \in DOMAIN ch : KernelWalk(ch[i].walk)
      BY <2>2, KindsAre, Zenon DEF Good, WalkOK
    <3> QED
      BY <3>1, KernelWalkFacts, Zenon
  <2>4. walks \in Seq(V)
    <3> HIDE DEF V
    <3> QED
      BY <2>3, WalksSeq, Zenon
  <2>5. flat \in Seq(Event) /\ WellNested(flat)
    <3> HIDE DEF walks
    <3> QED
      BY <2>4, NestedKernels, Zenon
  <2>6. w = flat
    <3> HIDE DEF flat, w, c
    <3> QED
      BY <1>1, <2>1, <2>5, SMT
  <2> QED
    BY <1>3, <2>5, <2>6, Zenon DEF WalkOK
<1>4. ASSUME rule # "xaccsrc"
      PROVE  flat \in Seq(Plain)
  <2>1. \A i \in DOMAIN ch : ch[i].rule # "xaccsrc" /\ ch[i].rule # "xacckernel"
    BY <1>2, <1>4, KindsAre, Zenon DEF Apart, Special
  <2> DEFINE Q == Seq(Plain)
  <2>2. \A i \in DOMAIN ch : ch[i].walk \in Q
    BY <2>1, KindsAre, Zenon DEF Good, WalkOK
  <2>3. walks \in Seq(Q)
    <3> HIDE DEF Q
    <3> QED
      BY <2>2, WalksSeq, Zenon
  <2> QED
    BY <2>3, FlattenType, Zenon
<1>5. CASE rule = "xacckernel"
  <2>1. PICK e \in Event : e.on = "enterXacckernel" /\ Entered(c) = <<e>>
    BY <1>1, <1>2, <1>5, KernelCallbacks, Zenon
  <2>2. PICK x \in Event : x.on = "exitXacckernel" /\ Exited(c) = <<x>>
    BY <1>1, <1>2, <1>5, KernelCallbacks, Zenon
  <2>3. rule # "xaccsrc"
    BY <1>5, Zenon
  <2>4. KernelWalk(w)
    <3>1. w = (<<e>> \o flat) \o <<x>>
      BY <1>1, <2>1, <2>2, Zenon
    <3> HIDE DEF w, flat
    <3> QED
      BY <1>4, <2>1, <2>2, <2>3, <3>1, Zenon DEF KernelWalk
  <2> QED
    BY <1>5, <2>3, <2>4, Zenon DEF WalkOK
<1>6. CASE rule # "xaccsrc" /\ rule # "xacckernel"
  <2>1. rule = "measure" => Len(ChildrenOf(c, "gatearg")) = 2
    BY <1>1, MeasuredBits, Zenon DEF FormOK
  <2>2. Entered(c) = <<>> /\ Exited(c) \in Seq(Plain)
    BY <1>1, <1>2, <1>6, <2>1, PlainCallbacks, Zenon
  <2>3. w \in Seq(Plain)
    <3> DEFINE x == Exited(c)
    <3>1. w = (<<>> \o flat) \o x /\ x \in Seq(Plain) /\ flat \in Seq(Plain)
      BY <1>1, <1>4, <1>6, <2>2, Zenon
    <3> HIDE DEF w, flat, x, c
    <3>2. <<>> \o flat = flat
      BY <3>1, ConcatEmptySeq, Zenon
    <3> QED
      BY <3>1, <3>2, ConcatProperties, Zenon
  <2> QED
    BY <1>6, <2>3, Zenon DEF WalkOK
<1> QED
  BY <1>3, <1>5, <1>6

LEMMA IdText ==
    ASSUME NEW S, AllGood(S), NEW ch \in Seq(S), Kinds(ch) = <<"ID">>
    PROVE  FlattenSeq([i \in DOMAIN ch |-> ch[i].text])[1] \in Names
<1> DEFINE texts == [i \in DOMAIN ch |-> ch[i].text]
<1>1. \A a : DOMAIN <<a>> = {1} /\ <<a>>[1] = a
  BY OneAlternative
<1>2. DOMAIN <<"ID">> = {1} /\ <<"ID">>[1] = "ID"
  BY <1>1, Zenon
<1>3. DOMAIN ch = {1} /\ ch[1].rule = "ID" /\ Good(ch[1])
  <2>1. DOMAIN Kinds(ch) = DOMAIN ch
    BY KindsAre, Zenon
  <2>2. \A i \in DOMAIN ch : Kinds(ch)[i] = ch[i].rule /\ Good(ch[i])
    BY KindsAre, Zenon
  <2>3. DOMAIN ch = {1}
    BY <1>2, <2>1
  <2>4. 1 \in DOMAIN ch
    BY <2>3, Zenon
  <2> QED
    BY <1>2, <2>2, <2>3, <2>4
<1>4. ch[1].text \in Seq(Words) /\ ch[1].text[1] \in Names
  BY <1>3, Zenon DEF Good
<1> DEFINE t == ch[1].text
<1>5. texts = <<t>>
  <2>1. texts = [i \in {1} |-> t]
    BY <1>3, Zenon
  <2>2. 1..1 = {1}
    BY SMT
  <2>3. <<t>> = [i \in {1} |-> t]
    <3> HIDE DEF t
    <3> QED
      BY <2>2, SMT
  <2> QED
    BY <2>1, <2>3
<1> HIDE DEF texts, t
<1>6. t \in Seq(Words) /\ t[1] \in Names
  BY <1>4 DEF t
<1>7. /\ <<>> \in Seq(Seq(Words)) /\ Append(<<>>, t) = <<t>> /\ <<>> \o t = t
  <2>1. <<>> \o t = t
    BY <1>6, SMT
  <2>2. Append(<<>>, t) = <<t>>
    BY SMT
  <2> QED
    BY <2>1, <2>2, EmptySeq, Zenon
<1>8. FlattenSeq(<<t>>) = t
  <2>1. FlattenSeq(Append(<<>>, t)) = FlattenSeq(<<>>) \o t
    BY <1>6, <1>7, FlattenAppend, Zenon
  <2> QED
    BY <1>7, <2>1, EmptyJoined, Zenon
<1> QED
  BY <1>5, <1>6, <1>8 DEF texts

LEMMA ContextGood ==
    ASSUME NEW S, AllGood(S), NEW rule \in DOMAIN Rules, NEW ch \in Seq(S),
           FormOK(rule, Kinds(ch))
    PROVE  Good(Context(rule, ch)) /\ Context(rule, ch).rule = rule
<1> DEFINE n == Context(rule, ch)
<1>1. /\ n.rule = rule /\ n.children = ch
      /\ n.text = FlattenSeq([i \in DOMAIN ch |-> ch[i].text])
  <2>1. n.rule = rule
    BY ContextFields, Zenon
  <2>2. n.children = ch
    BY ContextFields, Zenon
  <2>3. n.text = FlattenSeq([i \in DOMAIN ch |-> ch[i].text])
    BY SMT DEF Context
  <2> QED
    BY <2>1, <2>2, <2>3
<1>2. WalkOK(rule, n.walk)
  BY ContextWalk, Zenon
<1>3. n.text \in Seq(Words)
  BY <1>1, TextsJoined, Zenon DEF AllGood, Good
<1>4. rule = "id" => n.text[1] \in Names
  BY <1>1, IdText, Zenon DEF FormOK
<1>5. rule # "ID" /\ rule # "INT"
  BY RuleNamed, Zenon DEF RuleNames
<1>6. IntOf(n) \in Ints /\ IntsOf(n) \in Seq(Ints) /\ TextsIn(ChildrenOf(n, "exp")) \in Seq(Expressions)
  BY <1>1, AskedOf, Zenon
<1>7. rule = "gatename" => NameOf(n) \in Names
  BY <1>1, NameType, Zenon DEF FormOK, Complete
<1>8. rule = "typedparam" => FirstChild(n, "param").text \in Seq(Words)
  BY <1>1, ChildThere, Zenon DEF FormOK, Complete, AllGood, Good
<1> HIDE DEF n
<1>9. Good(n)
  BY <1>1, <1>2, <1>3, <1>4, <1>5, <1>6, <1>7, <1>8, Zenon DEF Good
<1> QED
  BY <1>1, <1>9 DEF n

-----------------------------------------------------------------------------
(* Prediction: a qubit or bit with an index is first tried as one of a gate *)

Positions(k) == Seq(Symbols) \X (0..k)
ViableStep(f, p, tokens, k) ==
    LET s == p[1]
        n == p[2]
    IN  \/ n = k \/ s = <<>>
        \/ IF Head(s) \in DOMAIN Grammar
           THEN \E i \in DOMAIN Grammar[Head(s)] :
                    f[<<Grammar[Head(s)][i] \o Tail(s), n>>]
           ELSE /\ n < Len(tokens)
                /\ tokens[n + 1].type = Head(s)
                /\ f[<<Tail(s), n + 1>>]
Predicts(f, tokens, k) == f = [p \in Positions(k) |-> ViableStep(f, p, tokens, k)]

LEMMA SuccessorsAre ==
    ASSUME NEW k \in Nat, NEW s \in Seq(Symbols), NEW n \in 0..k, n # k, s # <<>>
    PROVE  /\ Head(s) \in DOMAIN Grammar =>
                \A i \in DOMAIN Grammar[Head(s)] : <<Grammar[Head(s)][i] \o Tail(s), n>> \in Positions(k)
           /\ <<Tail(s), n + 1>> \in Positions(k)
<1>1. Tail(s) \in Seq(Symbols) /\ n + 1 \in 0..k
  BY SMT
<1>2. ASSUME NEW i, Head(s) \in DOMAIN Grammar, i \in DOMAIN Grammar[Head(s)]
      PROVE  Grammar[Head(s)][i] \o Tail(s) \in Seq(Symbols)
  <2>1. Grammar[Head(s)][i] \in Seq(Symbols)
    BY <1>2, GrammarType, Zenon
  <2> QED
    BY <1>1, <2>1, ConcatProperties, Zenon
<1>3. \A x \in Seq(Symbols), m \in 0..k : <<x, m>> \in Positions(k)
  BY SMT DEF Positions
<1> QED
  BY <1>1, <1>2, <1>3, Zenon

LEMMA PositionIs ==
    ASSUME NEW k \in Nat, NEW p \in Positions(k)
    PROVE  p = <<p[1], p[2]>> /\ p[1] \in Seq(Symbols) /\ p[2] \in 0..k
BY SMT DEF Positions

LEMMA StepGrows ==
    ASSUME NEW k \in Nat, NEW tokens, NEW A, NEW B, A \subseteq B, NEW p \in Positions(k),
           ViableStep([q \in Positions(k) |-> q \in A], p, tokens, k)
    PROVE  ViableStep([q \in Positions(k) |-> q \in B], p, tokens, k)
<1> DEFINE s == p[1]
           n == p[2]
           f == [q \in Positions(k) |-> q \in A]
           g == [q \in Positions(k) |-> q \in B]
<1>1. s \in Seq(Symbols) /\ n \in 0..k
  BY PositionIs, Zenon
<1>2. \A q \in Positions(k) : f[q] => g[q]
  BY Zenon
<1>3. \/ n = k \/ s = <<>>
      \/ IF Head(s) \in DOMAIN Grammar
         THEN \E i \in DOMAIN Grammar[Head(s)] : f[<<Grammar[Head(s)][i] \o Tail(s), n>>]
         ELSE n < Len(tokens) /\ tokens[n + 1].type = Head(s) /\ f[<<Tail(s), n + 1>>]
  BY Zenon DEF ViableStep
<1> HIDE DEF s, n, f, g
<1>4. \/ n = k \/ s = <<>>
      \/ IF Head(s) \in DOMAIN Grammar
         THEN \E i \in DOMAIN Grammar[Head(s)] : g[<<Grammar[Head(s)][i] \o Tail(s), n>>]
         ELSE n < Len(tokens) /\ tokens[n + 1].type = Head(s) /\ g[<<Tail(s), n + 1>>]
  <2>1. CASE n = k \/ s = <<>>
    BY <2>1
  <2>2. CASE n # k /\ s # <<>> /\ Head(s) \in DOMAIN Grammar
    BY <1>1, <1>2, <1>3, <2>2, SuccessorsAre, Zenon
  <2>3. CASE n # k /\ s # <<>> /\ Head(s) \notin DOMAIN Grammar
    BY <1>1, <1>2, <1>3, <2>3, SuccessorsAre, Zenon
  <2> QED
    BY <2>1, <2>2, <2>3
<1> QED
  BY <1>4, Zenon DEF ViableStep, s, n, g

LEMMA StepIsBoolean ==
    ASSUME NEW f, NEW p, NEW tokens, NEW k, NEW b \in BOOLEAN, ViableStep(f, p, tokens, k) <=> b
    PROVE  ViableStep(f, p, tokens, k) = b
BY Zenon DEF ViableStep

LEMMA Predicted ==
    ASSUME NEW k \in Nat, NEW tokens
    PROVE  \E f : Predicts(f, tokens, k)
<1> DEFINE D == Positions(k)
           Of(C) == [q \in D |-> q \in C]
           Closed(C) == \A p \in D : ViableStep(Of(C), p, tokens, k) => p \in C
           X == {p \in D : \A C \in SUBSET D : Closed(C) => p \in C}
           Y == {p \in D : ViableStep(Of(X), p, tokens, k)}
<1>1. \A A, B : A \subseteq B =>
        \A p \in D : ViableStep(Of(A), p, tokens, k) => ViableStep(Of(B), p, tokens, k)
  BY StepGrows, Zenon
<1>2. X \subseteq D /\ Y \subseteq D
  BY Zenon
<1> HIDE DEF D, Of
<1>3. Closed(X)
  <2> SUFFICES ASSUME NEW p \in D, ViableStep(Of(X), p, tokens, k),
                      NEW C \in SUBSET D, Closed(C)
               PROVE  p \in C
    BY Zenon
  <2>1. X \subseteq C
    BY Zenon
  <2>2. ViableStep(Of(C), p, tokens, k)
    <3> HIDE DEF X
    <3> QED
      BY <1>1, <2>1, Zenon
  <2> QED
    BY <2>2, Zenon
<1>4. Y \subseteq X
  BY <1>3, Zenon
<1>5. Closed(Y)
  <2> SUFFICES ASSUME NEW p \in D, ViableStep(Of(Y), p, tokens, k)
               PROVE  p \in Y
    BY Zenon
  <2>1. ViableStep(Of(X), p, tokens, k)
    <3> HIDE DEF X, Y
    <3> QED
      BY <1>1, <1>4, Zenon
  <2> QED
    BY <2>1, Zenon
<1>6. X \subseteq Y
  <2> HIDE DEF Y
  <2> QED
    BY <1>2, <1>5, Zenon
<1>7. \A p \in D : ViableStep(Of(X), p, tokens, k) <=> p \in X
  <2>1. \A p \in D : p \in Y <=> ViableStep(Of(X), p, tokens, k)
    BY Zenon
  <2> HIDE DEF X, Y
  <2> QED
    BY <1>4, <1>6, <2>1, Zenon
<1> HIDE DEF X, Y
<1>8. \A p \in D : ViableStep(Of(X), p, tokens, k) = (p \in X)
  <2> TAKE p \in D
  <2> DEFINE b == p \in X
  <2>1. b \in BOOLEAN
    BY SMT
  <2>3. ViableStep(Of(X), p, tokens, k) <=> b
    BY <1>7, Zenon
  <2> HIDE DEF b
  <2>2. ViableStep(Of(X), p, tokens, k) = b
    BY <2>1, <2>3, StepIsBoolean
  <2> QED
    BY <2>2 DEF b
<1>9. Of(X) = [p \in D |-> ViableStep(Of(X), p, tokens, k)]
  <2> DEFINE f == Of(X)
  <2>1. f = [p \in D |-> p \in X]
    BY Zenon DEF Of
  <2> HIDE DEF f
  <2>2. \A p \in D : ViableStep(f, p, tokens, k) = (p \in X)
    BY <1>8, Zenon DEF f
  <2>3. [p \in D |-> p \in X] = [p \in D |-> ViableStep(f, p, tokens, k)]
    BY <2>2, Zenon
  <2> QED
    BY <2>1, <2>3, Zenon DEF f
<1>10. Predicts(Of(X), tokens, k)
  BY <1>9, Zenon DEF Predicts, D
<1> QED
  BY <1>10, Zenon

LEMMA ViableIs ==
    ASSUME NEW k \in Nat, NEW tokens
    PROVE  \E f : Predicts(f, tokens, k) /\ \A s : Viable(s, tokens, k) = f[<<s, 0>>]
<1> DEFINE f == CHOOSE f : Predicts(f, tokens, k)
<1>1. Predicts(f, tokens, k)
  BY Predicted
<1>2. \A s : Viable(s, tokens, k) = f[<<s, 0>>]
  BY DEF Viable, Predicts, ViableStep, Positions
<1> QED
  BY <1>1, <1>2

LEMMA Beginning ==
    ASSUME NEW h \in Symbols, NEW s \in Seq(Symbols)
    PROVE  /\ <<h>> \o s \in Seq(Symbols) /\ <<h>> \o s # <<>>
           /\ Head(<<h>> \o s) = h /\ Tail(<<h>> \o s) = s
<1>1. <<h>> \in Seq(Symbols) /\ Len(<<h>>) = 1 /\ <<h>>[1] = h
  BY SMT
<1> DEFINE a == <<h>>
           r == a \o s
<1>2. /\ r \in Seq(Symbols) /\ Len(r) = 1 + Len(s) /\ Len(s) \in Nat
      /\ \A i \in 1..(1 + Len(s)) : r[i] = IF i <= 1 THEN h ELSE s[i - 1]
  <2>1. a \in Seq(Symbols) /\ Len(a) = 1 /\ a[1] = h
    BY <1>1
  <2> HIDE DEF a
  <2>2. /\ r \in Seq(Symbols) /\ Len(r) = Len(a) + Len(s)
        /\ \A i \in 1..(Len(a) + Len(s)) : r[i] = IF i <= Len(a) THEN a[i] ELSE s[i - Len(a)]
    BY <2>1, ConcatProperties, Zenon
  <2> HIDE DEF r
  <2> QED
    BY <2>1, <2>2, SMT
<1> HIDE DEF r
<1>3. r # <<>> /\ Head(r) = h
  BY <1>2, SMT
<1>4. /\ Tail(r) \in Seq(Symbols) /\ Len(Tail(r)) = Len(s)
      /\ \A i \in 1..Len(s) : Tail(r)[i] = s[i]
  BY <1>2, <1>3, HeadTailProperties, SMT
<1>5. Tail(r) = s
  BY <1>4, SeqEqual, SMT
<1> QED
  BY <1>2, <1>3, <1>5 DEF r

(* What begins as s may, may begin as t *)
Implied(f, k, s, t) == \A n \in 0..k : f[<<s, n>>] => f[<<t, n>>]

LEMMA Unfolded ==
    ASSUME NEW k \in Nat, NEW tokens, NEW f, Predicts(f, tokens, k),
           NEW h \in Symbols, NEW s \in Seq(Symbols), NEW n \in 0..k
    PROVE  f[<<<<h>> \o s, n>>] <=>
            \/ n = k
            \/ IF h \in DOMAIN Grammar
               THEN \E i \in DOMAIN Grammar[h] : f[<<Grammar[h][i] \o s, n>>]
               ELSE n < Len(tokens) /\ tokens[n + 1].type = h /\ f[<<s, n + 1>>]
<1> DEFINE r == <<h>> \o s
           p == <<r, n>>
<1>1. r \in Seq(Symbols) /\ r # <<>> /\ Head(r) = h /\ Tail(r) = s
  BY Beginning
<1> HIDE DEF r
<1>2. p \in Positions(k) /\ p[1] = r /\ p[2] = n
  BY <1>1, SMT DEF Positions
<1> HIDE DEF p
<1>3. f[p] = ViableStep(f, p, tokens, k)
  BY <1>2, Zenon DEF Predicts
<1>4. ViableStep(f, p, tokens, k) <=>
      \/ n = k \/ r = <<>>
      \/ IF Head(r) \in DOMAIN Grammar
         THEN \E i \in DOMAIN Grammar[Head(r)] : f[<<Grammar[Head(r)][i] \o Tail(r), n>>]
         ELSE n < Len(tokens) /\ tokens[n + 1].type = Head(r) /\ f[<<Tail(r), n + 1>>]
  BY <1>2, Zenon DEF ViableStep
<1>5. f[p] <=>
      \/ n = k
      \/ IF h \in DOMAIN Grammar
         THEN \E i \in DOMAIN Grammar[h] : f[<<Grammar[h][i] \o s, n>>]
         ELSE n < Len(tokens) /\ tokens[n + 1].type = h /\ f[<<s, n + 1>>]
  <2>1. ViableStep(f, p, tokens, k) <=>
        \/ n = k
        \/ IF h \in DOMAIN Grammar
           THEN \E i \in DOMAIN Grammar[h] : f[<<Grammar[h][i] \o s, n>>]
           ELSE n < Len(tokens) /\ tokens[n + 1].type = h /\ f[<<s, n + 1>>]
    BY <1>1, <1>4, Zenon
  <2> QED
    BY <1>3, <2>1, Zenon
<1>6. p = <<<<h>> \o s, n>>
  BY DEF p, r
<1> QED
  BY <1>5, <1>6

LEMMA UnfoldedRule ==
    ASSUME NEW k \in Nat, NEW tokens, NEW f, Predicts(f, tokens, k),
           NEW h \in Symbols, NEW s \in Seq(Symbols), NEW n \in 0..k
    PROVE  h \in DOMAIN Grammar =>
            (f[<<<<h>> \o s, n>>] <=>
                n = k \/ \E i \in DOMAIN Grammar[h] : f[<<Grammar[h][i] \o s, n>>])
<1> DEFINE begins == f[<<<<h>> \o s, n>>]
           rule == \E i \in DOMAIN Grammar[h] : f[<<Grammar[h][i] \o s, n>>]
           token == n < Len(tokens) /\ tokens[n + 1].type = h /\ f[<<s, n + 1>>]
<1>1. begins <=> n = k \/ (IF h \in DOMAIN Grammar THEN rule ELSE token)
  BY Unfolded
<1> HIDE DEF begins, rule, token
<1>2. h \in DOMAIN Grammar => (begins <=> n = k \/ rule)
  BY <1>1
<1> QED
  BY <1>2 DEF begins, rule

LEMMA UnfoldedToken ==
    ASSUME NEW k \in Nat, NEW tokens, NEW f, Predicts(f, tokens, k),
           NEW h \in Symbols, NEW s \in Seq(Symbols), NEW n \in 0..k, h \notin DOMAIN Grammar
    PROVE  f[<<<<h>> \o s, n>>] <=>
            n = k \/ (n < Len(tokens) /\ tokens[n + 1].type = h /\ f[<<s, n + 1>>])
<1> DEFINE begins == f[<<<<h>> \o s, n>>]
           rule == \E i \in DOMAIN Grammar[h] : f[<<Grammar[h][i] \o s, n>>]
           token == n < Len(tokens) /\ tokens[n + 1].type = h /\ f[<<s, n + 1>>]
<1>1. begins <=> n = k \/ (IF h \in DOMAIN Grammar THEN rule ELSE token)
  BY Unfolded
<1> HIDE DEF begins, rule, token
<1>2. begins <=> n = k \/ token
  BY <1>1
<1> QED
  BY <1>2, Zenon DEF begins, token

LEMMA ImpliedToken ==
    ASSUME NEW k \in Nat, NEW tokens, NEW f, Predicts(f, tokens, k),
           NEW h \in Symbols, h \notin DOMAIN Grammar,
           NEW s \in Seq(Symbols), NEW t \in Seq(Symbols), Implied(f, k, s, t)
    PROVE  Implied(f, k, <<h>> \o s, <<h>> \o t)
<1> SUFFICES ASSUME NEW n \in 0..k, f[<<<<h>> \o s, n>>]
             PROVE  f[<<<<h>> \o t, n>>]
  BY Zenon DEF Implied
<1>1. n # k => n + 1 \in 0..k
  BY SMT
<1>2. /\ f[<<<<h>> \o s, n>>] <=>
            n = k \/ (n < Len(tokens) /\ tokens[n + 1].type = h /\ f[<<s, n + 1>>])
      /\ f[<<<<h>> \o t, n>>] <=>
            n = k \/ (n < Len(tokens) /\ tokens[n + 1].type = h /\ f[<<t, n + 1>>])
  BY UnfoldedToken
<1>3. n = k \/ (n < Len(tokens) /\ tokens[n + 1].type = h /\ f[<<t, n + 1>>])
  <2>1. n = k \/ (n < Len(tokens) /\ tokens[n + 1].type = h /\ f[<<s, n + 1>>])
    BY <1>2
  <2>2. n # k /\ f[<<s, n + 1>>] => f[<<t, n + 1>>]
    BY <1>1, Zenon DEF Implied
  <2> QED
    BY <2>1, <2>2, Zenon
<1> QED
  BY <1>2, <1>3, Zenon

(* A rule with one alternative *)
LEMMA ImpliedRule ==
    ASSUME NEW k \in Nat, NEW tokens, NEW f, Predicts(f, tokens, k),
           NEW h \in Symbols, h \in DOMAIN Grammar, NEW alt, Grammar[h] = <<alt>>,
           NEW s \in Seq(Symbols)
    PROVE  Implied(f, k, <<h>> \o s, alt \o s) /\ Implied(f, k, alt \o s, <<h>> \o s) 
<1>1. DOMAIN Grammar[h] = {1} /\ Grammar[h][1] = alt
  BY OneAlternative, SMT
<1>2. ASSUME NEW n \in 0..k
      PROVE  f[<<<<h>> \o s, n>>] <=> n = k \/ f[<<alt \o s, n>>]
  <2>1. f[<<<<h>> \o s, n>>] <=>
            n = k \/ \E i \in DOMAIN Grammar[h] : f[<<Grammar[h][i] \o s, n>>]
    BY UnfoldedRule
  <2> QED
    BY <1>1, <2>1, Zenon
<1>3. alt \o s \in Seq(Symbols)
  <2>1. alt \in Seq(Symbols)
    BY <1>1, GrammarType, Zenon
  <2> QED
    BY <2>1, ConcatProperties, Zenon
<1>4. f[<<alt \o s, k>>]
  <2> DEFINE r == alt \o s
             p == <<r, k>>
  <2>1. k \in 0..k
    BY SMT
  <2>5. r \in Seq(Symbols)
    BY <1>3
  <2> HIDE DEF r
  <2>2. p \in Positions(k) /\ p[2] = k
    BY <2>1, <2>5, SMT DEF Positions
  <2> HIDE DEF p
  <2>3. f[p] = ViableStep(f, p, tokens, k)
    BY <2>2, Zenon DEF Predicts
  <2>4. ViableStep(f, p, tokens, k)
    BY <2>2, Zenon DEF ViableStep
  <2> QED
    BY <2>3, <2>4, Zenon DEF p, r
<1> QED
  BY <1>2, <1>4, Zenon DEF Implied

ExtendedBy(T, s, x, r) ==
    /\ r \in Seq(T) /\ Len(r) = Len(s) + 1
    /\ \A i \in 1..Len(s) : r[i] = s[i]
    /\ r[Len(s) + 1] = x

LEMMA ExtendedSeq ==
    ASSUME NEW T, NEW s \in Seq(T), NEW x \in T
    PROVE  ExtendedBy(T, s, x, s \o <<x>>)
<1> DEFINE e == <<x>>
           r == s \o e
<1>1. e \in Seq(T) /\ Len(e) = 1 /\ e[1] = x
  BY SMT
<1> HIDE DEF e
<1>2. /\ r \in Seq(T) /\ Len(r) = Len(s) + Len(e)
      /\ \A i \in 1..(Len(s) + Len(e)) : r[i] = IF i <= Len(s) THEN s[i] ELSE e[i - Len(s)]
  BY <1>1, ConcatProperties, Zenon
<1> HIDE DEF r
<1>3. Len(s) \in Nat
  BY SMT
<1>4. r \in Seq(T) /\ Len(r) = Len(s) + 1 /\ (\A i \in 1..Len(s) : r[i] = s[i]) /\ r[Len(s) + 1] = x
  BY <1>1, <1>2, <1>3, SMT
<1> QED
  BY <1>4 DEF ExtendedBy, r, e

OneByOne(T, a, b, c, d, s) ==
    /\ <<a, b, c, d>> \o s = <<a>> \o (<<b>> \o (<<c>> \o (<<d>> \o s)))
    /\ <<b>> \o (<<c>> \o (<<d>> \o s)) \in Seq(T)
    /\ <<c>> \o (<<d>> \o s) \in Seq(T)
    /\ <<d>> \o s \in Seq(T)

LEMMA TupleOnto ==
    ASSUME NEW T, NEW a \in T, NEW b \in T, NEW c \in T, NEW d \in T, NEW s \in Seq(T)
    PROVE  OneByOne(T, a, b, c, d, s)
<1> DEFINE a1 == <<a>> b1 == <<b>> c1 == <<c>> d1 == <<d>>
           ab == a1 \o b1   abc == ab \o c1   u == abc \o d1
           t == <<a, b, c, d>>
<1>1. /\ a1 \in Seq(T) /\ b1 \in Seq(T) /\ c1 \in Seq(T) /\ d1 \in Seq(T)
      /\ Len(a1) = 1 /\ a1[1] = a
  BY SMT
<1> HIDE DEF a1, b1, c1, d1, ab, abc, u
<1>2. /\ t \in Seq(T) /\ Len(t) = 4
      /\ t[1] = a /\ t[2] = b /\ t[3] = c /\ t[4] = d
  BY SMT
<1>3. /\ ab \in Seq(T) /\ Len(ab) = Len(a1) + 1 /\ (\A i \in 1..Len(a1) : ab[i] = a1[i])
      /\ ab[Len(a1) + 1] = b
  <2>1. ExtendedBy(T, a1, b, a1 \o <<b>>)
    BY <1>1, ExtendedSeq, Zenon
  <2>2. ab = a1 \o <<b>>
    BY DEF ab, b1
  <2> QED
    BY <2>1, <2>2, Zenon DEF ExtendedBy
<1>4. /\ abc \in Seq(T) /\ Len(abc) = Len(ab) + 1 /\ (\A i \in 1..Len(ab) : abc[i] = ab[i])
      /\ abc[Len(ab) + 1] = c
  <2>1. ExtendedBy(T, ab, c, ab \o <<c>>)
    BY <1>1, <1>3, ExtendedSeq, Zenon
  <2>2. abc = ab \o <<c>>
    BY DEF abc, c1
  <2> QED
    BY <2>1, <2>2, Zenon DEF ExtendedBy
<1>5. /\ u \in Seq(T) /\ Len(u) = Len(abc) + 1 /\ (\A i \in 1..Len(abc) : u[i] = abc[i])
      /\ u[Len(abc) + 1] = d
  <2>1. ExtendedBy(T, abc, d, abc \o <<d>>)
    BY <1>1, <1>4, ExtendedSeq, Zenon
  <2>2. u = abc \o <<d>>
    BY DEF u, d1
  <2> QED
    BY <2>1, <2>2, Zenon DEF ExtendedBy
<1> HIDE DEF t
<1>6. t = u
  <2>2. ab[1] = a /\ ab[2] = b /\ Len(ab) = 2
    BY <1>1, <1>3, SMT
  <2>3. abc[1] = a /\ abc[2] = b /\ abc[3] = c /\ Len(abc) = 3
    BY <1>4, <2>2, SMT
  <2>4. u[1] = a /\ u[2] = b /\ u[3] = c /\ u[4] = d /\ Len(u) = 4
    BY <1>5, <2>3, SMT
  <2>5. \A i \in 1..Len(t) : t[i] = u[i]
    BY <1>2, <2>4, SMT
  <2> QED
    BY <1>2, <1>5, <2>4, <2>5, SeqEqual
<1>7. /\ d1 \o s \in Seq(T) /\ c1 \o (d1 \o s) \in Seq(T) /\ b1 \o (c1 \o (d1 \o s)) \in Seq(T)
  BY <1>1, ConcatProperties, Zenon
<1>8. Associate(abc, d1, s) /\ Associate(ab, c1, d1 \o s) /\ Associate(a1, b1, c1 \o (d1 \o s))
  <2>1. Associate(abc, d1, s)
    BY <1>1, <1>4, Associates, Zenon
  <2>2. Associate(ab, c1, d1 \o s)
    BY <1>1, <1>3, <1>7, Associates, Zenon
  <2>3. Associate(a1, b1, c1 \o (d1 \o s))
    BY <1>1, <1>7, Associates, Zenon
  <2> QED
    BY <2>1, <2>2, <2>3
<1>11. t \o s = a1 \o (b1 \o (c1 \o (d1 \o s)))
  BY <1>6, <1>8 DEF Associate, u, abc, ab
<1> QED
  BY <1>7, <1>11 DEF OneByOne, a1, b1, c1, d1, t

LEMMA ArgumentRules ==
    /\ Grammar["gatearg"] = << <<"id", "'['", "INT", "']'">>, <<"id">> >>
    /\ Grammar["qregister"] = << <<"id", "'['", "registersize", "']'">>, <<"id">> >>
    /\ Grammar["cregister"] = << <<"id", "'['", "registersize", "']'">>, <<"id">> >>
    /\ Grammar["registersize"] = << <<"INT">> >> /\ Grammar["id"] = << <<"ID">> >>
    /\ Grammar["qbit"] = << <<"gatearg">>, <<"qregister">> >>
    /\ Grammar["cbit"] = << <<"gatearg">>, <<"cregister">> >>
    /\ {"gatearg", "qregister", "cregister", "registersize", "id"} \subseteq DOMAIN Rules
    /\ {"qbit", "cbit"} \subseteq DOMAIN AdaptiveBranches
<1>1. /\ Rules["gatearg"] = gatearg /\ Rules["qregister"] = qregister /\ Rules["cregister"] = cregister
      /\ Rules["registersize"] = registersize /\ Rules["id"] = id
  BY SMT DEF Rules
<1>2. {"gatearg", "qregister", "cregister", "registersize", "id"} \subseteq DOMAIN Rules
  BY RuleNamed, Zenon DEF RuleNames
<1>3. {"qbit", "cbit"} \subseteq DOMAIN AdaptiveBranches
  BY Zenon DEF AdaptiveBranches
<1>4. /\ AdaptiveBranches["qbit"] = << <<"gatearg">>, <<"qregister">> >>
      /\ AdaptiveBranches["cbit"] = << <<"gatearg">>, <<"cregister">> >>
  BY SMT DEF AdaptiveBranches
<1>5. /\ Grammar["gatearg"] = gatearg /\ Grammar["qregister"] = qregister /\ Grammar["cregister"] = cregister
      /\ Grammar["registersize"] = registersize /\ Grammar["id"] = id
      /\ Grammar["qbit"] = AdaptiveBranches["qbit"] /\ Grammar["cbit"] = AdaptiveBranches["cbit"]
  BY <1>1, <1>2, <1>3, GrammarOf, Zenon
<1> QED
  BY <1>2, <1>3, <1>4, <1>5, Zenon DEF gatearg, qregister, cregister, registersize, id

LEMMA ArgumentTokens == \A s \in {"'['", "']'", "INT", "ID"} : s \notin DOMAIN Grammar
<1>1. \A s \in {"'['", "']'", "INT", "ID"} : s \notin DOMAIN Rules
  BY RuleNamed, Zenon DEF RuleNames
<1>2. \A s \in {"'['", "']'", "INT", "ID"} : s \notin DOMAIN Branches
  BY Zenon DEF Branches
<1>3. \A s \in {"'['", "']'", "INT", "ID"} : s \notin DOMAIN AdaptiveBranches
  BY Zenon DEF AdaptiveBranches
<1> QED
  BY <1>1, <1>2, <1>3, GrammarOf, Zenon

LEMMA ArgumentSymbols ==
    {"id", "'['", "registersize", "']'", "INT", "ID", "gatearg", "qregister", "cregister"} \subseteq Symbols
<1>1. \A r \in DOMAIN Grammar : \A i \in DOMAIN Grammar[r] : Range(Grammar[r][i]) \subseteq Symbols
  <2> TAKE r \in DOMAIN Grammar
  <2> TAKE i \in DOMAIN Grammar[r]
  <2>1. Grammar[r][i] \in Seq(Symbols)
    BY GrammarType, Zenon
  <2> QED
    BY <2>1, ElementIn, Zenon DEF Range
<1>2. \A r \in DOMAIN Grammar : \A a : Grammar[r] = <<a>> => Range(a) \subseteq Symbols
  BY <1>1, OneAlternative, SMT
<1>3. \A r \in DOMAIN Grammar : \A a, b :
        Grammar[r] = <<a, b>> => Range(a) \subseteq Symbols /\ Range(b) \subseteq Symbols
  BY <1>1, TwoAlternatives, SMT
<1>4. {"gatearg", "qregister", "cregister", "registersize", "id", "qbit", "cbit"} \subseteq DOMAIN Grammar
  BY ArgumentRules, GrammarOf, Zenon
<1>5. \A a : a \in Range(<<a>>)
  BY First1
<1>6. \A a, b, c, d : {a, b, c, d} \subseteq Range(<<a, b, c, d>>)
  BY SMT DEF Range
<1>7. "gatearg" \in Symbols /\ "qregister" \in Symbols /\ "cregister" \in Symbols
  BY <1>3, <1>4, <1>5, ArgumentRules, Zenon
<1>8. "INT" \in Symbols /\ "ID" \in Symbols
  BY <1>2, <1>4, <1>5, ArgumentRules, Zenon
<1>9. {"id", "'['", "registersize", "']'"} \subseteq Symbols
  <2> DEFINE indexed == <<"id", "'['", "registersize", "']'">>
             named == <<"id">>
  <2>1. Grammar["qregister"] = <<indexed, named>>
    BY ArgumentRules
  <2>2. {"id", "'['", "registersize", "']'"} \subseteq Range(indexed)
    BY <1>6
  <2> HIDE DEF indexed, named
  <2>3. Range(indexed) \subseteq Symbols
    BY <1>3, <1>4, <2>1, Zenon
  <2> QED
    BY <2>2, <2>3, Zenon
<1> QED
  BY <1>7, <1>8, <1>9, Zenon

LEMMA ImpliedThrough ==
    ASSUME NEW f, NEW k, NEW r, NEW s, NEW t, Implied(f, k, r, s), Implied(f, k, s, t)
    PROVE  Implied(f, k, r, t)
BY Zenon DEF Implied

LEMMA IndexImplied ==
    ASSUME NEW k \in Nat, NEW tokens, NEW f, Predicts(f, tokens, k), NEW s \in Seq(Symbols)
    PROVE  Implied(f, k, <<"id", "'['", "registersize", "']'">> \o s,
                         <<"id", "'['", "INT", "']'">> \o s)
<1> DEFINE r == <<"']'">> \o s
           x == <<"registersize">> \o r
           y == <<"INT">> \o r
           bx == <<"'['">> \o x
           by == <<"'['">> \o y
<1>1. /\ "id" \in Symbols /\ "'['" \in Symbols /\ "registersize" \in Symbols
      /\ "']'" \in Symbols /\ "INT" \in Symbols /\ "ID" \in Symbols
  BY ArgumentSymbols, Zenon
<1>2. /\ <<"id", "'['", "registersize", "']'">> \o s = <<"id">> \o bx
      /\ bx \in Seq(Symbols) /\ x \in Seq(Symbols) /\ r \in Seq(Symbols)
  <2> DEFINE i == "id" l == "'['" n == "registersize" e == "']'"
  <2>1. i \in Symbols /\ l \in Symbols /\ n \in Symbols /\ e \in Symbols
    BY <1>1
  <2> HIDE DEF i, l, n, e
  <2>2. OneByOne(Symbols, i, l, n, e, s)
    BY <2>1, TupleOnto, Zenon
  <2> QED
    BY <2>2 DEF OneByOne, i, l, n, e
<1>3. /\ <<"id", "'['", "INT", "']'">> \o s = <<"id">> \o by
      /\ by \in Seq(Symbols) /\ y \in Seq(Symbols)
  <2> DEFINE i == "id" l == "'['" n == "INT" e == "']'"
  <2>1. i \in Symbols /\ l \in Symbols /\ n \in Symbols /\ e \in Symbols
    BY <1>1
  <2> HIDE DEF i, l, n, e
  <2>2. OneByOne(Symbols, i, l, n, e, s)
    BY <2>1, TupleOnto, Zenon
  <2> QED
    BY <2>2 DEF OneByOne, i, l, n, e
<1>4. /\ "id" \in DOMAIN Grammar /\ Grammar["id"] = << <<"ID">> >>
      /\ "registersize" \in DOMAIN Grammar /\ Grammar["registersize"] = << <<"INT">> >>
      /\ "'['" \notin DOMAIN Grammar /\ "ID" \notin DOMAIN Grammar
  BY ArgumentRules, ArgumentTokens, GrammarOf, Zenon
<1> HIDE DEF r
<1>5. Implied(f, k, x, y)
  BY <1>1, <1>2, <1>4, ImpliedRule
<1> HIDE DEF x, y
<1>6. Implied(f, k, bx, by)
  BY <1>1, <1>2, <1>3, <1>4, <1>5, ImpliedToken
<1> HIDE DEF bx, by
<1>7. Implied(f, k, <<"ID">> \o bx, <<"ID">> \o by)
  BY <1>1, <1>2, <1>3, <1>4, <1>6, ImpliedToken
<1>8. Implied(f, k, <<"id">> \o bx, <<"ID">> \o bx)
  BY <1>1, <1>2, <1>4, ImpliedRule
<1>9. Implied(f, k, <<"ID">> \o by, <<"id">> \o by)
  BY <1>1, <1>3, <1>4, ImpliedRule
<1>10. Implied(f, k, <<"id">> \o bx, <<"id">> \o by)
  BY <1>7, <1>8, <1>9, ImpliedThrough
<1> QED
  BY <1>2, <1>3, <1>10

LEMMA GateargImplied ==
    ASSUME NEW k \in Nat, NEW tokens, NEW f, Predicts(f, tokens, k), NEW s \in Seq(Symbols),
           NEW register \in {"qregister", "cregister"}
    PROVE  Implied(f, k, <<register>> \o s, <<"gatearg">> \o s)
<1> DEFINE sized == <<"id", "'['", "registersize", "']'">>
           indexed == <<"id", "'['", "INT", "']'">>
           named == <<"id">>
<1>1. /\ register \in Symbols /\ "gatearg" \in Symbols
      /\ register \in DOMAIN Grammar /\ "gatearg" \in DOMAIN Grammar
      /\ Grammar[register] = <<sized, named>> /\ Grammar["gatearg"] = <<indexed, named>>
  BY ArgumentSymbols, ArgumentRules, GrammarOf, Zenon
<1>2. Implied(f, k, sized \o s, indexed \o s)
  BY IndexImplied
<1> HIDE DEF sized, indexed, named
<1>3. /\ DOMAIN Grammar[register] = {1, 2} /\ Grammar[register][1] = sized
      /\ Grammar[register][2] = named
      /\ DOMAIN Grammar["gatearg"] = {1, 2} /\ Grammar["gatearg"][1] = indexed
      /\ Grammar["gatearg"][2] = named
  BY <1>1, TwoAlternatives, SMT
<1>4. ASSUME NEW n \in 0..k
      PROVE  /\ f[<<<<register>> \o s, n>>] <=>
                    n = k \/ f[<<sized \o s, n>>] \/ f[<<named \o s, n>>]
             /\ f[<<<<"gatearg">> \o s, n>>] <=>
                    n = k \/ f[<<indexed \o s, n>>] \/ f[<<named \o s, n>>]
  <2>1. f[<<<<register>> \o s, n>>] <=>
            n = k \/ \E i \in DOMAIN Grammar[register] : f[<<Grammar[register][i] \o s, n>>]
    BY <1>1, UnfoldedRule
  <2>2. f[<<<<"gatearg">> \o s, n>>] <=>
            n = k \/ \E i \in DOMAIN Grammar["gatearg"] : f[<<Grammar["gatearg"][i] \o s, n>>]
    BY <1>1, UnfoldedRule
  <2> QED
    BY <1>3, <2>1, <2>2, Zenon
<1> QED
  BY <1>2, <1>4, Zenon DEF Implied

(* The calls on the stack *)
Frames(S) == [rule : DOMAIN Rules, rest : Seq(Symbols), children : Seq(S)]

LEMMA FrameFields ==
    ASSUME NEW S, NEW frame \in Frames(S)
    PROVE  /\ frame.rule \in DOMAIN Rules /\ frame.rest \in Seq(Symbols)
           /\ frame.children \in Seq(S)
BY Zenon DEF Frames

LEMMA ReverseType ==
    ASSUME NEW T, NEW s \in Seq(T)
    PROVE  Reverse(s) \in Seq(T)
<1>1. Len(s) \in Nat /\ \A i \in 1..Len(s) : (Len(s) - i) + 1 \in 1..Len(s) /\ s[(Len(s) - i) + 1] \in T
  BY SMT
<1> DEFINE r == [i \in 1..Len(s) |-> s[(Len(s) - i) + 1]]
<1>2. r = [i \in 1..Len(s) |-> r[i]] /\ \A i \in 1..Len(s) : r[i] \in T
  BY <1>1, Zenon
<1>3. Reverse(s) = r
  BY Zenon DEF Reverse
<1> HIDE DEF r
<1>4. r \in Seq(T)
  BY <1>1, <1>2, FunctionIsSeq, Zenon
<1> QED
  BY <1>3, <1>4

LEMMA ContinuationType ==
    ASSUME NEW S, stack \in Seq(Frames(S)), stack # <<>>, running.rest # <<>>
    PROVE  Continuation \in Seq(Symbols)
<1> DEFINE T == Seq(Symbols)
           rests == [i \in DOMAIN stack |->
                        IF i = Len(stack) THEN Tail(stack[i].rest) ELSE stack[i].rest]
<1>1. /\ \A i \in DOMAIN stack : stack[i] \in Frames(S)
      /\ running = stack[Len(stack)]
  BY ElementIn, Zenon DEF running, Last
<1>2. \A t \in T : t # <<>> => Tail(t) \in T
  BY SMT
<1> HIDE DEF T
<1>3. \A i \in DOMAIN stack : stack[i].rest \in T
  BY <1>1, FrameFields, Zenon DEF T
<1>4. \A i \in DOMAIN stack :
        (IF i = Len(stack) THEN Tail(stack[i].rest) ELSE stack[i].rest) \in T
  BY <1>1, <1>2, <1>3, Zenon
<1>5. rests = [i \in DOMAIN stack |-> rests[i]] /\ \A i \in DOMAIN stack : rests[i] \in T
  BY <1>4, Zenon
<1>6. Continuation = FlattenSeq(Reverse(rests))
  BY Zenon DEF Continuation
<1> HIDE DEF rests
<1>7. rests \in Seq(T)
  BY <1>5, ImageIsSeq, Zenon
<1>8. Reverse(rests) \in Seq(T)
  BY <1>7, ReverseType, Zenon
<1> QED
  BY <1>6, <1>8, FlattenType, Zenon DEF T

LEMMA LeastIs ==
    ASSUME NEW C, C \subseteq Nat, C # {}
    PROVE  Min(C) \in C /\ \A x \in C : Min(C) <= x
<1>1. \E x \in C : \A y \in C : x <= y
  BY LeastOfNaturals, Zenon
<1> QED
  BY <1>1, Zenon DEF Min

LEMMA CandidateTaken ==
    ASSUME NEW symbol \in DOMAIN Grammar, Candidates(symbol) # {}
    PROVE  Min(Candidates(symbol)) \in DOMAIN Grammar[symbol]
<1>1. Candidates(symbol) \subseteq DOMAIN Grammar[symbol]
  BY Zenon DEF Candidates
<1>2. Candidates(symbol) \subseteq Nat
  BY <1>1, GrammarType, Zenon
<1> QED
  BY <1>1, <1>2, LeastIs, Zenon

(* A qubit or bit with an index is one of a gate too, so the second *)
(* alternative of qbit and cbit is never the first that is viable.  *)
LEMMA GateargTaken ==
    ASSUME NEW symbol \in {"qbit", "cbit"}, Continuation \in Seq(Symbols),
           Candidates(symbol) # {}
    PROVE  Grammar[symbol][Min(Candidates(symbol))] = <<"gatearg">>
<1>1. PICK register \in {"qregister", "cregister"} :
        Grammar[symbol] = << <<"gatearg">>, <<register>> >>
  BY ArgumentRules, Zenon
<1> DEFINE C == Candidates(symbol)
           alternatives == Grammar[symbol]
           argument == <<"gatearg">>
           other == <<register>>
<1>2. DOMAIN alternatives = {1, 2} /\ alternatives[1] = argument /\ alternatives[2] = other
      /\ Len(alternatives) # 1
  <2> HIDE DEF argument, other, alternatives
  <2>1. alternatives = <<argument, other>>
    BY <1>1 DEF alternatives, argument, other
  <2> QED
    BY <2>1, SMT
<1>3. symbol \in Adaptive
  BY ArgumentRules, Zenon DEF Adaptive
<1>4. \A i \in {1, 2} : i \in C <=> Viable(alternatives[i] \o Continuation, input, Lookahead)
  <2> HIDE DEF alternatives
  <2>1. C = {i \in DOMAIN alternatives :
                \/ Len(alternatives) = 1
                \/ IF symbol \in Adaptive
                   THEN \E symbols \in {alternatives[i] \o Continuation} :
                            Viable(symbols, input, Lookahead)
                   ELSE Viable(alternatives[i], input, 1)}
    BY Zenon DEF Candidates, alternatives
  <2> HIDE DEF C
  <2> QED
    BY <1>2, <1>3, <2>1, Zenon
<1>5. PICK f : /\ Predicts(f, input, Lookahead)
               /\ \A s : Viable(s, input, Lookahead) = f[<<s, 0>>]
  BY LookaheadAssumption, ViableIs
<1>6. Implied(f, Lookahead, other \o Continuation, argument \o Continuation)
  BY <1>5, LookaheadAssumption, GateargImplied
<1>7. 2 \in C => 1 \in C
  <2>1. 0 \in 0..Lookahead
    BY LookaheadAssumption, SMT
  <2>2. f[<<other \o Continuation, 0>>] => f[<<argument \o Continuation, 0>>]
    BY <1>6, <2>1, Zenon DEF Implied
  <2> HIDE DEF C, alternatives, argument, other
  <2> QED
    BY <1>2, <1>4, <1>5, <2>2, Zenon
<1>8. C \subseteq {1, 2}
  BY <1>2, Zenon DEF Candidates
<1> HIDE DEF C
<1>9. Min(C) = 1
  <2>1. 1 \in C /\ C \subseteq Nat
    BY <1>7, <1>8, SMT DEF C
  <2>2. Min(C) \in C /\ Min(C) <= 1
    BY <2>1, LeastIs, Zenon
  <2>3. Min(C) \in {1, 2}
    BY <1>8, <2>2, Zenon
  <2> QED
    BY <2>2, <2>3, SMT
<1> QED
  BY <1>2, <1>9, Zenon DEF C

-----------------------------------------------------------------------------
(* A decision keeps what a rule has called and is still to do in its form *)

(* The place of a symbol between two sequences, and the rest around it *)
IsBetween(T, a, x, t, r) ==
    /\ r \in Seq(T) /\ Len(r) = Len(a) + 1 + Len(t)
    /\ r[Len(a) + 1] = x
    /\ \A i \in 1..Len(r) : i # Len(a) + 1 =>
            r[i] = IF i <= Len(a) THEN a[i] ELSE t[i - (Len(a) + 1)]

LEMMA Between ==
    ASSUME NEW T, NEW a \in Seq(T), NEW t \in Seq(T), NEW x \in T
    PROVE  IsBetween(T, a, x, t, a \o (<<x>> \o t))
<1> DEFINE e == <<x>>
           s == e \o t
           r == a \o s
<1>1. e \in Seq(T) /\ Len(e) = 1 /\ e[1] = x /\ Len(a) \in Nat /\ Len(t) \in Nat
  BY SMT
<1> HIDE DEF e
<1>2. /\ s \in Seq(T) /\ Len(s) = Len(e) + Len(t)
      /\ \A i \in 1..(Len(e) + Len(t)) : s[i] = IF i <= Len(e) THEN e[i] ELSE t[i - Len(e)]
  BY <1>1, ConcatProperties, Zenon
<1> HIDE DEF s
<1>3. /\ r \in Seq(T) /\ Len(r) = Len(a) + Len(s)
      /\ \A i \in 1..(Len(a) + Len(s)) : r[i] = IF i <= Len(a) THEN a[i] ELSE s[i - Len(a)]
  <2>1. s \in Seq(T)
    BY <1>2
  <2> QED
    BY <2>1, ConcatProperties, Zenon
<1> HIDE DEF r
<1>4. r \in Seq(T) /\ Len(r) = Len(a) + 1 + Len(t)
  BY <1>1, <1>2, <1>3, SMT
<1>5. r[Len(a) + 1] = x
  <2>1. s[1] = x
    BY <1>1, <1>2, SMT
  <2> QED
    BY <1>1, <1>2, <1>3, <2>1, SMT
<1>6. ASSUME NEW i \in 1..Len(r), i # Len(a) + 1
      PROVE  r[i] = IF i <= Len(a) THEN a[i] ELSE t[i - (Len(a) + 1)]
  <2>1. CASE i <= Len(a)
    BY <1>1, <1>2, <1>3, <2>1, SMT
  <2>2. CASE i > Len(a) + 1
    <3> DEFINE j == i - Len(a)
    <3>1. j \in 1..(Len(e) + Len(t)) /\ ~(j <= Len(e)) /\ j - Len(e) = i - (Len(a) + 1)
      BY <1>1, <1>4, <2>2, SMT
    <3>2. r[i] = s[j]
      BY <1>1, <1>2, <1>3, <2>2, SMT
    <3> HIDE DEF j
    <3>3. s[j] = t[j - Len(e)]
      BY <1>2, <3>1
    <3>4. ~(i <= Len(a))
      BY <1>1, <1>4, <2>2, SMT
    <3> QED
      BY <3>1, <3>2, <3>3, <3>4
  <2> QED
    BY <1>1, <1>4, <1>6, <2>1, <2>2, SMT
<1> QED
  BY <1>4, <1>5, <1>6 DEF IsBetween, r, s, e

LEMMA NotMeasured ==
    /\ {"qbit", "cbit"} \cap {"MEASURE", "'->'", "gatearg"} = {}
    /\ "MEASURE" \notin DOMAIN Grammar /\ "'->'" \notin DOMAIN Grammar
    /\ "gatearg" \in DOMAIN Rules /\ "ID" \notin DOMAIN Grammar
<1>1. /\ \A s \in {"MEASURE", "'->'", "ID"} : s \notin DOMAIN Rules
      /\ "gatearg" \in DOMAIN Rules
  BY RuleNamed, Zenon DEF RuleNames
<1>2. \A s \in {"MEASURE", "'->'", "ID"} : s \notin DOMAIN Branches
  BY Zenon DEF Branches
<1>3. \A s \in {"MEASURE", "'->'", "ID"} : s \notin DOMAIN AdaptiveBranches
  BY Zenon DEF AdaptiveBranches
<1>4. {"qbit", "cbit"} \cap {"MEASURE", "'->'", "gatearg"} = {}
  BY Zenon
<1> QED
  BY <1>1, <1>2, <1>3, <1>4, GrammarOf, Zenon

LEMMA FourSame ==
    ASSUME NEW T, NEW r \in Seq(T), Len(r) = 4
    PROVE  r = <<r[1], r[2], r[3], r[4]>>
<1> DEFINE t == <<r[1], r[2], r[3], r[4]>>
<1>1. /\ t \in Seq(T) /\ Len(t) = 4 /\ t[1] = r[1] /\ t[2] = r[2] /\ t[3] = r[3] /\ t[4] = r[4]
  <2>1. \A a, b, c, d \in T :
            /\ <<a, b, c, d>> \in Seq(T) /\ Len(<<a, b, c, d>>) = 4
            /\ <<a, b, c, d>>[1] = a /\ <<a, b, c, d>>[2] = b
            /\ <<a, b, c, d>>[3] = c /\ <<a, b, c, d>>[4] = d
    BY SMT
  <2>2. r[1] \in T /\ r[2] \in T /\ r[3] \in T /\ r[4] \in T
    <3>1. DOMAIN r = 1..Len(r)
      BY SMT
    <3>2. DOMAIN r = 1..4
      BY <3>1
    <3>3. 1 \in 1..4 /\ 2 \in 1..4 /\ 3 \in 1..4 /\ 4 \in 1..4
      BY SMT
    <3> QED
      BY <3>2, <3>3, ElementIn, Zenon
  <2> QED
    BY <2>1, <2>2, Zenon
<1> HIDE DEF t
<1>2. \A i \in 1..Len(r) : r[i] = t[i]
  BY <1>1, SMT
<1>3. r = t
  BY <1>1, <1>2, SeqEqual
<1> QED
  BY <1>3 DEF t

LEMMA MeasuresBranch ==
    ASSUME NEW T, NEW a \in Seq(T), NEW t \in Seq(T), NEW symbol \in T, "gatearg" \in T,
           symbol \in DOMAIN Grammar, symbol \notin DOMAIN Rules,
           Measures(a \o (<<symbol>> \o t))
    PROVE  symbol \in {"qbit", "cbit"} /\ Measures(a \o (<<"gatearg">> \o t))
<1> DEFINE r == a \o (<<symbol>> \o t)
           u == a \o (<<"gatearg">> \o t)
           p == Len(a) + 1
           arg == "gatearg"
<1>1. PICK q \in Qubits, c \in Cbits : r = <<"MEASURE", q, "'->'", c>>
  BY Zenon DEF Measures
<1>2. /\ r \in Seq(T) /\ Len(r) = Len(a) + 1 + Len(t) /\ r[p] = symbol
      /\ \A i \in 1..Len(r) : i # p => r[i] = IF i <= Len(a) THEN a[i] ELSE t[i - p]
  BY Between DEF IsBetween
<1>3. /\ u \in Seq(T) /\ Len(u) = Len(a) + 1 + Len(t) /\ u[p] = arg
      /\ \A i \in 1..Len(u) : i # p => u[i] = IF i <= Len(a) THEN a[i] ELSE t[i - p]
  <2> HIDE DEF arg
  <2>1. arg \in T
    BY DEF arg
  <2>2. IsBetween(T, a, arg, t, a \o (<<arg>> \o t))
    BY <2>1, Between, Zenon
  <2> QED
    BY <2>2 DEF IsBetween, arg
<1> HIDE DEF r, u
<1>4. Len(r) = 4 /\ r[2] = q /\ r[4] = c
  BY <1>1, SMT
<1>5. r[1] = "MEASURE" /\ r[3] = "'->'"
  BY <1>1, SMT
<1>6. p \in 1..4 /\ Len(a) \in Nat /\ Len(t) \in Nat
  BY <1>2, <1>4, SMT
<1> HIDE DEF p
<1>7. p # 1 /\ p # 3
  <2>1. r[p] # "MEASURE" /\ r[p] # "'->'"
    BY <1>2, NotMeasured, Zenon
  <2>2. p = 1 => r[p] = "MEASURE"
    BY <1>5
  <2>3. p = 3 => r[p] = "'->'"
    BY <1>5
  <2> QED
    BY <2>1, <2>2, <2>3
<1>8. \A i \in 1..4 : i # p => u[i] = r[i]
  <2>1. Len(u) = 4
    BY <1>2, <1>3, <1>4
  <2> QED
    BY <1>2, <1>3, <1>4, <2>1, Zenon
<1>9. p = 2 \/ p = 4
  BY <1>6, <1>7, SMT
<1>10. symbol \in {"qbit", "cbit"}
  BY <1>1, <1>2, <1>4, <1>9, NotMeasured, Zenon DEF Qubits, Cbits
<1>11. 1 \in 1..4 /\ 2 \in 1..4 /\ 3 \in 1..4 /\ 4 \in 1..4 /\ 2 # 4
  BY SMT
<1>12. u[1] = "MEASURE" /\ u[3] = "'->'"
  BY <1>5, <1>7, <1>8, <1>11, Zenon
<1>13. u[2] \in Qubits /\ u[4] \in Cbits
  <2>1. arg \in Qubits /\ arg \in Cbits
    BY Zenon DEF Qubits, Cbits
  <2> HIDE DEF arg
  <2>2. CASE p = 2
    BY <1>1, <1>3, <1>4, <1>8, <1>11, <2>1, <2>2, Zenon
  <2>3. CASE p = 4
    BY <1>1, <1>3, <1>4, <1>8, <1>11, <2>1, <2>3, Zenon
  <2> QED
    BY <1>9, <2>2, <2>3
<1>14. u = <<u[1], u[2], u[3], u[4]>>
  <2>1. Len(u) = 4
    BY <1>2, <1>3, <1>4
  <2> QED
    BY <1>3, <2>1, FourSame
<1>15. Measures(u)
  BY <1>12, <1>13, <1>14, Zenon DEF Measures
<1> QED
  BY <1>10, <1>15 DEF u

LEMMA RangeBetween ==
    ASSUME NEW T, NEW a \in Seq(T), NEW b \in Seq(T), NEW t \in Seq(T)
    PROVE  Range(a \o (b \o t)) = Range(a) \cup Range(b) \cup Range(t)
<1> DEFINE r == b \o t
<1>1. r \in Seq(T)
  BY ConcatProperties, Zenon
<1>2. Range(r) = Range(b) \cup Range(t)
  BY RangeConcatenation, Zenon
<1> HIDE DEF r
<1>3. Range(a \o r) = Range(a) \cup Range(r)
  BY <1>1, RangeConcatenation, Zenon
<1>4. Range(a \o r) = Range(a) \cup Range(b) \cup Range(t)
  BY <1>2, <1>3
<1> QED
  BY <1>4 DEF r

Needed == {"id", "param", "gatename", "gatearglist"}

LEMMA NeededAreRules ==
    /\ \A s \in Needed : s \in DOMAIN Rules
    /\ \A s \in Special : s \in DOMAIN Rules \/ s = "xacckernel*"
    /\ \A s \in Kernelwise : s \in Special
    /\ "xacckernel" \in Kernelwise /\ "xacckernel*" \in Kernelwise
<1>1. \A s \in Needed : s \in DOMAIN Rules
  BY RuleNamed, Zenon DEF RuleNames, Needed
<1>2. \A s \in Special : s \in DOMAIN Rules \/ s = "xacckernel*"
  BY TokenNamed, Zenon DEF Special
<1> QED
  BY <1>1, <1>2, Zenon DEF Special, Kernelwise

(* What a decision puts in the place of a symbol *)
LEMMA ChosenRange ==
    ASSUME NEW symbol \in DOMAIN Grammar, symbol \notin DOMAIN Rules,
           NEW i \in DOMAIN Grammar[symbol]
    PROVE  IF symbol = "xacckernel*" THEN Range(Grammar[symbol][i]) \subseteq Kernelwise
           ELSE Range(Grammar[symbol][i]) \cap Special = {}
<1>1. CASE symbol = "xacckernel*"
  <2> DEFINE more == <<"xacckernel", "xacckernel*">>
  <2>1. Range(more) \subseteq Kernelwise /\ Range(<<>>) \subseteq Kernelwise
    <3>1. \A a, b : Range(<<a, b>>) = {a, b}
      BY SMT DEF Range
    <3>2. Range(<<>>) = {}
      BY SMT DEF Range
    <3> QED
      BY <3>1, <3>2, Zenon DEF Kernelwise
  <2>2. Grammar[symbol] = <<more, <<>>>>
    BY <1>1, KernelGrammar
  <2> HIDE DEF more
  <2>3. /\ DOMAIN Grammar[symbol] = {1, 2} /\ Grammar[symbol][1] = more
        /\ Grammar[symbol][2] = <<>>
    BY <2>2, TwoAlternatives, SMT
  <2> QED
    BY <1>1, <2>1, <2>3, Zenon
<1>2. CASE symbol # "xacckernel*"
  <2>1. symbol # "xaccsrc"
    BY TokenNamed, Zenon
  <2>2. Sound(Grammar[symbol])
    BY <1>2, <2>1, SoundGrammar, Zenon
  <2> QED
    BY <1>2, <2>2, Zenon DEF Sound, Fine, Range
<1> QED
  BY <1>1, <1>2

LEMMA FormBranch ==
    ASSUME NEW rule \in DOMAIN Rules, NEW T, NEW a \in Seq(T), NEW t \in Seq(T),
           NEW symbol \in T, "gatearg" \in T, symbol \in DOMAIN Grammar, symbol \notin DOMAIN Rules,
           NEW i \in DOMAIN Grammar[symbol], Grammar[symbol][i] \in Seq(T),
           symbol \in {"qbit", "cbit"} => Grammar[symbol][i] = <<"gatearg">>,
           FormOK(rule, a \o (<<symbol>> \o t))
    PROVE  FormOK(rule, a \o (Grammar[symbol][i] \o t))
<1> DEFINE alternative == Grammar[symbol][i]
           old == a \o (<<symbol>> \o t)
           new == a \o (alternative \o t)
           rest == Range(a) \cup Range(t)
<1>1. /\ Range(old) = rest \cup {symbol} /\ Range(new) = rest \cup Range(alternative)
  <2>1. <<symbol>> \in Seq(T) /\ Range(<<symbol>>) = {symbol}
    BY Range1, SMT
  <2> DEFINE b == <<symbol>>
  <2>2. b \in Seq(T) /\ Range(b) = {symbol}
    BY <2>1
  <2> HIDE DEF b, alternative
  <2>3. alternative \in Seq(T)
    BY DEF alternative
  <2>4. Range(a \o (b \o t)) = Range(a) \cup Range(b) \cup Range(t)
    BY <2>2, RangeBetween
  <2>5. Range(a \o (alternative \o t)) = Range(a) \cup Range(alternative) \cup Range(t)
    BY <2>3, RangeBetween
  <2>6. old = a \o (b \o t)
    BY DEF b
  <2> HIDE DEF old, new
  <2>7. Range(old) = rest \cup {symbol}
    BY <2>2, <2>4, <2>6
  <2>8. Range(new) = rest \cup Range(alternative)
    BY <2>5 DEF new
  <2> QED
    BY <2>7, <2>8
<1>2. FormOK(rule, old)
  OBVIOUS
<1> HIDE DEF old, new, rest
<1>3. Complete(rule, new)
  <2>1. \A s \in Needed : s \in Range(old) => s \in Range(new)
    BY <1>1, NeededAreRules, Zenon
  <2> QED
    BY <1>2, <2>1, Zenon DEF FormOK, Complete, Needed
<1>4. Apart(rule, new)
  <2>1. CASE rule = "xaccsrc"
    <3>1. Range(old) \subseteq Kernelwise
      BY <1>2, <2>1, Zenon DEF FormOK, Apart
    <3>2. symbol = "xacckernel*"
      BY <1>1, <3>1, NeededAreRules, Zenon
    <3>3. Range(alternative) \subseteq Kernelwise
      BY <3>2, ChosenRange
    <3> QED
      BY <1>1, <2>1, <3>1, <3>3, Zenon DEF Apart
  <2>2. CASE rule # "xaccsrc"
    <3>1. Range(old) \cap Special = {}
      BY <1>2, <2>2, Zenon DEF FormOK, Apart
    <3>2. symbol # "xacckernel*"
      BY <1>1, <3>1, NeededAreRules, Zenon
    <3>3. Range(alternative) \cap Special = {}
      BY <3>2, ChosenRange
    <3> QED
      BY <1>1, <2>2, <3>1, <3>3, Zenon DEF Apart
  <2> QED
    BY <2>1, <2>2
<1>5. rule # "id"
  <2> SUFFICES ASSUME rule = "id" PROVE FALSE
    OBVIOUS
  <2>1. old = <<"ID">>
    BY <1>2, Zenon DEF FormOK
  <2>2. symbol \in Range(<<"ID">>)
    BY <1>1, <2>1, Zenon
  <2>3. symbol = "ID"
    BY <2>2, Range1, Zenon
  <2> QED
    BY <2>3, NotMeasured, Zenon
<1>6. rule = "measure" => Measures(new)
  <2> SUFFICES ASSUME rule = "measure" PROVE Measures(new)
    OBVIOUS
  <2>1. Measures(old)
    BY <1>2, Zenon DEF FormOK
  <2>2. symbol \in {"qbit", "cbit"} /\ Measures(a \o (<<"gatearg">> \o t))
    BY <2>1, MeasuresBranch DEF old
  <2>3. alternative = <<"gatearg">>
    BY <2>2
  <2> QED
    BY <2>2, <2>3 DEF new
<1>7. FormOK(rule, new)
  BY <1>3, <1>4, <1>5, <1>6, Zenon DEF FormOK
<1> QED
  BY <1>7 DEF new

-----------------------------------------------------------------------------
(* The calls on the stack *)

LEMMA FrontLastFacts ==
    ASSUME NEW T, NEW s \in Seq(T), s # <<>>
    PROVE  /\ Len(s) \in Nat /\ Len(s) >= 1 /\ Last(s) = s[Len(s)] /\ Last(s) \in T
           /\ Front(s) \in Seq(T) /\ Len(Front(s)) = Len(s) - 1
           /\ \A i \in 1..(Len(s) - 1) : Front(s)[i] = s[i] /\ i \in DOMAIN s
<1>1. Len(s) \in Nat /\ Len(s) >= 1 /\ s[Len(s)] \in T
  BY SMT
<1>2. /\ SubSeq(s, 1, Len(s) - 1) \in Seq(T) /\ Len(SubSeq(s, 1, Len(s) - 1)) = Len(s) - 1
      /\ \A i \in 1..(Len(s) - 1) : SubSeq(s, 1, Len(s) - 1)[i] = s[i] /\ i \in DOMAIN s
  <2> DEFINE n == Len(s) - 1
             f == SubSeq(s, 1, n)
  <2>1. 1 \in Int /\ n \in Int /\ n \in Nat /\ \A i \in 1..n : i \in DOMAIN s /\ s[i] \in T
    BY <1>1, SMT
  <2> HIDE DEF n
  <2>2. /\ f \in Seq(T) /\ Len(f) = IF 1 <= n THEN n - 1 + 1 ELSE 0
        /\ \A i \in 1..(n - 1 + 1) : f[i] = s[1 + i - 1]
    BY <2>1, SubSeqProperties
  <2> HIDE DEF f
  <2>3. Len(f) = n
    BY <2>1, <2>2, SMT
  <2>4. \A i \in 1..n : f[i] = s[i]
    BY <2>1, <2>2, SMT
  <2> QED
    BY <2>1, <2>2, <2>3, <2>4 DEF f, n
<1>3. Front(s) = SubSeq(s, 1, Len(s) - 1) /\ Last(s) = s[Len(s)]
  BY Zenon DEF Front, Last
<1> QED
  BY <1>1, <1>2, <1>3

IsReplaced(s, g, r) ==
    /\ Len(r) = Len(s) /\ r # <<>> /\ Last(r) = g
    /\ \A i \in 1..(Len(s) - 1) : r[i] = s[i]
    /\ r[Len(s)] = g

LEMMA LastReplaced ==
    ASSUME NEW T, NEW s \in Seq(T), s # <<>>, NEW g \in T
    PROVE  Append(Front(s), g) \in Seq(T) /\ IsReplaced(s, g, Append(Front(s), g))
<1> DEFINE front == Front(s)
           r == Append(front, g)
<1>1. /\ Len(s) \in Nat /\ Len(s) >= 1
      /\ front \in Seq(T) /\ Len(front) = Len(s) - 1
      /\ \A i \in 1..(Len(s) - 1) : front[i] = s[i]
  BY FrontLastFacts
<1> HIDE DEF front
<1>2. /\ r \in Seq(T) /\ r # <<>> /\ Len(r) = Len(front) + 1
      /\ \A i \in 1..Len(front) : r[i] = front[i]
      /\ r[Len(front) + 1] = g
  BY <1>1, AppendProperties
<1> HIDE DEF r
<1>3. Len(r) = Len(s) /\ Len(front) + 1 = Len(s)
  BY <1>1, <1>2, SMT
<1>4. Last(r) = g
  BY <1>2, <1>3, Zenon DEF Last
<1>5. \A i \in 1..(Len(s) - 1) : r[i] = s[i]
  BY <1>1, <1>2
<1> QED
  BY <1>2, <1>3, <1>4, <1>5 DEF IsReplaced, r, front

LEMMA Concat0 ==
    ASSUME NEW T, NEW s \in Seq(T)
    PROVE  <<>> \o s = s
BY ConcatEmptySeq, Zenon

LEMMA AppendThen ==
    ASSUME NEW T, NEW s \in Seq(T), NEW x \in T, NEW t \in Seq(T)
    PROVE  Append(s, x) \o t = s \o (<<x>> \o t)
<1> DEFINE e == <<x>>
<1>1. e \in Seq(T)
  BY SMT
<1>2. Append(s, x) = s \o e
  BY AppendIsConcat, Zenon
<1> HIDE DEF e
<1>3. (s \o e) \o t = s \o (e \o t)
  <2>1. Associate(s, e, t)
    BY <1>1, Associates, Zenon
  <2> QED
    BY <2>1, Zenon DEF Associate
<1> QED
  BY <1>2, <1>3 DEF e

LEMMA HeadThen ==
    ASSUME NEW T, NEW s \in Seq(T), s # <<>>
    PROVE  /\ Head(s) \in T /\ Tail(s) \in Seq(T)
           /\ s = <<Head(s)>> \o Tail(s)
<1> DEFINE h == Head(s)
           e == <<h>>
           t == Tail(s)
           r == e \o t
<1>1. /\ h \in T /\ t \in Seq(T) /\ Len(t) = Len(s) - 1
      /\ \A i \in 1..Len(t) : t[i] = s[i + 1]
      /\ Len(s) \in Nat /\ Len(s) >= 1 /\ h = s[1]
  <2>1. /\ h \in T /\ t \in Seq(T) /\ Len(t) = Len(s) - 1
        /\ \A i \in 1..Len(t) : t[i] = s[i + 1]
    BY HeadTailProperties
  <2>2. Len(s) \in Nat /\ Len(s) >= 1 /\ h = s[1]
    BY SMT
  <2> QED
    BY <2>1, <2>2
<1> HIDE DEF h, t
<1>2. e \in Seq(T) /\ Len(e) = 1 /\ e[1] = h
  BY <1>1, SMT
<1> HIDE DEF e
<1>3. /\ r \in Seq(T) /\ Len(r) = Len(e) + Len(t)
      /\ \A i \in 1..(Len(e) + Len(t)) : r[i] = IF i <= Len(e) THEN e[i] ELSE t[i - Len(e)]
  <2>1. e \in Seq(T) /\ t \in Seq(T)
    BY <1>1, <1>2
  <2> QED
    BY <2>1, ConcatProperties, Zenon
<1> HIDE DEF r
<1>4. Len(r) = Len(s)
  BY <1>1, <1>2, <1>3, SMT
<1>5. \A i \in 1..Len(s) : s[i] = r[i]
  <2> TAKE i \in 1..Len(s)
  <2>1. CASE i = 1
    <3>1. r[1] = e[1]
      BY <1>1, <1>2, <1>3, SMT
    <3> QED
      BY <1>1, <1>2, <2>1, <3>1
  <2>2. CASE i # 1
    <3> DEFINE j == i - 1
    <3>1. j \in 1..Len(t) /\ i \in 1..(Len(e) + Len(t)) /\ ~(i <= Len(e)) /\ i - Len(e) = j /\ j + 1 = i
      BY <1>1, <1>2, <2>2, SMT
    <3> HIDE DEF j
    <3>2. r[i] = t[j]
      BY <1>3, <3>1
    <3>3. t[j] = s[j + 1]
      BY <1>1, <3>1
    <3> QED
      BY <3>1, <3>2, <3>3
  <2> QED
    BY <2>1, <2>2
<1>6. s = r
  BY <1>3, <1>4, <1>5, SeqEqual
<1> QED
  BY <1>1, <1>6 DEF r, e, h, t

(* What the calls on the stack have called, are in and are still to do *)
CallForm(st, i) == Kinds(st[i].children) \o (<<st[i + 1].rule>> \o st[i].rest)
LastForm(st) == Kinds(Last(st).children) \o Last(st).rest
Below(S, st) ==
    /\ st \in Seq(Frames(S)) /\ AllGood(S) /\ st # <<>>
    /\ st[1].rule = "xaccsrc"
    /\ \A i \in 1..(Len(st) - 1) : FormOK(st[i].rule, CallForm(st, i))
StackOK(S, st) == Below(S, st) /\ FormOK(Last(st).rule, LastForm(st))

LEMMA FramesGrow ==
    ASSUME NEW S, NEW R, S \subseteq R
    PROVE  Seq(Frames(S)) \subseteq Seq(Frames(R))
<1>1. \A A, B : A \subseteq B => Seq(A) \subseteq Seq(B)
  BY SMT
<1>2. Seq(S) \subseteq Seq(R)
  BY <1>1, Zenon
<1>3. Frames(S) \subseteq Frames(R)
  BY <1>2, SMT DEF Frames
<1> QED
  BY <1>1, <1>3, Zenon

LEMMA BelowReplaced ==
    ASSUME NEW S, NEW R, S \subseteq R, AllGood(R), NEW st, Below(S, st),
           NEW g \in Frames(R), g.rule = Last(st).rule
    PROVE  Below(R, Append(Front(st), g)) /\ Last(Append(Front(st), g)) = g
<1> DEFINE r == Append(Front(st), g)
<1>1. st \in Seq(Frames(S)) /\ st \in Seq(Frames(R)) /\ st # <<>>
  BY FramesGrow, Zenon DEF Below
<1>2. r \in Seq(Frames(R)) /\ IsReplaced(st, g, r)
  BY <1>1, LastReplaced, Zenon
<1> HIDE DEF r
<1>3. /\ Len(st) \in Nat /\ Len(st) >= 1 /\ Last(st) = st[Len(st)]
  BY <1>1, FrontLastFacts, Zenon
<1>4. /\ Len(r) = Len(st) /\ r # <<>> /\ Last(r) = g
      /\ \A i \in 1..(Len(st) - 1) : r[i] = st[i]
      /\ r[Len(st)] = g
  BY <1>2, Zenon DEF IsReplaced
<1>5. \A i \in 1..Len(st) : r[i].rule = st[i].rule
  <2>1. \A i \in 1..Len(st) : i \in 1..(Len(st) - 1) \/ i = Len(st)
    BY <1>3, SMT
  <2> QED
    BY <1>3, <1>4, <2>1, Zenon
<1>6. r[1].rule = "xaccsrc"
  <2>1. 1 \in 1..Len(st)
    BY <1>3, SMT
  <2> QED
    BY <1>5, <2>1, Zenon DEF Below
<1>7. \A i \in 1..(Len(r) - 1) : FormOK(r[i].rule, CallForm(r, i))
  <2> TAKE i \in 1..(Len(r) - 1)
  <2>1. i \in 1..(Len(st) - 1)
    BY <1>4
  <2>2. i + 1 \in 1..Len(st)
    BY <1>3, <2>1, SMT
  <2>3. r[i] = st[i] /\ r[i + 1].rule = st[i + 1].rule
    BY <1>4, <1>5, <2>1, <2>2, Zenon
  <2>4. FormOK(st[i].rule, CallForm(st, i))
    BY <2>1, Zenon DEF Below
  <2>5. CallForm(r, i) = CallForm(st, i)
    BY <2>3, Zenon DEF CallForm
  <2> QED
    BY <2>3, <2>4, <2>5, Zenon
<1> QED
  BY <1>2, <1>4, <1>6, <1>7, Zenon DEF Below, r

LEMMA BelowPushed ==
    ASSUME NEW S, NEW st, Below(S, st), NEW g \in Frames(S),
           FormOK(Last(st).rule, Kinds(Last(st).children) \o (<<g.rule>> \o Last(st).rest))
    PROVE  Below(S, Append(st, g)) /\ Last(Append(st, g)) = g
<1> DEFINE r == Append(st, g)
<1>1. st \in Seq(Frames(S)) /\ st # <<>> /\ AllGood(S) /\ st[1].rule = "xaccsrc"
  BY Zenon DEF Below
<1>2. /\ r \in Seq(Frames(S)) /\ r # <<>> /\ Len(r) = Len(st) + 1
      /\ \A i \in 1..Len(st) : r[i] = st[i]
      /\ r[Len(st) + 1] = g
  BY <1>1, AppendProperties
<1> HIDE DEF r
<1>3. /\ Len(st) \in Nat /\ Len(st) >= 1 /\ Last(st) = st[Len(st)]
  BY <1>1, FrontLastFacts, Zenon
<1>4. Last(r) = g
  BY <1>2, Zenon DEF Last
<1>5. r[1] = st[1]
  BY <1>2, <1>3, SMT
<1>6. \A i \in 1..(Len(r) - 1) : FormOK(r[i].rule, CallForm(r, i))
  <2> TAKE i \in 1..(Len(r) - 1)
  <2>1. i \in 1..Len(st) /\ (i = Len(st) \/ (i \in 1..(Len(st) - 1) /\ i + 1 \in 1..Len(st)))
    BY <1>2, <1>3, SMT
  <2>2. r[i] = st[i]
    BY <1>2, <2>1
  <2>3. CASE i = Len(st)
    <3>1. r[i + 1] = g /\ st[i] = Last(st)
      BY <1>2, <1>3, <2>3, Zenon
    <3>2. CallForm(r, i) = Kinds(Last(st).children) \o (<<g.rule>> \o Last(st).rest)
      BY <2>2, <3>1, Zenon DEF CallForm
    <3> QED
      BY <2>2, <3>1, <3>2, Zenon
  <2>4. CASE i \in 1..(Len(st) - 1) /\ i + 1 \in 1..Len(st)
    <3>1. r[i + 1] = st[i + 1]
      BY <1>2, <2>4, Zenon
    <3>2. CallForm(r, i) = CallForm(st, i)
      BY <2>2, <3>1, Zenon DEF CallForm
    <3>3. FormOK(st[i].rule, CallForm(st, i))
      BY <2>4, Zenon DEF Below
    <3> QED
      BY <2>2, <3>2, <3>3, Zenon
  <2> QED
    BY <2>1, <2>3, <2>4
<1> QED
  BY <1>1, <1>2, <1>4, <1>5, <1>6, Zenon DEF Below, r

LEMMA BelowPopped ==
    ASSUME NEW S, NEW st, Below(S, st), Front(st) # <<>>
    PROVE  /\ Below(S, Front(st))
           /\ FormOK(Last(Front(st)).rule,
                     Kinds(Last(Front(st)).children)
                        \o (<<Last(st).rule>> \o Last(Front(st)).rest))
<1> DEFINE r == Front(st)
<1>1. st \in Seq(Frames(S)) /\ st # <<>> /\ AllGood(S) /\ st[1].rule = "xaccsrc"
  BY Zenon DEF Below
<1>2. /\ r \in Seq(Frames(S)) /\ r # <<>> /\ Len(r) = Len(st) - 1
      /\ \A i \in 1..(Len(st) - 1) : r[i] = st[i]
      /\ Len(st) \in Nat /\ Last(st) = st[Len(st)]
  BY <1>1, FrontLastFacts, Zenon
<1> HIDE DEF r
<1>3. Len(r) \in Nat /\ Len(r) >= 1 /\ Last(r) = r[Len(r)]
  BY <1>2, FrontLastFacts, Zenon
<1>4. /\ 1 \in 1..(Len(st) - 1) /\ Len(r) \in 1..(Len(st) - 1) /\ Len(r) + 1 = Len(st)
      /\ \A i \in 1..(Len(r) - 1) : i \in 1..(Len(st) - 1) /\ i + 1 \in 1..(Len(st) - 1)
  BY <1>2, <1>3, SMT
<1>5. \A i \in 1..(Len(r) - 1) : FormOK(r[i].rule, CallForm(r, i))
  <2> TAKE i \in 1..(Len(r) - 1)
  <2>1. r[i] = st[i] /\ r[i + 1] = st[i + 1]
    BY <1>2, <1>4, Zenon
  <2>2. FormOK(st[i].rule, CallForm(st, i))
    BY <1>4, Zenon DEF Below
  <2>3. CallForm(r, i) = CallForm(st, i)
    BY <2>1, Zenon DEF CallForm
  <2> QED
    BY <2>1, <2>2, <2>3, Zenon
<1>6. Below(S, r)
  BY <1>1, <1>2, <1>4, <1>5, Zenon DEF Below
<1>7. FormOK(Last(r).rule, Kinds(Last(r).children) \o (<<Last(st).rule>> \o Last(r).rest))
  <2>1. FormOK(st[Len(r)].rule, CallForm(st, Len(r)))
    BY <1>4, Zenon DEF Below
  <2>2. Last(r) = st[Len(r)] /\ Last(st) = st[Len(r) + 1]
    BY <1>2, <1>3, <1>4, Zenon
  <2>3. CallForm(st, Len(r)) = Kinds(Last(r).children) \o (<<Last(st).rule>> \o Last(r).rest)
    BY <2>2, Zenon DEF CallForm
  <2> QED
    BY <2>1, <2>2, <2>3, Zenon
<1> QED
  BY <1>6, <1>7 DEF r

(* Symbols, and the rule no other rule calls *)
Called == Symbols \cup TokenTypes \cup DOMAIN Rules

LEMMA CalledFacts ==
    /\ TokenTypes \subseteq Called /\ DOMAIN Rules \subseteq Called /\ "gatearg" \in Called
    /\ Seq(Symbols) \subseteq Seq(Called)
<1>1. \A A, B : A \subseteq B => Seq(A) \subseteq Seq(B)
  BY SMT
<1> QED
  BY <1>1, NotMeasured, Zenon DEF Called, TokenTypes

LEMMA KindsType ==
    ASSUME NEW S, AllGood(S), NEW ch \in Seq(S)
    PROVE  Kinds(ch) \in Seq(Called)
<1> DEFINE k == [j \in DOMAIN ch |-> ch[j].rule]
<1>1. \A j \in DOMAIN ch : ch[j] \in S
  BY ElementIn, Zenon
<1>2. k = [j \in DOMAIN ch |-> k[j]] /\ \A j \in DOMAIN ch : k[j] \in Called
  BY <1>1, CalledFacts, Zenon DEF AllGood, Good
<1>3. Kinds(ch) = k
  BY Zenon DEF Kinds
<1> HIDE DEF k
<1> QED
  BY <1>2, <1>3, ImageIsSeq

WithChild(S, ch, node, t) ==
    /\ AllGood(S \cup {node}) /\ S \subseteq S \cup {node}
    /\ Append(ch, node) \in Seq(S \cup {node})
    /\ Kinds(Append(ch, node)) \o t = Kinds(ch) \o (<<node.rule>> \o t)

LEMMA ChildAdded ==
    ASSUME NEW S, AllGood(S), NEW ch \in Seq(S), NEW node, Good(node), NEW t \in Seq(Symbols)
    PROVE  WithChild(S, ch, node, t)
<1> DEFINE R == S \cup {node}
           new == Append(ch, node)
           kinds == Kinds(ch)
           rule == node.rule
           longer == Append(kinds, rule)
<1>1. AllGood(R) /\ S \subseteq R /\ node \in R
  BY Zenon DEF AllGood
<1> HIDE DEF R
<1>2. ch \in Seq(R)
  <2>1. \A A, B : A \subseteq B => Seq(A) \subseteq Seq(B)
    BY SMT
  <2> QED
    BY <1>1, <2>1, Zenon
<1>3. /\ new \in Seq(R) /\ Len(new) = Len(ch) + 1
      /\ \A i \in 1..Len(ch) : new[i] = ch[i]
      /\ new[Len(ch) + 1] = node
  BY <1>1, <1>2, AppendProperties
<1> HIDE DEF new
<1>4. kinds \in Seq(Called) /\ rule \in Called
  BY KindsType, CalledFacts, Zenon DEF Good
<1>5. Kinds(new) \in Seq(Called)
  BY <1>1, <1>3, KindsType, Zenon
<1>6. /\ DOMAIN new = 1..Len(new) /\ DOMAIN ch = 1..Len(ch) /\ Len(ch) \in Nat
  BY <1>3, SMT
<1>7. /\ Len(kinds) = Len(ch) /\ Len(Kinds(new)) = Len(new)
      /\ \A i \in 1..Len(ch) : kinds[i] = ch[i].rule
      /\ \A i \in 1..Len(new) : Kinds(new)[i] = new[i].rule
  <2>1. /\ DOMAIN kinds = 1..Len(ch) /\ DOMAIN Kinds(new) = 1..Len(new)
        /\ \A i \in 1..Len(ch) : kinds[i] = ch[i].rule
        /\ \A i \in 1..Len(new) : Kinds(new)[i] = new[i].rule
    BY <1>6, Zenon DEF Kinds
  <2> HIDE DEF kinds
  <2>2. Len(new) \in Nat
    BY <1>3, SMT
  <2>3. \A q \in Seq(Called), n \in Nat : DOMAIN q = 1..n => Len(q) = n
    BY SMT
  <2> QED
    BY <1>4, <1>5, <1>6, <2>1, <2>2, <2>3, Zenon
<1> HIDE DEF kinds, rule
<1>8. /\ longer \in Seq(Called) /\ Len(longer) = Len(kinds) + 1
      /\ \A i \in 1..Len(kinds) : longer[i] = kinds[i]
      /\ longer[Len(kinds) + 1] = rule
  BY <1>4, AppendProperties
<1> HIDE DEF longer
<1>9. Kinds(new) = longer
  <2>1. Len(Kinds(new)) = Len(longer)
    BY <1>3, <1>7, <1>8
  <2>2. \A i \in 1..Len(longer) : i \in 1..Len(new) /\ (i \in 1..Len(ch) \/ i = Len(ch) + 1)
    BY <1>3, <1>6, <1>7, <1>8, SMT
  <2>3. \A i \in 1..Len(ch) : i \in 1..Len(new) => Kinds(new)[i] = longer[i]
    BY <1>3, <1>7, <1>8
  <2>4. Len(ch) + 1 \in 1..Len(new) => Kinds(new)[Len(ch) + 1] = longer[Len(ch) + 1]
    BY <1>3, <1>7, <1>8 DEF rule
  <2>5. \A i \in 1..Len(Kinds(new)) : Kinds(new)[i] = longer[i]
    BY <2>1, <2>2, <2>3, <2>4
  <2> QED
    BY <1>5, <1>8, <2>1, <2>5, SeqEqual
<1>10. t \in Seq(Called)
  BY CalledFacts, Zenon
<1>11. longer \o t = kinds \o (<<rule>> \o t)
  BY <1>4, <1>10, AppendThen DEF longer
<1>12. Kinds(new) \o t = kinds \o (<<rule>> \o t)
  BY <1>9, <1>11
<1> QED
  BY <1>1, <1>3, <1>12 DEF WithChild, R, new, kinds, rule

LEMMA RestFacts ==
    ASSUME NEW S, NEW f \in Frames(S), NEW t \in Seq(Symbols)
    PROVE  /\ [f EXCEPT !.rest = t] \in Frames(S)
           /\ [f EXCEPT !.rest = t].rule = f.rule
           /\ [f EXCEPT !.rest = t].children = f.children
           /\ [f EXCEPT !.rest = t].rest = t
BY SMT DEF Frames

(* The running call and what becomes of it *)
LEMMA GoneFacts ==
    ASSUME NEW S, running \in Frames(S), running.rest # <<>>, NEW todo \in Seq(Symbols)
    PROVE  /\ GoneOn(todo) \in Frames(S)
           /\ GoneOn(todo).rule = running.rule /\ GoneOn(todo).children = running.children
           /\ GoneOn(todo).rest = todo \o Tail(running.rest)
           /\ Head(running.rest) \in Symbols /\ Tail(running.rest) \in Seq(Symbols)
           /\ running.rest = <<Head(running.rest)>> \o Tail(running.rest)
<1> DEFINE f == running
           rest == todo \o Tail(f.rest)
<1>1. f.rule \in DOMAIN Rules /\ f.rest \in Seq(Symbols) /\ f.children \in Seq(S)
  BY FrameFields, Zenon
<1>2. /\ Head(f.rest) \in Symbols /\ Tail(f.rest) \in Seq(Symbols)
      /\ f.rest = <<Head(f.rest)>> \o Tail(f.rest)
  BY <1>1, HeadThen, Zenon
<1>3. rest \in Seq(Symbols)
  BY <1>2, ConcatProperties, Zenon
<1>4. GoneOn(todo) = [f EXCEPT !.rest = rest]
  BY DEF GoneOn
<1> HIDE DEF f, rest
<1>5. f \in Frames(S)
  BY DEF f
<1>6. /\ [f EXCEPT !.rest = rest] \in Frames(S)
      /\ [f EXCEPT !.rest = rest].rule = f.rule
      /\ [f EXCEPT !.rest = rest].children = f.children
      /\ [f EXCEPT !.rest = rest].rest = rest
  BY <1>3, <1>5, RestFacts, Zenon
<1> QED
  BY <1>2, <1>4, <1>6 DEF f, rest

Adopts(R, f, ch) ==
    /\ [f EXCEPT !.children = ch] \in Frames(R)
    /\ [f EXCEPT !.children = ch].rule = f.rule
    /\ [f EXCEPT !.children = ch].rest = f.rest
    /\ [f EXCEPT !.children = ch].children = ch

LEMMA ParentFacts ==
    ASSUME NEW S, NEW f \in Frames(S), NEW R, S \subseteq R, NEW ch \in Seq(R)
    PROVE  Adopts(R, f, ch)
BY SMT DEF Adopts, Frames

ParserOK == stack # <<>> => input \in Seq(Lexed) /\ \E S : StackOK(S, stack)

LEMMA RunningFacts ==
    ASSUME NEW S, StackOK(S, stack)
    PROVE  /\ Below(S, stack) /\ AllGood(S) /\ stack \in Seq(Frames(S)) /\ stack # <<>>
           /\ Last(stack) = running /\ running \in Frames(S)
           /\ running.rule \in DOMAIN Rules /\ running.rest \in Seq(Symbols)
           /\ running.children \in Seq(S)
           /\ Kinds(running.children) \in Seq(Called)
           /\ FormOK(running.rule, Kinds(running.children) \o running.rest)
<1>1. /\ Below(S, stack) /\ AllGood(S) /\ stack \in Seq(Frames(S)) /\ stack # <<>>
      /\ FormOK(Last(stack).rule, Kinds(Last(stack).children) \o Last(stack).rest)
  BY Zenon DEF StackOK, Below, LastForm
<1>2. Last(stack) = running
  BY DEF running
<1>3. running \in Frames(S)
  BY <1>1, <1>2, FrontLastFacts
<1>4. /\ running.rule \in DOMAIN Rules /\ running.rest \in Seq(Symbols)
      /\ running.children \in Seq(S)
  BY <1>3, FrameFields, Zenon
<1>5. Kinds(running.children) \in Seq(Called)
  BY <1>1, <1>4, KindsType, Zenon
<1> QED
  BY <1>1, <1>2, <1>3, <1>4, <1>5

LEMMA MatchKeeps == ParserOK /\ match => ParserOK' /\ stack' # <<>>
<1> SUFFICES ASSUME ParserOK, match PROVE ParserOK' /\ stack' # <<>>
  OBVIOUS
<1> DEFINE node == Token(Head(input))
           ch == Append(running.children, node)
           t == Tail(running.rest)
           g == [GoneOn(<<>>) EXCEPT !.children = ch]
<1>1. /\ stack # <<>> /\ running.rest # <<>> /\ input # <<>>
      /\ Head(running.rest) = Head(input).type
      /\ input' = Tail(input)
  BY Zenon DEF match
<1>2. stack' = Append(Front(stack), [GoneOn(<<>>) EXCEPT
                    !.children = Append(@, Token(Head(input)))])
  BY Zenon DEF match
<1>3. PICK S : StackOK(S, stack)
  BY <1>1, Zenon DEF ParserOK
<1>4. Head(input) \in Lexed /\ Tail(input) \in Seq(Lexed)
  <2>1. input \in Seq(Lexed)
    BY <1>1, Zenon DEF ParserOK
  <2> QED
    BY <1>1, <2>1, HeadTailProperties, Zenon
<1>5. Good(node) /\ node.rule = Head(running.rest)
  BY <1>1, <1>4, TokenGood, Zenon
<1> HIDE DEF node
<1>6. /\ <<>> \in Seq(Symbols) /\ AllGood(S) /\ running.children \in Seq(S)
      /\ running \in Frames(S) /\ Below(S, stack) /\ Last(stack) = running
      /\ FormOK(running.rule, Kinds(running.children) \o running.rest)
  BY <1>3, RunningFacts, EmptySeq, Zenon
<1>7. /\ GoneOn(<<>>) \in Frames(S)
      /\ GoneOn(<<>>).rule = running.rule /\ GoneOn(<<>>).children = running.children
      /\ GoneOn(<<>>).rest = <<>> \o t /\ t \in Seq(Symbols)
      /\ running.rest = <<Head(running.rest)>> \o t
  BY <1>1, <1>6, GoneFacts, Zenon
<1> HIDE DEF t
<1>8. <<>> \o t = t
  BY <1>7, Concat0
<1> DEFINE R == S \cup {node}
<1>9. /\ AllGood(R) /\ S \subseteq R /\ ch \in Seq(R)
      /\ Kinds(ch) \o t = Kinds(running.children) \o (<<node.rule>> \o t)
  <2> DEFINE kids == running.children
  <2>1. kids \in Seq(S) /\ AllGood(S) /\ Good(node) /\ t \in Seq(Symbols)
    BY <1>5, <1>6, <1>7
  <2> HIDE DEF kids
  <2>2. WithChild(S, kids, node, t)
    BY <2>1, ChildAdded
  <2> QED
    BY <2>2 DEF WithChild, kids
<1> HIDE DEF R, ch
<1>10. g \in Frames(R) /\ g.rule = running.rule /\ g.rest = t /\ g.children = ch
  <2>1. /\ g \in Frames(R) /\ g.rule = GoneOn(<<>>).rule /\ g.rest = GoneOn(<<>>).rest
        /\ g.children = ch
    <3> DEFINE f == GoneOn(<<>>)
    <3>1. f \in Frames(S)
      BY <1>7
    <3> HIDE DEF f
    <3>2. Adopts(R, f, ch)
      BY <1>9, <3>1, ParentFacts
    <3> QED
      BY <3>2 DEF Adopts, f
  <2> QED
    BY <1>7, <1>8, <2>1
<1>11. stack' = Append(Front(stack), g)
  BY <1>2, <1>7 DEF ch, node
<1> HIDE DEF g
<1>12. Below(R, Append(Front(stack), g)) /\ Last(Append(Front(stack), g)) = g
  BY <1>6, <1>9, <1>10, BelowReplaced
<1>13. Below(R, stack') /\ Last(stack') = g
  BY <1>11, <1>12
<1>14. Kinds(ch) \o t = Kinds(running.children) \o running.rest
  BY <1>5, <1>7, <1>9
<1>15. FormOK(g.rule, Kinds(g.children) \o g.rest)
  BY <1>6, <1>10, <1>14
<1>16. StackOK(R, stack')
  BY <1>13, <1>15, Zenon DEF StackOK, LastForm
<1>17. stack' # <<>>
  BY <1>13, Zenon DEF Below
<1> QED
  BY <1>1, <1>4, <1>16, <1>17, Zenon DEF ParserOK

LEMMA BranchKeeps == ParserOK /\ branch => ParserOK' /\ stack' # <<>>
<1> SUFFICES ASSUME ParserOK, branch PROVE ParserOK' /\ stack' # <<>>
  OBVIOUS
<1> DEFINE symbol == Head(running.rest)
           i == Min(Candidates(symbol))
           alternative == Grammar[symbol][i]
           t == Tail(running.rest)
           g == GoneOn(alternative)
           kinds == Kinds(running.children)
<1>1. /\ stack # <<>> /\ running.rest # <<>> /\ symbol \in DOMAIN Grammar
      /\ symbol \notin DOMAIN Rules /\ Candidates(symbol) # {}
      /\ stack' = Append(Front(stack), g) /\ input' = input
  BY Zenon DEF branch
<1>2. PICK S : StackOK(S, stack)
  BY <1>1, Zenon DEF ParserOK
<1>3. /\ AllGood(S) /\ running \in Frames(S) /\ Below(S, stack) /\ Last(stack) = running
      /\ stack \in Seq(Frames(S)) /\ running.rule \in DOMAIN Rules /\ kinds \in Seq(Called)
      /\ FormOK(running.rule, kinds \o running.rest)
  BY <1>2, RunningFacts, Zenon
<1>4. i \in DOMAIN Grammar[symbol]
  BY <1>1, CandidateTaken, Zenon
<1>5. alternative \in Seq(Symbols)
  BY <1>1, <1>4, GrammarType, Zenon
<1>6. symbol \in {"qbit", "cbit"} => alternative = <<"gatearg">>
  <2>1. Continuation \in Seq(Symbols)
    BY <1>1, <1>3, ContinuationType, Zenon
  <2>2. ASSUME NEW s \in {"qbit", "cbit"}, s = symbol
        PROVE  Grammar[s][Min(Candidates(s))] = <<"gatearg">>
    BY <1>1, <2>1, <2>2, GateargTaken
  <2> QED
    BY <2>2, Zenon
<1>7. /\ g \in Frames(S) /\ g.rule = running.rule /\ g.children = running.children
      /\ g.rest = alternative \o t
      /\ symbol \in Symbols /\ t \in Seq(Symbols)
      /\ running.rest = <<symbol>> \o t
  BY <1>1, <1>3, <1>5, GoneFacts
<1> HIDE DEF g, t, kinds
<1>8. FormOK(running.rule, kinds \o (alternative \o t))
  <2>1. symbol \in Called /\ t \in Seq(Called) /\ alternative \in Seq(Called)
    BY <1>5, <1>7, CalledFacts, Zenon DEF Called
  <2>2. FormOK(running.rule, kinds \o (<<symbol>> \o t))
    BY <1>3, <1>7
  <2> HIDE DEF symbol, i
  <2> QED
    BY <1>1, <1>3, <1>4, <1>6, <2>1, <2>2, CalledFacts, FormBranch
<1> HIDE DEF alternative, symbol, i
<1>9. Below(S, stack') /\ Last(stack') = g
  <2>1. Below(S, Append(Front(stack), g)) /\ Last(Append(Front(stack), g)) = g
    BY <1>3, <1>7, BelowReplaced
  <2> QED
    BY <1>1, <2>1
<1>10. FormOK(g.rule, Kinds(g.children) \o g.rest)
  BY <1>7, <1>8 DEF kinds
<1>11. StackOK(S, stack')
  BY <1>9, <1>10, Zenon DEF StackOK, LastForm
<1>12. stack' # <<>>
  BY <1>9, Zenon DEF Below
<1> QED
  BY <1>1, <1>11, <1>12, Zenon DEF ParserOK

TreeOK == stack = <<>> => tree.walk \in Seq(Event) /\ WellNested(tree.walk)

LEMMA PushedTwice ==
    ASSUME NEW T, NEW s \in Seq(T), NEW a \in T, NEW b \in T
    PROVE  s \o <<a, b>> = Append(Append(s, a), b)
<1> DEFINE x == Append(s, a)
           y == Append(x, b)
           p == <<a, b>>
           z == s \o p
<1>1. p \in Seq(T) /\ Len(p) = 2 /\ p[1] = a /\ p[2] = b /\ Len(s) \in Nat
  BY SMT
<1> HIDE DEF p
<1>2. x \in Seq(T) /\ Len(x) = Len(s) + 1 /\ (\A i \in 1..Len(s) : x[i] = s[i]) /\ x[Len(s) + 1] = a
  BY AppendProperties
<1> HIDE DEF x
<1>3. y \in Seq(T) /\ Len(y) = Len(x) + 1 /\ (\A i \in 1..Len(x) : y[i] = x[i]) /\ y[Len(x) + 1] = b
  BY <1>2, AppendProperties
<1> HIDE DEF y
<1>4. /\ z \in Seq(T) /\ Len(z) = Len(s) + Len(p)
      /\ \A i \in 1..(Len(s) + Len(p)) : z[i] = IF i <= Len(s) THEN s[i] ELSE p[i - Len(s)]
  BY <1>1, ConcatProperties, Zenon
<1> HIDE DEF z
<1>5. Len(z) = Len(s) + 2 /\ Len(y) = Len(s) + 2 /\ Len(x) = Len(s) + 1
  BY <1>1, <1>2, <1>3, <1>4, SMT
<1>6. z[Len(s) + 1] = a /\ z[Len(s) + 2] = b
  <2>1. /\ Len(s) + 1 \in 1..(Len(s) + Len(p)) /\ ~(Len(s) + 1 <= Len(s)) /\ (Len(s) + 1) - Len(s) = 1
        /\ Len(s) + 2 \in 1..(Len(s) + Len(p)) /\ ~(Len(s) + 2 <= Len(s)) /\ (Len(s) + 2) - Len(s) = 2
    BY <1>1, SMT
  <2>2. z[Len(s) + 1] = p[1]
    BY <1>4, <2>1
  <2>3. z[Len(s) + 2] = p[2]
    BY <1>4, <2>1
  <2> QED
    BY <1>1, <2>2, <2>3
<1>7. y[Len(s) + 1] = a /\ y[Len(s) + 2] = b
  <2>1. Len(s) + 1 \in 1..Len(x) /\ Len(x) + 1 = Len(s) + 2
    BY <1>1, <1>5, SMT
  <2> QED
    BY <1>2, <1>3, <2>1
<1>8. \A i \in 1..Len(s) : z[i] = s[i] /\ y[i] = s[i]
  <2> TAKE i \in 1..Len(s)
  <2>1. i \in 1..(Len(s) + Len(p)) /\ i <= Len(s) /\ i \in 1..Len(x)
    BY <1>1, <1>5, SMT
  <2> QED
    BY <1>2, <1>3, <1>4, <2>1
<1>9. \A i \in 1..Len(z) : i \in 1..Len(s) \/ i = Len(s) + 1 \/ i = Len(s) + 2
  BY <1>1, <1>5, SMT
<1>10. \A i \in 1..Len(z) : z[i] = y[i]
  BY <1>6, <1>7, <1>8, <1>9
<1>11. z = y
  BY <1>3, <1>4, <1>5, <1>10, SeqEqual
<1> QED
  BY <1>11 DEF z, y, x, p

LEMMA EnterKeeps == ParserOK /\ enterRule => ParserOK' /\ stack' # <<>>
<1> SUFFICES ASSUME ParserOK, enterRule PROVE ParserOK' /\ stack' # <<>>
  OBVIOUS
<1> DEFINE symbol == Head(running.rest)
           i == Min(Candidates(symbol))
           alternative == Rules[symbol][i]
           t == Tail(running.rest)
           g == GoneOn(<<>>)
           h == Frame(symbol, alternative)
           kinds == Kinds(running.children)
           st == Append(Front(stack), g)
<1>1. /\ stack # <<>> /\ running.rest # <<>> /\ symbol \in DOMAIN Rules
      /\ Candidates(symbol) # {}
      /\ stack' = Front(stack) \o <<g, h>> /\ input' = input
  BY Zenon DEF enterRule
<1>2. PICK S : StackOK(S, stack)
  BY <1>1, Zenon DEF ParserOK
<1>3. /\ AllGood(S) /\ running \in Frames(S) /\ Below(S, stack) /\ Last(stack) = running
      /\ stack \in Seq(Frames(S)) /\ running.rule \in DOMAIN Rules /\ kinds \in Seq(Called)
      /\ FormOK(running.rule, kinds \o running.rest)
  BY <1>2, RunningFacts, Zenon
<1>4. i \in DOMAIN Rules[symbol] /\ alternative \in Seq(Symbols)
  <2>1. symbol \in DOMAIN Grammar /\ Grammar[symbol] = Rules[symbol]
    BY <1>1, GrammarOf, Zenon
  <2>2. i \in DOMAIN Grammar[symbol]
    BY <1>1, <2>1, CandidateTaken, Zenon
  <2>3. Grammar[symbol][i] \in Seq(Symbols)
    BY <2>1, <2>2, GrammarType, Zenon
  <2> QED
    BY <2>1, <2>2, <2>3
<1>5. FormOK(symbol, alternative)
  BY <1>1, <1>4, FormStarts, Zenon
<1>6. /\ g \in Frames(S) /\ g.rule = running.rule /\ g.children = running.children
      /\ g.rest = <<>> \o t
      /\ symbol \in Symbols /\ t \in Seq(Symbols)
      /\ running.rest = <<symbol>> \o t
  <2>1. <<>> \in Seq(Symbols)
    BY EmptySeq, Zenon
  <2> QED
    BY <1>1, <1>3, <2>1, GoneFacts
<1> HIDE DEF g, t, kinds, alternative, symbol, i
<1>7. h \in Frames(S) /\ h.rule = symbol /\ h.rest = alternative /\ h.children = <<>>
  <2>1. <<>> \in Seq(S)
    BY EmptySeq, Zenon
  <2> QED
    BY <1>1, <1>4, <2>1, SMT DEF Frame, Frames
<1> HIDE DEF h
<1>8. Below(S, st) /\ Last(st) = g /\ Front(stack) \in Seq(Frames(S))
  <2>1. Below(S, st) /\ Last(st) = g
    BY <1>3, <1>6, BelowReplaced
  <2> QED
    BY <1>1, <1>3, <2>1, FrontLastFacts
<1>9. stack' = Append(st, h)
  BY <1>1, <1>6, <1>7, <1>8, PushedTwice
<1> HIDE DEF st
<1>10. g.rest = t
  BY <1>6, Concat0
<1>11. FormOK(Last(st).rule, Kinds(Last(st).children) \o (<<h.rule>> \o Last(st).rest))
  <2>1. /\ Last(st).rule = running.rule /\ Kinds(Last(st).children) = kinds
        /\ <<h.rule>> \o Last(st).rest = running.rest
    BY <1>6, <1>7, <1>8, <1>10 DEF kinds
  <2> QED
    BY <1>3, <2>1
<1>12. Below(S, stack') /\ Last(stack') = h
  <2>1. Below(S, Append(st, h)) /\ Last(Append(st, h)) = h
    BY <1>7, <1>8, <1>11, BelowPushed, Zenon
  <2> QED
    BY <1>9, <2>1
<1>13. FormOK(h.rule, Kinds(h.children) \o h.rest)
  <2>1. Kinds(<<>>) = <<>>
    BY SMT DEF Kinds
  <2>2. <<>> \o alternative = alternative
    BY <1>4, Concat0
  <2> QED
    BY <1>5, <1>7, <2>1, <2>2
<1>14. StackOK(S, stack')
  BY <1>12, <1>13, Zenon DEF StackOK, LastForm
<1>15. stack' # <<>>
  BY <1>12, Zenon DEF Below
<1> QED
  BY <1>1, <1>14, <1>15, Zenon DEF ParserOK

LEMMA ExitKeeps == ParserOK /\ exitRule => ParserOK' /\ TreeOK'
<1> SUFFICES ASSUME ParserOK, exitRule PROVE ParserOK' /\ TreeOK'
  OBVIOUS
<1> DEFINE node == Context(running.rule, running.children)
           callers == Front(stack)
           kinds == Kinds(running.children)
<1>1. /\ stack # <<>> /\ running.rest = <<>> /\ input' = input
      /\ callers = <<>> => stack' = <<>> /\ tree' = node
  BY Zenon DEF exitRule
<1>2. callers # <<>> =>
        stack' = Append(Front(callers), [Last(callers) EXCEPT !.children = Append(@, node)])
  BY Zenon DEF exitRule
<1>3. PICK S : StackOK(S, stack)
  BY <1>1, Zenon DEF ParserOK
<1>4. /\ AllGood(S) /\ Below(S, stack) /\ Last(stack) = running
      /\ stack \in Seq(Frames(S)) /\ running.rule \in DOMAIN Rules /\ kinds \in Seq(Called)
      /\ running.children \in Seq(S)
      /\ FormOK(running.rule, kinds \o running.rest)
  BY <1>3, RunningFacts, Zenon
<1>5. FormOK(running.rule, kinds)
  <2>1. kinds \o <<>> = kinds
    BY <1>4, ConcatEmptySeq
  <2> QED
    BY <1>1, <1>4, <2>1
<1>6. Good(node) /\ node.rule = running.rule
  BY <1>4, <1>5, ContextGood
<1> HIDE DEF node
<1>7. CASE callers = <<>>
  <2>1. Len(callers) = Len(stack) - 1 /\ Len(stack) \in Nat /\ running = stack[Len(stack)]
    BY <1>1, <1>4, FrontLastFacts
  <2>2. Len(stack) = 1
    BY <1>7, <2>1, SMT
  <2>3. running.rule = "xaccsrc"
    BY <1>4, <2>1, <2>2, Zenon DEF Below
  <2>4. tree'.walk \in Seq(Event) /\ WellNested(tree'.walk)
    BY <1>1, <1>6, <1>7, <2>3, Zenon DEF Good, WalkOK
  <2> QED
    BY <1>1, <1>7, <2>4, Zenon DEF ParserOK, TreeOK
<1>8. CASE callers # <<>>
  <2> DEFINE p == Last(callers)
             kids == p.children
             ch == Append(kids, node)
             g == [p EXCEPT !.children = ch]
             R == S \cup {node}
  <2>1. /\ Below(S, callers)
        /\ FormOK(p.rule, Kinds(p.children) \o (<<running.rule>> \o p.rest))
    BY <1>4, <1>8, BelowPopped
  <2>2. callers \in Seq(Frames(S)) /\ p \in Frames(S)
    <3>1. callers \in Seq(Frames(S))
      BY <2>1, Zenon DEF Below
    <3> QED
      BY <1>8, <3>1, FrontLastFacts
  <2>3. stack' = Append(Front(callers), g)
    BY <1>2, <1>8
  <2> HIDE DEF p, callers
  <2>4. p.rule \in DOMAIN Rules /\ p.rest \in Seq(Symbols) /\ kids \in Seq(S)
    BY <2>2, FrameFields, Zenon
  <2> HIDE DEF kids
  <2>5. WithChild(S, kids, node, p.rest)
    BY <1>4, <1>6, <2>4, ChildAdded
  <2>6. /\ AllGood(R) /\ S \subseteq R /\ ch \in Seq(R)
        /\ Kinds(ch) \o p.rest = Kinds(kids) \o (<<node.rule>> \o p.rest)
    BY <2>5 DEF WithChild
  <2> HIDE DEF ch, R
  <2>7. g \in Frames(R) /\ g.rule = p.rule /\ g.rest = p.rest /\ g.children = ch
    <3>1. Adopts(R, p, ch)
      BY <2>2, <2>6, ParentFacts
    <3> QED
      BY <3>1 DEF Adopts
  <2> HIDE DEF g
  <2>8. Below(R, stack') /\ Last(stack') = g
    <3>1. g.rule = Last(callers).rule
      BY <2>7 DEF p
    <3>2. Below(R, Append(Front(callers), g)) /\ Last(Append(Front(callers), g)) = g
      BY <2>1, <2>6, <2>7, <3>1, BelowReplaced
    <3> QED
      BY <2>3, <3>2
  <2>9. FormOK(g.rule, Kinds(g.children) \o g.rest)
    BY <1>6, <2>1, <2>6, <2>7 DEF kids
  <2>10. StackOK(R, stack')
    BY <2>8, <2>9, Zenon DEF StackOK, LastForm
  <2>11. stack' # <<>>
    BY <2>8, Zenon DEF Below
  <2> QED
    BY <1>1, <2>10, <2>11, Zenon DEF ParserOK, TreeOK
<1> QED
  BY <1>7, <1>8

-----------------------------------------------------------------------------
(* The compiler implements the listener *)

CompilerInv == status = "ready" => ParserOK /\ TreeOK

LEMMA TokensType ==
    ASSUME NEW text \in Texts
    PROVE  Tokens(text) \in Seq(Lexed)
<1> DEFINE Source == [type : TokenTypes \cup Skipped, text : Words]
           places == {i \in DOMAIN text : text[i].type \notin Skipped}
<1>1. text \in Seq(Source)
  BY SourcesAssumption, Zenon
<1>2. \A i \in DOMAIN text : text[i] \in Source
  BY <1>1, ElementIn, Zenon
<1>3. \A token \in Source :
        token.type \notin Skipped => token \in [type : TokenTypes, text : Words]
  BY SMT
<1> HIDE DEF Source
<1>4. \A i \in DOMAIN text : i \in places => text[i] \in Lexed
  BY <1>2, <1>3, SourcesAssumption, Zenon DEF Lexed
<1> HIDE DEF places
<1>5. ElementsAt(text, places) \in Seq(Lexed)
  BY <1>1, <1>4, ElementsType, Zenon
<1> QED
  BY <1>5 DEF Tokens, places

LEMMA CompilerStarts == Init => CompilerInv /\ ListenerInit
<1> SUFFICES ASSUME Init PROVE CompilerInv /\ ListenerInit
  OBVIOUS
<1>1. PICK text \in Texts : ParserInit(Tokens(text))
  BY Zenon DEF Init
<1> DEFINE alternative == xaccsrc[1]
           h == Frame("xaccsrc", alternative)
<1>2. input = Tokens(text) /\ stack = <<h>>
  BY <1>1, Zenon DEF ParserInit
<1>3. /\ "xaccsrc" \in DOMAIN Rules /\ alternative \in Seq(Symbols)
      /\ FormOK("xaccsrc", alternative)
  <2>1. /\ "xaccsrc" \in DOMAIN Rules /\ "xaccsrc" \in DOMAIN Grammar
        /\ Rules["xaccsrc"] = xaccsrc /\ Grammar["xaccsrc"] = xaccsrc
    BY TokenNamed, NeededRules, GrammarOf, Zenon
  <2>2. DOMAIN xaccsrc = {1}
    BY OneAlternative DEF xaccsrc
  <2>3. alternative \in Seq(Symbols)
    <3>1. Grammar["xaccsrc"][1] \in Seq(Symbols)
      BY <2>1, <2>2, GrammarType, Zenon
    <3> QED
      BY <2>1, <3>1
  <2>4. FormOK("xaccsrc", alternative)
    <3>1. FormOK("xaccsrc", Rules["xaccsrc"][1])
      BY <2>1, <2>2, FormStarts, Zenon
    <3> QED
      BY <2>1, <3>1
  <2> QED
    BY <2>1, <2>3, <2>4
<1> HIDE DEF alternative
<1>4. h \in Frames({}) /\ h.rule = "xaccsrc" /\ h.rest = alternative /\ h.children = <<>>
  <2>1. <<>> \in Seq({})
    BY EmptySeq, Zenon
  <2>2. ASSUME NEW rule \in DOMAIN Rules
        PROVE  /\ Frame(rule, alternative) \in Frames({}) /\ Frame(rule, alternative).rule = rule
               /\ Frame(rule, alternative).rest = alternative
               /\ Frame(rule, alternative).children = <<>>
    BY <1>3, <2>1, SMT DEF Frame, Frames
  <2> QED
    BY <1>3, <2>2
<1> HIDE DEF h
<1>5. stack \in Seq(Frames({})) /\ stack # <<>> /\ Len(stack) = 1 /\ stack[1] = h
  <2>1. \A T : \A x \in T : <<x>> \in Seq(T) /\ <<x>> # <<>> /\ Len(<<x>>) = 1 /\ <<x>>[1] = x
    BY SMT
  <2> QED
    BY <1>2, <1>4, <2>1
<1>6. Last(stack) = h /\ 1..(Len(stack) - 1) = {}
  <2>1. 1..(1 - 1) = {}
    BY SMT
  <2> QED
    BY <1>5, <2>1, Zenon DEF Last
<1>7. Below({}, stack)
  BY <1>4, <1>5, <1>6, Zenon DEF Below, AllGood
<1>8. FormOK(h.rule, Kinds(h.children) \o h.rest)
  <2>1. Kinds(<<>>) = <<>>
    BY SMT DEF Kinds
  <2>2. <<>> \o alternative = alternative
    BY <1>3, Concat0
  <2> QED
    BY <1>3, <1>4, <2>1, <2>2
<1>9. StackOK({}, stack)
  BY <1>6, <1>7, <1>8, Zenon DEF StackOK, LastForm
<1>10. input \in Seq(Lexed)
  BY <1>2, TokensType
<1> QED
  BY <1>5, <1>9, <1>10, Zenon DEF Init, CompilerInv, ParserOK, TreeOK

LEMMA ParseStep == CompilerInv /\ Parse => CompilerInv' /\ UNCHANGED listenerVars
<1> SUFFICES ASSUME CompilerInv, Parse PROVE CompilerInv' /\ UNCHANGED listenerVars
  OBVIOUS
<1>1. status = "ready" /\ ParserNext /\ UNCHANGED listenerVars
  BY Zenon DEF Parse
<1>2. ParserOK
  BY <1>1, Zenon DEF CompilerInv
<1>3. ParserOK' /\ TreeOK'
  <2>1. CASE match
    BY <1>2, <2>1, MatchKeeps, Zenon DEF TreeOK
  <2>2. CASE branch
    BY <1>2, <2>2, BranchKeeps, Zenon DEF TreeOK
  <2>3. CASE enterRule
    BY <1>2, <2>3, EnterKeeps, Zenon DEF TreeOK
  <2>4. CASE exitRule
    BY <1>2, <2>4, ExitKeeps, Zenon
  <2> QED
    BY <1>1, <2>1, <2>2, <2>3, <2>4, Zenon DEF ParserNext
<1> QED
  BY <1>1, <1>3, Zenon DEF CompilerInv

LEMMA RefuseStep == RefuseSource => CompilerInv' /\ NoTree
<1> SUFFICES ASSUME RefuseSource PROVE CompilerInv' /\ NoTree
  OBVIOUS
<1>1. NoTree /\ status' = "exited"
  BY Zenon DEF RefuseSource, NoTree, Left
<1> QED
  BY <1>1, Zenon DEF CompilerInv

LEMMA WalkTreeStep == CompilerInv /\ WalkTree => CompilerInv' /\ Walk
<1> SUFFICES ASSUME CompilerInv, WalkTree PROVE CompilerInv' /\ Walk
  OBVIOUS
<1>1. /\ status = "ready" /\ stack = <<>> /\ status' = "walking" /\ walk' = tree.walk
      /\ UNCHANGED <<kernels, functions, curFunc, ir>>
  BY Zenon DEF WalkTree
<1>2. tree.walk \in Seq(Event) /\ WellNested(tree.walk)
  BY <1>1, Zenon DEF CompilerInv, TreeOK
<1>3. Walk
  BY <1>1, <1>2, Zenon DEF Walk
<1> QED
  BY <1>1, <1>3, Zenon DEF CompilerInv

LEMMA NotBack == Listen \/ Return => status' # "ready"
<1> SUFFICES ASSUME Listen \/ Return PROVE status' # "ready"
  OBVIOUS
<1>1. \A ints : Fault(ints) = "crashed" \/ Fault(ints) = "thrown"
  BY Zenon DEF Fault
<1>2. \A how : Left(how) => status' = how
  BY Zenon DEF Left
<1>3. \A i : addInstruction(i) => status' = status
  BY Zenon DEF addInstruction
<1>4. \A callback : On(callback) => status = "walking"
  BY Zenon DEF On
<1> HIDE DEF Fault, Left, addInstruction, On
<1>5. CASE enterXacckernel
  BY <1>4, <1>5, Zenon DEF enterXacckernel
<1>6. CASE exitXacckernel
  BY <1>4, <1>6, Zenon DEF exitXacckernel
<1>7. CASE exitKernelcall
  BY <1>2, <1>3, <1>4, <1>7, Zenon DEF exitKernelcall
<1>8. CASE exitU
  BY <1>1, <1>2, <1>3, <1>4, <1>8, Zenon DEF exitU
<1>9. CASE exitCX
  BY <1>1, <1>2, <1>3, <1>4, <1>9, Zenon DEF exitCX
<1>10. CASE exitUserDefGate
  BY <1>1, <1>2, <1>3, <1>4, <1>10, Zenon DEF exitUserDefGate
<1>11. CASE exitMeasure
  BY <1>1, <1>2, <1>3, <1>4, <1>11, Zenon DEF exitMeasure
<1>12. CASE Return
  BY <1>2, <1>12, Zenon DEF Return
<1> QED
  BY <1>5, <1>6, <1>7, <1>8, <1>9, <1>10, <1>11, <1>12, Zenon DEF Listen

LEMMA CompilerKeeps ==
    CompilerInv /\ [Next]_compilerVars => CompilerInv' /\ [ListenerNext]_listenerVars
<1> SUFFICES ASSUME CompilerInv, [Next]_compilerVars
             PROVE  CompilerInv' /\ [ListenerNext]_listenerVars
  OBVIOUS
<1>1. CASE Parse
  BY <1>1, ParseStep, Zenon
<1>2. CASE RefuseSource
  BY <1>2, RefuseStep, Zenon DEF ListenerNext
<1>3. CASE WalkTree
  BY <1>3, WalkTreeStep, Zenon DEF ListenerNext
<1>4. CASE TakeCallback
  <2>1. Listen \/ Return
    BY <1>4, Zenon DEF TakeCallback
  <2> QED
    BY <2>1, NotBack, Zenon DEF CompilerInv, ListenerNext
<1>5. CASE UNCHANGED compilerVars
  <2>1. UNCHANGED <<input, stack, tree, status>> /\ UNCHANGED listenerVars
    BY <1>5, Zenon DEF compilerVars, listenerVars
  <2> QED
    BY <2>1, Zenon DEF CompilerInv, ParserOK, TreeOK
<1> QED
  BY <1>1, <1>2, <1>3, <1>4, <1>5, Zenon DEF Next

(* Of every source the parser hands the listener at most one tree, complete, and *)
(* the walk of it is well nested: what compile does to the IR is what the        *)
(* listener may do (OQASMCompiler::compile, :58-73).                             *)
THEOREM CompilerImplementsListener == Spec => ListenerSpec
BY CompilerStarts, CompilerKeeps, PTL DEF Spec, ListenerSpec

(* So every value the callbacks make is of its kind, whatever the source: a gate *)
(* has the parameters its class has (exitUserDefGate, :130).                     *)
THEOREM CompilerTypeCorrect == Spec => []TypeOK
BY CompilerImplementsListener, ListenerTypeCorrect, PTL

(* No source makes a call that goes forward, or to a later kernel of the name *)
(* (enterXacckernel, :76, and exitKernelcall, :93).                           *)
THEOREM CompilerCallsGoBack == Spec => []CallsGoBack
BY CompilerImplementsListener, ListenerCallsGoBack, PTL

(* The IR compile returns has every kernel of the tree, once and in order *)
(* (exitXacckernel, :88, and compile, :72).                               *)
THEOREM CompilerIRInOrder == Spec => []IRInOrder
BY CompilerImplementsListener, ListenerIRInOrder, PTL

-----------------------------------------------------------------------------
(* The tokens in the contexts made so far *)

Yield(children) == FlattenSeq([i \in DOMAIN children |-> children[i].text])
YieldOf(st) == FlattenSeq([i \in DOMAIN st |-> Yield(st[i].children)])

LEMMA YieldIs ==
    ASSUME NEW S, AllGood(S), NEW ch \in Seq(S), NEW node \in S
    PROVE  /\ Yield(ch) \in Seq(Words) /\ Yield(<<>>) = <<>>
           /\ Yield(Append(ch, node)) = Yield(ch) \o node.text
<1> DEFINE f == [n \in S |-> n.text]
           T == Seq(Words)
<1>1. \A n \in S : n.text \in T
  BY Zenon DEF AllGood, Good
<1>2. f \in [S -> T] /\ \A n \in S : f[n] = n.text
  BY <1>1
<1> HIDE DEF f
<1>3. ASSUME NEW s \in Seq(S) PROVE Yield(s) = MapFlat(f, s)
  <2> DEFINE x == [i \in DOMAIN s |-> s[i].text]
             y == [i \in DOMAIN s |-> f[s[i]]]
  <2>1. \A i \in DOMAIN s : s[i] \in S
    BY ElementIn, Zenon
  <2>2. x = y
    BY <1>2, <2>1, Zenon
  <2> QED
    BY <2>2 DEF Yield, MapFlat
<1>4. f \in [S -> Seq(Words)]
  BY <1>2 DEF T
<1>5. Extends(f, ch, node)
  BY <1>4, MapFlatExtends
<1>6. MapFlat(f, ch) \in Seq(Words)
  BY <1>4, MapFlatType
<1>7. Append(ch, node) \in Seq(S) /\ <<>> \in Seq(S)
  BY AppendProperties, EmptySeq, Zenon
<1>8. MapFlat(f, <<>>) = <<>>
  BY MapFlatEmpty
<1> QED
  BY <1>2, <1>3, <1>5, <1>6, <1>7, <1>8, Zenon DEF Extends

YieldAppended(st, f) == YieldOf(Append(st, f)) = YieldOf(st) \o Yield(f.children)

LEMMA YieldGrows ==
    ASSUME NEW S, AllGood(S), NEW st \in Seq(Frames(S)), NEW f \in Frames(S)
    PROVE  /\ YieldAppended(st, f) /\ YieldOf(st) \in Seq(Words)
           /\ Yield(f.children) \in Seq(Words)
<1> DEFINE D == Frames(S)
           g == [n \in D |-> Yield(n.children)]
           T == Seq(Words)
<1>1. \A n \in D : Yield(n.children) \in T
  <2> TAKE n \in D
  <2>1. n.children \in Seq(S)
    BY FrameFields, Zenon
  <2> DEFINE ch == n.children
  <2>2. FlattenSeq([i \in DOMAIN ch |-> ch[i].text]) \in Seq(Words)
    <3>1. \A m \in S : m.text \in Seq(Words)
      BY Zenon DEF AllGood, Good
    <3>2. ch \in Seq(S)
      BY <2>1
    <3> HIDE DEF ch
    <3> QED
      BY <3>1, <3>2, TextsJoined
  <2> QED
    BY <2>2 DEF Yield
<1>2. g \in [D -> T] /\ \A n \in D : g[n] = Yield(n.children)
  BY <1>1
<1> HIDE DEF g
<1>3. ASSUME NEW s \in Seq(D) PROVE YieldOf(s) = MapFlat(g, s)
  <2> DEFINE x == [i \in DOMAIN s |-> Yield(s[i].children)]
             y == [i \in DOMAIN s |-> g[s[i]]]
  <2>1. \A i \in DOMAIN s : s[i] \in D
    <3> HIDE DEF D
    <3> QED
      BY ElementIn, Zenon
  <2> HIDE DEF D
  <2>2. x = y
    BY <1>2, <2>1, Zenon
  <2> QED
    BY <2>2 DEF YieldOf, MapFlat
<1>4. g \in [D -> Seq(Words)] /\ st \in Seq(D) /\ f \in D
  BY <1>2 DEF T
<1>5. Yield(f.children) \in Seq(Words)
  BY <1>1
<1> HIDE DEF D
<1>6. Extends(g, st, f)
  BY <1>4, MapFlatExtends
<1>7. MapFlat(g, st) \in Seq(Words)
  BY <1>4, MapFlatType
<1>8. Append(st, f) \in Seq(D)
  BY <1>4, AppendProperties, Zenon
<1> QED
  BY <1>2, <1>3, <1>4, <1>5, <1>6, <1>7, <1>8, Zenon DEF Extends, YieldAppended

LEMMA FrontThenLast ==
    ASSUME NEW T, NEW s \in Seq(T), s # <<>>
    PROVE  s = Append(Front(s), Last(s)) /\ Front(s) \in Seq(T) /\ Last(s) \in T
<1> DEFINE g == Last(s)
           r == Append(Front(s), g)
<1>1. g = s[Len(s)] /\ g \in T /\ Front(s) \in Seq(T) /\ Len(s) \in Nat
  BY FrontLastFacts
<1> HIDE DEF g
<1>2. r \in Seq(T) /\ IsReplaced(s, g, r)
  BY <1>1, LastReplaced
<1> HIDE DEF r
<1>3. Len(r) = Len(s) /\ \A i \in 1..Len(s) : r[i] = s[i]
  <2>1. \A i \in 1..Len(s) : i \in 1..(Len(s) - 1) \/ i = Len(s)
    BY <1>1, SMT
  <2> QED
    BY <1>1, <1>2, <2>1, Zenon DEF IsReplaced
<1>4. r = s
  BY <1>2, <1>3, SeqEqual
<1> QED
  BY <1>1, <1>4 DEF r, g

LEMMA TextsOn ==
    ASSUME NEW tokens \in Seq(Lexed), tokens # <<>>
    PROVE  TextsIn(tokens) = <<Head(tokens).text>> \o TextsIn(Tail(tokens))
<1> DEFINE h == Head(tokens)
           t == Tail(tokens)
           x == TextsIn(tokens)
           y == TextsIn(t)
           e == <<h.text>>
           z == e \o y
<1>1. /\ t \in Seq(Lexed) /\ Len(t) = Len(tokens) - 1 /\ h = tokens[1]
      /\ \A i \in 1..Len(t) : t[i] = tokens[i + 1]
      /\ Len(tokens) \in Nat /\ Len(tokens) >= 1
  BY SMT
<1>2. \A i \in 1..Len(tokens) : tokens[i].text \in Words
  BY SMT DEF Lexed
<1>3. x = [i \in 1..Len(tokens) |-> tokens[i].text] /\ DOMAIN t = 1..Len(t)
  BY <1>1, SMT DEF TextsIn
<1>4. y = [i \in 1..Len(t) |-> t[i].text]
  BY <1>3 DEF TextsIn
<1>5. \A i \in 1..Len(t) : t[i].text \in Words
  BY <1>1, <1>2, SMT
<1>6. x \in Seq(Words) /\ Len(x) = Len(tokens) /\ \A i \in 1..Len(tokens) : x[i] = tokens[i].text
  BY <1>1, <1>2, <1>3, SMT
<1>7. y \in Seq(Words) /\ Len(y) = Len(t) /\ \A i \in 1..Len(t) : y[i] = t[i].text
  <2> HIDE DEF t
  <2> QED
    BY <1>1, <1>4, <1>5, SMT
<1>8. e \in Seq(Words) /\ Len(e) = 1 /\ e[1] = h.text
  BY <1>1, <1>2, SMT
<1> HIDE DEF x, y, e, h, t
<1>9. /\ z \in Seq(Words) /\ Len(z) = Len(e) + Len(y)
      /\ \A i \in 1..(Len(e) + Len(y)) : z[i] = IF i <= Len(e) THEN e[i] ELSE y[i - Len(e)]
  <2>1. e \in Seq(Words) /\ y \in Seq(Words)
    BY <1>7, <1>8
  <2> QED
    BY <2>1, ConcatProperties
<1> HIDE DEF z
<1>10. Len(z) = Len(x) /\ \A i \in 1..Len(x) : z[i] = x[i]
  <2>1. Len(z) = Len(x)
    BY <1>1, <1>6, <1>7, <1>8, <1>9, SMT
  <2>2. ASSUME NEW i \in 1..Len(x) PROVE z[i] = x[i]
    <3>1. CASE i = 1
      BY <1>1, <1>6, <1>8, <1>9, <2>1, <3>1, SMT
    <3>2. CASE i # 1
      <4>1. i - 1 \in 1..Len(t) /\ ~ (i <= 1) /\ i \in 1..Len(tokens) /\ (i - 1) + 1 = i
        BY <1>1, <1>6, <2>2, <3>2, SMT
      <4>2. z[i] = y[i - 1]
        BY <1>8, <1>9, <2>1, <2>2, <4>1, SMT
      <4>3. y[i - 1] = t[i - 1].text /\ t[i - 1] = tokens[(i - 1) + 1]
        BY <1>1, <1>7, <4>1, Zenon
      <4> QED
        BY <1>6, <4>1, <4>2, <4>3
    <3> QED
      BY <3>1, <3>2
  <2> QED
    BY <2>1, <2>2
<1>11. z = x
  BY <1>6, <1>9, <1>10, SeqEqual
<1> QED
  BY <1>11 DEF x, z, y, e, h, t

-----------------------------------------------------------------------------
(* One token tells whether another kernel begins *)

LEMMA KernelSymbols ==
    /\ "xacckernel" \in Symbols /\ "xacckernel*" \in Symbols
    /\ <<"xacckernel">> \o <<"xacckernel*">> = <<"xacckernel", "xacckernel*">>
<1> DEFINE a == "xacckernel"
           b == "xacckernel*"
<1>1. <<a, b>> \in Seq(Symbols)
  <2>1. Grammar[b] = << <<a, b>>, <<>> >> /\ b \in DOMAIN Grammar
    BY KernelGrammar
  <2> HIDE DEF a, b
  <2>2. 1 \in DOMAIN Grammar[b] /\ Grammar[b][1] = <<a, b>>
    BY <2>1, TwoAlternatives, SMT
  <2> QED
    BY <2>1, <2>2, GrammarType, Zenon
<1> HIDE DEF a, b
<1>2. a \in Symbols /\ b \in Symbols
  BY <1>1, SMT
<1>3. <<a>> \in Seq(Symbols)
  BY <1>2, SMT
<1>4. Append(<<a>>, b) = <<a>> \o <<b>>
  BY <1>2, <1>3, AppendIsConcat, Zenon
<1>5. Append(<<a>>, b) = <<a, b>>
  BY Append1
<1> QED
  BY <1>2, <1>4, <1>5 DEF a, b

LEMMA KernelFirst ==
    /\ DOMAIN Grammar["xacckernel"] = {1} /\ "xacckernel" \in DOMAIN Grammar
    /\ Grammar["xacckernel"][1] \in Seq(Symbols) /\ Grammar["xacckernel"][1] # <<>>
    /\ Head(Grammar["xacckernel"][1]) = "'__qpu__'"
    /\ "'__qpu__'" \notin DOMAIN Grammar
<1>1. "xacckernel" \in DOMAIN Grammar /\ Grammar["xacckernel"] = xacckernel
  BY TokenNamed, NeededRules, GrammarOf, Zenon
<1>2. DOMAIN xacckernel = {1} /\ xacckernel[1] # <<>> /\ Head(xacckernel[1]) = "'__qpu__'"
  BY OneAlternative, SMT DEF xacckernel
<1>3. xacckernel[1] \in Seq(Symbols)
  BY <1>1, <1>2, GrammarType, Zenon
<1>4. "'__qpu__'" \notin DOMAIN Rules
  BY RuleNamed, Zenon DEF RuleNames
<1>5. "'__qpu__'" \notin DOMAIN Branches /\ "'__qpu__'" \notin DOMAIN AdaptiveBranches
  BY Zenon DEF Branches, AdaptiveBranches
<1> QED
  BY <1>1, <1>2, <1>3, <1>4, <1>5, GrammarOf, Zenon

LEMMA Predicted1 ==
    ASSUME NEW tokens, NEW f, Predicts(f, tokens, 1), NEW s \in Seq(Symbols)
    PROVE  f[<<s, 1>>]
<1> DEFINE k == 1
           p == <<s, k>>
<1>1. k \in 0..k /\ k \in Nat
  BY SMT
<1>2. Predicts(f, tokens, k)
  OBVIOUS
<1> HIDE DEF k
<1>3. p \in Positions(k) /\ p[2] = k
  BY <1>1, SMT DEF Positions
<1> HIDE DEF p
<1>4. f[p] = ViableStep(f, p, tokens, k)
  BY <1>2, <1>3, Zenon DEF Predicts
<1>5. ViableStep(f, p, tokens, k)
  BY <1>3, Zenon DEF ViableStep
<1> QED
  BY <1>4, <1>5, Zenon DEF p, k

LEMMA KernelBegins ==
    ASSUME NEW tokens \in Seq(Lexed), tokens # <<>>, Head(tokens).type = "'__qpu__'"
    PROVE  Viable(<<"xacckernel", "xacckernel*">>, tokens, 1)
<1> DEFINE h == "xacckernel"
           s == <<"xacckernel*">>
           q == "'__qpu__'"
           alt == Grammar[h][1]
           t == Tail(alt)
           r == t \o s
<1>1. PICK f : /\ Predicts(f, tokens, 1)
               /\ \A x : Viable(x, tokens, 1) = f[<<x, 0>>]
  <2>1. 1 \in Nat
    OBVIOUS
  <2> QED
    BY <2>1, ViableIs
<1>2. /\ h \in Symbols /\ s \in Seq(Symbols) /\ <<h>> \o s = <<"xacckernel", "xacckernel*">>
  BY KernelSymbols, SMT
<1>3. /\ DOMAIN Grammar[h] = {1} /\ h \in DOMAIN Grammar /\ alt \in Seq(Symbols)
      /\ alt # <<>> /\ Head(alt) = q /\ q \notin DOMAIN Grammar
  BY KernelFirst
<1> HIDE DEF h, s, q, alt
<1>4. q \in Symbols /\ t \in Seq(Symbols) /\ alt = <<q>> \o t
  BY <1>3, HeadThen
<1> HIDE DEF t
<1>5. alt \o s = <<q>> \o r /\ r \in Seq(Symbols)
  <2>1. Associate(<<q>>, t, s)
    <3>1. <<q>> \in Seq(Symbols)
      BY <1>4, SMT
    <3> QED
      BY <1>2, <1>4, <3>1, Associates, Zenon
  <2>2. r \in Seq(Symbols)
    BY <1>2, <1>4, ConcatProperties, Zenon
  <2> QED
    BY <1>4, <2>1, <2>2 DEF Associate
<1> HIDE DEF r
<1>6. f[<<r, 1>>]
  BY <1>1, <1>5, Predicted1
<1>7. 0 \in 0..1 /\ 1 \in Nat /\ 0 # 1 /\ 0 + 1 = 1
  BY SMT
<1>8. 0 < Len(tokens) /\ tokens[0 + 1].type = q
  BY SMT DEF q
<1>9. f[<<<<q>> \o r, 0>>]
  <2> DEFINE k == 1
             n == 0
  <2>1. /\ k \in Nat /\ n \in 0..k /\ Predicts(f, tokens, k) /\ f[<<r, n + 1>>]
        /\ n < Len(tokens) /\ tokens[n + 1].type = q
    BY <1>1, <1>6, <1>7, <1>8
  <2> HIDE DEF k, n
  <2>2. f[<<<<q>> \o r, n>>] <=>
            n = k \/ (n < Len(tokens) /\ tokens[n + 1].type = q /\ f[<<r, n + 1>>])
    BY <1>3, <1>4, <1>5, <2>1, UnfoldedToken
  <2> QED
    BY <2>1, <2>2, Zenon DEF n
<1>10. f[<<<<h>> \o s, 0>>]
  <2>1. f[<<<<h>> \o s, 0>>] <=>
            0 = 1 \/ \E i \in DOMAIN Grammar[h] : f[<<Grammar[h][i] \o s, 0>>]
    BY <1>1, <1>2, <1>3, <1>7, UnfoldedRule
  <2>2. f[<<Grammar[h][1] \o s, 0>>]
    BY <1>5, <1>9 DEF alt
  <2> QED
    BY <1>3, <2>1, <2>2, Zenon
<1> QED
  BY <1>1, <1>2, <1>10

NoKernelNext == input = <<>> \/ Head(input).type # "'__qpu__'"

(* The loop of xaccsrc ends only where no kernel begins *)
LEMMA LoopTaken ==
    ASSUME input \in Seq(Lexed), Candidates("xacckernel*") # {},
           NEW todo, todo = Grammar["xacckernel*"][Min(Candidates("xacckernel*"))]
    PROVE  todo = <<"xacckernel", "xacckernel*">> \/ (todo = <<>> /\ NoKernelNext)
<1> DEFINE b == "xacckernel*"
           more == <<"xacckernel", b>>
           C == Candidates(b)
           alternatives == Grammar[b]
<1>1. alternatives = <<more, <<>>>> /\ b \in DOMAIN Grammar
  BY KernelGrammar
<1>2. b \notin Adaptive
  <2>1. b \in DOMAIN Branches
    BY Zenon DEF Branches
  <2>2. b \notin DOMAIN AdaptiveBranches
    BY <2>1, Unnamed, Zenon
  <2>3. b \notin {"statement", "qregister", "cregister", "gatename", "gatearg", "opaquename"}
    BY Zenon
  <2> QED
    BY <2>2, <2>3, Zenon DEF Adaptive
<1>3. ~ NoKernelNext => Viable(more, input, 1)
  BY KernelBegins, Zenon DEF NoKernelNext
<1>4. C # {} /\ todo = alternatives[Min(C)]
  OBVIOUS
<1>5. C = {i \in DOMAIN alternatives :
            \/ Len(alternatives) = 1
            \/ IF b \in Adaptive
               THEN \E symbols \in {alternatives[i] \o Continuation} :
                        Viable(symbols, input, Lookahead)
               ELSE Viable(alternatives[i], input, 1)}
  BY Zenon DEF Candidates
<1>6. Min(C) \in DOMAIN alternatives
  BY <1>1, <1>4, CandidateTaken, Zenon
<1> HIDE DEF more, b, C
<1>7. DOMAIN alternatives = {1, 2} /\ alternatives[1] = more /\ alternatives[2] = <<>>
  <2> HIDE DEF alternatives
  <2> QED
    BY <1>1, TwoAlternatives, SMT
<1> HIDE DEF alternatives
<1>8. ~ NoKernelNext => 1 \in C
  BY <1>2, <1>3, <1>5, <1>7, Zenon
<1>9. C \subseteq {1, 2}
  BY <1>5, <1>7, Zenon
<1>10. 1 \in C => Min(C) = 1
  <2> SUFFICES ASSUME 1 \in C PROVE Min(C) = 1
    OBVIOUS
  <2>1. C \subseteq Nat
    BY <1>9, SMT
  <2>2. Min(C) \in C /\ Min(C) <= 1
    BY <2>1, LeastIs, Zenon
  <2>3. Min(C) \in {1, 2}
    BY <1>9, <2>2, Zenon
  <2> QED
    BY <2>2, <2>3, SMT
<1>11. Min(C) = 1 \/ Min(C) = 2
  BY <1>6, <1>7, Zenon
<1>12. CASE Min(C) = 1
  BY <1>4, <1>7, <1>12, Zenon DEF more, b
<1>13. CASE Min(C) # 1
  BY <1>4, <1>7, <1>8, <1>10, <1>11, <1>13, Zenon
<1> QED
  BY <1>12, <1>13

-----------------------------------------------------------------------------
(* What a step of the parser makes of what is read *)

(* What is read so far is in the contexts of the calls, and xaccsrc is in its *)
(* loop, or past it where no kernel begins.                                   *)
Reading ==
    /\ YieldOf(stack) \o TextsIn(input) = TextsIn(stream)
    /\ \/ stack[1].rest \in {<<"xacckernel*">>, <<"xacckernel", "xacckernel*">>}
       \/ stack[1].rest = <<>> /\ Len(stack) = 1 /\ NoKernelNext
WholeTree == tree.text \o TextsIn(input) = TextsIn(stream) /\ NoKernelNext

Regroups(r, s, e, t) == (r \o (s \o e)) \o t = (r \o s) \o (e \o t)

LEMMA FourJoined ==
    ASSUME NEW T, NEW r \in Seq(T), NEW s \in Seq(T), NEW e \in Seq(T), NEW t \in Seq(T)
    PROVE  Regroups(r, s, e, t)
<1> DEFINE rs == r \o s
<1>1. rs \in Seq(T)
  BY ConcatProperties, Zenon
<1>2. Associate(r, s, e)
  BY Associates, Zenon
<1> HIDE DEF rs
<1>3. Associate(rs, e, t)
  BY <1>1, Associates, Zenon
<1> QED
  BY <1>2, <1>3, Zenon DEF Associate, Regroups, rs

LEMMA TextsType ==
    ASSUME NEW tokens \in Seq(Lexed)
    PROVE  TextsIn(tokens) \in Seq(Words)
<1>1. \A i \in DOMAIN tokens : tokens[i] \in Lexed
  BY ElementIn, Zenon
<1>2. \A token \in Lexed : token.text \in Words
  BY SMT DEF Lexed
<1> DEFINE x == [i \in DOMAIN tokens |-> tokens[i].text]
<1>3. x = [i \in DOMAIN tokens |-> x[i]] /\ \A i \in DOMAIN tokens : x[i] \in Words
  BY <1>1, <1>2, Zenon
<1> HIDE DEF x
<1>4. x \in Seq(Words)
  BY <1>3, ImageIsSeq, Zenon
<1> QED
  BY <1>4 DEF x, TextsIn

(* The first call, when the last one changes *)
FirstIs(st, g) ==
    /\ Len(Append(Front(st), g)) = Len(st)
    /\ Append(Front(st), g)[1] = IF Len(st) = 1 THEN g ELSE st[1]

LEMMA FirstReplaced ==
    ASSUME NEW T, NEW st \in Seq(T), st # <<>>, NEW g \in T
    PROVE  FirstIs(st, g)
<1> DEFINE r == Append(Front(st), g)
<1>1. IsReplaced(st, g, r)
  BY LastReplaced
<1> HIDE DEF r
<1>2. Len(st) \in Nat /\ Len(st) >= 1
  BY SMT
<1>3. CASE Len(st) = 1
  BY <1>1, <1>3, Zenon DEF IsReplaced, FirstIs, r
<1>4. CASE Len(st) # 1
  <2>1. 1 \in 1..(Len(st) - 1)
    <3> DEFINE n == Len(st)
    <3>1. n \in Nat /\ n >= 1 /\ n # 1
      BY <1>2, <1>4
    <3> HIDE DEF n
    <3>2. 1 \in 1..(n - 1)
      BY <3>1, SMT
    <3> QED
      BY <3>2 DEF n
  <2> QED
    BY <1>1, <1>4, <2>1, Zenon DEF IsReplaced, FirstIs, r
<1> QED
  BY <1>3, <1>4

(* The calls as those below the running one, and it *)
LEMMA StackYields ==
    ASSUME NEW S, AllGood(S), NEW st \in Seq(Frames(S)), st # <<>>
    PROVE  /\ YieldOf(st) = YieldOf(Front(st)) \o Yield(Last(st).children)
           /\ YieldOf(Front(st)) \in Seq(Words) /\ Yield(Last(st).children) \in Seq(Words)
           /\ Front(st) \in Seq(Frames(S))
           /\ Len(st) = 1 => Last(st) = st[1]
<1>1. st = Append(Front(st), Last(st)) /\ Front(st) \in Seq(Frames(S)) /\ Last(st) \in Frames(S)
  BY FrontThenLast
<1> DEFINE f == Front(st)
           g == Last(st)
<1>2. f \in Seq(Frames(S)) /\ g \in Frames(S) /\ st = Append(f, g)
  BY <1>1
<1>3. Last(st) = st[Len(st)]
  BY FrontLastFacts
<1> HIDE DEF f, g
<1>4. YieldAppended(f, g) /\ YieldOf(f) \in Seq(Words) /\ Yield(g.children) \in Seq(Words)
  BY <1>2, YieldGrows
<1> QED
  BY <1>2, <1>3, <1>4 DEF YieldAppended, f, g

LEMMA MatchReads == ParserOK /\ Reading /\ match => Reading'
<1> SUFFICES ASSUME ParserOK, Reading, match PROVE Reading'
  OBVIOUS
<1> DEFINE token == Head(input)
           node == Token(token)
           kids == running.children
           ch == Append(kids, node)
           f == GoneOn(<<>>)
           g == [f EXCEPT !.children = ch]
           front == Front(stack)
<1>1. /\ stack # <<>> /\ running.rest # <<>> /\ input # <<>>
      /\ Head(running.rest) = token.type
      /\ input' = Tail(input) /\ stream' = stream
  BY Zenon DEF match
<1>2. stack' = Append(front, [f EXCEPT !.children = Append(@, node)])
  BY Zenon DEF match
<1>3. PICK S : StackOK(S, stack)
  BY <1>1, Zenon DEF ParserOK
<1>4. input \in Seq(Lexed) /\ token \in Lexed /\ Tail(input) \in Seq(Lexed)
  <2>1. input \in Seq(Lexed)
    BY <1>1, Zenon DEF ParserOK
  <2> QED
    BY <1>1, <2>1, HeadTailProperties, Zenon
<1>5. /\ AllGood(S) /\ stack \in Seq(Frames(S)) /\ Last(stack) = running /\ running \in Frames(S)
      /\ kids \in Seq(S) /\ <<>> \in Seq(Symbols)
  BY <1>3, RunningFacts, EmptySeq, Zenon
<1>6. f \in Frames(S) /\ f.children = kids
  BY <1>1, <1>5, GoneFacts, Zenon
<1>7. g.children = ch /\ stack' = Append(front, g)
  <2> HIDE DEF f, kids, node
  <2>1. f.children = kids
    BY <1>6
  <2>2. g.children = ch
    BY <1>6, SMT DEF Frames
  <2> QED
    BY <1>2, <2>1, <2>2
<1>8. Good(node) /\ node.text = <<token.text>> /\ token.type \in TokenTypes
  BY <1>4, TokenGood, SMT DEF Lexed, Token
<1>9. Len(stack) # 1
  <2> SUFFICES ASSUME Len(stack) = 1 PROVE FALSE
    OBVIOUS
  <2>1. running = stack[1]
    BY <1>1, <1>5, StackYields
  <2>2. Head(running.rest) \in {"xacckernel*", "xacckernel"}
    <3>1. \A a, b : Head(<<a>>) = a /\ Head(<<a, b>>) = a
      BY SMT
    <3> QED
      BY <1>1, <2>1, <3>1, Zenon DEF Reading
  <2>3. "xacckernel*" \in DOMAIN Grammar /\ "xacckernel" \in DOMAIN Rules
    BY KernelGrammar, TokenNamed, Zenon
  <2> QED
    BY <1>1, <1>8, <2>2, <2>3, TokenNamed, Zenon
<1> HIDE DEF token, node, f
<1> DEFINE R == S \cup {node}
<1>10. AllGood(R) /\ S \subseteq R /\ node \in R
  BY <1>5, <1>8, Zenon DEF AllGood
<1>11. kids \in Seq(R) /\ stack \in Seq(Frames(R))
  <2>1. \A A, B : A \subseteq B => Seq(A) \subseteq Seq(B)
    BY SMT
  <2> QED
    BY <1>5, <1>10, <2>1, FramesGrow, Zenon
<1> HIDE DEF R, kids
<1>12. Yield(ch) = Yield(kids) \o node.text /\ ch \in Seq(R)
  BY <1>10, <1>11, YieldIs, AppendProperties
<1> HIDE DEF ch
<1>13. g \in Frames(R)
  <2>1. Adopts(R, f, ch)
    BY <1>6, <1>10, <1>12, ParentFacts
  <2> QED
    BY <2>1 DEF Adopts
<1> HIDE DEF g
<1>14. /\ YieldOf(stack) = YieldOf(front) \o Yield(kids)
       /\ YieldOf(front) \in Seq(Words) /\ Yield(kids) \in Seq(Words)
       /\ front \in Seq(Frames(R))
  BY <1>1, <1>5, <1>10, <1>11, StackYields DEF kids
<1>15. FirstIs(stack, g)
  BY <1>1, <1>11, <1>13, FirstReplaced
<1> HIDE DEF front
<1>16. YieldOf(stack') = YieldOf(front) \o (Yield(kids) \o node.text)
  <2>1. YieldAppended(front, g)
    BY <1>10, <1>13, <1>14, YieldGrows
  <2> QED
    BY <1>7, <1>12, <2>1 DEF YieldAppended
<1>17. TextsIn(input) = node.text \o TextsIn(input')
  BY <1>1, <1>4, <1>8, TextsOn DEF token
<1>18. YieldOf(stack') \o TextsIn(input') = YieldOf(stack) \o TextsIn(input)
  <2>1. TextsIn(input') \in Seq(Words) /\ node.text \in Seq(Words)
    BY <1>1, <1>4, <1>8, TextsType, Zenon DEF Good
  <2> QED
    <3> DEFINE y == YieldOf(front)
               k == Yield(kids)
               e == node.text
               t == TextsIn(input')
    <3>1. y \in Seq(Words) /\ k \in Seq(Words) /\ e \in Seq(Words) /\ t \in Seq(Words)
      BY <1>14, <2>1
    <3> HIDE DEF y, k, e, t
    <3>2. Regroups(y, k, e, t)
      BY <3>1, FourJoined
    <3> QED
      BY <1>14, <1>16, <1>17, <3>2 DEF Regroups, y, k, e, t
<1>19. stack'[1] = stack[1]
  BY <1>7, <1>9, <1>15 DEF FirstIs, front
<1>20. (YieldOf(stack) \o TextsIn(input))' = YieldOf(stack') \o TextsIn(input')
  BY DEF YieldOf, Yield, TextsIn
<1>21. TextsIn(stream)' = TextsIn(stream)
  BY <1>1
<1> QED
  BY <1>9, <1>18, <1>19, <1>20, <1>21, Zenon DEF Reading

(* Only the first call's rest can change, and only while it is the running one *)
LEMMA RunningFirst ==
    ASSUME NEW S, AllGood(S), stack \in Seq(Frames(S)), stack # <<>>, running.rest # <<>>,
           Reading, Len(stack) = 1
    PROVE  running.rest \in {<<"xacckernel*">>, <<"xacckernel", "xacckernel*">>}
<1>1. Last(stack) = stack[1]
  BY StackYields
<1>2. running = stack[1]
  BY <1>1 DEF running
<1> QED
  BY <1>2, Zenon DEF Reading

LEMMA LoopHeads ==
    /\ \A s \in {<<"xacckernel*">>, <<"xacckernel", "xacckernel*">>} :
            \/ Head(s) = "xacckernel*" /\ Tail(s) = <<>>
            \/ Head(s) = "xacckernel" /\ Tail(s) = <<"xacckernel*">>
    /\ "xacckernel" \in DOMAIN Rules /\ "xacckernel*" \notin DOMAIN Rules
<1>1. \A a, b : /\ Head(<<a>>) = a /\ Tail(<<a>>) = <<>>
                /\ Head(<<a, b>>) = a /\ Tail(<<a, b>>) = <<b>>
  BY SMT
<1>2. "xacckernel" \in DOMAIN Rules
  BY TokenNamed
<1>3. "xacckernel*" \notin DOMAIN Rules
  <2>1. "xacckernel*" \in DOMAIN Branches
    BY Zenon DEF Branches
  <2> QED
    BY <2>1, Unnamed, Zenon
<1> QED
  BY <1>1, <1>2, <1>3, Zenon

LEMMA BranchReads == ParserOK /\ Reading /\ branch => Reading'
<1> SUFFICES ASSUME ParserOK, Reading, branch PROVE Reading'
  OBVIOUS
<1> DEFINE symbol == Head(running.rest)
           todo == Grammar[symbol][Min(Candidates(symbol))]
           g == GoneOn(todo)
           front == Front(stack)
<1>1. /\ stack # <<>> /\ running.rest # <<>> /\ symbol \in DOMAIN Grammar
      /\ symbol \notin DOMAIN Rules /\ Candidates(symbol) # {}
      /\ stack' = Append(front, g) /\ input' = input /\ stream' = stream
  BY Zenon DEF branch
<1>2. PICK S : StackOK(S, stack)
  BY <1>1, Zenon DEF ParserOK
<1>3. /\ AllGood(S) /\ stack \in Seq(Frames(S)) /\ Last(stack) = running /\ running \in Frames(S)
      /\ input \in Seq(Lexed)
  BY <1>1, <1>2, RunningFacts, Zenon DEF ParserOK
<1>4. todo \in Seq(Symbols)
  <2>1. Min(Candidates(symbol)) \in DOMAIN Grammar[symbol]
    BY <1>1, CandidateTaken, Zenon
  <2> QED
    BY <1>1, <2>1, GrammarType, Zenon
<1>5. g \in Frames(S) /\ g.children = running.children /\ g.rest = todo \o Tail(running.rest)
  BY <1>1, <1>3, <1>4, GoneFacts
<1>6. Len(stack) = 1 =>
        \/ g.rest = <<"xacckernel", "xacckernel*">>
        \/ g.rest = <<>> /\ NoKernelNext
  <2> SUFFICES ASSUME Len(stack) = 1
               PROVE  \/ g.rest = <<"xacckernel", "xacckernel*">>
                      \/ g.rest = <<>> /\ NoKernelNext
    OBVIOUS
  <2>1. running.rest \in {<<"xacckernel*">>, <<"xacckernel", "xacckernel*">>}
    BY <1>1, <1>3, RunningFirst
  <2>2. symbol = "xacckernel*" /\ Tail(running.rest) = <<>>
    BY <1>1, <2>1, LoopHeads, Zenon
  <2>3. todo = <<"xacckernel", "xacckernel*">> \/ (todo = <<>> /\ NoKernelNext)
    BY <1>1, <1>3, <2>2, LoopTaken
  <2> HIDE DEF todo
  <2>4. todo \o <<>> = todo
    BY <1>4, ConcatEmptySeq
  <2> QED
    BY <1>5, <2>2, <2>3, <2>4
<1> HIDE DEF g, todo, symbol
<1>7. /\ YieldOf(stack) = YieldOf(front) \o Yield(running.children)
      /\ front \in Seq(Frames(S))
  BY <1>1, <1>3, StackYields
<1>8. FirstIs(stack, g)
  BY <1>1, <1>3, <1>5, FirstReplaced
<1> HIDE DEF front
<1>9. YieldOf(stack') = YieldOf(stack)
  <2>1. YieldAppended(front, g)
    BY <1>3, <1>5, <1>7, YieldGrows
  <2> QED
    BY <1>1, <1>5, <1>7, <2>1 DEF YieldAppended
<1>10. (YieldOf(stack) \o TextsIn(input))' = YieldOf(stack') \o TextsIn(input')
  BY DEF YieldOf, Yield, TextsIn
<1>11. TextsIn(stream)' = TextsIn(stream) /\ NoKernelNext' = NoKernelNext
  BY <1>1 DEF NoKernelNext
<1>12. /\ Len(stack') = Len(stack)
       /\ stack'[1] = IF Len(stack) = 1 THEN g ELSE stack[1]
  BY <1>1, <1>8 DEF FirstIs, front
<1>13. \/ stack'[1].rest \in {<<"xacckernel*">>, <<"xacckernel", "xacckernel*">>}
       \/ stack'[1].rest = <<>> /\ Len(stack') = 1 /\ NoKernelNext'
  <2>1. CASE Len(stack) = 1
    <3>1. stack'[1].rest = g.rest /\ Len(stack') = 1
      BY <1>12, <2>1
    <3>2. CASE g.rest = <<"xacckernel", "xacckernel*">>
      BY <3>1, <3>2, Zenon
    <3>3. CASE g.rest = <<>> /\ NoKernelNext
      BY <1>11, <3>1, <3>3, Zenon
    <3> QED
      BY <1>6, <2>1, <3>2, <3>3, Zenon
  <2>2. CASE Len(stack) # 1
    <3>1. stack'[1] = stack[1]
      BY <1>12, <2>2
    <3>2. stack[1].rest \in {<<"xacckernel*">>, <<"xacckernel", "xacckernel*">>}
      BY <2>2, Zenon DEF Reading
    <3> QED
      BY <3>1, <3>2, Zenon
  <2> QED
    BY <2>1, <2>2, Zenon
<1>14. YieldOf(stack') \o TextsIn(input') = TextsIn(stream)
  BY <1>1, <1>9, Zenon DEF Reading
<1> QED
  BY <1>10, <1>11, <1>13, <1>14, Zenon DEF Reading

LEMMA EnterReads == ParserOK /\ Reading /\ enterRule => Reading'
<1> SUFFICES ASSUME ParserOK, Reading, enterRule PROVE Reading'
  OBVIOUS
<1> DEFINE symbol == Head(running.rest)
           todo == Rules[symbol][Min(Candidates(symbol))]
           g == GoneOn(<<>>)
           h == Frame(symbol, todo)
           front == Front(stack)
           st == Append(front, g)
<1>1. /\ stack # <<>> /\ running.rest # <<>> /\ symbol \in DOMAIN Rules
      /\ Candidates(symbol) # {}
      /\ stack' = front \o <<g, h>> /\ input' = input /\ stream' = stream
  BY Zenon DEF enterRule
<1>2. PICK S : StackOK(S, stack)
  BY <1>1, Zenon DEF ParserOK
<1>3. /\ AllGood(S) /\ stack \in Seq(Frames(S)) /\ Last(stack) = running /\ running \in Frames(S)
      /\ <<>> \in Seq(Symbols) /\ <<>> \in Seq(S)
  BY <1>2, RunningFacts, EmptySeq, Zenon
<1>4. todo \in Seq(Symbols)
  <2>1. symbol \in DOMAIN Grammar /\ Grammar[symbol] = Rules[symbol]
    BY <1>1, GrammarOf, Zenon
  <2>2. Min(Candidates(symbol)) \in DOMAIN Grammar[symbol]
    BY <1>1, <2>1, CandidateTaken, Zenon
  <2>3. Grammar[symbol][Min(Candidates(symbol))] \in Seq(Symbols)
    BY <2>1, <2>2, GrammarType, Zenon
  <2> QED
    BY <2>1, <2>3
<1>5. /\ g \in Frames(S) /\ g.children = running.children
      /\ g.rest = <<>> \o Tail(running.rest) /\ Tail(running.rest) \in Seq(Symbols)
  BY <1>1, <1>3, GoneFacts
<1>6. g.rest = Tail(running.rest)
  BY <1>5, Concat0
<1>7. Len(stack) = 1 => g.rest = <<"xacckernel*">>
  <2> SUFFICES ASSUME Len(stack) = 1 PROVE g.rest = <<"xacckernel*">>
    OBVIOUS
  <2>1. running.rest \in {<<"xacckernel*">>, <<"xacckernel", "xacckernel*">>}
    BY <1>1, <1>3, RunningFirst
  <2> QED
    BY <1>1, <1>6, <2>1, LoopHeads, Zenon
<1>8. Len(stack) # 1 => stack[1].rest \in {<<"xacckernel*">>, <<"xacckernel", "xacckernel*">>}
  BY Zenon DEF Reading
<1> HIDE DEF g, todo, symbol
<1>9. h \in Frames(S) /\ h.children = <<>>
  BY <1>1, <1>3, <1>4, SMT DEF Frame, Frames, symbol
<1> HIDE DEF h
<1>10. /\ YieldOf(stack) = YieldOf(front) \o Yield(running.children)
       /\ front \in Seq(Frames(S))
  BY <1>1, <1>3, StackYields
<1>11. FirstIs(stack, g)
  BY <1>1, <1>3, <1>5, FirstReplaced
<1>12. Len(st) = Len(stack) /\ st[1] = IF Len(stack) = 1 THEN g ELSE stack[1]
  BY <1>11 DEF FirstIs
<1> HIDE DEF front
<1>13. stack' = Append(st, h) /\ st \in Seq(Frames(S))
  BY <1>1, <1>5, <1>9, <1>10, PushedTwice, AppendProperties
<1>14. YieldOf(st) = YieldOf(stack)
  <2>1. YieldAppended(front, g)
    BY <1>3, <1>5, <1>10, YieldGrows
  <2> QED
    BY <1>5, <1>10, <2>1 DEF YieldAppended
<1> HIDE DEF st
<1>15. YieldOf(stack') = YieldOf(stack)
  <2>1. YieldAppended(st, h) /\ YieldOf(st) \in Seq(Words)
    BY <1>3, <1>9, <1>13, YieldGrows
  <2>2. Yield(<<>>) = <<>>
    BY EmptyJoined, SMT DEF Yield
  <2>3. YieldOf(st) \o <<>> = YieldOf(st)
    BY <2>1, ConcatEmptySeq
  <2> QED
    BY <1>9, <1>13, <1>14, <2>1, <2>2, <2>3 DEF YieldAppended
<1>16. stack'[1] = st[1]
  <2>1. Len(st) \in Nat /\ Len(st) >= 1
    BY <1>1, <1>3, <1>12, SMT
  <2>2. 1 \in 1..Len(st)
    BY <2>1, SMT
  <2>3. \A i \in 1..Len(st) : Append(st, h)[i] = st[i]
    BY <1>9, <1>13, AppendProperties
  <2> QED
    BY <1>13, <2>2, <2>3
<1>17. stack'[1].rest \in {<<"xacckernel*">>, <<"xacckernel", "xacckernel*">>}
  BY <1>7, <1>8, <1>12, <1>16, Zenon
<1>18. (YieldOf(stack) \o TextsIn(input))' = YieldOf(stack') \o TextsIn(input')
  BY DEF YieldOf, Yield, TextsIn
<1>19. TextsIn(stream)' = TextsIn(stream)
  BY <1>1
<1>20. YieldOf(stack') \o TextsIn(input') = TextsIn(stream)
  BY <1>1, <1>15, Zenon DEF Reading
<1> QED
  BY <1>17, <1>18, <1>19, <1>20, Zenon DEF Reading

LEMMA ContextYield ==
    ASSUME NEW rule, NEW ch
    PROVE  Context(rule, ch).text = Yield(ch)
BY SMT DEF Context, Yield

LEMMA ExitReads ==
    ParserOK /\ Reading /\ exitRule => IF stack' = <<>> THEN WholeTree' ELSE Reading'
<1> SUFFICES ASSUME ParserOK, Reading, exitRule
             PROVE  IF stack' = <<>> THEN WholeTree' ELSE Reading'
  OBVIOUS
<1> DEFINE node == Context(running.rule, running.children)
           callers == Front(stack)
<1>1. /\ stack # <<>> /\ running.rest = <<>> /\ input' = input /\ stream' = stream
      /\ callers = <<>> => stack' = <<>> /\ tree' = node
  BY Zenon DEF exitRule
<1>2. callers # <<>> =>
        stack' = Append(Front(callers), [Last(callers) EXCEPT !.children = Append(@, node)])
  BY Zenon DEF exitRule
<1>3. PICK S : StackOK(S, stack)
  BY <1>1, Zenon DEF ParserOK
<1>4. /\ AllGood(S) /\ stack \in Seq(Frames(S)) /\ Last(stack) = running
      /\ running.children \in Seq(S) /\ running.rule \in DOMAIN Rules
      /\ Kinds(running.children) \in Seq(Called)
      /\ FormOK(running.rule, Kinds(running.children) \o running.rest)
      /\ input \in Seq(Lexed)
  BY <1>1, <1>3, RunningFacts, Zenon DEF ParserOK
<1>5. Good(node) /\ node.text = Yield(running.children)
  <2>1. FormOK(running.rule, Kinds(running.children))
    BY <1>1, <1>4, ConcatEmptySeq
  <2>2. Good(node)
    BY <1>4, <2>1, ContextGood
  <2> QED
    BY <2>2, ContextYield
<1> HIDE DEF node
<1>6. /\ YieldOf(stack) = YieldOf(callers) \o node.text
      /\ YieldOf(callers) \in Seq(Words) /\ node.text \in Seq(Words)
      /\ callers \in Seq(Frames(S))
      /\ Len(stack) = 1 => Last(stack) = stack[1]
  BY <1>1, <1>4, <1>5, StackYields
<1>7. TextsIn(stream)' = TextsIn(stream) /\ NoKernelNext' = NoKernelNext
  BY <1>1 DEF NoKernelNext
<1>8. Len(callers) = Len(stack) - 1 /\ Len(stack) \in Nat /\ Len(stack) >= 1
      /\ \A i \in 1..(Len(stack) - 1) : callers[i] = stack[i]
  BY <1>1, <1>4, FrontLastFacts
<1> HIDE DEF callers
<1>9. CASE callers = <<>>
  <2>1. Len(stack) = 1
    BY <1>8, <1>9, SMT
  <2>2. running = stack[1]
    BY <1>4, <1>6, <2>1
  <2>3. NoKernelNext
    <3>1. <<>> \notin {<<"xacckernel*">>, <<"xacckernel", "xacckernel*">>}
      BY SMT
    <3> QED
      BY <1>1, <2>2, <3>1, Zenon DEF Reading
  <2>4. YieldOf(<<>>) = <<>>
    BY EmptyJoined, SMT DEF YieldOf
  <2>5. YieldOf(stack) = node.text
    BY <1>6, <1>9, <2>4, Concat0
  <2>6. tree'.text \o TextsIn(input') = TextsIn(stream)
    BY <1>1, <1>9, <2>5, Zenon DEF Reading
  <2>7. (tree.text \o TextsIn(input))' = tree'.text \o TextsIn(input')
    BY DEF TextsIn
  <2> QED
    BY <1>1, <1>7, <1>9, <2>3, <2>6, <2>7, Zenon DEF WholeTree
<1>10. CASE callers # <<>>
  <2> DEFINE p == Last(callers)
             kids == p.children
             ch == Append(kids, node)
             g == [p EXCEPT !.children = ch]
             R == S \cup {node}
             front == Front(callers)
  <2>1. p \in Frames(S) /\ kids \in Seq(S) /\ stack' = Append(front, g)
    <3>1. p \in Frames(S)
      BY <1>6, <1>10, FrontLastFacts
    <3> QED
      BY <1>2, <1>10, <3>1, FrameFields
  <2>2. AllGood(R) /\ S \subseteq R /\ node \in R
    BY <1>4, <1>5, Zenon DEF AllGood
  <2>3. kids \in Seq(R) /\ callers \in Seq(Frames(R))
    <3> HIDE DEF kids, R
    <3>1. \A A, B : A \subseteq B => Seq(A) \subseteq Seq(B)
      BY SMT
    <3> QED
      BY <1>6, <2>1, <2>2, <3>1, FramesGrow, Zenon
  <2>4. /\ YieldOf(callers) = YieldOf(front) \o Yield(kids)
        /\ YieldOf(front) \in Seq(Words) /\ Yield(kids) \in Seq(Words)
        /\ front \in Seq(Frames(R))
    <3> HIDE DEF R
    <3> QED
      BY <1>10, <2>2, <2>3, StackYields
  <2> HIDE DEF kids, p, R
  <2>5. Yield(ch) = Yield(kids) \o node.text /\ ch \in Seq(R)
    BY <2>2, <2>3, YieldIs, AppendProperties
  <2> HIDE DEF ch
  <2>6. g \in Frames(R) /\ g.children = ch /\ g.rest = p.rest
    <3>1. Adopts(R, p, ch)
      BY <2>1, <2>2, <2>5, ParentFacts
    <3> QED
      BY <3>1 DEF Adopts
  <2> HIDE DEF g
  <2>7. FirstIs(callers, g)
    BY <1>10, <2>3, <2>6, FirstReplaced
  <2> HIDE DEF front
  <2>8. YieldOf(stack') = YieldOf(front) \o (Yield(kids) \o node.text)
    <3>1. YieldAppended(front, g)
      BY <2>2, <2>4, <2>6, YieldGrows
    <3> QED
      BY <2>1, <2>5, <2>6, <3>1 DEF YieldAppended
  <2>9. YieldOf(stack') = YieldOf(stack)
    <3> DEFINE x == YieldOf(front)
               y == Yield(kids)
               z == node.text
    <3>1. x \in Seq(Words) /\ y \in Seq(Words) /\ z \in Seq(Words)
      BY <1>6, <2>4
    <3> HIDE DEF x, y, z
    <3>2. Associate(x, y, z)
      BY <3>1, Associates
    <3> QED
      BY <1>6, <2>4, <2>8, <3>2 DEF Associate, x, y, z
  <2>10. stack'[1].rest = stack[1].rest /\ Len(stack) # 1 /\ stack' # <<>>
    <3>1. /\ Len(stack') = Len(callers)
          /\ stack'[1] = IF Len(callers) = 1 THEN g ELSE callers[1]
      BY <2>1, <2>7 DEF FirstIs, front
    <3>2. Len(callers) \in Nat /\ Len(callers) >= 1
      BY <1>6, <1>10, FrontLastFacts
    <3>3. callers[1] = stack[1] /\ Len(stack) # 1
      <4>1. 1 \in 1..(Len(stack) - 1) /\ Len(stack) # 1
        BY <1>8, <3>2, SMT
      <4> QED
        BY <1>8, <4>1
    <3>4. Len(callers) = 1 => p = callers[1]
      <4>1. Last(callers) = callers[Len(callers)]
        BY <1>6, <1>10, FrontLastFacts
      <4> QED
        BY <4>1 DEF p
    <3>5. stack'[1].rest = stack[1].rest
      BY <2>6, <3>1, <3>3, <3>4
    <3>6. stack' # <<>>
      <4>1. Len(<<>>) = 0 /\ Len(callers) # 0
        BY <3>2, SMT
      <4> QED
        BY <3>1, <4>1, Zenon
    <3> QED
      BY <3>3, <3>5, <3>6
  <2>11. YieldOf(stack') \o TextsIn(input') = TextsIn(stream)
    BY <1>1, <2>9, Zenon DEF Reading
  <2>12. (YieldOf(stack) \o TextsIn(input))' = YieldOf(stack') \o TextsIn(input')
    BY DEF YieldOf, Yield, TextsIn
  <2> QED
    BY <1>7, <2>10, <2>11, <2>12, Zenon DEF Reading
<1> QED
  BY <1>9, <1>10

-----------------------------------------------------------------------------
(* Kernels are made of a source that was read through *)

SourceInv ==
    /\ status = "ready" =>
        /\ IF stack = <<>> THEN WholeTree ELSE Reading
        /\ kernels = <<>> /\ ir = <<>>
    /\ status # "ready" =>
        WholeTree \/ (status = "exited" /\ kernels = <<>> /\ ir = <<>>)

LEMMA SourceStarts == Init => SourceInv
<1> SUFFICES ASSUME Init PROVE SourceInv
  OBVIOUS
<1>1. PICK text \in Texts : ParserInit(Tokens(text))
  BY Zenon DEF Init
<1>2. status = "ready" /\ kernels = <<>> /\ ir = <<>>
  BY Zenon DEF Init, ListenerInit
<1> DEFINE h == Frame("xaccsrc", xaccsrc[1])
<1>3. stream = input /\ stack = <<h>> /\ input \in Seq(Lexed)
  BY <1>1, TokensType, Zenon DEF ParserInit
<1>4. h.rest = <<"xacckernel*">> /\ h.children = <<>>
  BY SMT DEF Frame, xaccsrc
<1> HIDE DEF h
<1>5. stack # <<>> /\ stack[1] = h
  BY <1>3, SMT
<1>6. Yield(<<>>) = <<>>
  BY EmptyJoined, SMT DEF Yield
<1>7. YieldOf(stack) = <<>>
  <2>1. [i \in DOMAIN <<h>> |-> Yield(<<h>>[i].children)] = << <<>> >>
    BY <1>4, <1>6, SMT
  <2>2. FlattenSeq(<< <<>> >>) = <<>>
    <3>1. <<>> \in Seq(Seq({})) /\ <<>> \in Seq({})
      BY EmptySeq, Zenon
    <3>2. FlattenSeq(Append(<<>>, <<>>)) = FlattenSeq(<<>>) \o <<>>
      BY <3>1, FlattenAppend
    <3>3. Append(<<>>, <<>>) = << <<>> >> /\ <<>> \o <<>> = <<>>
      BY SMT
    <3> QED
      BY <3>2, <3>3, EmptyJoined, Zenon
  <2> QED
    BY <1>3, <2>1, <2>2 DEF YieldOf
<1>8. YieldOf(stack) \o TextsIn(input) = TextsIn(stream)
  <2>1. TextsIn(input) \in Seq(Words)
    BY <1>3, TextsType
  <2>2. <<>> \o TextsIn(input) = TextsIn(input)
    BY <2>1, Concat0
  <2> QED
    BY <1>3, <1>7, <2>2
<1>9. Reading
  BY <1>4, <1>5, <1>8, Zenon DEF Reading
<1> QED
  BY <1>2, <1>5, <1>9, Zenon DEF SourceInv

LEMMA ListensWalking == Listen \/ Return => status = "walking"
<1>1. \A callback : On(callback) => status = "walking"
  BY Zenon DEF On
<1> HIDE DEF On
<1> QED
  BY <1>1, Zenon DEF Listen, Return, enterXacckernel, exitXacckernel, exitKernelcall,
                     exitU, exitCX, exitUserDefGate, exitMeasure

LEMMA ReadOn == CompilerInv /\ SourceInv /\ Parse => SourceInv'
<1> SUFFICES ASSUME CompilerInv, SourceInv, Parse PROVE SourceInv'
  OBVIOUS
<1>1. status = "ready" /\ ParserNext /\ UNCHANGED listenerVars
  BY Zenon DEF Parse
<1>2. stack # <<>>
  BY <1>1, Zenon DEF ParserNext, match, branch, enterRule, exitRule
<1>3. ParserOK /\ Reading /\ kernels = <<>> /\ ir = <<>>
  BY <1>1, <1>2, Zenon DEF CompilerInv, SourceInv
<1>4. IF stack' = <<>> THEN WholeTree' ELSE Reading'
  <2>1. CASE match
    BY <1>3, <2>1, MatchKeeps, MatchReads, Zenon
  <2>2. CASE branch
    BY <1>3, <2>2, BranchKeeps, BranchReads, Zenon
  <2>3. CASE enterRule
    BY <1>3, <2>3, EnterKeeps, EnterReads, Zenon
  <2>4. CASE exitRule
    BY <1>3, <2>4, ExitReads, Zenon
  <2> QED
    BY <1>1, <2>1, <2>2, <2>3, <2>4, Zenon DEF ParserNext
<1>5. status' = "ready" /\ kernels' = <<>> /\ ir' = <<>>
  BY <1>1, <1>3, Zenon DEF listenerVars
<1> QED
  BY <1>4, <1>5, Zenon DEF SourceInv

LEMMA SourceKeeps == CompilerInv /\ SourceInv /\ [Next]_compilerVars => SourceInv'
<1> SUFFICES ASSUME CompilerInv, SourceInv, [Next]_compilerVars PROVE SourceInv'
  OBVIOUS
<1>1. CASE Parse
  BY <1>1, ReadOn, Zenon
<1>2. CASE RefuseSource
  <2>1. status = "ready" /\ status' = "exited" /\ UNCHANGED <<kernels, ir>>
    BY <1>2, Zenon DEF RefuseSource, NoTree, Left
  <2>2. kernels' = <<>> /\ ir' = <<>>
    BY <2>1, Zenon DEF SourceInv
  <2> QED
    BY <2>1, <2>2, Zenon DEF SourceInv
<1>3. CASE WalkTree
  <2>1. status = "ready" /\ stack = <<>> /\ status' = "walking" /\ UNCHANGED <<stream, input, tree>>
    BY <1>3, Zenon DEF WalkTree, parserVars
  <2>2. WholeTree'
    BY <2>1, Zenon DEF SourceInv, WholeTree, NoKernelNext, TextsIn
  <2> QED
    BY <2>1, <2>2, Zenon DEF SourceInv
<1>4. CASE TakeCallback
  <2>1. (Listen \/ Return) /\ UNCHANGED <<stream, input, tree>>
    BY <1>4, Zenon DEF TakeCallback, parserVars
  <2>2. status = "walking" /\ status' # "ready"
    BY <2>1, ListensWalking, NotBack, Zenon
  <2>3. WholeTree
    BY <2>2, Zenon DEF SourceInv
  <2>4. WholeTree'
    BY <2>1, <2>3, Zenon DEF WholeTree, NoKernelNext, TextsIn
  <2> QED
    BY <2>2, <2>4, Zenon DEF SourceInv
<1>5. CASE UNCHANGED compilerVars
  <2>1. UNCHANGED <<stream, input, stack, tree, status, kernels, ir>>
    BY <1>5, Zenon DEF compilerVars
  <2>2. WholeTree' <=> WholeTree
    BY <2>1, Zenon DEF WholeTree, NoKernelNext, TextsIn
  <2>3. Reading' <=> Reading
    BY <2>1, Zenon DEF Reading, NoKernelNext, TextsIn, YieldOf, Yield
  <2> QED
    BY <2>1, <2>2, <2>3, Zenon DEF SourceInv
<1> QED
  BY <1>1, <1>2, <1>3, <1>4, <1>5, Zenon DEF Next

(* Every kernel compile makes is of a source read through, whatever the source  *)
(* and whatever adaptivePredict sees: no token is lost or taken out of its place *)
(* on the way into the tree, and xaccsrc stops only where no kernel begins       *)
(* (xaccsrc, :66-95, and compile, :58-73).                                       *)
THEOREM CompilerReadsWholeSource == Spec => []KernelsOfWholeSource
<1>1. Init => CompilerInv /\ SourceInv
  BY CompilerStarts, SourceStarts
<1>2. CompilerInv /\ SourceInv /\ [Next]_compilerVars => (CompilerInv /\ SourceInv)'
  BY CompilerKeeps, SourceKeeps
<1>3. SourceInv => KernelsOfWholeSource
  BY Zenon DEF SourceInv, WholeTree, NoKernelNext, KernelsOfWholeSource
<1> QED
  BY <1>1, <1>2, <1>3, PTL DEF Spec
=============================================================================
