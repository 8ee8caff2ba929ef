--------------------------- MODULE OpenQasmVisitor --------------------------
(***************************************************************************)
(* The text an OpenQasmVisitor writes while an accelerator walks a kernel, *)
(* and the measured qubits the accelerator notes down beside it.           *)
(*                                                                         *)
(* The visitor writes two: OpenQasm statements (native) and entries of a   *)
(* JSON array (operations), each by hand in every visit.  A text is a      *)
(* sequence of tokens.  `if (cN == 1) ` has no end of its own: it guards   *)
(* whatever token comes next.  Angles are names: "p0" is parameter 0 of    *)
(* the visited instruction.                                                *)
(***************************************************************************)
EXTENDS Integers, SequencesExt

CONSTANTS
  Qubits,        \* indices into the buffer
  Instructions,  \* what a kernel may hold, see Instruction
  MaxLength      \* bound: instructions of a kernel

(* What each visit of a gate on one qubit writes to native, and what it    *)
(* writes to operations.                                                   *)
Written(opcode, angles) == [opcode |-> opcode, angles |-> angles]

NativeGates ==
  [Hadamard |-> Written("u2", <<"0", "pi">>),
   Identity |-> Written("id", <<>>),
   X |-> Written("u3", <<"pi", "0", "pi">>),
   Y |-> Written("u3", <<"pi", "pi/2", "pi">>),
   Z |-> Written("u1", <<"pi">>),
   U |-> Written("U", <<"p0", "p1", "p2">>),
   Rx |-> Written("u3", <<"p0", "-pi/2", "pi/2">>),
   Ry |-> Written("u3", <<"p0", "0", "0">>),
   Rz |-> Written("u1", <<"p0">>)]

\* Variant: Z has no angle of its own in one of the texts.
ZeroAngle == [NativeGates EXCEPT !.Z = Written("u1", <<"0">>)]

OperationGates ==
  [Hadamard |-> Written("u2", <<"0", "pi">>),
   Identity |-> Written("id", <<>>),
   X |-> Written("u3", <<"pi", "0", "pi">>),
   Y |-> Written("u3", <<"pi", "pi/2", "pi">>),
   Z |-> Written("u1", <<"pi">>),
   U |-> Written("U", <<"p0", "p1", "p2">>),
   Rx |-> Written("u3", <<"p0", "-pi/2", "pi/2">>),
   Ry |-> Written("u3", <<"p0", "0", "0">>),
   Rz |-> Written("u1", <<"p0">>)]

(* Classes of gates on one qubit, each with a visit of its own.            *)
Gates == {"Hadamard", "Identity", "X", "Y", "Z", "U", "Rx", "Ry", "Rz"}

(* bits[1] of a ConditionalFunction ("if") is its conditional qubit.  Its  *)
(* body holds no further one, see Instruction below.                       *)
Composites == {"if", "GateFunction"}
TwoQubitGates == {"CNOT", "CZ", "CPhase", "Swap"}
Elementary ==
  [op: Gates \union {"Measure"}, bits: Qubits \X {0}, enabled: BOOLEAN, body: {<<>>}]
    \union [op: TwoQubitGates, bits: Qubits \X Qubits, enabled: BOOLEAN, body: {<<>>}]
Instruction ==
  Elementary
    \union [op: Composites, bits: Qubits \X {0}, enabled: BOOLEAN, body: Seq(Elementary)]

ASSUME InstructionsAssumption ==
  /\ Qubits \subseteq Nat
  /\ Instructions \subseteq Instruction
  /\ MaxLength \in Nat

VARIABLES
  kernel,    \* instructions the iterator has handed out
  visitor,   \* the members of the visitor
  supports,  \* measurementSupports of this kernel
  failed     \* xacc::error ended the process

vars == <<kernel, visitor, supports, failed>>

NewVisitor ==
  [native |-> <<>>, operations |-> <<>>,
   classicalBitCounter |-> 0,
   qubitToClassicalBitIndex |-> [q \in {} |-> 0]]

Init ==
  /\ kernel = <<>>
  /\ visitor = NewVisitor
  /\ supports = <<>>
  /\ failed = FALSE

-----------------------------------------------------------------------------
(* A token, and an entry of operationsJsonStr; c is the classical register *)
(* it names, if any.                                                       *)
NoBit == -1
Token(name, angles, bits, c) == [name |-> name, angles |-> angles, bits |-> bits, c |-> c]
If(c) == Token("if", <<>>, <<>>, c)
Creg(c) == Token("creg", <<>>, <<>>, c)
Measured(q, c) == Token("Measure", <<>>, <<q>>, c)
GateOn(gate, bits) == Token(gate.opcode, gate.angles, bits, NoBit)
CNOTOn(bits) == Token("CNOT", <<>>, bits, NoBit)

visitGate(v, inst) ==
  [v EXCEPT !.native = Append(@, GateOn(NativeGates[inst.op], <<inst.bits[1]>>)),
            !.operations = Append(@, GateOn(OperationGates[inst.op], <<inst.bits[1]>>))]

visitCNOT(v, bits) ==
  [v EXCEPT !.native = Append(@, CNOTOn(bits)),
            !.operations = Append(@, CNOTOn(bits))]

\* Variant: the second CNOT is not turned round.
SwapUnturned(v, bits) == visitCNOT(visitCNOT(visitCNOT(v, bits), bits), bits)
visitSwap(v, bits) ==
  visitCNOT(visitCNOT(visitCNOT(v, bits), <<bits[2], bits[1]>>), bits)

\* Variant: the operation names the register after the one just written.
CountedFirst(v, q) ==
  LET c == v.classicalBitCounter
  IN  [v EXCEPT !.native = @ \o <<Creg(c), Measured(q, c)>>,
                !.operations = Append(@, Measured(q, c + 1)),
                !.classicalBitCounter = c + 1]

(* insert keeps the register of an earlier measurement of the same qubit.  *)
visitMeasure(v, q) ==
  LET c == v.classicalBitCounter
      index == v.qubitToClassicalBitIndex
  IN  [v EXCEPT
         !.native = @ \o <<Creg(c), Measured(q, c)>>,
         !.operations = Append(@, Measured(q, c)),
         !.qubitToClassicalBitIndex =
           [r \in DOMAIN index \union {q} |-> IF r \in DOMAIN index THEN index[r] ELSE c],
         !.classicalBitCounter = c + 1]

visitElementary(v, inst) ==
  CASE inst.op = "CNOT" -> visitCNOT(v, inst.bits)
    [] inst.op = "Swap" -> visitSwap(v, inst.bits)
    [] inst.op = "Measure" -> visitMeasure(v, inst.bits[1])
    [] inst.op \in {"CPhase", "CZ"} -> v
    [] OTHER -> visitGate(v, inst)

\* Variant: the register counted last is tested, whatever the qubit.
LatestRegister(v, q) == v.classicalBitCounter - 1

(* operator[] makes an entry, register 0, for a qubit that has none.       *)
ClassicalBitIdx(v, q) ==
  IF q \in DOMAIN v.qubitToClassicalBitIndex THEN v.qubitToClassicalBitIndex[q] ELSE 0

(* A nested visitor, with registers of its own counted from 0, writes the  *)
(* body; only its native text is taken over.                               *)
Nested(body) ==
  IF body = <<>> THEN NewVisitor ELSE visitElementary(NewVisitor, body[1])

visitConditional(v, inst) ==
  LET q == inst.bits[1]
      c == ClassicalBitIdx(v, q)
      index == v.qubitToClassicalBitIndex
  IN  [v EXCEPT !.native = @ \o <<If(c)>> \o Nested(inst.body).native,
                !.qubitToClassicalBitIndex = [r \in DOMAIN index \union {q} |->
                                                IF r = q THEN c ELSE index[r]]]

accept(v, inst) ==
  CASE inst.op = "if" -> visitConditional(v, inst)
    [] inst.op = "GateFunction" -> v
    [] OTHER -> visitElementary(v, inst)

(* Instructions some visit rejects.                                        *)
Unsupported(inst) ==
  \/ inst.op = "CZ"
  \/ inst.op = "if" /\ Len(inst.body) > 1
  \/ inst.op = "if" /\ \E i \in DOMAIN inst.body : inst.body[i].op = "CZ"

-----------------------------------------------------------------------------
(* The loop of processInput, and of LocalIBMAccelerator::execute: one turn *)
(* per instruction of the kernel in pre-order.  The body of a conditional  *)
(* is disabled by the framework until the condition is known, so its turns *)
(* do nothing and are left out.                                            *)
Turn(inst) ==
  /\ ~failed
  /\ Len(kernel) < MaxLength
  /\ kernel' = Append(kernel, inst)

Skip(inst) ==
  /\ Turn(inst)
  /\ ~inst.enabled
  /\ UNCHANGED <<visitor, supports, failed>>

Reject(inst) ==
  /\ Turn(inst)
  /\ inst.enabled
  /\ Unsupported(inst)
  /\ failed' = TRUE
  /\ UNCHANGED <<visitor, supports>>

Visit(inst) ==
  /\ Turn(inst)
  /\ inst.enabled
  /\ ~Unsupported(inst)
  /\ visitor' = accept(visitor, inst)
  /\ supports' = IF inst.op = "Measure" THEN Append(supports, inst.bits[1]) ELSE supports
  /\ UNCHANGED failed

Next == \E inst \in Instructions : Skip(inst) \/ Reject(inst) \/ Visit(inst)

Spec == Init /\ [][Next]_vars
-----------------------------------------------------------------------------
(* OQASMCompiler::translate walks a kernel the same way, after it has      *)
(* looked for the largest qubit of its enabled instructions, to declare a  *)
(* register of one qubit more.  A composite itself is on no qubit.         *)
Counting == {i \in DOMAIN kernel : kernel[i].enabled /\ kernel[i].op \notin Composites}

\* Variant: of a gate on two qubits the first is looked at.
FirstBits == Max({0} \union {kernel[i].bits[1] : i \in Counting})
maxBit == Max({0} \union UNION {{kernel[i].bits[1], kernel[i].bits[2]} : i \in Counting})

translate == [nQubits |-> maxBit + 1, text |-> visitor.native]
-----------------------------------------------------------------------------
Tokens ==
  [name: {"u1", "u2", "u3", "U", "id", "CNOT", "Measure", "if", "creg"},
   angles: Seq({"0", "pi", "pi/2", "-pi/2", "p0", "p1", "p2"}),
   bits: Seq(Qubits), c: Nat \union {NoBit}]

(* Type invariant of the loop and of the visitor.                          *)
TypeOK ==
  /\ kernel \in Seq(Instructions)
  /\ Len(kernel) =< MaxLength
  /\ visitor.native \in Seq(Tokens)
  /\ visitor.operations \in Seq(Tokens)
  /\ visitor.classicalBitCounter \in Nat
  /\ DOMAIN visitor.qubitToClassicalBitIndex \subseteq Qubits
  /\ \A q \in DOMAIN visitor.qubitToClassicalBitIndex :
       visitor.qubitToClassicalBitIndex[q] \in Nat
  /\ supports \in Seq(Qubits)
  /\ failed \in BOOLEAN

(* An accelerator matches reported bits with supports by position, so the  *)
(* registers must be declared in the order of the supports.  A Measure in  *)
(* the body of a conditional declares c0 once more, behind the back of the *)
(* accelerator.                                                            *)
MeasuresInBody(inst) == \E i \in DOMAIN inst.body : inst.body[i].op = "Measure"

DeclaredInOrder(text, qubits) ==
  /\ \A i \in DOMAIN text : text[i].name = "Measure" =>
       text[i].c + 1 \in DOMAIN qubits /\ text[i].bits = <<qubits[text[i].c + 1]>>
  /\ \A i, j \in DOMAIN text :
       i < j /\ text[i].name = "Measure" /\ text[j].name = "Measure" => text[i].c < text[j].c

RegistersFollowSupports ==
  (\A i \in DOMAIN kernel : ~MeasuresInBody(kernel[i])) =>
    DeclaredInOrder(visitor.native, supports) /\ DeclaredInOrder(visitor.operations, supports)

(* What a kernel means, without a visitor: its actions in order, each with *)
(* the register it is guarded by.                                          *)
IsMeasure(inst) == inst.op = "Measure" /\ inst.enabled
RegisterOf(i) == Cardinality({j \in 1..(i - 1) : IsMeasure(kernel[j])})
Measurements(i, q) == {j \in 1..(i - 1) : IsMeasure(kernel[j]) /\ kernel[j].bits[1] = q}
Guarded(token, guard) == [token |-> token, guard |-> guard]

(* Gates on one qubit are compared as rotations, by three Euler angles.    *)
Rotation(angles, bits) == Token("rotation", angles, bits, NoBit)

EulerAngles ==
  [Hadamard |-> <<"pi/2", "0", "pi">>, Identity |-> <<"0", "0", "0">>,
   X |-> <<"pi", "0", "pi">>, Y |-> <<"pi", "pi/2", "pi/2">>, Z |-> <<"0", "0", "pi">>,
   U |-> <<"p0", "p1", "p2">>, Rx |-> <<"p0", "-pi/2", "pi/2">>,
   Ry |-> <<"p0", "0", "0">>, Rz |-> <<"0", "0", "p0">>]

Meaning(inst, register, guard) ==
  LET CNOT(a, b) == Guarded(CNOTOn(<<a, b>>), guard)
      a == inst.bits[1]
      b == inst.bits[2]
  IN  CASE inst.op = "Swap" -> <<CNOT(a, b), CNOT(b, a), CNOT(a, b)>>
        [] inst.op = "CNOT" -> <<CNOT(a, b)>>
        [] inst.op = "CPhase" -> <<Guarded(Token("CPhase", <<"p0">>, <<a, b>>, NoBit), guard)>>
        [] inst.op = "Measure" -> <<Guarded(Measured(a, register), guard)>>
        [] OTHER -> <<Guarded(Rotation(EulerAngles[inst.op], <<a>>), guard)>>

Intended(i) ==
  LET inst == kernel[i]
  IN  CASE ~inst.enabled \/ inst.op = "GateFunction" -> <<>>
        [] inst.enabled /\ inst.op = "if" ->
             LET guard == RegisterOf(Max(Measurements(i, inst.bits[1])))
             IN  FlattenSeq([k \in DOMAIN inst.body |-> Meaning(inst.body[k], 0, guard)])
        [] OTHER -> Meaning(inst, RegisterOf(i), NoBit)

(* What a statement does, by the definitions of qelib1.inc.                *)
Effect(token) ==
  LET angles == token.angles
  IN  CASE token.name = "id" -> Rotation(<<"0", "0", "0">>, token.bits)
        [] token.name = "u1" -> Rotation(<<"0", "0", angles[1]>>, token.bits)
        [] token.name = "u2" -> Rotation(<<"pi/2", angles[1], angles[2]>>, token.bits)
        [] token.name \in {"u3", "U"} -> Rotation(angles, token.bits)
        [] OTHER -> token

(* What the text performs: every statement but declarations, guarded by an *)
(* `if` right before it.                                                   *)
Performed(text) ==
  LET guard(i) == IF i > 1 /\ text[i - 1].name = "if" THEN text[i - 1].c ELSE NoBit
  IN  FlattenSeq([i \in DOMAIN text |->
                    IF text[i].name \in {"if", "creg"} THEN <<>>
                    ELSE <<Guarded(Effect(text[i]), guard(i))>>])

(* Kernels the visitor translates: no CPhase and no Y, whose visit writes  *)
(* another rotation, and conditionals over one gate, on a qubit measured   *)
(* once, before.                                                           *)
Translatable(i) ==
  LET inst == kernel[i]
      q == inst.bits[1]
  IN  /\ inst.op \notin {"CPhase", "Y"}
      /\ inst.op = "if" =>
           /\ Len(inst.body) = 1 /\ inst.body[1].op \in (Gates \ {"Y"}) \union {"CNOT"}
           /\ Cardinality(Measurements(i, q)) = 1
           /\ \A j \in 1..(Max(Measurements(i, q)) - 1) :
                ~(kernel[j].op = "if" /\ kernel[j].bits[1] = q)

(* Of such a kernel the text performs every instruction, in order, on its  *)
(* qubits, by its angles, into its register and under its condition.       *)
Equivalent == Performed(visitor.native) = FlattenSeq([i \in DOMAIN kernel |-> Intended(i)])

TextMeansKernel ==
  (~failed /\ \A i \in DOMAIN kernel : kernel[i].enabled => Translatable(i)) => Equivalent

(* LocalIBMAccelerator sends both texts of a circuit.  Every visit writes  *)
(* them apart, yet without conditionals they are the same circuit: gate by *)
(* gate the same operation, angles, qubits and register.                   *)
WithoutDeclarations(text) ==
  FlattenSeq([i \in DOMAIN text |-> IF text[i].name = "creg" THEN <<>> ELSE <<text[i]>>])

TextsAgree ==
  (\A i \in DOMAIN kernel : kernel[i].op # "if") =>
    visitor.operations = WithoutDeclarations(visitor.native)

(* A translated kernel stands by itself: every statement of its text is on *)
(* qubits the text declares.  Bodies of conditionals are written though    *)
(* their instructions are disabled, so no one looks at their qubits; the   *)
(* kernel has to use those elsewhere.  (translate, OQASMCompiler.cpp:75.)  *)
BodiesWithin ==
  \A i \in DOMAIN kernel : \A k \in DOMAIN kernel[i].body :
    \A b \in 1..2 : kernel[i].body[k].bits[b] =< maxBit

TranslatedFits ==
  ~failed /\ BodiesWithin =>
    \A i \in DOMAIN translate.text : \A b \in DOMAIN translate.text[i].bits :
      translate.text[i].bits[b] < translate.nQubits

-----------------------------------------------------------------------------
(* What the class promises, OpenQasmVisitor.hpp:39-43: it "creates an      *)
(* equivalent OpenQasm string", of any kernel it does not reject whose     *)
(* conditionals are over gates and test a qubit measured before.           *)
WellConditioned(i) ==
  kernel[i].op = "if" => ~MeasuresInBody(kernel[i]) /\ Measurements(i, kernel[i].bits[1]) # {}

TextIsEquivalent ==
  (~failed /\ \A i \in DOMAIN kernel : WellConditioned(i)) => Equivalent
=============================================================================
