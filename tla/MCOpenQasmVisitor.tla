-------------------------- MODULE MCOpenQasmVisitor -------------------------
(***************************************************************************)
(* Kernels over two qubits for TLC, digital and analog.                    *)
(***************************************************************************)
EXTENDS OpenPulseVisitor

MCQubits == 0..1

On(op, a, b) == [op |-> op, bits |-> <<a, b>>, enabled |-> TRUE, body |-> <<>>]
Measure(q) == On("Measure", q, 0)
Conditional(q, body) == [On("if", q, 0) EXCEPT !.body = body]
Disabled(inst) == [inst EXCEPT !.enabled = FALSE]

(* One instruction for every way through the visits.                       *)
VisitedInstructions ==
  {On(gate, 1, 0) : gate \in Gates} \union
  {On("CNOT", 0, 1), On("Swap", 0, 1), Measure(0), Measure(1),
   On("CZ", 0, 1), On("CPhase", 0, 1), On("GateFunction", 0, 0), Disabled(Measure(1)),
   Conditional(0, <<On("X", 1, 0)>>), Conditional(1, <<On("CNOT", 0, 1)>>),
   Conditional(0, <<>>), Conditional(0, <<On("Swap", 0, 1)>>), Conditional(1, <<Measure(0)>>),
   Conditional(0, <<On("X", 1, 0), On("X", 0, 0)>>)}

(* Enough for a qubit measured twice and tested.                           *)
TestedInstructions == {On("X", 1, 0), Measure(0), Conditional(0, <<On("X", 1, 0)>>)}

(* Pulses, what passes an OpenPulseVisitor and what does not.              *)
VisitedAnalogs ==
  {[op |-> "Pulse", bits |-> <<0, 0>>, enabled |-> TRUE, body |-> <<>>],
   On("Identity", 0, 0), On("X", 1, 0), On("Swap", 0, 1), Measure(0), Disabled(Measure(1)),
   On("GateFunction", 0, 0), Conditional(0, <<On("X", 1, 0)>>)}
=============================================================================
