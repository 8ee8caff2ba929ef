-------------------------- MODULE IBMIRTransformation -----------------------
(***************************************************************************)
(* IBMIRTransformation::transform over the kernels of an IR, in place.     *)
(*                                                                         *)
(* Instructions are shared pointers: `instructions` is the heap, a pointer *)
(* is an index into it, a function is an instruction with a body of        *)
(* pointers.  The compiler inserts a called kernel itself, not a copy      *)
(* (OQASMToXACCListener::exitKernelcall), so kernels share instructions.   *)
(***************************************************************************)
EXTENDS Integers, SequencesExt

CONSTANTS
  Gates,        \* gates on one qubit, the Hadamard "H" among them
  Qubits,
  Couplers,     \* directed pairs on which the device has a CNOT
  Programs,     \* IRs before the first transform, see Program
  MaxTransforms \* bound: calls of transform on an IR

Gate == [op: Gates, bits: {<<q>> : q \in Qubits}, enabled: BOOLEAN, body: {<<>>}]
TwoQubitGate == [op: {"CNOT"}, bits: Qubits \X Qubits, enabled: BOOLEAN, body: {<<>>}]
Function == [op: {"Function"}, bits: {<<>>}, enabled: BOOLEAN, body: Seq(Nat)]
Instruction == Gate \union TwoQubitGate \union Function

WellFormed(heap, pointers) == \A i \in DOMAIN pointers : pointers[i] \in DOMAIN heap

(* A body points to what was compiled before it: kernels are completed one *)
(* after the other (exitXacckernel), and what a callback of the compiler   *)
(* creates it adds to one body, once; kernels alone are called repeatedly. *)
Unshared(heap) ==
  \A f, g \in DOMAIN heap : \A i \in DOMAIN heap[f].body, j \in DOMAIN heap[g].body :
    LET p == heap[f].body[i]
    IN  p = heap[g].body[j] /\ heap[p].op # "Function" => f = g /\ i = j
Program ==
  {p \in [instructions: Seq(Instruction), kernels: Seq(Nat)] :
     /\ WellFormed(p.instructions, p.kernels)
     /\ \A k \in DOMAIN p.kernels : p.instructions[p.kernels[k]].op = "Function"
     /\ \A k, l \in DOMAIN p.kernels : k < l => p.kernels[k] < p.kernels[l]
     /\ \A i \in DOMAIN p.instructions : \A j \in DOMAIN p.instructions[i].body :
          p.instructions[i].body[j] \in 1..(i - 1)
     /\ Unshared(p.instructions)}

ASSUME GatesAssumption == "H" \in Gates /\ {"CNOT", "Function"} \intersect Gates = {}
ASSUME CouplersAssumption == Couplers \subseteq Qubits \X Qubits
ASSUME ProgramsAssumption == Programs \subseteq Program
ASSUME BoundAssumption == MaxTransforms \in Nat

VARIABLES
  given,         \* the program as compiled (history)
  instructions,  \* the heap
  transforms,    \* calls of transform so far
  ir,            \* kernels transform has still to take
  newir,         \* kernels it has added to its result
  kernel,        \* the kernel at hand
  iterator,      \* the stack of its InstructionIterator, top first
  currentKernelInstructionIdx,
  pc             \* "idle", "loop", "walk", or "failed" in the framework

vars == <<given, instructions, transforms, ir, newir, kernel, iterator,
          currentKernelInstructionIdx, pc>>

(* The result of no transform yet is the compiler's IR.                    *)
Init ==
  /\ given \in Programs
  /\ instructions = given.instructions
  /\ transforms = 0
  /\ ir = <<>>
  /\ newir = given.kernels
  /\ kernel = 0
  /\ iterator = <<>>
  /\ currentKernelInstructionIdx = 0
  /\ pc = "idle"

-----------------------------------------------------------------------------
transform ==
  /\ pc = "idle"
  /\ transforms < MaxTransforms
  /\ transforms' = transforms + 1
  /\ ir' = newir
  /\ newir' = <<>>
  /\ pc' = "loop"
  /\ UNCHANGED <<given, instructions, kernel, iterator, currentKernelInstructionIdx>>

\* Variant: the index goes on where the kernel before left it.
IndexKept ==
  /\ pc = "loop"
  /\ ir # <<>>
  /\ kernel' = Head(ir)
  /\ iterator' = instructions[Head(ir)].body
  /\ ir' = Tail(ir)
  /\ pc' = "walk"
  /\ UNCHANGED <<given, instructions, transforms, newir, currentKernelInstructionIdx>>

TakeKernel ==
  /\ pc = "loop"
  /\ ir # <<>>
  /\ kernel' = Head(ir)
  /\ iterator' = instructions[Head(ir)].body
  /\ currentKernelInstructionIdx' = 0
  /\ ir' = Tail(ir)
  /\ pc' = "walk"
  /\ UNCHANGED <<given, instructions, transforms, newir>>

AddKernel ==
  /\ pc = "walk"
  /\ iterator = <<>>
  /\ newir' = Append(newir, kernel)
  /\ pc' = "loop"
  /\ UNCHANGED <<given, instructions, transforms, ir, kernel, iterator,
                 currentKernelInstructionIdx>>

Return ==
  /\ pc = "loop"
  /\ ir = <<>>
  /\ pc' = "idle"
  /\ UNCHANGED <<given, instructions, transforms, ir, newir, kernel, iterator,
                 currentKernelInstructionIdx>>

-----------------------------------------------------------------------------
nextInst == instructions[Head(iterator)]

(* One turn of the loop over a kernel; the children of a function are      *)
(* pushed as it is handed out.                                             *)
HandOut ==
  /\ pc = "walk"
  /\ iterator # <<>>
  /\ iterator' = nextInst.body \o Tail(iterator)
  /\ UNCHANGED <<given, transforms, ir, newir, kernel>>

isCouplingAvailable(src, tgt) == <<src, tgt>> \in Couplers

Visited(inst) == inst.op # "Function" /\ inst.enabled
Uncoupled(inst) == inst.op = "CNOT" /\ ~isCouplingAvailable(inst.bits[1], inst.bits[2])

PassOver ==
  /\ HandOut
  /\ ~Visited(nextInst)
  /\ UNCHANGED <<instructions, currentKernelInstructionIdx, pc>>

Keep ==
  /\ HandOut
  /\ Visited(nextInst)
  /\ ~Uncoupled(nextInst)
  /\ currentKernelInstructionIdx' = currentKernelInstructionIdx + 1
  /\ UNCHANGED <<instructions, pc>>

Enabled(op, bits) == [op |-> op, bits |-> bits, enabled |-> TRUE, body |-> <<>>]

\* Variant: the new CNOT is given one of its qubits.
HalfReversed(bits) ==
  <<Enabled("H", <<bits[1]>>), Enabled("H", <<bits[2]>>), Enabled("CNOT", <<bits[2]>>)>>

(* h0, h1 and revCnot.                                                     *)
Created(bits) ==
  <<Enabled("H", <<bits[1]>>), Enabled("H", <<bits[2]>>),
    Enabled("CNOT", <<bits[2], bits[1]>>)>>

(* removeInstruction and insertInstruction at i, counted from 0.           *)
Replaced(body, i, pointers) ==
  SubSeq(body, 1, i) \o pointers \o SubSeq(body, i + 2, Len(body))

(* visit(CNOT) without a coupling, and the rewriting of the kernel at the  *)
(* index it left the CNOT at, or so it takes it.                           *)
ReverseCNOT ==
  /\ HandOut
  /\ Visited(nextInst)
  /\ Uncoupled(nextInst)
  /\ currentKernelInstructionIdx < Len(instructions[kernel].body)
  /\ LET n == Len(instructions)
         newInstructions == <<n + 1, n + 2, n + 3, n + 1, n + 2>>
     IN  instructions' =
           [instructions EXCEPT
              ![Head(iterator)].enabled = FALSE,
              ![kernel].body = Replaced(@, currentKernelInstructionIdx, newInstructions)]
             \o Created(nextInst.bits)
  /\ currentKernelInstructionIdx' = currentKernelInstructionIdx + 5
  /\ UNCHANGED pc

(* The framework is asked for an instruction past the end of the kernel.   *)
ReverseOutside ==
  /\ HandOut
  /\ Visited(nextInst)
  /\ Uncoupled(nextInst)
  /\ currentKernelInstructionIdx >= Len(instructions[kernel].body)
  /\ pc' = "failed"
  /\ UNCHANGED <<instructions, currentKernelInstructionIdx>>

Next ==
  \/ transform \/ TakeKernel \/ AddKernel \/ Return
  \/ PassOver \/ Keep \/ ReverseCNOT \/ ReverseOutside

Spec == Init /\ [][Next]_vars

-----------------------------------------------------------------------------
(* Type invariant: pointers lead into the heap, gates have their qubits.   *)
TypeOK ==
  /\ given \in Program
  /\ instructions \in Seq(Instruction)
  /\ \A i \in DOMAIN instructions : WellFormed(instructions, instructions[i].body)
  /\ transforms \in 0..MaxTransforms
  /\ WellFormed(instructions, ir)
  /\ WellFormed(instructions, newir)
  /\ kernel \in {0} \union DOMAIN instructions
  /\ WellFormed(instructions, iterator)
  /\ currentKernelInstructionIdx \in Nat
  /\ pc \in {"idle", "loop", "walk", "failed"}
  /\ pc = "walk" => kernel # 0 /\ instructions[kernel].op = "Function"
  /\ \A k \in DOMAIN newir : instructions[newir[k]].op = "Function"

(* The gates a kernel performs, in order, calls included.                  *)
Performed(heap, k) ==
  LET gates[i \in DOMAIN heap] ==
        CASE heap[i].op = "Function" ->
               FlattenSeq([j \in DOMAIN heap[i].body |-> gates[heap[i].body[j]]])
          [] heap[i].op # "Function" /\ heap[i].enabled -> <<[op |-> heap[i].op, bits |-> heap[i].bits]>>
          [] OTHER -> <<>>
  IN  gates[k]

(* The same gates on the device: a CNOT that is available the other way    *)
(* only is turned round between Hadamards.                                 *)
OnDevice(gate) ==
  LET H(q) == [op |-> "H", bits |-> <<q>>]
      a == gate.bits[1]
      b == gate.bits[2]
  IN  IF gate.op # "CNOT" \/ <<a, b>> \in Couplers
        THEN <<gate>>
        ELSE <<H(a), H(b), [op |-> "CNOT", bits |-> <<b, a>>], H(a), H(b)>>

Rewritten(gates) == FlattenSeq([i \in DOMAIN gates |-> OnDevice(gates[i])])

(* What transform can rewrite: the kernels of a program run on the device  *)
(* one way or the other, and what comes before a CNOT to be turned round   *)
(* is enabled gates of the same kernel.                                    *)
Couplable(heap) ==
  \A i \in DOMAIN heap : heap[i].op = "CNOT" =>
    \/ <<heap[i].bits[1], heap[i].bits[2]>> \in Couplers
    \/ <<heap[i].bits[2], heap[i].bits[1]>> \in Couplers
NeedsReversal(inst) == inst.enabled /\ inst.op = "CNOT" /\ <<inst.bits[1], inst.bits[2]>> \notin Couplers
Straight(p, k) ==
  LET at(i) == p.instructions[p.instructions[k].body[i]]
  IN  \A i \in DOMAIN p.instructions[k].body : NeedsReversal(at(i)) =>
        \A j \in 1..i : at(j).enabled /\ at(j).op # "Function"
CallsKernels(p) ==
  \A i \in DOMAIN p.instructions : p.instructions[i].op = "Function" => i \in Range(p.kernels)
Rewritable(p) ==
  /\ Couplable(p.instructions)
  /\ CallsKernels(p)
  /\ \A k \in DOMAIN p.kernels : Straight(p, p.kernels[k])

(* The transformed IR has the given kernels in their order; each performs  *)
(* its gates, calls of other transformed kernels included, the CNOTs       *)
(* turned round where the device needs it and nothing else changed.  A     *)
(* second transform changes nothing.                                       *)
TransformedMeansGiven ==
  Rewritable(given) =>
    /\ pc # "failed"
    /\ pc = "idle" /\ transforms > 0 =>
         /\ newir = given.kernels
         /\ \A k \in DOMAIN newir :
              Performed(instructions, newir[k]) =
                Rewritten(Performed(given.instructions, given.kernels[k]))

(* "Here I know that this cnot is at the currentKernelInstructionIdx", of  *)
(* every CNOT about to be replaced.                                        *)
CnotIsAtIndex ==
  LET body == instructions[kernel].body
  IN  pc = "walk" /\ iterator # <<>> /\ Visited(nextInst) /\ Uncoupled(nextInst) =>
        /\ currentKernelInstructionIdx < Len(body)
        /\ body[currentKernelInstructionIdx + 1] = Head(iterator)
=============================================================================
