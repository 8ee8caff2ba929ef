-------------------------- MODULE OpenPulseVisitor --------------------------
(***************************************************************************)
(* The loop of processInput over an analog kernel, whose visitor is an     *)
(* OpenPulseVisitor.  A kernel is analog or not as a whole, and a call's   *)
(* kernels all are or none is, so one walk meets one visitor only.         *)
(***************************************************************************)
EXTENDS OpenQasmVisitor

CONSTANTS
  Pulses,        \* classes of analog instructions; their visits are empty
  Analogs        \* what an analog kernel may hold

ASSUME AnalogsAssumption ==
  /\ Pulses \intersect (Gates \union TwoQubitGates \union Composites \union {"Measure"}) = {}
  /\ \A inst \in Analogs :
       inst \in Instruction \/ (inst.op \in Pulses /\ inst.enabled \in BOOLEAN)

VARIABLE analog  \* instructions the iterator has handed out of an analog kernel

walkVars == <<vars, analog>>

-----------------------------------------------------------------------------
\* Variant: visit(Measure) is as empty as visit(Identity).
MeasureIgnored(inst) ==
  inst.op \in (Gates \ {"Identity"}) \union TwoQubitGates

(* visit(Swap) visits CNOTs.  Identity, conditionals and functions pass    *)
(* without a trace.                                                        *)
NotAnalog(inst) ==
  inst.op \in (Gates \ {"Identity"}) \union TwoQubitGates \union {"Measure"}

AnalogTurn(inst) ==
  /\ kernel = <<>> /\ ~failed
  /\ Len(analog) < MaxLength
  /\ analog' = Append(analog, inst)
  /\ UNCHANGED <<kernel, visitor>>

SkipAnalog(inst) ==
  /\ AnalogTurn(inst)
  /\ ~inst.enabled
  /\ UNCHANGED <<supports, failed>>

RejectAnalog(inst) ==
  /\ AnalogTurn(inst)
  /\ inst.enabled /\ NotAnalog(inst)
  /\ failed' = TRUE
  /\ UNCHANGED supports

VisitAnalog(inst) ==
  /\ AnalogTurn(inst)
  /\ inst.enabled /\ ~NotAnalog(inst)
  /\ supports' = IF inst.op = "Measure" THEN Append(supports, inst.bits[1]) ELSE supports
  /\ UNCHANGED failed

WalkInit == Init /\ analog = <<>>

Walk ==
  \/ analog = <<>> /\ Next /\ UNCHANGED analog
  \/ \E inst \in Analogs : SkipAnalog(inst) \/ RejectAnalog(inst) \/ VisitAnalog(inst)

WalkSpec == WalkInit /\ [][Walk]_walkVars
-----------------------------------------------------------------------------
(* What processInput notes down of a kernel it accepts, processResponse    *)
(* looks for in the counts.  An analog kernel has none: a list of measured *)
(* qubits is of a digital kernel, a qubit for each enabled Measure of it,  *)
(* and neither kind of visitor lets one pass unseen.  (processInput,       *)
(* IBMAccelerator.cpp:387-394, with the visits at OpenPulseVisitor.hpp:107 *)
(* and OpenQasmVisitor.hpp:173.)                                           *)
SupportsAreMeasures ==
  ~failed =>
    Len(supports) = Cardinality({i \in DOMAIN visitor.operations :
                                   visitor.operations[i].name = "Measure"})
=============================================================================
