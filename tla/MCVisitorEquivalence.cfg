SPECIFICATION WalkSpec

CONSTANTS
  Qubits <- MCQubits
  Instructions <- TestedInstructions
  MaxLength = 4
  Pulses = {"Pulse"}
  Analogs <- VisitedAnalogs

INVARIANTS
  TextIsEquivalent

CHECK_DEADLOCK FALSE
