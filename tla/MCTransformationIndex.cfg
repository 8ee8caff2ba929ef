SPECIFICATION Spec

CONSTANTS
  Gates <- MCGates
  Qubits <- MCQubits
  Couplers <- MCCouplers
  Programs <- Calls
  MaxTransforms = 2

INVARIANTS
  CnotIsAtIndex

CHECK_DEADLOCK FALSE
