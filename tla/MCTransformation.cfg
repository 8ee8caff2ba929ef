SPECIFICATION Spec

CONSTANTS
  Gates <- MCGates
  Qubits <- MCQubits
  Couplers <- MCCouplers
  Programs <- AllPrograms
  MaxTransforms = 2

INVARIANTS
  TypeOK
  TransformedMeansGiven

CHECK_DEADLOCK FALSE
