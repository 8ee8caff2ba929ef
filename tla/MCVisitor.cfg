SPECIFICATION WalkSpec

CONSTANTS
  Qubits <- MCQubits
  Instructions <- VisitedInstructions
  MaxLength = 4
  Pulses = {"Pulse"}
  Analogs <- VisitedAnalogs

INVARIANTS
  TypeOK
  RegistersFollowSupports
  TextMeansKernel
  TextsAgree
  SupportsAreMeasures
  TranslatedFits

CHECK_DEADLOCK FALSE
