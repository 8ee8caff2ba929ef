SPECIFICATION Spec

CONSTANTS
  Kernels <- MCKernels
  BufferSize = 3
  Outcomes <- MCOutcomes
  MaxBatch = 2
  MaxCalls = 3

INVARIANTS
  TypeOK
  SupportsOfThisCall
  AnswersFaithful

CHECK_DEADLOCK FALSE
