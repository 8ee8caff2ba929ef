SPECIFICATION MCSpec

CONSTANTS
  Backends <- MCBackends
  Simulators <- MCSimulators
  BackendNames <- MCBackendNames
  DefaultBackend = "sim"
  NoBackend = "none"
  Kernels <- MCKernels
  BufferSize = 3
  DeviceSize = 4
  Outcomes <- MCOutcomes
  MaxBatch = 2
  MaxCalls = 2

INVARIANTS
  TypeOK
  SupportsMatchCall
  ExtraInfoOfJob
  OneAnswerPerJob
  SingleResultFaithful
  BatchResultsFaithful
  LabelsRightWhileBatchRepeats

PROPERTIES
  EveryCallEnds
  ImplementsContract
