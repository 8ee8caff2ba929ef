SPECIFICATION Spec

CONSTANTS
  Backends <- MCBackends
  Simulators <- MCSimulators
  BackendNames <- MCBackendNames
  DefaultBackend = "sim"
  NoBackend = "none"
  Kernels <- SessionKernels
  BufferSize = 2
  DeviceSize = 3
  Outcomes <- OneOutcome
  MaxBatch = 2
  MaxCalls = 1

INVARIANTS
  BatchResultBitOrder
