SPECIFICATION MCSpec

CONSTANTS
  Texts <- MCTexts
  Lines <- MCLines
  Garbage = Garbage
  Unset = Unset
  NoHome = NoHome
  BackendNames = {"sim", "dev", "typo"}
  DefaultBackend = "sim"
  Backends = {"sim", "dev"}
  Simulators = {"sim"}
  NoBackend = NoBackend
  Absent = Absent
  QubitCounts = {2, 3}
  Rates = {"r1", "r2", "r3", "r4", "r5"}

INVARIANTS
  TypeOK
  CredentialsOfOneSource
  SettingsFromOwnLines
  CatalogOfListing
  
  RatesOfDevice

PROPERTIES
  ImplementsInitialize

CHECK_DEADLOCK FALSE
