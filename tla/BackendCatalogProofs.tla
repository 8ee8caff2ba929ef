------------------------ MODULE BackendCatalogProofs ------------------------
(***************************************************************************)
(* What holds of initialize() for every environment, every file and every  *)
(* list of devices; and that request by request it implements the step a   *)
(* session takes for it.                                                   *)
(***************************************************************************)
EXTENDS BackendSession, TLAPS

Stages == {"idle", "search", "read", "check", "device", "ready", "exited", "crashed",
           "refused"} \cup Requests

-----------------------------------------------------------------------------
(* Settings *)

LEMMA SettingIn == ASSUME NEW line PROVE Setting(line) \in Settings
BY Zenon DEF Setting, Settings

LEMMA LineFacts ==
    ASSUME lines \in File, lines # <<>>
    PROVE  /\ Head(lines) \in Lines /\ Tail(lines) \in File
           /\ Head(lines).pieces \in Seq(Texts)
<1>1. Head(lines) \in Lines /\ Tail(lines) \in File
  BY SMT DEF File
<1>2. Head(lines) \in Line
  BY <1>1, LinesAssumption, Zenon
<1> QED
  BY <1>1, <1>2, SMT DEF Line

(* What is stored of a line that has enough pieces are pieces of it *)
LEMMA ValueFacts ==
    ASSUME NEW line, line.pieces \in Seq(Texts), ~ Short(line)
    PROVE  /\ Value(line) \in Seq(Texts)
           /\ \A i \in DOMAIN Value(line) :
                Value(line)[i] \in {line.pieces[j] : j \in DOMAIN line.pieces}
<1> DEFINE n == 1 + Pieces(Setting(line))
           cut == SubSeq(line.pieces, 2, n)
<1>1. n \in Nat /\ n >= 2 /\ n <= Len(line.pieces)
  <2>1. Pieces(Setting(line)) \in {1, 2}
    BY Zenon DEF Pieces
  <2> QED
    BY <2>1, SMT DEF Short
<1>2. /\ cut \in Seq(Texts)
      /\ \A i \in DOMAIN cut : cut[i] = line.pieces[i + 1] /\ i + 1 \in DOMAIN line.pieces
  <2> HIDE DEF n
  <2> QED
    BY <1>1, SMT
<1>3. <<>> \in Seq(Texts) /\ DOMAIN <<>> = {}
  BY SMT
<1>4. Value(line) = cut \/ Value(line) = <<>>
  BY Zenon DEF Value, Trimmed
<1> QED
  BY <1>2, <1>3, <1>4, Zenon

LEMMA AssignedFacts ==
    ASSUME NEW set, NEW line, NEW value \in set, NEW c \in [Settings -> set]
    PROVE  [c EXCEPT ![Setting(line)] = value] \in [Settings -> set]
BY SettingIn, Zenon

-----------------------------------------------------------------------------
(* Types of what the search changes *)

Values == Seq(Texts \cup {Garbage})

LEMMA OptionValues ==
    ASSUME SourcesTypeOK
    PROVE  [setting \in Settings |->
              IF options[setting] \in {Unset, ""} THEN <<>> ELSE <<options[setting]>>]
                \in [Settings -> Values]
<1>1. <<>> \in Values /\ \A t \in Texts : <<t>> \in Values
  BY SMT DEF Values
<1>2. ASSUME NEW setting \in Settings
      PROVE  (IF options[setting] \in {Unset, ""} THEN <<>> ELSE <<options[setting]>>) \in Values
  BY <1>1, Zenon DEF SourcesTypeOK
<1> QED
  BY <1>2, Zenon

LEMMA SearchType ==
    ASSUME SearchTypeOK, stage \in Stages, searchAPIKey
    PROVE  /\ SearchTypeOK' /\ stage' \in Stages
           /\ UNCHANGED sources
           /\ stage \in {"search", "read", "check"}
           /\ stage' \notin {"calibration", "parameters"}
<1>1. UNCHANGED sources /\ SourcesTypeOK'
  <2>1. UNCHANGED sources
    BY Zenon DEF searchAPIKey, SearchWithoutHome, SearchFile, SearchOptions, ReadLine, ReadBeyond,
              EndOfFile, KeyFound, KeyEmpty, Ended, Assigned
  <2> QED
    BY <2>1, Zenon DEF sources, SearchTypeOK, SourcesTypeOK, File
<1>2. Seq(Texts) \subseteq Values /\ <<Garbage>> \in Values
  BY SMT DEF Values
<1>3. CASE SearchWithoutHome
  BY <1>1, <1>3, Zenon DEF SearchWithoutHome, Ended, SearchTypeOK, Stages, File
<1>4. CASE SearchFile
  <2>1. FileOf \in File
    BY <1>4, Zenon DEF SearchFile, FileOf, SearchTypeOK, SourcesTypeOK
  <2> QED
    BY <1>1, <1>4, <2>1, Zenon DEF SearchFile, SearchTypeOK, Stages, File
<1>5. CASE SearchOptions
  <2>1. credentials' \in [Settings -> Values]
    BY <1>5, OptionValues, Zenon DEF SearchOptions, Ended, SearchTypeOK, Values
  <2> QED
    BY <1>1, <1>5, <2>1, Zenon DEF SearchOptions, Ended, SearchTypeOK, Stages, File, Values
<1>6. ASSUME stage = "read", lines # <<>>, NEW value \in Values, Assigned(Head(lines), value)
      PROVE  SearchTypeOK' /\ stage' = "read"
  <2>1. credentials' \in [Settings -> Values]
    BY <1>6, AssignedFacts, Zenon DEF Assigned, SearchTypeOK, Values
  <2>2. lines' \in File
    BY <1>6, LineFacts, Zenon DEF Assigned, SearchTypeOK
  <2> QED
    BY <1>1, <1>6, <2>1, <2>2, Zenon DEF SearchTypeOK, Assigned, File, Values
<1>7. CASE ReadLine
  <2>1. CASE Head(lines).found = {} /\ lines' = Tail(lines) /\ UNCHANGED <<sources, stage, credentials>>
    BY <1>1, <1>7, <2>1, LineFacts, Zenon DEF ReadLine, SearchTypeOK, File
  <2>2. CASE ~ Short(Head(lines)) /\ Assigned(Head(lines), Value(Head(lines)))
    <3>1. Value(Head(lines)) \in Values
      BY <1>2, <1>7, <2>2, LineFacts, ValueFacts, Zenon DEF ReadLine, SearchTypeOK
    <3> QED
      BY <1>1, <1>6, <1>7, <2>2, <3>1, Zenon DEF ReadLine, Stages
  <2> QED
    BY <1>7, <2>1, <2>2, Zenon DEF ReadLine
<1>8. CASE ReadBeyond
  <2>1. CASE Ended("crashed")
    BY <1>1, <1>8, <2>1, Zenon DEF ReadBeyond, Ended, SearchTypeOK, Stages, File
  <2>2. CASE Assigned(Head(lines), <<Garbage>>)
    BY <1>1, <1>2, <1>6, <1>8, <2>2, Zenon DEF ReadBeyond, Stages
  <2> QED
    BY <1>8, <2>1, <2>2, Zenon DEF ReadBeyond
<1>9. CASE EndOfFile \/ KeyFound \/ KeyEmpty
  BY <1>1, <1>9, Zenon DEF EndOfFile, KeyFound, KeyEmpty, Ended, SearchTypeOK, Stages, Requests, File
<1> QED
  BY <1>3, <1>4, <1>5, <1>7, <1>8, <1>9, Zenon DEF searchAPIKey

-----------------------------------------------------------------------------
(* Types of the catalogue *)

LEMMA NewBackendType == NewBackend \in IBMBackends
<1>1. <<>> \in Seq(Pairs) /\ <<>> \in Seq(Rates) /\ <<>> \in Seq([qubits : Seq(Nat), error : Rates])
  BY SMT
<1> QED
  BY <1>1, SMT DEF NewBackend, IBMBackends

LEMMA DeviceRecord ==
    ASSUME NEW A, NEW B, NEW C, NEW D, NEW E, NEW F, NEW G,
           NEW d \in [name : A, on : B, simulator : B, nQubits : C, couplingMap : D,
                      calibratedQubits : E, multiQubitGates : F, parameters : G]
    PROVE  /\ d.name \in A /\ d.on \in B /\ d.simulator \in B /\ d.nQubits \in C
           /\ d.couplingMap \in D /\ d.calibratedQubits \in E /\ d.multiQubitGates \in F
           /\ d.parameters \in G
BY SMT

LEMMA MemberTypes ==
    ASSUME NEW device \in Device
    PROVE  /\ device.name \in BackendNames
           /\ device.on \in BOOLEAN /\ device.simulator \in BOOLEAN
           /\ device.couplingMap \in Seq(Pairs) \cup {Absent}
           /\ device.calibratedQubits \in Seq(Rates) \cup {Absent}
           /\ device.multiQubitGates \in Seq([qubits : Seq(Nat), error : Rates]) \cup {Absent}
           /\ device.parameters \in Seq(Rates) \cup {Absent}
BY DeviceRecord, Zenon DEF Device

(* Assigning one member of an IBMBackend *)
LEMMA MembersAssigned ==
    ASSUME NEW A, NEW B, NEW C, NEW D, NEW E, NEW F, NEW G, NEW H,
           NEW d \in [name : A, nQubits : B, couplers : C, status : D, isSimulator : E,
            gateErrors : F, multiQubitGates : G, T1s : H]
    PROVE  /\ \A x \in A : [d EXCEPT !.name = x] \in [name : A, nQubits : B, couplers : C, status : D, isSimulator : E,
            gateErrors : F, multiQubitGates : G, T1s : H] /\ [d EXCEPT !.name = x].name = x
           /\ \A x \in B : [d EXCEPT !.nQubits = x] \in [name : A, nQubits : B, couplers : C, status : D, isSimulator : E,
                                gateErrors : F, multiQubitGates : G, T1s : H]
                 /\ [d EXCEPT !.nQubits = x].name = d.name
           /\ \A x \in C : [d EXCEPT !.couplers = x] \in [name : A, nQubits : B, couplers : C, status : D, isSimulator : E,
                                gateErrors : F, multiQubitGates : G, T1s : H]
                 /\ [d EXCEPT !.couplers = x].name = d.name
           /\ \A x \in D : [d EXCEPT !.status = x] \in [name : A, nQubits : B, couplers : C, status : D, isSimulator : E,
                                gateErrors : F, multiQubitGates : G, T1s : H]
                 /\ [d EXCEPT !.status = x].name = d.name
           /\ \A x \in E : [d EXCEPT !.isSimulator = x] \in [name : A, nQubits : B, couplers : C, status : D, isSimulator : E,
                                gateErrors : F, multiQubitGates : G, T1s : H]
                 /\ [d EXCEPT !.isSimulator = x].name = d.name
           /\ \A x \in F : [d EXCEPT !.gateErrors = x] \in [name : A, nQubits : B, couplers : C, status : D, isSimulator : E,
                                gateErrors : F, multiQubitGates : G, T1s : H]
                 /\ [d EXCEPT !.gateErrors = x].name = d.name
           /\ \A x \in G : [d EXCEPT !.multiQubitGates = x] \in [name : A, nQubits : B, couplers : C, status : D, isSimulator : E,
                                gateErrors : F, multiQubitGates : G, T1s : H]
                 /\ [d EXCEPT !.multiQubitGates = x].name = d.name
           /\ \A x \in H : [d EXCEPT !.T1s = x] \in [name : A, nQubits : B, couplers : C, status : D, isSimulator : E,
                                gateErrors : F, multiQubitGates : G, T1s : H]
                 /\ [d EXCEPT !.T1s = x].name = d.name
<1>1. ASSUME NEW x \in A
      PROVE  [d EXCEPT !.name = x] \in [name : A, nQubits : B, couplers : C, status : D, isSimulator : E,
            gateErrors : F, multiQubitGates : G, T1s : H] /\ [d EXCEPT !.name = x].name = x
  BY SMT
<1>2. ASSUME NEW x \in B
      PROVE  [d EXCEPT !.nQubits = x] \in [name : A, nQubits : B, couplers : C, status : D, isSimulator : E,
            gateErrors : F, multiQubitGates : G, T1s : H] /\ [d EXCEPT !.nQubits = x].name = d.name
  BY SMT
<1>3. ASSUME NEW x \in C
      PROVE  [d EXCEPT !.couplers = x] \in [name : A, nQubits : B, couplers : C, status : D, isSimulator : E,
            gateErrors : F, multiQubitGates : G, T1s : H] /\ [d EXCEPT !.couplers = x].name = d.name
  BY SMT
<1>4. ASSUME NEW x \in D
      PROVE  [d EXCEPT !.status = x] \in [name : A, nQubits : B, couplers : C, status : D, isSimulator : E,
            gateErrors : F, multiQubitGates : G, T1s : H] /\ [d EXCEPT !.status = x].name = d.name
  BY SMT
<1>5. ASSUME NEW x \in E
      PROVE  [d EXCEPT !.isSimulator = x] \in [name : A, nQubits : B, couplers : C, status : D, isSimulator : E,
            gateErrors : F, multiQubitGates : G, T1s : H] /\ [d EXCEPT !.isSimulator = x].name = d.name
  BY SMT
<1>6. ASSUME NEW x \in F
      PROVE  [d EXCEPT !.gateErrors = x] \in [name : A, nQubits : B, couplers : C, status : D, isSimulator : E,
            gateErrors : F, multiQubitGates : G, T1s : H] /\ [d EXCEPT !.gateErrors = x].name = d.name
  BY SMT
<1>7. ASSUME NEW x \in G
      PROVE  [d EXCEPT !.multiQubitGates = x] \in [name : A, nQubits : B, couplers : C, status : D, isSimulator : E,
            gateErrors : F, multiQubitGates : G, T1s : H] /\ [d EXCEPT !.multiQubitGates = x].name = d.name
  BY SMT
<1>8. ASSUME NEW x \in H
      PROVE  [d EXCEPT !.T1s = x] \in [name : A, nQubits : B, couplers : C, status : D, isSimulator : E,
            gateErrors : F, multiQubitGates : G, T1s : H] /\ [d EXCEPT !.T1s = x].name = d.name
  BY SMT
<1> QED
  BY <1>1, <1>2, <1>3, <1>4, <1>5, <1>6, <1>7, <1>8, Zenon

LEMMA BackendAssigned ==
    ASSUME NEW made \in IBMBackends
    PROVE  /\ \A x \in BackendNames \cup {""} : [made EXCEPT !.name = x] \in IBMBackends
                                              /\ [made EXCEPT !.name = x].name = x
           /\ \A x \in Nat : [made EXCEPT !.nQubits = x] \in IBMBackends
                                /\ [made EXCEPT !.nQubits = x].name = made.name
           /\ \A x \in Seq(Pairs) : [made EXCEPT !.couplers = x] \in IBMBackends
                                /\ [made EXCEPT !.couplers = x].name = made.name
           /\ \A x \in BOOLEAN : [made EXCEPT !.status = x] \in IBMBackends
                                /\ [made EXCEPT !.status = x].name = made.name
           /\ \A x \in BOOLEAN : [made EXCEPT !.isSimulator = x] \in IBMBackends
                                /\ [made EXCEPT !.isSimulator = x].name = made.name
           /\ \A x \in Seq(Rates) : [made EXCEPT !.gateErrors = x] \in IBMBackends
                                /\ [made EXCEPT !.gateErrors = x].name = made.name
           /\ \A x \in Seq([qubits : Seq(Nat), error : Rates]) : [made EXCEPT !.multiQubitGates = x] \in IBMBackends
                                /\ [made EXCEPT !.multiQubitGates = x].name = made.name
           /\ \A x \in Seq(Rates) : [made EXCEPT !.T1s = x] \in IBMBackends
                                /\ [made EXCEPT !.T1s = x].name = made.name
BY MembersAssigned, ZenonT(40) DEF IBMBackends

LEMMA DeviceFacts ==
    ASSUME devices \in Seq(Device), devices # <<>>
    PROVE  /\ Head(devices) \in Device /\ Tail(devices) \in Seq(Device)
           /\ Head(devices).name \in BackendNames
<1>1. Head(devices) \in Device /\ Tail(devices) \in Seq(Device)
  BY SMT
<1> QED
  BY <1>1, MemberTypes, Zenon

LEMMA ListedType ==
    ASSUME NEW device \in Device, NEW qubits \in QubitCounts
    PROVE  /\ Listed(device, qubits) \in IBMBackends
           /\ Listed(device, qubits).name = device.name
<1>1. /\ device.name \in BackendNames /\ device.on \in BOOLEAN /\ device.simulator \in BOOLEAN
      /\ device.couplingMap \in Seq(Pairs) \cup {Absent}
  BY MemberTypes, Zenon
<1> DEFINE couplers == IF device.simulator THEN <<>> ELSE Member(device.couplingMap)
<1>2. couplers \in Seq(Pairs)
  <2>1. <<>> \in Seq(Pairs)
    BY SMT
  <2> QED
    BY <1>1, <2>1, Zenon DEF Member
<1>3. /\ Listed(device, qubits) =
            [NewBackend EXCEPT !.name = device.name, !.nQubits = qubits, !.status = device.on,
                               !.isSimulator = device.simulator, !.couplers = couplers]
  BY Zenon DEF Listed
<1>4. qubits \in Nat
  BY NamesAssumption, Zenon
<1> DEFINE b1 == [NewBackend EXCEPT !.name = device.name]
           b2 == [b1 EXCEPT !.nQubits = qubits]
           b3 == [b2 EXCEPT !.status = device.on]
           b4 == [b3 EXCEPT !.isSimulator = device.simulator]
           b5 == [b4 EXCEPT !.couplers = couplers]
<1>5. Listed(device, qubits) = b5
  BY <1>3, Zenon
<1> HIDE DEF couplers
<1>6. b1 \in IBMBackends /\ b1.name = device.name
  BY <1>1, NewBackendType, BackendAssigned, Zenon
<1> HIDE DEF b1
<1>7. b2 \in IBMBackends /\ b2.name = b1.name
  BY <1>4, <1>6, BackendAssigned, Zenon
<1> HIDE DEF b2
<1>8. b3 \in IBMBackends /\ b3.name = b2.name
  BY <1>1, <1>7, BackendAssigned, Zenon
<1> HIDE DEF b3
<1>9. b4 \in IBMBackends /\ b4.name = b3.name
  BY <1>1, <1>8, BackendAssigned, Zenon
<1> HIDE DEF b4
<1>10. b5 \in IBMBackends /\ b5.name = b4.name
  BY <1>2, <1>9, BackendAssigned, Zenon
<1> QED
  BY <1>5, <1>6, <1>7, <1>8, <1>9, <1>10, Zenon

LEMMA CalibratedType ==
    ASSUME NEW made \in IBMBackends, NEW e \in Seq(Rates),
           NEW g \in Seq([qubits : Seq(Nat), error : Rates])
    PROVE  LET filled == [made EXCEPT !.gateErrors = e, !.multiQubitGates = g]
           IN  filled \in IBMBackends /\ filled.name = made.name
<1>1. [made EXCEPT !.gateErrors = e] \in IBMBackends /\ [made EXCEPT !.gateErrors = e].name = made.name
  BY BackendAssigned, Zenon
<1> DEFINE half == [made EXCEPT !.gateErrors = e]
<1>2. [half EXCEPT !.multiQubitGates = g] \in IBMBackends
      /\ [half EXCEPT !.multiQubitGates = g].name = half.name
  <2> HIDE DEF half
  <2>1. half \in IBMBackends
    BY <1>1, Zenon DEF half
  <2> QED
    BY <2>1, BackendAssigned, Zenon
<1> QED
  BY <1>1, <1>2, Zenon

LEMMA ParametersType ==
    ASSUME NEW made \in IBMBackends, NEW t \in Seq(Rates)
    PROVE  [made EXCEPT !.T1s = t] \in IBMBackends /\ [made EXCEPT !.T1s = t].name = made.name
BY BackendAssigned, Zenon

Kept(catalog) ==
    /\ DOMAIN catalog \subseteq BackendNames
    /\ \A name \in DOMAIN catalog : catalog[name] \in IBMBackends /\ catalog[name].name = name

LEMMA InsertType ==
    ASSUME Kept(availableBackends), NEW made \in IBMBackends, made.name \in BackendNames
    PROVE  Kept(insert(made))
BY Zenon DEF Kept, insert

-----------------------------------------------------------------------------
(* Type correctness *)

LEMMA TypeInit == Init => TypeOK
<1> SUFFICES ASSUME Init PROVE TypeOK
  OBVIOUS
<1>1. <<>> \in File /\ <<>> \in Values /\ <<>> \in Seq(Device)
  BY SMT DEF File, Values
<1>2. SearchTypeOK
  <2>1. credentials \in [Settings -> Values]
    BY <1>1, Zenon DEF Init, SearchInit, NoCredentials
  <2> QED
    BY <1>1, <2>1, Zenon DEF Init, SearchInit, SearchTypeOK, Values
<1>3. DOMAIN availableBackends = {}
  BY Zenon DEF Init
<1> QED
  BY <1>1, <1>2, <1>3, NewBackendType, Zenon DEF Init, TypeOK, Requests

LEMMA TypeNext == TypeOK /\ [Next]_setupVars => TypeOK'
<1> SUFFICES ASSUME TypeOK, [Next]_setupVars PROVE TypeOK'
  OBVIOUS
<1> USE DEF Kept
<1>1. ASSUME UNCHANGED <<sources, lines, credentials>> PROVE SearchTypeOK'
  BY <1>1, Zenon DEF TypeOK, SearchTypeOK, SourcesTypeOK, sources, File
<1>2. CASE UNCHANGED setupVars
  <2>1. /\ UNCHANGED <<sources, lines, credentials>> /\ UNCHANGED <<stage, listing, option>>
        /\ UNCHANGED <<devices, backend, availableBackends, chosenBackend, initialized>>
    BY <1>2, Zenon DEF setupVars, searchVars, catalogVars
  <2>2. /\ stage' = stage /\ listing' = listing /\ option' = option /\ devices' = devices
        /\ backend' = backend /\ availableBackends' = availableBackends
        /\ chosenBackend' = chosenBackend /\ initialized' = initialized /\ SearchTypeOK'
    BY <1>1, <2>1, Zenon
  <2>3. Kept(availableBackends)'
    BY <2>2, Zenon DEF TypeOK, IBMBackends
  <2>4. stage' \in {"calibration", "parameters"} => devices' # <<>> /\ backend'.name = Head(devices').name
    BY <2>2, Zenon DEF TypeOK
  <2>5. /\ backend' \in IBMBackends /\ chosenBackend' \in IBMBackends
        /\ listing' \in Seq(Device) /\ devices' \in Seq(Device)
        /\ initialized' \in BOOLEAN /\ option' \in BackendNames \cup {NoBackend}
    BY <2>2, Zenon DEF TypeOK
  <2> QED
    BY <2>2, <2>3, <2>4, <2>5, Zenon DEF TypeOK, IBMBackends, Requests
<1>3. CASE CallInitialize
  BY <1>1, <1>3, Zenon DEF TypeOK, CallInitialize, catalogVars, IBMBackends, Requests
<1>4. CASE Search
  BY <1>4, SearchType, Zenon DEF TypeOK, Search, catalogVars, IBMBackends, Requests, Stages
<1>5. CASE RequestFailed \/ QueryRefused
  BY <1>1, <1>5, ZenonT(40) DEF TypeOK, RequestFailed, QueryRefused, Ended, catalogVars, IBMBackends, Requests
<1>6. CASE Login
  BY <1>1, <1>6, Zenon DEF TypeOK, Login, catalogVars, IBMBackends, Requests
<1>7. CASE ListDevices
  BY <1>1, <1>7, Zenon DEF TypeOK, ListDevices, IBMBackends, Requests
<1>8. CASE TakeDevice
  <2>1. PICK qubits \in QubitCounts :
          LET made == Listed(Head(devices), qubits) IN
            IF ~ Head(devices).simulator /\ credentials["hub"] # <<>>
            THEN /\ backend' = made /\ stage' = "calibration"
                 /\ UNCHANGED <<devices, availableBackends>>
            ELSE /\ availableBackends' = insert(made)
                 /\ devices' = Tail(devices)
                 /\ UNCHANGED <<backend, stage>>
    BY <1>8, Zenon DEF TakeDevice
  <2> DEFINE made == Listed(Head(devices), qubits)
  <2>2. /\ Head(devices) \in Device /\ Tail(devices) \in Seq(Device)
        /\ Head(devices).name \in BackendNames
        /\ stage = "device" /\ devices # <<>>
    BY <1>8, DeviceFacts, Zenon DEF TakeDevice, TypeOK
  <2>3. made \in IBMBackends /\ made.name = Head(devices).name
    BY <2>2, ListedType, Zenon
  <2>4. Kept(insert(made))
    BY <2>2, <2>3, InsertType, Zenon DEF TypeOK
  <2> HIDE DEF made
  <2>5. /\ UNCHANGED <<sources, lines, credentials, chosenBackend, initialized, listing, option>>
        /\ SearchTypeOK'
    BY <1>1, <1>8, Zenon DEF TakeDevice
  <2>6. CASE /\ backend' = made /\ stage' = "calibration"
             /\ UNCHANGED <<devices, availableBackends>>
    BY <2>2, <2>3, <2>5, <2>6, Zenon DEF TypeOK, IBMBackends, Requests
  <2>7. CASE /\ availableBackends' = insert(made) /\ devices' = Tail(devices)
             /\ UNCHANGED <<backend, stage>>
    BY <2>2, <2>4, <2>5, <2>7, Zenon DEF TypeOK, IBMBackends, Requests
  <2> QED
    BY <2>1, <2>6, <2>7, Zenon DEF made
<1>9. CASE Calibrate
  <2>1. /\ Head(devices) \in Device /\ devices # <<>> /\ stage = "calibration"
        /\ backend \in IBMBackends
    BY <1>9, DeviceFacts, Zenon DEF Calibrate, TypeOK
  <2>2. backend' \in IBMBackends /\ backend'.name = backend.name
    <3>1. /\ Head(devices).calibratedQubits # Absent => Head(devices).calibratedQubits \in Seq(Rates)
          /\ Head(devices).multiQubitGates # Absent =>
                Head(devices).multiQubitGates \in Seq([qubits : Seq(Nat), error : Rates])
      BY <2>1, MemberTypes, Zenon
    <3> QED
      BY <1>9, <2>1, <3>1, CalibratedType, Zenon DEF Calibrate
  <2> QED
    BY <1>1, <1>9, <2>1, <2>2, Zenon DEF TypeOK, Calibrate, IBMBackends, Requests
<1>10. CASE TakeParameters
  <2>1. /\ Head(devices) \in Device /\ Tail(devices) \in Seq(Device)
        /\ Head(devices).name \in BackendNames
        /\ backend \in IBMBackends /\ backend.name = Head(devices).name
    BY <1>10, DeviceFacts, Zenon DEF TakeParameters, TypeOK
  <2>2. Member(Head(devices).parameters) \in Seq(Rates)
    <3>1. Head(devices).parameters \in Seq(Rates) \cup {Absent}
      BY <2>1, MemberTypes, Zenon
    <3>2. <<>> \in Seq(Rates)
      BY SMT
    <3> QED
      BY <3>1, <3>2, Zenon DEF Member
  <2>3. backend' \in IBMBackends /\ backend'.name = Head(devices).name
    BY <1>10, <2>1, <2>2, ParametersType, Zenon DEF TakeParameters
  <2>4. Kept(insert(backend'))
    BY <2>1, <2>3, InsertType, Zenon DEF TypeOK
  <2>5. availableBackends' = insert(backend')
    BY <1>10, Zenon DEF TakeParameters
  <2>6. /\ UNCHANGED <<sources, lines, credentials, chosenBackend, initialized, listing, option>>
        /\ stage' = "device" /\ devices' = Tail(devices) /\ SearchTypeOK'
    BY <1>1, <1>10, Zenon DEF TakeParameters
  <2> QED
    BY <2>1, <2>3, <2>4, <2>5, <2>6, Zenon DEF TypeOK, IBMBackends, Requests
<1>11. CASE FinishInitialize
  <2>1. chosenBackend' \in IBMBackends
    BY <1>11, Zenon DEF FinishInitialize, Usable, Chosen, TypeOK
  <2>2. stage' \in {"ready", "exited"} /\ initialized' \in BOOLEAN
    BY <1>11, Zenon DEF FinishInitialize
  <2> QED
    BY <1>1, <1>11, <2>1, <2>2, Zenon DEF TypeOK, FinishInitialize, IBMBackends, Requests
<1>12. ASSUME NEW name \in BackendNames \cup {NoBackend}, SetOption(name) PROVE TypeOK'
  BY <1>12, <1>1, Zenon DEF TypeOK, SetOption, searchVars, catalogVars, IBMBackends, Requests
<1> QED
  BY <1>2, <1>3, <1>4, <1>5, <1>6, <1>7, <1>8, <1>9, <1>10, <1>11, <1>12, Zenon DEF Next

(* Every member is of its kind and every backend is under its own name, whatever *)
(* the files say and whatever the service lists.  (initialize, :134.)             *)
THEOREM SetupTypeCorrect == Spec => []TypeOK
<1> QED
  BY TypeInit, TypeNext, PTL DEF Spec

-----------------------------------------------------------------------------
(* One source: the lines to come are the file's, so every piece that is stored *)
(* is one of the source                                                        *)

Spoken(line) == \A j \in DOMAIN line.pieces : line.pieces[j] \in Said

SourceInv ==
    /\ stage \in {"idle", "search"} => credentials = NoCredentials
    /\ stage = "read" => /\ home # NoHome /\ FileOf # Unset
                         /\ \A i \in DOMAIN lines : Spoken(lines[i])
    /\ CredentialsOfOneSource

Uttered(value) == \A i \in DOMAIN value : value[i] \in Said

LEMMA UtteredFacts ==
    /\ Uttered(<<>>)
    /\ \A word \in Said : Uttered(<<word>>)
<1>1. DOMAIN <<>> = {} /\ \A word : DOMAIN <<word>> = {1} /\ <<word>>[1] = word
  BY SMT
<1> QED
  BY <1>1, Zenon DEF Uttered

LEMMA SaidUnchanged == ASSUME UNCHANGED sources PROVE Said' = Said
<1>1. home' = home /\ config' = config /\ options' = options
  BY Zenon DEF sources
<1>2. FileOf' = FileOf
  BY <1>1, Zenon DEF FileOf
<1>3. Mentioned(FileOf)' = Mentioned(FileOf)
  BY <1>2, Zenon
<1>4. Optional' = Optional
  BY <1>1, Zenon DEF Optional
<1> QED
  BY <1>1, <1>2, <1>3, <1>4, SMT DEF Said

LEMMA LinesOfSource ==
    ASSUME SourcesTypeOK, home # NoHome, FileOf # Unset
    PROVE  /\ \A i \in DOMAIN FileOf : Spoken(FileOf[i])
           /\ Garbage \in Said
<1>1. Said = Mentioned(FileOf) \cup {Garbage}
  BY Zenon DEF Said
<1>2. ASSUME NEW i \in DOMAIN FileOf, NEW j \in DOMAIN FileOf[i].pieces
      PROVE  FileOf[i].pieces[j] \in Mentioned(FileOf)
  <2> DEFINE words == {FileOf[i].pieces[k] : k \in DOMAIN FileOf[i].pieces}
  <2>1. FileOf[i].pieces[j] \in words
    BY Zenon
  <2>2. words \in {{FileOf[k].pieces[n] : n \in DOMAIN FileOf[k].pieces} : k \in DOMAIN FileOf}
    BY Zenon
  <2> HIDE DEF words
  <2> QED
    BY <2>1, <2>2, Zenon DEF Mentioned
<1> QED
  BY <1>1, <1>2, Zenon DEF Spoken

LEMMA LinesLeft ==
    ASSUME lines \in File, lines # <<>>, \A i \in DOMAIN lines : Spoken(lines[i])
    PROVE  /\ Spoken(Head(lines))
           /\ \A i \in DOMAIN Tail(lines) : Spoken(Tail(lines)[i])
<1>1. /\ 1 \in DOMAIN lines /\ Head(lines) = lines[1]
      /\ \A i \in DOMAIN Tail(lines) : i + 1 \in DOMAIN lines /\ Tail(lines)[i] = lines[i + 1]
  BY SMT DEF File
<1> QED
  BY <1>1, Zenon

LEMMA OneSourceInit == Init => SourceInv
<1>1. DOMAIN <<>> = {}
  BY SMT
<1> QED
  BY <1>1, Zenon DEF Init, SearchInit, SourceInv, CredentialsOfOneSource, NoCredentials

LEMMA OneSourceSearch ==
    ASSUME TypeOK, SourceInv, searchAPIKey
    PROVE  SourceInv'
<1>1. SearchTypeOK /\ SourcesTypeOK /\ lines \in File /\ credentials \in [Settings -> Values]
  BY Zenon DEF TypeOK, SearchTypeOK, Values
<1>2. UNCHANGED sources /\ Said' = Said
  <2>1. stage \in Stages
    BY Zenon DEF TypeOK, Stages
  <2> QED
    BY <1>1, <2>1, SearchType, SaidUnchanged, Zenon
<1>3. FileOf' = FileOf /\ home' = home
  BY <1>2, Zenon DEF sources, FileOf
<1>4. \A line : Spoken(line)' <=> Spoken(line)
  BY <1>2, Zenon DEF Spoken
<1>5. ASSUME UNCHANGED credentials PROVE CredentialsOfOneSource'
  BY <1>2, <1>5, Zenon DEF SourceInv, CredentialsOfOneSource
<1>6. CASE SearchWithoutHome \/ EndOfFile \/ KeyFound \/ KeyEmpty
  BY <1>5, <1>6, Zenon DEF SearchWithoutHome, EndOfFile, KeyFound, KeyEmpty, Ended, SourceInv
<1>7. CASE SearchFile
  <2>1. /\ home # NoHome /\ FileOf # Unset /\ lines' = FileOf /\ stage' = "read"
        /\ UNCHANGED credentials
    BY <1>7, Zenon DEF SearchFile
  <2>2. \A i \in DOMAIN lines' : Spoken(lines'[i])
    BY <1>1, <2>1, LinesOfSource, Zenon
  <2>3. \A i \in DOMAIN lines' : Spoken(lines[i])'
    BY <1>2, <2>2, Zenon DEF Spoken
  <2> QED
    BY <1>3, <1>5, <2>1, <2>3, Zenon DEF SourceInv
<1>8. CASE SearchOptions
  <2>1. CASE UNCHANGED credentials /\ stage' = "exited"
    BY <1>5, <2>1, Zenon DEF SourceInv
  <2>2. CASE /\ stage' = "check"
             /\ credentials' = [setting \in Settings |->
                    IF options[setting] \in {Unset, ""} THEN <<>> ELSE <<options[setting]>>]
    <3>1. Said = Optional
      BY <1>8, Zenon DEF SearchOptions, Said
    <3>2. ASSUME NEW setting \in Settings PROVE Uttered(credentials'[setting])
      <4>1. CASE options[setting] \in {Unset, ""}
        BY <2>2, <4>1, UtteredFacts, Zenon
      <4>2. CASE options[setting] \notin {Unset, ""}
        <5>1. options[setting] \in Said
          BY <3>1, <4>2, Zenon DEF Optional
        <5>2. credentials'[setting] = <<options[setting]>>
          BY <2>2, <4>2, Zenon
        <5> QED
          BY <5>1, <5>2, UtteredFacts, Zenon
      <4> QED
        BY <4>1, <4>2
    <3> QED
      BY <1>2, <2>2, <3>2, Zenon DEF SourceInv, CredentialsOfOneSource, Uttered
  <2> QED
    BY <1>8, <2>1, <2>2, Zenon DEF SearchOptions, Ended
<1>9. ASSUME stage = "read", lines # <<>>
      PROVE  /\ home # NoHome /\ FileOf # Unset /\ Garbage \in Said /\ Spoken(Head(lines))
             /\ \A i \in DOMAIN Tail(lines) : Spoken(Tail(lines)[i])
  BY <1>1, <1>9, LinesOfSource, LinesLeft, Zenon DEF SourceInv
<1>10. ASSUME stage = "read", lines # <<>>, lines' = Tail(lines), stage' = stage,
              CredentialsOfOneSource'
       PROVE  SourceInv'
  <2>1. \A i \in DOMAIN lines' : Spoken(lines[i])'
    BY <1>2, <1>9, <1>10, Zenon DEF Spoken
  <2> QED
    BY <1>3, <1>9, <1>10, <2>1, Zenon DEF SourceInv
<1>11. ASSUME stage = "read", lines # <<>>, NEW value, Uttered(value), Assigned(Head(lines), value)
       PROVE  SourceInv'
  <2>1. ASSUME NEW setting \in Settings \ {"url"} PROVE Uttered(credentials'[setting])
    <3>1. credentials' = [credentials EXCEPT ![Setting(Head(lines))] = value]
      BY <1>11, Zenon DEF Assigned
    <3>2. Uttered(credentials[setting])
      BY Zenon DEF SourceInv, CredentialsOfOneSource, Uttered
    <3>3. setting \in DOMAIN credentials
      BY <1>1, Zenon
    <3> QED
      BY <1>11, <3>1, <3>2, <3>3, Zenon
  <2>2. CredentialsOfOneSource'
    BY <1>2, <2>1, Zenon DEF CredentialsOfOneSource, Uttered
  <2> QED
    BY <1>10, <1>11, <2>2, Zenon DEF Assigned
<1>12. CASE ReadLine
  <2>1. CASE lines' = Tail(lines) /\ UNCHANGED <<sources, stage, credentials>>
    BY <1>5, <1>10, <1>12, <2>1, Zenon DEF ReadLine
  <2>2. CASE ~ Short(Head(lines)) /\ Assigned(Head(lines), Value(Head(lines)))
    <3>1. Uttered(Value(Head(lines)))
      <4> DEFINE line == Head(lines)
      <4>1. line.pieces \in Seq(Texts) /\ Spoken(line)
        BY <1>1, <1>9, <1>12, LineFacts, Zenon DEF ReadLine
      <4>2. \A i \in DOMAIN Value(line) :
                Value(line)[i] \in {line.pieces[j] : j \in DOMAIN line.pieces}
        BY <2>2, <4>1, ValueFacts, Zenon
      <4> HIDE DEF line
      <4>3. Uttered(Value(line))
        BY <4>1, <4>2, Zenon DEF Spoken, Uttered
      <4> QED
        BY <4>3, Zenon DEF line
    <3> QED
      BY <1>11, <1>12, <2>2, <3>1, Zenon DEF ReadLine
  <2> QED
    BY <1>12, <2>1, <2>2, Zenon DEF ReadLine
<1>13. CASE ReadBeyond
  <2>1. CASE Ended("crashed")
    BY <1>5, <2>1, Zenon DEF Ended, SourceInv
  <2>2. CASE Assigned(Head(lines), <<Garbage>>)
    BY <1>9, <1>11, <1>13, <2>2, UtteredFacts, Zenon DEF ReadBeyond
  <2> QED
    BY <1>13, <2>1, <2>2, Zenon DEF ReadBeyond
<1> QED
  BY <1>6, <1>7, <1>8, <1>12, <1>13, Zenon DEF searchAPIKey

LEMMA OneSourceNext == TypeOK /\ SourceInv /\ [Next]_setupVars => SourceInv'
<1> SUFFICES ASSUME TypeOK, SourceInv, [Next]_setupVars PROVE SourceInv'
  OBVIOUS
<1>1. ASSUME UNCHANGED <<sources, credentials>> PROVE CredentialsOfOneSource'
  BY <1>1, SaidUnchanged, Zenon DEF SourceInv, CredentialsOfOneSource
<1>2. CASE Search
  BY <1>2, OneSourceSearch, Zenon DEF Search
<1>3. CASE CallInitialize
  BY <1>1, <1>3, Zenon DEF CallInitialize, SourceInv, NoCredentials
<1>4. CASE RequestFailed \/ QueryRefused \/ Login \/ ListDevices \/ Calibrate \/ TakeParameters
           \/ FinishInitialize
  <2>1. stage' \notin {"idle", "search", "read"} /\ UNCHANGED <<sources, credentials>>
    BY <1>4, Zenon DEF RequestFailed, QueryRefused, Ended, Login, ListDevices, Calibrate, TakeParameters,
                       FinishInitialize
  <2> QED
    BY <1>1, <2>1, Zenon DEF SourceInv
<1>5. CASE TakeDevice
  <2>1. stage' \in {"calibration", "device"} /\ UNCHANGED <<sources, credentials>>
    BY <1>5, Zenon DEF TakeDevice
  <2> QED
    BY <1>1, <2>1, Zenon DEF SourceInv
<1>6. CASE UNCHANGED setupVars \/ \E name \in BackendNames \cup {NoBackend} : SetOption(name)
  <2>1. UNCHANGED <<sources, credentials>> /\ stage' = stage /\ lines' = lines
    BY <1>6, Zenon DEF SetOption, setupVars, searchVars
  <2>2. FileOf' = FileOf /\ home' = home /\ Said' = Said
    BY <2>1, SaidUnchanged, Zenon DEF sources, FileOf
  <2>3. CASE stage = "read"
    BY <1>1, <2>1, <2>2, <2>3, Zenon DEF SourceInv, Spoken
  <2>4. CASE stage # "read"
    BY <1>1, <2>1, <2>4, Zenon DEF SourceInv, NoCredentials
  <2> QED
    BY <2>3, <2>4
<1> QED
  BY <1>2, <1>3, <1>4, <1>5, <1>6, Zenon DEF Next

(* Key, hub, group and project are never put together of two sources, whatever *)
(* they say and in whatever shape the lines of a file are.  (searchAPIKey, :698.) *)
THEOREM SetupCredentialsOfOneSource == Spec => []CredentialsOfOneSource
<1>1. SourceInv => CredentialsOfOneSource
  BY Zenon DEF SourceInv
<1> QED
  BY <1>1, TypeInit, TypeNext, OneSourceInit, OneSourceNext, PTL DEF Spec

-----------------------------------------------------------------------------
(* The catalogue: after k turns of the loop it holds the names of the first k  *)
(* entries of the list, each with what the first entry of the name says        *)

Early == {"idle", "search", "read", "check", "login", "list"}
Loop == {"device", "calibration", "parameters"}

Names(k) == {listing[i].name : i \in 1..k}

FirstOf(i, name) ==
    /\ i \in DOMAIN listing /\ listing[i].name = name
    /\ \A j \in 1..(i - 1) : listing[j].name # name

Held(k) ==
    /\ DOMAIN availableBackends = Names(k)
    /\ \A name \in DOMAIN availableBackends :
        \E i \in 1..k : FirstOf(i, name) /\ StandsFor(availableBackends[name], listing[i])

ToCome(k) ==
    /\ Len(listing) = k + Len(devices)
    /\ \A i \in 1..Len(devices) : devices[i] = listing[k + i]

Asked(device) == ~ device.simulator /\ credentials["hub"] # <<>>
Complete(device) == device.calibratedQubits # Absent /\ device.multiQubitGates # Absent

Coupled(device) == IF device.simulator THEN <<>> ELSE Member(device.couplingMap)

Filled(made, device) ==
    /\ made.status = device.on /\ made.isSimulator = device.simulator
    /\ device.nQubits # Absent => made.nQubits = device.nQubits
    /\ made.couplers = Coupled(device)

Errors(made, errors, gates) == made.gateErrors = errors /\ made.multiQubitGates = gates

CatalogInv ==
    /\ stage \in Early \cup Loop => ~ initialized
    /\ stage \in Early => DOMAIN availableBackends = {}
    /\ stage \in Loop => \E k \in Nat : Held(k) /\ ToCome(k)
    /\ stage \in {"calibration", "parameters"} =>
        Asked(Head(devices)) /\ Filled(backend, Head(devices))
    /\ stage = "calibration" => Errors(backend, <<>>, <<>>) /\ backend.T1s = <<>>
    /\ stage = "parameters" =>
        IF Complete(Head(devices))
        THEN Errors(backend, Head(devices).calibratedQubits, Head(devices).multiQubitGates)
        ELSE Errors(backend, <<>>, <<>>)
    /\ initialized => \E k \in Nat : k = Len(listing) /\ Held(k)

(* Fields of a backend that is filled in *)
LEMMA ListedMembers ==
    ASSUME NEW A, NEW B, NEW C, NEW D, NEW E, NEW F, NEW G, NEW H,
           NEW d \in [name : A, nQubits : B, couplers : C, status : D, isSimulator : E,
            gateErrors : F, multiQubitGates : G, T1s : H],
           NEW a, NEW q, NEW b, NEW c, NEW k, NEW made,
           made = [d EXCEPT !.name = a, !.nQubits = q, !.status = b, !.isSimulator = c,
                            !.couplers = k]
    PROVE  /\ made.name = a /\ made.nQubits = q /\ made.status = b /\ made.isSimulator = c
           /\ made.couplers = k /\ made.T1s = d.T1s /\ made.gateErrors = d.gateErrors
           /\ made.multiQubitGates = d.multiQubitGates
<1>1. made.name = a
  BY SMT
<1>2. made.nQubits = q
  BY SMT
<1>3. made.status = b
  BY SMT
<1>4. made.isSimulator = c
  BY SMT
<1>5. made.T1s = d.T1s
  BY SMT
<1>6. made.gateErrors = d.gateErrors
  BY SMT
<1>7. made.multiQubitGates = d.multiQubitGates
  BY SMT
<1>8. made.couplers = k
  BY SMT
<1> QED
  BY <1>1, <1>2, <1>3, <1>4, <1>5, <1>6, <1>7, <1>8, Zenon

LEMMA ListedFields ==
    ASSUME NEW device, NEW qubits
    PROVE  LET made == Listed(device, qubits) IN
           /\ made.name = device.name
           /\ made.status = device.on /\ made.isSimulator = device.simulator
           /\ made.nQubits = qubits /\ made.T1s = <<>>
           /\ made.couplers = Coupled(device)
           /\ Errors(made, <<>>, <<>>)
<1> DEFINE couplers == IF device.simulator THEN <<>> ELSE Member(device.couplingMap)
           a == device.name
           b == device.on
           c == device.simulator
<1>1. /\ Listed(device, qubits) =
            [NewBackend EXCEPT !.name = a, !.nQubits = qubits, !.status = b,
                               !.isSimulator = c, !.couplers = couplers]
  BY Zenon DEF Listed
<1> HIDE DEF couplers, a, b, c
<1>2. NewBackend.T1s = <<>> /\ NewBackend.gateErrors = <<>> /\ NewBackend.multiQubitGates = <<>>
  BY SMT DEF NewBackend
<1>3. NewBackend \in [name : {""}, nQubits : {0}, couplers : {<<>>}, status : BOOLEAN,
                      isSimulator : BOOLEAN, gateErrors : {<<>>}, multiQubitGates : {<<>>},
                      T1s : {<<>>}]
  BY SMT DEF NewBackend
<1> DEFINE made == Listed(device, qubits)
<1> HIDE DEF made
<1>4. made = [NewBackend EXCEPT !.name = a, !.nQubits = qubits, !.status = b,
                                !.isSimulator = c, !.couplers = couplers]
  BY <1>1, Zenon DEF made
<1>5. /\ made.name = a /\ made.nQubits = qubits /\ made.status = b /\ made.isSimulator = c
      /\ made.T1s = NewBackend.T1s /\ made.gateErrors = NewBackend.gateErrors
      /\ made.multiQubitGates = NewBackend.multiQubitGates /\ made.couplers = couplers
  BY <1>3, <1>4, ListedMembers
<1> QED
  BY <1>2, <1>5, Zenon DEF a, b, c, couplers, Coupled, Errors, made

LEMMA FieldsAssigned ==
    ASSUME NEW A, NEW B, NEW C, NEW D, NEW E, NEW F, NEW G, NEW H,
           NEW d \in [name : A, nQubits : B, couplers : C, status : D, isSimulator : E,
            gateErrors : F, multiQubitGates : G, T1s : H],
           NEW x, NEW y
    PROVE  /\ LET made == [d EXCEPT !.T1s = x] IN
              /\ made.T1s = x /\ made.gateErrors = d.gateErrors
              /\ made.multiQubitGates = d.multiQubitGates
              /\ made.status = d.status /\ made.isSimulator = d.isSimulator
              /\ made.nQubits = d.nQubits /\ made.name = d.name
              /\ made.couplers = d.couplers
           /\ LET made == [d EXCEPT !.gateErrors = x, !.multiQubitGates = y] IN
              /\ made.gateErrors = x /\ made.multiQubitGates = y
              /\ made.status = d.status /\ made.isSimulator = d.isSimulator
              /\ made.nQubits = d.nQubits /\ made.T1s = d.T1s
              /\ made.couplers = d.couplers
BY SMT

(* The numbers an entry is found by *)
LEMMA EntryFound ==
    ASSUME listing \in Seq(Device), NEW name, NEW i, FirstOf(i, name)
    PROVE  EntryOf(name) = i
<1> DEFINE First(n) == /\ listing[n].name = name
                       /\ \A j \in 1..(n - 1) : listing[j].name # name
<1>1. First(i) /\ i \in DOMAIN listing
  BY Zenon DEF FirstOf
<1>2. ASSUME NEW n \in DOMAIN listing, First(n) PROVE n = i
  <2>1. n \in Nat /\ i \in Nat /\ n >= 1 /\ i >= 1
    <3>1. n \in DOMAIN listing /\ i \in DOMAIN listing
      BY <1>1, <1>2, Zenon
    <3> QED
      BY <3>1, SMT
  <2>2. ~ (n < i)
    <3> SUFFICES ASSUME n < i PROVE FALSE
      OBVIOUS
    <3>1. n \in 1..(i - 1)
      BY <2>1, SMT
    <3> QED
      BY <1>1, <1>2, <3>1, Zenon
  <2>3. ~ (i < n)
    <3> SUFFICES ASSUME i < n PROVE FALSE
      OBVIOUS
    <3>1. i \in 1..(n - 1)
      BY <2>1, SMT
    <3> QED
      BY <1>1, <1>2, <3>1, Zenon
  <2> QED
    BY <2>1, <2>2, <2>3, SMT
<1>3. EntryOf(name) = CHOOSE n \in DOMAIN listing : First(n)
  BY Zenon DEF EntryOf
<1> HIDE DEF First
<1>4. i \in DOMAIN listing
  BY Zenon DEF FirstOf
<1> QED
  BY <1>1, <1>2, <1>3, <1>4, Zenon

LEMMA NextOfList ==
    ASSUME listing \in Seq(Device), devices \in Seq(Device), devices # <<>>,
           NEW k \in Nat, ToCome(k)
    PROVE  /\ k + 1 \in DOMAIN listing /\ Head(devices) = listing[k + 1]
           /\ 1..(k + 1) = 1..k \cup {k + 1}
           /\ Len(listing) = (k + 1) + Len(Tail(devices))
           /\ \A i \in 1..Len(Tail(devices)) : Tail(devices)[i] = listing[(k + 1) + i]
<1> DEFINE rest == Tail(devices)
<1>1. /\ Len(devices) \in Nat /\ Len(devices) >= 1 /\ Head(devices) = devices[1]
      /\ Len(rest) = Len(devices) - 1
      /\ \A i \in 1..Len(rest) : rest[i] = devices[i + 1]
  BY SMT
<1>2. /\ Len(listing) = k + Len(devices) /\ DOMAIN listing = 1..Len(listing)
      /\ \A i \in 1..Len(devices) : devices[i] = listing[k + i]
  BY SMT DEF ToCome
<1> HIDE DEF rest
<1>3. ASSUME NEW i \in 1..Len(rest) PROVE rest[i] = listing[(k + 1) + i]
  <2>1. i + 1 \in 1..Len(devices) /\ k + (i + 1) = (k + 1) + i
    BY <1>1, SMT
  <2> QED
    BY <1>1, <1>2, <2>1, Zenon
<1>4. Head(devices) = listing[k + 1]
  <2>1. 1 \in 1..Len(devices)
    BY <1>1, SMT
  <2> QED
    BY <1>1, <1>2, <2>1, Zenon
<1>5. k + 1 \in DOMAIN listing /\ 1..(k + 1) = 1..k \cup {k + 1} /\ Len(listing) = (k + 1) + Len(rest)
  BY <1>1, <1>2, SMT
<1> QED
  BY <1>3, <1>4, <1>5, Zenon DEF rest

(* A turn of the loop *)
LEMMA HeldNext ==
    ASSUME listing \in Seq(Device), devices \in Seq(Device), devices # <<>>,
           NEW k \in Nat, Held(k), ToCome(k),
           NEW made, made.name = Head(devices).name, StandsFor(made, Head(devices)),
           availableBackends' = insert(made), devices' = Tail(devices),
           UNCHANGED <<listing, credentials>>
    PROVE  k + 1 \in Nat /\ Held(k + 1)' /\ ToCome(k + 1)'
<1>1. /\ k + 1 \in DOMAIN listing /\ Head(devices) = listing[k + 1]
      /\ 1..(k + 1) = 1..k \cup {k + 1}
      /\ Len(listing) = (k + 1) + Len(Tail(devices))
      /\ \A i \in 1..Len(Tail(devices)) : Tail(devices)[i] = listing[(k + 1) + i]
  BY NextOfList, Zenon
<1>2. listing' = listing /\ credentials' = credentials
  BY Zenon
<1>3. ToCome(k + 1)'
  BY <1>1, <1>2, Zenon DEF ToCome
<1>4. DOMAIN availableBackends' = DOMAIN availableBackends \cup {made.name}
  BY Zenon DEF insert
<1>5. Names(k + 1)' = Names(k) \cup {made.name}
  <2>1. Names(k + 1)' = Names(k + 1)
    BY <1>2, Zenon DEF Names
  <2>2. ASSUME NEW S, NEW x
        PROVE  {listing[i].name : i \in S \cup {x}} = {listing[i].name : i \in S} \cup {listing[x].name}
    BY Zenon
  <2>3. Names(k + 1) = {listing[i].name : i \in 1..k \cup {k + 1}}
    BY <1>1, Zenon DEF Names
  <2>4. made.name = listing[k + 1].name
    BY <1>1, Zenon
  <2> QED
    BY <2>1, <2>2, <2>3, <2>4, Zenon DEF Names
<1>6. /\ \A i, name : FirstOf(i, name)' <=> FirstOf(i, name)
      /\ \A m, d : StandsFor(m, d)' <=> StandsFor(m, d)
  BY <1>2, ZenonT(40) DEF FirstOf, StandsFor
<1>7. ASSUME NEW name \in DOMAIN availableBackends'
      PROVE  \E i \in 1..(k + 1) :
                FirstOf(i, name) /\ StandsFor(availableBackends'[name], listing[i])
  <2>1. CASE name \in DOMAIN availableBackends
    <3>1. availableBackends'[name] = availableBackends[name]
      BY <1>4, <2>1, Zenon DEF insert
    <3>2. PICK i \in 1..k : FirstOf(i, name) /\ StandsFor(availableBackends[name], listing[i])
      BY <2>1, Zenon DEF Held
    <3> QED
      BY <1>1, <3>1, <3>2, Zenon
  <2>2. CASE name \notin DOMAIN availableBackends
    <3>1. name = made.name /\ availableBackends'[name] = made
      BY <1>4, <1>7, <2>2, Zenon DEF insert
    <3>2. (k + 1) - 1 = k
      BY SMT
    <3>3. ASSUME NEW j \in 1..k PROVE listing[j].name # name
      BY <2>2, Zenon DEF Held, Names
    <3>4. listing[k + 1].name = name
      BY <1>1, <3>1, Zenon
    <3>5. FirstOf(k + 1, name)
      BY <1>1, <3>2, <3>3, <3>4, Zenon DEF FirstOf
    <3> QED
      BY <1>1, <3>1, <3>5, Zenon
  <2> QED
    BY <2>1, <2>2
<1>8. Held(k + 1)'
  <2>1. DOMAIN availableBackends' = Names(k + 1)'
    BY <1>4, <1>5, Zenon DEF Held
  <2>2. ASSUME NEW name \in DOMAIN availableBackends'
        PROVE  \E i \in 1..(k + 1) :
                FirstOf(i, name)' /\ StandsFor(availableBackends[name], listing[i])'
    BY <1>2, <1>6, <1>7, Zenon
  <2> QED
    BY <2>1, <2>2, Zenon DEF Held
<1>9. k + 1 \in Nat
  BY SMT
<1> QED
  BY <1>3, <1>8, <1>9, Zenon

(* The loop is over: every entry has been come to *)
LEMMA HeldAll ==
    ASSUME TypeOK, NEW k \in Nat, k = Len(listing), Held(k)
    PROVE  /\ DOMAIN availableBackends = {listing[i].name : i \in DOMAIN listing}
           /\ \A name \in DOMAIN availableBackends :
                StandsFor(availableBackends[name], listing[EntryOf(name)])
<1>1. listing \in Seq(Device)
  BY Zenon DEF TypeOK
<1>2. DOMAIN listing = 1..Len(listing)
  BY <1>1, SMT
<1>3. ASSUME NEW name \in DOMAIN availableBackends
      PROVE  StandsFor(availableBackends[name], listing[EntryOf(name)])
  <2>1. PICK i \in 1..k : FirstOf(i, name) /\ StandsFor(availableBackends[name], listing[i])
    BY Zenon DEF Held
  <2>2. EntryOf(name) = i
    BY <1>1, <2>1, EntryFound, Zenon
  <2> QED
    BY <2>1, <2>2, Zenon
<1> QED
  BY <1>2, <1>3, Zenon DEF Held, Names

LEMMA CatalogInit == Init => CatalogInv
BY Zenon DEF Init, CatalogInv, Early, Loop

LEMMA CatalogKept ==
    ASSUME UNCHANGED <<credentials, listing, devices, availableBackends>>
    PROVE  /\ \A k : Held(k)' <=> Held(k)
           /\ \A k : ToCome(k)' <=> ToCome(k)
           /\ \A device : Asked(device)' <=> Asked(device)
<1>1. /\ credentials' = credentials /\ listing' = listing /\ devices' = devices
      /\ availableBackends' = availableBackends
  BY Zenon
<1>2. /\ \A i, name : FirstOf(i, name)' <=> FirstOf(i, name)
      /\ \A m, d : StandsFor(m, d)' <=> StandsFor(m, d)
      /\ \A k : Names(k)' = Names(k)
  BY <1>1, ZenonT(40) DEF FirstOf, StandsFor, Names
<1>3. ASSUME NEW k PROVE Held(k)' <=> Held(k)
  BY <1>1, <1>2, Zenon DEF Held
<1>4. ASSUME NEW k PROVE ToCome(k)' <=> ToCome(k)
  BY <1>1, Zenon DEF ToCome
<1>5. ASSUME NEW device PROVE Asked(device)' <=> Asked(device)
  BY <1>1, Zenon DEF Asked
<1> QED
  BY <1>3, <1>4, <1>5, Zenon

LEMMA CatalogQuiet ==
    ASSUME CatalogInv,
           UNCHANGED <<credentials, listing, devices, availableBackends, backend, initialized>>,
           \/ stage' = stage
           \/ stage \in Early /\ stage' \in Early
           \/ stage' \notin Early \cup Loop
    PROVE  CatalogInv'
<1>1. /\ listing' = listing /\ devices' = devices /\ availableBackends' = availableBackends
      /\ backend' = backend
  BY Zenon
<1>0. initialized' <=> initialized
  BY SMT
<1>2. /\ \A k : Held(k)' <=> Held(k)
      /\ \A k : ToCome(k)' <=> ToCome(k)
      /\ \A device : Asked(device)' <=> Asked(device)
  BY CatalogKept, Zenon
<1>3. initialized' => \E k \in Nat : k = Len(listing') /\ Held(k)'
  <2>1. initialized => \E k \in Nat : k = Len(listing) /\ Held(k)
    BY Zenon DEF CatalogInv
  <2>2. Len(listing') = Len(listing)
    BY <1>1, Zenon
  <2> QED
    BY <1>0, <1>2, <2>1, <2>2, Zenon
<1>4. CASE stage' \notin Early \cup Loop
  BY <1>3, <1>4, Zenon DEF CatalogInv, Loop
<1>5. CASE stage \in Early /\ stage' \in Early
  <2>1. stage' \notin Loop
    BY <1>5, Zenon DEF Early, Loop
  <2>2. ~ initialized' /\ DOMAIN availableBackends' = {}
    <3>1. ~ initialized /\ DOMAIN availableBackends = {}
      BY <1>5, Zenon DEF CatalogInv
    <3> QED
      BY <1>0, <1>1, <3>1, Zenon
  <2>3. stage' \notin {"calibration", "parameters"}
    BY <2>1, Zenon DEF Loop
  <2> QED
    BY <2>1, <2>2, <2>3, Zenon DEF CatalogInv
<1>6. CASE stage' = stage
  <2>1. /\ stage' \in Early \cup Loop => ~ initialized'
        /\ stage' \in Early => DOMAIN availableBackends' = {}
    <3>1. /\ stage \in Early \cup Loop => ~ initialized
          /\ stage \in Early => DOMAIN availableBackends = {}
      BY Zenon DEF CatalogInv
    <3> QED
      BY <1>0, <1>1, <1>6, <3>1, Zenon
  <2>2. stage' \in Loop => \E k \in Nat : Held(k)' /\ ToCome(k)'
    BY <1>2, <1>6, Zenon DEF CatalogInv
  <2>3. /\ stage' \in {"calibration", "parameters"} =>
            Asked(Head(devices))' /\ Filled(backend', Head(devices'))
    BY <1>1, <1>2, <1>6, Zenon DEF CatalogInv
  <2>4. stage' = "calibration" => Errors(backend', <<>>, <<>>) /\ backend'.T1s = <<>>
    BY <1>1, <1>6, Zenon DEF CatalogInv
  <2>5. stage' = "parameters" =>
            IF Complete(Head(devices'))
            THEN Errors(backend', Head(devices').calibratedQubits, Head(devices').multiQubitGates)
            ELSE Errors(backend', <<>>, <<>>)
    BY <1>1, <1>6, Zenon DEF CatalogInv
  <2> QED
    BY <1>3, <2>1, <2>2, <2>3, <2>4, <2>5, Zenon DEF CatalogInv
<1> QED
  BY <1>4, <1>5, <1>6, Zenon

(* The loop comes to a device *)
LEMMA CatalogTake ==
    ASSUME TypeOK, CatalogInv, TakeDevice
    PROVE  CatalogInv'
<1> DEFINE device == Head(devices)
<1>1. PICK qubits \in QubitCounts :
        /\ device.nQubits \in {Absent, qubits}
        /\ LET made == Listed(device, qubits) IN
            IF ~ device.simulator /\ credentials["hub"] # <<>>
            THEN /\ backend' = made /\ stage' = "calibration"
                 /\ UNCHANGED <<devices, availableBackends>>
            ELSE /\ availableBackends' = insert(made)
                 /\ devices' = Tail(devices)
                 /\ UNCHANGED <<backend, stage>>
  BY Zenon DEF TakeDevice
<1> DEFINE made == Listed(device, qubits)
<1>2. /\ stage = "device" /\ devices # <<>> /\ listing \in Seq(Device) /\ devices \in Seq(Device)
      /\ listing' = listing /\ credentials' = credentials /\ initialized' = initialized
  BY Zenon DEF TakeDevice, TypeOK
<1>3. /\ made.name = device.name /\ Filled(made, device)
      /\ Errors(made, <<>>, <<>>) /\ made.T1s = <<>>
  <2>1. /\ made.name = device.name /\ made.status = device.on
        /\ made.isSimulator = device.simulator /\ made.nQubits = qubits
        /\ made.couplers = Coupled(device)
        /\ Errors(made, <<>>, <<>>) /\ made.T1s = <<>>
    BY ListedFields, ZenonT(40)
  <2> HIDE DEF made
  <2> QED
    BY <1>1, <2>1, Zenon DEF Filled
<1> HIDE DEF made
<1>4. PICK k \in Nat : Held(k) /\ ToCome(k)
  BY <1>2, Zenon DEF CatalogInv, Loop
<1>5. ~ initialized'
  BY <1>2, Zenon DEF CatalogInv, Loop
<1>6. CASE /\ Asked(device) /\ backend' = made /\ stage' = "calibration"
           /\ UNCHANGED <<devices, availableBackends>>
  <2>1. /\ \A n : Held(n)' <=> Held(n)
        /\ \A n : ToCome(n)' <=> ToCome(n)
        /\ \A d : Asked(d)' <=> Asked(d)
    BY <1>2, <1>6, CatalogKept, Zenon
  <2>2. devices' = devices
    BY <1>6, Zenon
  <2>3. Asked(Head(devices))' /\ Filled(backend', Head(devices'))
    BY <1>3, <1>6, <2>1, <2>2, Zenon
  <2>4. \E n \in Nat : Held(n)' /\ ToCome(n)'
    BY <1>4, <2>1, Zenon
  <2> QED
    BY <1>3, <1>5, <1>6, <2>3, <2>4, Zenon DEF CatalogInv, Early, Loop
<1>7. CASE /\ ~ Asked(device) /\ availableBackends' = insert(made) /\ devices' = Tail(devices)
           /\ UNCHANGED <<backend, stage>>
  <2>1. StandsFor(made, device)
    BY <1>3, <1>7, Zenon DEF StandsFor, Filled, Coupled, Errors, Asked
  <2>2. \E n \in Nat : Held(n)' /\ ToCome(n)'
    BY <1>2, <1>3, <1>4, <1>7, <2>1, HeldNext, Zenon
  <2> QED
    BY <1>2, <1>5, <1>7, <2>2, Zenon DEF CatalogInv, Early, Loop
<1> QED
  BY <1>1, <1>6, <1>7, Zenon DEF made, Asked

LEMMA CatalogCalibrate ==
    ASSUME TypeOK, CatalogInv, Calibrate
    PROVE  CatalogInv'
<1> DEFINE device == Head(devices)
           errors == device.calibratedQubits
           gates == device.multiQubitGates
<1>1. /\ stage = "calibration" /\ stage' = "parameters"
      /\ listing' = listing /\ credentials' = credentials /\ initialized' = initialized
      /\ devices' = devices /\ availableBackends' = availableBackends
      /\ UNCHANGED <<credentials, listing, devices, availableBackends>>
  BY Zenon DEF Calibrate
<1>2. /\ \A n : Held(n)' <=> Held(n)
      /\ \A n : ToCome(n)' <=> ToCome(n)
      /\ \A d : Asked(d)' <=> Asked(d)
  BY <1>1, CatalogKept, Zenon
<1>3. /\ ~ initialized /\ \E k \in Nat : Held(k) /\ ToCome(k)
      /\ Asked(device) /\ Filled(backend, device)
      /\ Errors(backend, <<>>, <<>>) /\ backend.T1s = <<>>
  BY <1>1, Zenon DEF CatalogInv, Loop
<1>4. /\ Filled(backend', device)
      /\ IF Complete(device) THEN Errors(backend', errors, gates)
         ELSE Errors(backend', <<>>, <<>>)
  <2>1. CASE Complete(device)
    <3>1. backend' = [backend EXCEPT !.gateErrors = errors, !.multiQubitGates = gates]
      BY <2>1, Zenon DEF Calibrate, Complete
    <3>2. backend \in IBMBackends
      BY Zenon DEF TypeOK
    <3> HIDE DEF errors, gates, device
    <3>3. /\ backend'.gateErrors = errors /\ backend'.multiQubitGates = gates
          /\ backend'.status = backend.status /\ backend'.isSimulator = backend.isSimulator
          /\ backend'.nQubits = backend.nQubits /\ backend'.couplers = backend.couplers
      BY <3>1, <3>2, FieldsAssigned, Zenon DEF IBMBackends
    <3> QED
      BY <1>3, <2>1, <3>3, Zenon DEF Filled, Errors
  <2>2. CASE ~ Complete(device)
    <3>1. backend' = backend
      BY <2>2, Zenon DEF Calibrate, Complete
    <3> QED
      BY <1>3, <2>2, <3>1, Zenon
  <2> QED
    BY <2>1, <2>2
<1>5. Asked(Head(devices))' /\ Filled(backend', Head(devices'))
  BY <1>1, <1>2, <1>3, <1>4, Zenon
<1>6. \E k \in Nat : Held(k)' /\ ToCome(k)'
  BY <1>2, <1>3, Zenon
<1>7. IF Complete(Head(devices'))
      THEN Errors(backend', Head(devices').calibratedQubits, Head(devices').multiQubitGates)
      ELSE Errors(backend', <<>>, <<>>)
  BY <1>1, <1>4, Zenon
<1> QED
  BY <1>1, <1>3, <1>5, <1>6, <1>7, Zenon DEF CatalogInv, Early, Loop

LEMMA CatalogParameters ==
    ASSUME TypeOK, CatalogInv, TakeParameters
    PROVE  CatalogInv'
<1> DEFINE device == Head(devices)
           times == Member(device.parameters)
<1>1. /\ stage = "parameters" /\ stage' = "device"
      /\ listing' = listing /\ credentials' = credentials /\ initialized' = initialized
      /\ devices' = Tail(devices) /\ availableBackends' = insert(backend')
      /\ backend' = [backend EXCEPT !.T1s = times]
  BY Zenon DEF TakeParameters
<1>2. /\ ~ initialized
      /\ Asked(device) /\ Filled(backend, device)
      /\ IF Complete(device) THEN Errors(backend, device.calibratedQubits, device.multiQubitGates)
         ELSE Errors(backend, <<>>, <<>>)
  BY <1>1, Zenon DEF CatalogInv, Loop
<1>3. /\ backend \in IBMBackends /\ backend.name = device.name /\ devices # <<>>
      /\ listing \in Seq(Device) /\ devices \in Seq(Device)
  BY <1>1, Zenon DEF TypeOK
<1>4. /\ backend'.T1s = times /\ backend'.gateErrors = backend.gateErrors
      /\ backend'.multiQubitGates = backend.multiQubitGates
      /\ backend'.status = backend.status /\ backend'.isSimulator = backend.isSimulator
      /\ backend'.nQubits = backend.nQubits /\ backend'.name = backend.name
      /\ backend'.couplers = backend.couplers
  <2> HIDE DEF times
  <2> QED
    BY <1>1, <1>3, FieldsAssigned, Zenon DEF IBMBackends
<1>5. times = IF device.parameters # Absent THEN device.parameters ELSE <<>>
  BY Zenon DEF Member
<1> HIDE DEF times
<1>6. StandsFor(backend', device)
  BY <1>2, <1>4, <1>5, Zenon DEF StandsFor, Filled, Coupled, Errors, Asked, Complete
<1>7. PICK k \in Nat : Held(k) /\ ToCome(k)
  BY <1>1, Zenon DEF CatalogInv, Loop
<1>8. backend'.name = device.name
  BY <1>3, <1>4, Zenon
<1>9. \E n \in Nat : Held(n)' /\ ToCome(n)'
  <2> DEFINE made == backend'
  <2>1. made.name = device.name /\ StandsFor(made, device) /\ availableBackends' = insert(made)
    BY <1>1, <1>6, <1>8, Zenon
  <2> HIDE DEF made
  <2> QED
    BY <1>1, <1>3, <1>7, <2>1, HeldNext, Zenon
<1> QED
  BY <1>1, <1>2, <1>9, Zenon DEF CatalogInv, Early, Loop

LEMMA CatalogNext == TypeOK /\ CatalogInv /\ [Next]_setupVars => CatalogInv'
<1> SUFFICES ASSUME TypeOK, CatalogInv, [Next]_setupVars PROVE CatalogInv'
  OBVIOUS
<1>1. CASE UNCHANGED setupVars \/ \E name \in BackendNames \cup {NoBackend} : SetOption(name)
  <2>1. /\ stage' = stage
        /\ UNCHANGED <<credentials, listing, devices, availableBackends, backend, initialized>>
    BY <1>1, Zenon DEF SetOption, setupVars, searchVars, catalogVars
  <2> QED
    BY <2>1, CatalogQuiet, Zenon
<1>2. CASE CallInitialize \/ Login
  <2>1. /\ stage \in Early /\ stage' \in Early
        /\ UNCHANGED <<credentials, listing, devices, availableBackends, backend, initialized>>
    BY <1>2, Zenon DEF CallInitialize, Login, catalogVars, Early
  <2> QED
    BY <2>1, CatalogQuiet, Zenon
<1>3. CASE RequestFailed \/ QueryRefused
  <2>1. /\ stage' \in {"exited", "refused"}
        /\ UNCHANGED <<credentials, listing, devices, availableBackends, backend, initialized>>
    BY <1>3, Zenon DEF RequestFailed, QueryRefused, Ended, catalogVars
  <2>2. stage' \notin Early \cup Loop
    BY <2>1, Zenon DEF Early, Loop
  <2> QED
    BY <2>1, <2>2, CatalogQuiet, Zenon
<1>4. CASE Search
  <2>1. /\ stage \in {"search", "read", "check"}
        /\ stage' \in {"read", "check", "login", "exited", "crashed"}
    BY <1>4, Zenon DEF Search, searchAPIKey, SearchWithoutHome, SearchFile, SearchOptions, ReadLine,
                       ReadBeyond, EndOfFile, KeyFound, KeyEmpty, Ended, Assigned
  <2>2. initialized' = initialized /\ availableBackends' = availableBackends
    BY <1>4, Zenon DEF Search, catalogVars
  <2> QED
    BY <2>1, <2>2, Zenon DEF CatalogInv, Early, Loop
<1>5. CASE ListDevices
  <2>1. /\ stage = "list" /\ stage' = "device" /\ devices' = listing /\ listing' = listing
        /\ initialized' = initialized /\ availableBackends' = availableBackends
    BY <1>5, Zenon DEF ListDevices
  <2>2. ~ initialized' /\ DOMAIN availableBackends' = {}
    BY <2>1, Zenon DEF CatalogInv, Early
  <2>3. Held(0)'
    <3>1. 1..0 = {}
      BY SMT
    <3> QED
      BY <2>2, <3>1, Zenon DEF Held, Names
  <2>4. ToCome(0)'
    <3>1. listing \in Seq(Device)
      BY Zenon DEF TypeOK
    <3>2. Len(listing) = 0 + Len(listing) /\ \A i \in 1..Len(listing) : listing[i] = listing[0 + i]
      BY <3>1, SMT
    <3> QED
      BY <2>1, <3>2, Zenon DEF ToCome
  <2> QED
    BY <2>1, <2>2, <2>3, <2>4, Zenon DEF CatalogInv, Early, Loop
<1>6. CASE FinishInitialize
  <2>1. /\ stage = "device" /\ devices = <<>> /\ stage' \in {"ready", "exited"}
        /\ UNCHANGED <<credentials, listing, devices, availableBackends>>
    BY <1>6, Zenon DEF FinishInitialize
  <2>2. PICK k \in Nat : Held(k) /\ ToCome(k)
    BY <2>1, Zenon DEF CatalogInv, Loop
  <2>3. Len(listing) = k
    <3>1. Len(listing) = k + Len(devices)
      BY <2>2, Zenon DEF ToCome
    <3> QED
      BY <2>1, <3>1, SMT
  <2>4. k = Len(listing') /\ Held(k)'
    <3>1. listing' = listing
      BY <2>1, Zenon
    <3> QED
      BY <2>1, <2>2, <2>3, <3>1, CatalogKept, Zenon
  <2> QED
    BY <2>1, <2>4, Zenon DEF CatalogInv, Early, Loop
<1> QED
  BY <1>1, <1>2, <1>3, <1>4, <1>5, <1>6, CatalogTake, CatalogCalibrate, CatalogParameters, Zenon DEF Next

(* Whatever the service lists - entries that lack members, names listed twice - *)
(* each name stands for its first entry, with its own rates and no other's.     *)
(* (initialize, :172-256.)                                                      *)
THEOREM SetupCatalogOfListing == Spec => []CatalogOfListing
<1>1. TypeOK /\ CatalogInv => CatalogOfListing
  BY HeldAll, Zenon DEF CatalogInv, CatalogOfListing
<1> QED
  BY <1>1, TypeInit, TypeNext, CatalogInit, CatalogNext, PTL DEF Spec

-----------------------------------------------------------------------------
(* One backend: chosenBackend is not touched before initialize() is through, and *)
(* nothing but the end of initialize() makes the queries possible                *)

ChosenInv ==
    /\ stage \in Early \cup Loop => chosenBackend = NewBackend
    /\ stage = "ready" => initialized

LEMMA ChosenInit == Init => ChosenInv
BY Zenon DEF Init, ChosenInv, Early, Loop

LEMMA ChosenNext == ChosenInv /\ [Next]_setupVars => ChosenInv'
<1> SUFFICES ASSUME ChosenInv, [Next]_setupVars PROVE ChosenInv'
  OBVIOUS
<1>1. CASE UNCHANGED setupVars \/ \E name \in BackendNames \cup {NoBackend} : SetOption(name)
  <2>1. stage' = stage /\ chosenBackend' = chosenBackend /\ initialized' = initialized
    BY <1>1, Zenon DEF SetOption, setupVars, searchVars, catalogVars
  <2>2. initialized => initialized'
    BY <2>1, SMT
  <2> QED
    BY <2>1, <2>2, Zenon DEF ChosenInv, NewBackend
<1>2. CASE CallInitialize \/ Login \/ ListDevices \/ Calibrate \/ TakeParameters
  <2>1. /\ stage \in Early \cup Loop /\ stage' \in Early \cup Loop
        /\ chosenBackend' = chosenBackend
    BY <1>2, Zenon DEF CallInitialize, Login, ListDevices, Calibrate, TakeParameters, catalogVars,
                       Early, Loop, Requests
  <2> QED
    BY <2>1, Zenon DEF ChosenInv, Early, Loop, NewBackend
<1>3. CASE TakeDevice
  <2>1. stage = "device" /\ stage' \in Loop /\ chosenBackend' = chosenBackend
    BY <1>3, Zenon DEF TakeDevice, Loop
  <2> QED
    BY <2>1, Zenon DEF ChosenInv, Early, Loop, NewBackend
<1>4. CASE Search
  <2>1. /\ stage \in {"search", "read", "check"} /\ chosenBackend' = chosenBackend
        /\ stage' \in {"read", "check", "login", "exited", "crashed"}
    BY <1>4, Zenon DEF Search, searchAPIKey, SearchWithoutHome, SearchFile, SearchOptions, ReadLine,
                       ReadBeyond, EndOfFile, KeyFound, KeyEmpty, Ended, Assigned, catalogVars
  <2> QED
    BY <2>1, Zenon DEF ChosenInv, Early, Loop, NewBackend
<1>5. CASE RequestFailed \/ QueryRefused
  <2>1. stage' \in {"exited", "refused"}
    BY <1>5, Zenon DEF RequestFailed, QueryRefused, Ended
  <2> QED
    BY <2>1, Zenon DEF ChosenInv, Early, Loop
<1>6. CASE FinishInitialize
  <2>1. stage' \in {"ready", "exited"} /\ initialized'
    BY <1>6, Zenon DEF FinishInitialize
  <2> QED
    BY <2>1, Zenon DEF ChosenInv, Early, Loop
<1> QED
  BY <1>1, <1>2, <1>3, <1>4, <1>5, <1>6, Zenon DEF Next

LEMMA NoRates ==
    chosenBackend = NewBackend => getOneBitErrorRates = <<>> /\ getTwoBitErrorRates = <<>>
<1> SUFFICES ASSUME chosenBackend = NewBackend
             PROVE  getOneBitErrorRates = <<>> /\ getTwoBitErrorRates = <<>>
  OBVIOUS
<1>1. chosenBackend.gateErrors = <<>> /\ chosenBackend.multiQubitGates = <<>>
  <2>1. NewBackend.gateErrors = <<>> /\ NewBackend.multiQubitGates = <<>>
    BY ONLY SMT DEF NewBackend
  <2> QED
    BY <2>1, Zenon
<1> DEFINE rate(i) == LET gate == chosenBackend.multiQubitGates[i] IN
                      <<<<gate.qubits[1], gate.qubits[2]>>, gate.error>>
<1>2. getTwoBitErrorRates = [i \in DOMAIN chosenBackend.multiQubitGates |-> rate(i)]
  BY Zenon DEF getTwoBitErrorRates
<1>3. DOMAIN chosenBackend.multiQubitGates = {}
  BY <1>1, SMT
<1> HIDE DEF rate
<1>4. [i \in {} |-> rate(i)] = <<>>
  BY SMT
<1> QED
  BY <1>1, <1>2, <1>3, <1>4, Zenon DEF getOneBitErrorRates

(* From then on it is an entry of the catalogue, which is not touched either *)
RatesInv ==
    initialized =>
        \/ chosenBackend = NewBackend
        \/ \E name \in DOMAIN availableBackends : chosenBackend = availableBackends[name]

LEMMA RatesNext ==
    ASSUME CatalogInv, ChosenInv, RatesInv, [Next]_setupVars
    PROVE  RatesInv'
<1>1. ASSUME UNCHANGED <<initialized, chosenBackend, availableBackends>> PROVE RatesInv'
  <2>1. initialized' => initialized
    BY <1>1, SMT
  <2> QED
    BY <1>1, <2>1, Zenon DEF RatesInv, NewBackend
<1>2. CASE TakeDevice \/ TakeParameters
  <2>1. stage \in Loop /\ initialized' = initialized
    BY <1>2, Zenon DEF TakeDevice, TakeParameters, Loop
  <2> QED
    BY <2>1, Zenon DEF CatalogInv, RatesInv
<1>3. CASE FinishInitialize
  <2>1. /\ stage = "device" /\ availableBackends' = availableBackends
        /\ chosenBackend' = IF Usable THEN Chosen ELSE chosenBackend
    BY <1>3, Zenon DEF FinishInitialize
  <2>2. chosenBackend = NewBackend
    BY <2>1, Zenon DEF ChosenInv, Loop
  <2>3. CASE Usable /\ option # NoBackend
    <3>1. option \in DOMAIN availableBackends /\ chosenBackend' = availableBackends[option]
      BY <2>1, <2>3, Zenon DEF Usable, Chosen
    <3> QED
      BY <2>1, <3>1, Zenon DEF RatesInv
  <2>4. CASE ~ (Usable /\ option # NoBackend)
    <3>1. chosenBackend' = NewBackend
      BY <2>1, <2>2, <2>4, Zenon DEF Chosen
    <3> QED
      BY <3>1, Zenon DEF RatesInv, NewBackend
  <2> QED
    BY <2>3, <2>4
<1>4. CASE \/ UNCHANGED setupVars \/ CallInitialize \/ Search \/ RequestFailed \/ Login
           \/ ListDevices \/ Calibrate \/ QueryRefused
           \/ \E name \in BackendNames \cup {NoBackend} : SetOption(name)
  <2>1. UNCHANGED <<initialized, chosenBackend, availableBackends>>
    BY <1>4, Zenon DEF CallInitialize, Search, RequestFailed, Login, ListDevices, Calibrate,
        QueryRefused, SetOption, setupVars, catalogVars
  <2> QED
    BY <1>1, <2>1
<1> QED
  BY <1>2, <1>3, <1>4, Zenon DEF Next

LEMMA RatesInit == Init => RatesInv
BY Zenon DEF Init, RatesInv

(* Rates of a backend that stands for an entry of the list *)
LEMMA RatesOfEntry ==
    ASSUME NEW device, StandsFor(chosenBackend, device)
    PROVE  IF Calibrated(device)
           THEN /\ getOneBitErrorRates = device.calibratedQubits
                /\ getTwoBitErrorRates =
                    [i \in DOMAIN device.multiQubitGates |-> RateOfPair(device.multiQubitGates[i])]
           ELSE getOneBitErrorRates = <<>> /\ getTwoBitErrorRates = <<>>
<1> DEFINE gates == chosenBackend.multiQubitGates
           rates(named) == [i \in DOMAIN named |-> RateOfPair(named[i])]
<1>1. getTwoBitErrorRates = rates(gates)
  BY Zenon DEF getTwoBitErrorRates, RateOfPair
<1>2. rates(<<>>) = <<>>
  BY SMT
<1> HIDE DEF gates, rates
<1>3. CASE Calibrated(device)
  <2>1. chosenBackend.gateErrors = device.calibratedQubits /\ gates = device.multiQubitGates
    BY <1>3, Zenon DEF StandsFor, Calibrated, gates
  <2> QED
    BY <1>1, <1>3, <2>1, Zenon DEF getOneBitErrorRates, rates
<1>4. CASE ~ Calibrated(device)
  <2>1. chosenBackend.gateErrors = <<>> /\ gates = <<>>
    BY <1>4, Zenon DEF StandsFor, Calibrated, gates
  <2> QED
    BY <1>1, <1>2, <1>4, <2>1, Zenon DEF getOneBitErrorRates
<1> QED
  BY <1>3, <1>4

(* Whatever the option is set to later, the rates answered are those the service *)
(* gave for the first entry of the backend that was chosen, and of no other.     *)
(* (getOneBitErrorRates, :51, getTwoBitErrorRates, :56, and :208-256.)           *)
THEOREM SetupRatesOfDevice == Spec => []RatesOfDevice
<1>1. TypeOK /\ CatalogInv /\ RatesInv => RatesOfDevice
  <2> SUFFICES ASSUME TypeOK, CatalogInv, RatesInv, initialized PROVE RatesOfDevice
    BY Zenon DEF RatesOfDevice
  <2>1. CASE chosenBackend = NewBackend
    BY <2>1, NoRates, Zenon DEF RatesOfDevice
  <2>2. CASE chosenBackend # NewBackend
    <3>1. PICK name \in DOMAIN availableBackends : chosenBackend = availableBackends[name]
      BY <2>2, Zenon DEF RatesInv
    <3>2. chosenBackend.name = name
      BY <3>1, Zenon DEF TypeOK
    <3>3. CatalogOfListing
      BY HeldAll, Zenon DEF CatalogInv, CatalogOfListing
    <3>4. StandsFor(chosenBackend, listing[EntryOf(name)])
      BY <3>1, <3>3, Zenon DEF CatalogOfListing
    <3> QED
      BY <2>2, <3>2, <3>4, RatesOfEntry, Zenon DEF RatesOfDevice
  <2> QED
    BY <2>1, <2>2
<1> QED
  BY <1>1, TypeInit, TypeNext, CatalogInit, CatalogNext, ChosenInit, ChosenNext,
     RatesInit, RatesNext, PTL DEF Spec

-----------------------------------------------------------------------------
(* Every pair of n qubits, once *)
LEMMA PairFacts ==
    ASSUME NEW n \in Nat
    PROVE  \A a, b : <<a, b>> \in AllPairs(n) <=> a \in 0..(n - 1) /\ b \in 0..(n - 1) /\ a < b
<1>1. ASSUME NEW a, NEW b
      PROVE  <<a, b>> \in AllPairs(n) <=> a \in 0..(n - 1) /\ b \in 0..(n - 1) /\ a < b
  <2>1. <<a, b>>[1] = a /\ <<a, b>>[2] = b
    BY ONLY SMT
  <2> QED
    BY <2>1, Zenon DEF AllPairs
<1> QED
  BY <1>1

LEMMA PairsOnce ==
    ASSUME NEW n \in Nat
    PROVE  /\ \A edge \in AllPairs(n) :
                edge[1] # edge[2] /\ <<edge[2], edge[1]>> \notin AllPairs(n)
           /\ UNION {{edge[1], edge[2]} : edge \in AllPairs(n)} =
                IF n < 2 THEN {} ELSE 0..(n - 1)
<1> DEFINE ends == {{edge[1], edge[2]} : edge \in AllPairs(n)}
<1>1. ASSUME NEW edge \in AllPairs(n)
      PROVE  /\ edge[1] \in 0..(n - 1) /\ edge[2] \in 0..(n - 1)
             /\ edge[1] < edge[2] /\ edge[1] # edge[2] /\ ~ (edge[2] < edge[1])
  <2>1. edge[1] \in 0..(n - 1) /\ edge[2] \in 0..(n - 1) /\ edge[1] < edge[2]
    BY Zenon DEF AllPairs
  <2> QED
    BY <2>1, SMT
<1>2. ASSUME NEW a \in 0..(n - 1), NEW b \in 0..(n - 1), a < b
      PROVE  {a, b} \in ends
  <2>1. <<a, b>> \in AllPairs(n)
    BY <1>2, PairFacts, Zenon
  <2>2. <<a, b>>[1] = a /\ <<a, b>>[2] = b
    BY ONLY SMT
  <2> QED
    BY <2>1, <2>2, Zenon
<1>3. CASE n < 2
  <2>1. \A a, b \in 0..(n - 1) : ~ (a < b)
    BY <1>3, SMT
  <2>2. AllPairs(n) = {}
    BY <1>1, <2>1, Zenon
  <2> QED
    BY <1>1, <1>3, <2>2, Zenon
<1>4. CASE ~ (n < 2)
  <2>1. ASSUME NEW q \in 0..(n - 1) PROVE \E qubits \in ends : q \in qubits
    <3>1. CASE q = 0
      <4>1. 0 \in 0..(n - 1) /\ 1 \in 0..(n - 1) /\ 0 < 1
        BY <1>4, SMT
      <4>2. {0, 1} \in ends
        BY <1>2, <4>1
      <4> QED
        BY <3>1, <4>2, Zenon
    <3>2. CASE q # 0
      <4>1. 0 \in 0..(n - 1) /\ 0 < q
        BY <3>2, SMT
      <4>2. {0, q} \in ends
        BY <1>2, <4>1
      <4> QED
        BY <4>2, Zenon
    <3> QED
      BY <3>1, <3>2
  <2>2. \A qubits \in ends : qubits \subseteq 0..(n - 1)
    BY <1>1, Zenon
  <2>3. UNION ends = 0..(n - 1)
    <3> HIDE DEF ends
    <3> QED
      BY <2>1, <2>2, Zenon
  <2>4. \A edge \in AllPairs(n) : edge[1] # edge[2] /\ <<edge[2], edge[1]>> \notin AllPairs(n)
    BY <1>1, PairFacts, Zenon
  <2> QED
    BY <1>4, <2>3, <2>4, Zenon
<1> QED
  BY <1>3, <1>4

LEMMA QubitsOfBackend ==
    ASSUME NEW A, NEW B, NEW C, NEW D, NEW E, NEW F, NEW G, NEW H,
           NEW made \in [name : A, nQubits : B, couplers : C, status : D, isSimulator : E,
                         gateErrors : F, multiQubitGates : G, T1s : H]
    PROVE  made.nQubits \in B
BY ONLY SMT

LEMMA ConnectivityAnswered ==
    TypeOK /\ CatalogOfListing => ConnectivityOfDevice
<1> SUFFICES ASSUME TypeOK, CatalogOfListing, initialized, queried \in DOMAIN availableBackends
             PROVE  ConnectivityOfDevice
  BY Zenon DEF ConnectivityOfDevice
<1> DEFINE device == listing[EntryOf(queried)]
           coupled == ~ device.simulator /\ device.couplingMap \notin {Absent, <<>>}
           asked == availableBackends[queried]
<1>1. /\ asked.couplers = IF device.simulator THEN <<>> ELSE Member(device.couplingMap)
      /\ device.nQubits # Absent => asked.nQubits = device.nQubits
  BY Zenon DEF CatalogOfListing, StandsFor
<1>2. asked.nQubits \in Nat
  <2>1. asked \in IBMBackends
    BY Zenon DEF TypeOK
  <2> QED
    BY <2>1, QubitsOfBackend, Zenon DEF IBMBackends
<1>3. getAcceleratorConnectivity =
        IF asked.couplers # <<>> THEN ToSet(asked.couplers) ELSE AllPairs(asked.nQubits)
  BY Zenon DEF getAcceleratorConnectivity
<1>4. CASE coupled
  <2>1. asked.couplers = device.couplingMap /\ device.couplingMap # <<>>
    BY <1>1, <1>4, Zenon DEF Member
  <2>2. getAcceleratorConnectivity = ToSet(device.couplingMap)
    BY <1>3, <2>1, Zenon
  <2> QED
    BY <1>4, <2>2, Zenon DEF ConnectivityOfDevice
<1>5. CASE ~ coupled
  <2>1. asked.couplers = <<>>
    BY <1>1, <1>5, Zenon DEF Member
  <2>2. getAcceleratorConnectivity = AllPairs(asked.nQubits)
    BY <1>3, <2>1, Zenon
  <2>3. ASSUME device.nQubits # Absent
        PROVE  /\ \A edge \in getAcceleratorConnectivity :
                    edge[1] # edge[2] /\ <<edge[2], edge[1]>> \notin getAcceleratorConnectivity
               /\ UNION {{edge[1], edge[2]} : edge \in getAcceleratorConnectivity} =
                        IF device.nQubits < 2 THEN {} ELSE 0..(device.nQubits - 1)
    <3> DEFINE n == device.nQubits
               edges == getAcceleratorConnectivity
    <3>1. n \in Nat /\ edges = AllPairs(n)
      BY <1>1, <1>2, <2>2, <2>3, Zenon
    <3> HIDE DEF n, edges
    <3>2. /\ \A edge \in edges : edge[1] # edge[2] /\ <<edge[2], edge[1]>> \notin edges
          /\ UNION {{edge[1], edge[2]} : edge \in edges} = IF n < 2 THEN {} ELSE 0..(n - 1)
      BY <3>1, PairsOnce, Zenon
    <3> QED
      BY <3>2, Zenon DEF n, edges
  <2> QED
    BY <1>5, <2>3, Zenon DEF ConnectivityOfDevice
<1> QED
  BY <1>4, <1>5

(* What the compiler is told the device connects is its own coupling map, or every *)
(* pair of its qubits once, for every list and every option.                       *)
(* (getAcceleratorConnectivity, :665-696, over the catalogue of :172-256.)         *)
THEOREM SetupConnectivityOfDevice == Spec => []ConnectivityOfDevice
<1> QED
  BY ConnectivityAnswered, SetupTypeCorrect, SetupCatalogOfListing, PTL

-----------------------------------------------------------------------------
(* Settings of a file: after k lines, a setting labelled without ambiguity has *)
(* the value of the last of those lines that is labelled with it               *)

LastSays(value, file, setting, k) ==
    \/ (\A i \in 1..k : setting \notin file[i].found) /\ value = <<>>
    \/ \E i \in 1..k :
        /\ setting \in file[i].found
        /\ \A j \in (i + 1)..k : setting \notin file[j].found
        /\ value = Trimmed(Tail(file[i].pieces))

Left(k) ==
    /\ Len(FileOf) = k + Len(lines)
    /\ \A i \in 1..Len(lines) : lines[i] = FileOf[k + i]

SaidSoFar(k) ==
    \A setting \in Settings :
        Clean(FileOf, setting) => LastSays(credentials[setting], FileOf, setting, k)

OwnLinesInv ==
    /\ stage = "read" => \E k \in Nat : Left(k) /\ SaidSoFar(k)
    /\ stage \in {"check", "login"} /\ home # NoHome /\ FileOf # Unset => SaidSoFar(Len(FileOf))

(* One line more *)
LEMMA NotLabelled ==
    ASSUME NEW value, NEW file, NEW setting, NEW k \in Nat,
           LastSays(value, file, setting, k), setting \notin file[k + 1].found
    PROVE  LastSays(value, file, setting, k + 1)
<1>1. /\ 1..(k + 1) = 1..k \cup {k + 1}
      /\ \A i \in 1..k : (i + 1)..(k + 1) = (i + 1)..k \cup {k + 1}
  BY ONLY k \in Nat, SMT
<1> QED
  BY <1>1, Zenon DEF LastSays

LEMMA NowLabelled ==
    ASSUME NEW file, NEW setting, NEW k \in Nat, setting \in file[k + 1].found
    PROVE  LastSays(Trimmed(Tail(file[k + 1].pieces)), file, setting, k + 1)
<1>1. k + 1 \in 1..(k + 1) /\ ((k + 1) + 1)..(k + 1) = {}
  BY ONLY k \in Nat, SMT
<1> QED
  BY <1>1, Zenon DEF LastSays

(* The first word found is the line's setting, and a word that is found alone *)
LEMMA SettingFound ==
    ASSUME NEW line \in Line, line.found # {}
    PROVE  /\ Setting(line) \in line.found
           /\ \A setting \in Settings : line.found = {setting} => Setting(line) = setting
<1>1. line.found \subseteq Settings
  BY Zenon DEF Line
<1>2. Setting(line) \in line.found
  <2>1. CASE \E word \in {"key", "url", "hub", "group"} : word \in line.found
    BY <2>1, Zenon DEF Setting
  <2>2. CASE \A word \in {"key", "url", "hub", "group"} : word \notin line.found
    <3>1. "project" \in line.found
      BY <1>1, <2>2, Zenon DEF Settings
    <3>2. Setting(line) = "project"
      BY <2>2, Zenon DEF Setting
    <3> QED
      BY <3>1, <3>2
  <2> QED
    BY <2>1, <2>2, Zenon
<1>3. ASSUME NEW setting, line.found = {setting} PROVE Setting(line) = setting
  <2>1. Setting(line) \in {setting}
    BY <1>2, <1>3
  <2> QED
    BY <2>1, Zenon
<1> QED
  BY <1>2, <1>3, Zenon

(* Of a line that is as it should be all of the rest is stored *)
LEMMA CleanValue ==
    ASSUME NEW line, line.pieces \in Seq(Texts),
           Len(line.pieces) = IF Setting(line) = "url" THEN 3 ELSE 2
    PROVE  ~ Short(line) /\ Value(line) = Trimmed(Tail(line.pieces))
<1> DEFINE n == 1 + Pieces(Setting(line))
           pieces == line.pieces
<1>1. Len(pieces) = n
  BY SMT DEF Pieces
<1>2. pieces \in Seq(Texts) /\ n \in Nat /\ n >= 2
  <2>1. Pieces(Setting(line)) \in {1, 2}
    BY Zenon DEF Pieces
  <2> QED
    BY <2>1, SMT
<1>3. ~ Short(line)
  BY <1>1, <1>2, SMT DEF Short
<1>4. SubSeq(pieces, 2, n) = Tail(pieces)
  <2> HIDE DEF pieces, n
  <2> QED
    BY <1>1, <1>2, SMT
<1> QED
  BY <1>3, <1>4, Zenon DEF Value

(* A line that sets something *)
LEMMA SaidByLine ==
    ASSUME TypeOK, NEW k \in Nat, SaidSoFar(k), k + 1 \in DOMAIN FileOf,
           FileOf \in File, NEW line, line = FileOf[k + 1], line.found # {},
           NEW value, value = Value(line) \/ Short(line),
           credentials' = [credentials EXCEPT ![Setting(line)] = value]
    PROVE  \A setting \in Settings :
                Clean(FileOf, setting) => LastSays(credentials'[setting], FileOf, setting, k + 1)
<1>1. line \in Line /\ line.pieces \in Seq(Texts)
  <2>1. line \in Lines
    BY SMT DEF File
  <2>2. line \in Line
    BY <2>1, LinesAssumption, Zenon
  <2> QED
    BY <2>2, SMT DEF Line
<1>2. Setting(line) \in line.found
  BY <1>1, SettingFound, Zenon
<1>3. credentials \in [Settings -> Values]
  BY Zenon DEF TypeOK, SearchTypeOK, Values
<1> SUFFICES ASSUME NEW setting \in Settings, Clean(FileOf, setting)
             PROVE  LastSays(credentials'[setting], FileOf, setting, k + 1)
  OBVIOUS
<1>4. CASE setting = Setting(line)
  <2>1. credentials'[setting] = value
    BY <1>3, <1>4, Zenon
  <2>2. Len(line.pieces) = IF setting = "url" THEN 3 ELSE 2
    BY <1>2, <1>4, Zenon DEF Clean
  <2>3. value = Trimmed(Tail(line.pieces))
    BY <1>1, <1>4, <2>2, CleanValue, Zenon
  <2> QED
    BY <1>2, <1>4, <2>1, <2>3, NowLabelled, Zenon
<1>5. CASE setting # Setting(line)
  <2>1. credentials'[setting] = credentials[setting]
    BY <1>3, <1>5, Zenon
  <2>2. setting \notin line.found
    BY <1>1, <1>5, SettingFound, Zenon DEF Clean
  <2> QED
    BY <2>1, <2>2, NotLabelled, Zenon DEF SaidSoFar
<1> QED
  BY <1>4, <1>5

LEMMA LinesLeftOver ==
    ASSUME lines \in File, lines # <<>>, NEW k \in Nat, Left(k), FileOf \in File
    PROVE  /\ k + 1 \in DOMAIN FileOf /\ Head(lines) = FileOf[k + 1]
           /\ Len(FileOf) = (k + 1) + Len(Tail(lines))
           /\ \A i \in 1..Len(Tail(lines)) : Tail(lines)[i] = FileOf[(k + 1) + i]
<1> DEFINE rest == Tail(lines)
<1>1. /\ Len(lines) \in Nat /\ Len(lines) >= 1 /\ Head(lines) = lines[1]
      /\ Len(rest) = Len(lines) - 1
      /\ \A i \in 1..Len(rest) : rest[i] = lines[i + 1]
  BY SMT DEF File
<1>2. /\ Len(FileOf) = k + Len(lines) /\ DOMAIN FileOf = 1..Len(FileOf)
      /\ \A i \in 1..Len(lines) : lines[i] = FileOf[k + i]
  BY SMT DEF Left, File
<1> HIDE DEF rest
<1>3. ASSUME NEW i \in 1..Len(rest) PROVE rest[i] = FileOf[(k + 1) + i]
  <2>1. i + 1 \in 1..Len(lines) /\ k + (i + 1) = (k + 1) + i
    BY <1>1, SMT
  <2> QED
    BY <1>1, <1>2, <2>1, Zenon
<1>4. Head(lines) = FileOf[k + 1]
  <2>1. 1 \in 1..Len(lines)
    BY <1>1, SMT
  <2> QED
    BY <1>1, <1>2, <2>1, Zenon
<1>5. k + 1 \in DOMAIN FileOf /\ Len(FileOf) = (k + 1) + Len(rest)
  BY <1>1, <1>2, SMT
<1> QED
  BY <1>3, <1>4, <1>5, Zenon DEF rest

LEMMA OwnLinesInit == Init => OwnLinesInv
BY Zenon DEF Init, OwnLinesInv

LEMMA OwnLinesSearch ==
    ASSUME TypeOK, SourceInv, OwnLinesInv, searchAPIKey
    PROVE  OwnLinesInv'
<1>1. SearchTypeOK /\ SourcesTypeOK /\ lines \in File
  BY Zenon DEF TypeOK, SearchTypeOK
<1>2. UNCHANGED sources
  <2>1. stage \in Stages
    BY Zenon DEF TypeOK, Stages
  <2> QED
    BY <1>1, <2>1, SearchType, Zenon
<1>3. FileOf' = FileOf /\ home' = home
  BY <1>2, Zenon DEF sources, FileOf
<1>4. ASSUME NEW k,
             \A setting \in Settings :
                Clean(FileOf, setting) => LastSays(credentials'[setting], FileOf, setting, k)
      PROVE  SaidSoFar(k)'
  BY <1>3, <1>4, Zenon DEF SaidSoFar
<1>5. ASSUME home # NoHome, FileOf # Unset PROVE FileOf \in File
  BY <1>1, <1>5, Zenon DEF SourcesTypeOK, FileOf
<1>6. CASE SearchWithoutHome \/ KeyEmpty
  BY <1>6, Zenon DEF SearchWithoutHome, KeyEmpty, Ended, OwnLinesInv
<1>7. CASE SearchFile
  <2>1. /\ stage' = "read" /\ lines' = FileOf /\ credentials' = credentials
        /\ credentials = NoCredentials /\ FileOf \in File
    BY <1>5, <1>7, Zenon DEF SearchFile, SourceInv
  <2>2. Left(0)'
    <3>1. /\ Len(FileOf) = 0 + Len(FileOf)
          /\ \A i \in 1..Len(FileOf) : FileOf[i] = FileOf[0 + i]
      BY <2>1, SMT DEF File
    <3> QED
      BY <1>3, <2>1, <3>1, Zenon DEF Left
  <2>3. 1..0 = {}
    BY SMT
  <2>4. SaidSoFar(0)'
    BY <1>4, <2>1, <2>3, Zenon DEF LastSays, NoCredentials
  <2> QED
    BY <2>1, <2>2, <2>4, Zenon DEF OwnLinesInv
<1>8. CASE SearchOptions
  BY <1>3, <1>8, Zenon DEF SearchOptions, Ended, OwnLinesInv
<1>9. CASE ReadLine \/ ReadBeyond
  <2>1. stage = "read" /\ lines # <<>> /\ FileOf \in File
    BY <1>5, <1>9, Zenon DEF ReadLine, ReadBeyond, SourceInv
  <2>2. PICK k \in Nat : Left(k) /\ SaidSoFar(k)
    BY <2>1, Zenon DEF OwnLinesInv
  <2> DEFINE line == Head(lines)
  <2>3. /\ k + 1 \in DOMAIN FileOf /\ line = FileOf[k + 1]
        /\ Len(FileOf) = (k + 1) + Len(Tail(lines))
        /\ \A i \in 1..Len(Tail(lines)) : Tail(lines)[i] = FileOf[(k + 1) + i]
    BY <1>1, <2>1, <2>2, LinesLeftOver, Zenon
  <2>4. k + 1 \in Nat
    BY SMT
  <2>5. ASSUME lines' = Tail(lines), stage' = stage,
               \A setting \in Settings :
                    Clean(FileOf, setting) => LastSays(credentials'[setting], FileOf, setting, k + 1)
        PROVE  OwnLinesInv'
    <3>1. Left(k + 1)'
      BY <1>3, <2>3, <2>5, Zenon DEF Left
    <3>2. SaidSoFar(k + 1)'
      BY <1>4, <2>5, Zenon
    <3> QED
      BY <2>1, <2>4, <2>5, <3>1, <3>2, Zenon DEF OwnLinesInv
  <2>6. CASE line.found = {} /\ lines' = Tail(lines) /\ UNCHANGED <<sources, stage, credentials>>
    <3>1. ASSUME NEW setting \in Settings, Clean(FileOf, setting)
          PROVE  LastSays(credentials'[setting], FileOf, setting, k + 1)
      <4>1. setting \notin FileOf[k + 1].found
        BY <2>3, <2>6, Zenon
      <4> QED
        BY <2>2, <2>6, <3>1, <4>1, NotLabelled, Zenon DEF SaidSoFar
    <3> QED
      BY <2>5, <2>6, <3>1, Zenon
  <2>7. ASSUME NEW value, line.found # {}, value = Value(line) \/ Short(line), Assigned(line, value)
        PROVE  OwnLinesInv'
    <3>1. \A setting \in Settings :
                Clean(FileOf, setting) => LastSays(credentials'[setting], FileOf, setting, k + 1)
      <4> HIDE DEF line
      <4> QED
        BY <2>1, <2>2, <2>3, <2>7, SaidByLine, Zenon DEF Assigned
    <3> QED
      BY <2>5, <2>7, <3>1, Zenon DEF Assigned
  <2>8. CASE Ended("crashed")
    BY <2>8, Zenon DEF Ended, OwnLinesInv
  <2> QED
    BY <1>9, <2>6, <2>7, <2>8, Zenon DEF ReadLine, ReadBeyond
<1>10. CASE EndOfFile
  <2>1. stage = "read" /\ lines = <<>> /\ stage' = "check" /\ credentials' = credentials
    BY <1>10, Zenon DEF EndOfFile
  <2>2. PICK k \in Nat : Left(k) /\ SaidSoFar(k)
    BY <2>1, Zenon DEF OwnLinesInv
  <2>3. Len(FileOf) = k
    <3>1. Len(FileOf) = k + Len(lines)
      BY <2>2, Zenon DEF Left
    <3> QED
      BY <2>1, <3>1, SMT
  <2>4. SaidSoFar(Len(FileOf))'
    BY <1>3, <1>4, <2>1, <2>2, <2>3, Zenon DEF SaidSoFar
  <2> QED
    BY <2>1, <2>4, Zenon DEF OwnLinesInv
<1>11. CASE KeyFound
  <2>1. stage = "check" /\ stage' = "login" /\ credentials' = credentials
    BY <1>11, Zenon DEF KeyFound
  <2>2. home # NoHome /\ FileOf # Unset =>
            \A setting \in Settings : Clean(FileOf, setting) =>
                LastSays(credentials[setting], FileOf, setting, Len(FileOf))
    BY <2>1, Zenon DEF OwnLinesInv, SaidSoFar
  <2>3. home' # NoHome /\ FileOf' # Unset => SaidSoFar(Len(FileOf))'
    BY <1>3, <2>1, <2>2, Zenon DEF SaidSoFar
  <2> QED
    BY <2>1, <2>3, Zenon DEF OwnLinesInv
<1> QED
  BY <1>6, <1>7, <1>8, <1>9, <1>10, <1>11, Zenon DEF searchAPIKey

LEMMA OwnLinesNext == TypeOK /\ SourceInv /\ OwnLinesInv /\ [Next]_setupVars => OwnLinesInv'
<1> SUFFICES ASSUME TypeOK, SourceInv, OwnLinesInv, [Next]_setupVars PROVE OwnLinesInv'
  OBVIOUS
<1>1. CASE Search
  BY <1>1, OwnLinesSearch, Zenon DEF Search
<1>2. CASE \/ CallInitialize \/ RequestFailed \/ QueryRefused \/ Login \/ ListDevices \/ TakeDevice
           \/ Calibrate \/ TakeParameters \/ FinishInitialize
  <2>1. stage' \notin {"read", "check", "login"}
    BY <1>2, Zenon DEF CallInitialize, RequestFailed, QueryRefused, Ended, Login, ListDevices, TakeDevice,
                       Calibrate, TakeParameters, FinishInitialize
  <2> QED
    BY <2>1, Zenon DEF OwnLinesInv
<1>3. CASE UNCHANGED setupVars \/ \E name \in BackendNames \cup {NoBackend} : SetOption(name)
  <2>1. /\ stage' = stage /\ lines' = lines /\ credentials' = credentials
        /\ home' = home /\ FileOf' = FileOf
    BY <1>3, Zenon DEF SetOption, setupVars, searchVars, sources, FileOf
  <2>2. \A k : (Left(k)' <=> Left(k)) /\ (SaidSoFar(k)' <=> SaidSoFar(k))
    BY <2>1, Zenon DEF Left, SaidSoFar
  <2>3. Len(FileOf)' = Len(FileOf)
    BY <2>1, Zenon
  <2> QED
    BY <2>1, <2>2, <2>3, Zenon DEF OwnLinesInv
<1> QED
  BY <1>1, <1>2, <1>3, Zenon DEF Next

(* The value of the last labelled line is the one the property chooses *)
LEMMA LastSaysIsLast ==
    ASSUME NEW value, NEW file \in File, NEW setting, LastSays(value, file, setting, Len(file))
    PROVE  value = IF Labelled(file, setting) = {} THEN <<>>
                   ELSE LET last == CHOOSE i \in Labelled(file, setting) :
                                        \A j \in Labelled(file, setting) : j <= i
                        IN  Trimmed(Tail(file[last].pieces))
<1>1. DOMAIN file = 1..Len(file) /\ Len(file) \in Nat
  BY SMT DEF File
<1>2. CASE (\A i \in 1..Len(file) : setting \notin file[i].found) /\ value = <<>>
  BY <1>1, <1>2, Zenon DEF Labelled
<1>3. ASSUME NEW i \in 1..Len(file), setting \in file[i].found,
             \A j \in (i + 1)..Len(file) : setting \notin file[j].found,
             value = Trimmed(Tail(file[i].pieces))
      PROVE  value = IF Labelled(file, setting) = {} THEN <<>>
                     ELSE LET last == CHOOSE n \in Labelled(file, setting) :
                                        \A j \in Labelled(file, setting) : j <= n
                          IN  Trimmed(Tail(file[last].pieces))
  <2> DEFINE all == Labelled(file, setting)
             Latest(n) == \A j \in all : j <= n
             last == CHOOSE n \in all : Latest(n)
  <2>1. i \in all /\ all \subseteq 1..Len(file)
    BY <1>1, <1>3, Zenon DEF Labelled
  <2>2. Latest(i)
    <3> SUFFICES ASSUME NEW j \in all PROVE j <= i
      OBVIOUS
    <3>1. j \notin (i + 1)..Len(file)
      BY <1>3, Zenon DEF Labelled
    <3> HIDE DEF all
    <3> QED
      BY <1>1, <2>1, <3>1, SMT
  <2>3. last \in all /\ Latest(last)
    <3> HIDE DEF all, Latest
    <3> QED
      BY <2>1, <2>2, Zenon
  <2>4. last <= i /\ i <= last
    BY <2>1, <2>2, <2>3, Zenon
  <2>5. last = i
    <3> HIDE DEF all, last
    <3> QED
      BY <1>1, <2>1, <2>3, <2>4, SMT
  <2>6. all # {}
    BY <2>1, Zenon
  <2>7. value = Trimmed(Tail(file[last].pieces))
    BY <1>3, <2>5, Zenon
  <2> QED
    BY <2>6, <2>7, SMT
<1> QED
  BY <1>2, <1>3, Zenon DEF LastSays

(* However a file is written, a setting that is labelled on lines of its own gets *)
(* the value of the last of them, whatever the other lines are: ones without a    *)
(* colon, remarks, words within words.  (findApiKeyInFile, :744.)                 *)
THEOREM SetupSettingsFromOwnLines == Spec => []SettingsFromOwnLines
<1>1. TypeOK /\ OwnLinesInv => SettingsFromOwnLines
  <2> SUFFICES ASSUME TypeOK, OwnLinesInv, stage \in {"check", "login"}, home # NoHome, FileOf # Unset,
                      NEW setting \in Settings, Clean(FileOf, setting)
               PROVE  credentials[setting] =
                        IF Labelled(FileOf, setting) = {} THEN <<>>
                        ELSE LET last == CHOOSE i \in Labelled(FileOf, setting) :
                                            \A j \in Labelled(FileOf, setting) : j <= i
                             IN  Trimmed(Tail(FileOf[last].pieces))
    BY Zenon DEF SettingsFromOwnLines
  <2>1. FileOf \in File
    BY Zenon DEF TypeOK, SearchTypeOK, SourcesTypeOK, FileOf
  <2>2. LastSays(credentials[setting], FileOf, setting, Len(FileOf))
    BY Zenon DEF OwnLinesInv, SaidSoFar
  <2> QED
    BY <2>1, <2>2, LastSaysIsLast, Zenon
<1> QED
  BY <1>1, TypeInit, TypeNext, OneSourceInit, OneSourceNext, OwnLinesInit, OwnLinesNext, PTL DEF Spec

-----------------------------------------------------------------------------
(* The view of a session *)

View == <<Through, SnapshotTaken, NameChosen, ProcessState, Message, ListedStatus, option>>

LEMMA SessionUnchanged == ASSUME UNCHANGED View PROVE UNCHANGED Session!vars
<1>1. /\ Through' = Through /\ SnapshotTaken' = SnapshotTaken /\ NameChosen' = NameChosen
      /\ ProcessState' = ProcessState /\ Message' = Message /\ ListedStatus' = ListedStatus
      /\ option' = option
  BY Zenon DEF View
<1> QED
  BY <1>1, Zenon DEF Session!vars, Session!clientVars, Session!serviceVars, NothingRun

Before == ~ initialized /\ stage \notin Gone
Lost == ~ initialized /\ stage \in Gone

LEMMA NothingTaken == ~ Through => SnapshotTaken = <<>>
<1> SUFFICES ASSUME ~ Through PROVE SnapshotTaken = <<>>
  OBVIOUS
<1>1. SnapshotTaken = [name \in {} |-> availableBackends[name].status]
  BY Zenon DEF SnapshotTaken
<1>2. [name \in {} |-> availableBackends[name].status] = <<>>
  BY SMT
<1> QED
  BY <1>1, <1>2, Zenon

LEMMA ViewBefore ==
    Before => /\ Through = FALSE /\ SnapshotTaken = <<>>
              /\ ProcessState = "idle" /\ Message = "none"
<1> SUFFICES ASSUME Before
             PROVE  /\ Through = FALSE /\ SnapshotTaken = <<>>
                    /\ ProcessState = "idle" /\ Message = "none"
  OBVIOUS
<1>1. Through = FALSE
  BY SMT DEF Before, Through
<1> QED
  BY <1>1, NothingTaken, Zenon DEF Before, ProcessState, Message

LEMMA ViewLost ==
    Lost => /\ Through = FALSE /\ SnapshotTaken = <<>>
            /\ ProcessState = "exited" /\ Message = "request failed"
<1> SUFFICES ASSUME Lost
             PROVE  /\ Through = FALSE /\ SnapshotTaken = <<>>
                    /\ ProcessState = "exited" /\ Message = "request failed"
  OBVIOUS
<1>1. Through = FALSE
  BY SMT DEF Lost, Through
<1> QED
  BY <1>1, NothingTaken, Zenon DEF Lost, ProcessState, Message

LEMMA ViewChosen == chosenBackend = NewBackend => NameChosen = NoBackend
<1> SUFFICES ASSUME chosenBackend = NewBackend PROVE NameChosen = NoBackend
  OBVIOUS
<1>1. NewBackend.name = ""
  BY ONLY SMT DEF NewBackend
<1> QED
  BY <1>1, Zenon DEF NameChosen

LEMMA ViewListed == ASSUME listing' = listing PROVE ListedStatus' = ListedStatus
<1>1. \A name : EntryOf(name)' = EntryOf(name)
  BY Zenon DEF EntryOf
<1> QED
  BY <1>1, Zenon DEF ListedStatus

-----------------------------------------------------------------------------
(* The list is that of the session's devices *)

ListInv ==
    /\ {listing[i].name : i \in DOMAIN listing} = Backends
    /\ Simulators = {name \in Backends : listing[EntryOf(name)].simulator}

LEMMA ListNext == ListInv /\ [Next]_setupVars => ListInv'
<1> SUFFICES ASSUME ListInv, [Next]_setupVars PROVE ListInv'
  OBVIOUS
<1>1. listing' = listing
  BY Zenon DEF Next, CallInitialize, Login, ListDevices, Calibrate, TakeParameters, TakeDevice,
        FinishInitialize, RequestFailed, QueryRefused, Search, SetOption, setupVars
<1>2. \A name : EntryOf(name)' = EntryOf(name)
  BY <1>1, Zenon DEF EntryOf
<1> QED
  BY <1>1, <1>2, Zenon DEF ListInv

SessionInv == TypeOK /\ CatalogInv /\ ChosenInv /\ ListInv

LEMMA BeforeInit == Init => Before /\ chosenBackend = NewBackend
BY Zenon DEF Init, Before, Gone

LEMMA SessionStart == SessionInit => Session!Init
<1> SUFFICES ASSUME SessionInit PROVE Session!Init
  OBVIOUS
<1>1. /\ Through = FALSE /\ SnapshotTaken = <<>> /\ ProcessState = "idle" /\ Message = "none"
      /\ NameChosen = NoBackend /\ option \in BackendNames \cup {NoBackend}
  BY BeforeInit, ViewBefore, ViewChosen, Zenon DEF SessionInit, Init
<1>2. [name \in {} |-> FALSE] = <<>>
  BY SMT
<1>3. ListedStatus \in [Backends -> {"on", "off", "calibrating"}]
  BY Zenon DEF ListedStatus
<1> QED
  BY <1>1, <1>2, <1>3, Zenon DEF Session!Init, Session!NoCall, Session!DeviceStatuses, NothingRun

-----------------------------------------------------------------------------
(* Steps of initialize() that the session does not see *)
LEMMA RequestsUnseen ==
    ASSUME Before, Before', chosenBackend = NewBackend, chosenBackend' = chosenBackend,
           listing' = listing, option' = option
    PROVE  UNCHANGED Session!vars
<1>1. /\ Through = FALSE /\ SnapshotTaken = <<>> /\ ProcessState = "idle" /\ Message = "none"
      /\ NameChosen = NoBackend
  BY ViewBefore, ViewChosen, Zenon
<1>2. (Through = FALSE /\ SnapshotTaken = <<>> /\ ProcessState = "idle" /\ Message = "none")'
  BY ViewBefore, PTL
<1>3. NameChosen' = NameChosen
  BY Zenon DEF NameChosen
<1> QED
  BY <1>1, <1>2, <1>3, ViewListed, SessionUnchanged, Zenon DEF View

(* The process ends before initialize() does *)
LEMMA EndedBefore ==
    ASSUME Before, Lost', chosenBackend' = chosenBackend, listing' = listing, option' = option
    PROVE  Session!Next
<1>1. Through = FALSE /\ SnapshotTaken = <<>> /\ ProcessState = "idle"
  BY ViewBefore, Zenon
<1>2. (/\ Through = FALSE /\ SnapshotTaken = <<>>
       /\ ProcessState = "exited" /\ Message = "request failed")'
  BY ViewLost, PTL
<1>3. NameChosen' = NameChosen /\ ListedStatus' = ListedStatus
  BY ViewListed, Zenon DEF NameChosen
<1>4. Session!InitializeRejected
  BY <1>1, <1>2, <1>3, Zenon DEF Session!InitializeRejected, Session!Error, Session!session,
        Session!scratch, Session!serviceVars, NothingRun
<1> QED
  BY <1>4, Zenon DEF Session!Next, Session!Client

-----------------------------------------------------------------------------
(* The end of the loop: the catalogue holds the statuses of the list *)
LEMMA StatusOfBackend ==
    ASSUME NEW A, NEW B, NEW C, NEW D, NEW E, NEW F, NEW G, NEW H,
           NEW made \in [name : A, nQubits : B, couplers : C, status : D, isSimulator : E,
                         gateErrors : F, multiQubitGates : G, T1s : H]
    PROVE  made.status \in D
BY ONLY SMT

LEMMA LoopOver ==
    ASSUME TypeOK, CatalogInv, ListInv, stage = "device", devices = <<>>
    PROVE  /\ DOMAIN availableBackends = Backends
           /\ \A name \in Backends :
                /\ availableBackends[name].status = listing[EntryOf(name)].on
                /\ availableBackends[name].status \in BOOLEAN
                /\ availableBackends[name].name = name
<1>1. PICK k \in Nat : Held(k) /\ ToCome(k)
  BY Zenon DEF CatalogInv, Loop
<1>2. k = Len(listing)
  <2>1. Len(listing) = k + Len(devices)
    BY <1>1, Zenon DEF ToCome
  <2> QED
    BY <2>1, SMT
<1>3. /\ DOMAIN availableBackends = {listing[i].name : i \in DOMAIN listing}
      /\ \A name \in DOMAIN availableBackends :
            StandsFor(availableBackends[name], listing[EntryOf(name)])
  BY <1>1, <1>2, HeldAll, Zenon
<1>4. DOMAIN availableBackends = Backends
  BY <1>3, Zenon DEF ListInv
<1>5. ASSUME NEW name \in Backends
      PROVE  /\ availableBackends[name].status \in BOOLEAN
             /\ availableBackends[name].name = name
  <2>1. availableBackends[name] \in IBMBackends /\ availableBackends[name].name = name
    BY <1>4, Zenon DEF TypeOK
  <2>2. availableBackends[name].status \in BOOLEAN
    BY <2>1, StatusOfBackend, Zenon DEF IBMBackends
  <2> QED
    BY <2>1, <2>2
<1>6. ASSUME NEW name \in Backends
      PROVE  availableBackends[name].status = listing[EntryOf(name)].on
  BY <1>3, <1>4, Zenon DEF StandsFor
<1> QED
  BY <1>4, <1>5, <1>6

LEMMA SnapshotListed ==
    ASSUME DOMAIN availableBackends = Backends,
           \A name \in Backends :
                /\ availableBackends[name].status = listing[EntryOf(name)].on
                /\ availableBackends[name].status \in BOOLEAN
    PROVE  /\ [name \in DOMAIN availableBackends |-> availableBackends[name].status] = Session!Snapshot
           /\ \A name \in Backends : Session!Snapshot[name] <=> availableBackends[name].status
<1>1. ASSUME NEW name \in Backends
      PROVE  availableBackends[name].status = (ListedStatus[name] # "off")
  <2>1. ListedStatus[name] = IF availableBackends[name].status THEN "on" ELSE "off"
    BY Zenon DEF ListedStatus
  <2>2. CASE availableBackends[name].status = TRUE
    BY <2>1, <2>2, SMT
  <2>3. CASE availableBackends[name].status = FALSE
    BY <2>1, <2>3, SMT
  <2> QED
    BY <2>2, <2>3, Zenon
<1>2. Session!Snapshot = [name \in Backends |-> ListedStatus[name] # "off"]
  BY Zenon DEF Session!Snapshot
<1>3. [name \in DOMAIN availableBackends |-> availableBackends[name].status] = Session!Snapshot
  BY <1>1, <1>2, Zenon
<1>4. ASSUME NEW name \in Backends
      PROVE  Session!Snapshot[name] <=> availableBackends[name].status
  BY <1>1, <1>2, SMT
<1> QED
  BY <1>3, <1>4

LEMMA FinishSeen ==
    ASSUME SessionInv, FinishInitialize
    PROVE  Session!Next
<1>1. /\ stage = "device" /\ devices = <<>> /\ initialized' = TRUE
      /\ availableBackends' = availableBackends /\ listing' = listing /\ option' = option
  BY Zenon DEF FinishInitialize
<1>2. /\ DOMAIN availableBackends = Backends
      /\ \A name \in Backends :
            /\ availableBackends[name].status = listing[EntryOf(name)].on
            /\ availableBackends[name].status \in BOOLEAN
            /\ availableBackends[name].name = name
  BY <1>1, LoopOver, Zenon DEF SessionInv
<1>3. Before /\ chosenBackend = NewBackend
  BY <1>1, Zenon DEF SessionInv, CatalogInv, ChosenInv, Loop, Before, Gone
<1>4. /\ Through = FALSE /\ SnapshotTaken = <<>> /\ ProcessState = "idle" /\ Message = "none"
      /\ NameChosen = NoBackend
  BY <1>3, ViewBefore, ViewChosen, Zenon
<1>5. ListedStatus' = ListedStatus
  BY <1>1, ViewListed, Zenon
<1>6. /\ [name \in DOMAIN availableBackends |-> availableBackends[name].status] = Session!Snapshot
      /\ \A name \in Backends : Session!Snapshot[name] <=> availableBackends[name].status
  BY <1>2, SnapshotListed, Zenon
<1>7. option \in BackendNames \cup {NoBackend}
  BY Zenon DEF SessionInv, TypeOK
<1>8. CASE Usable
  <2>1. stage' = "ready" /\ chosenBackend' = Chosen
    BY <1>8, Zenon DEF FinishInitialize
  <2>2. Through' = TRUE
    BY <1>1, <2>1, SMT DEF Through
  <2>3. ProcessState' = "idle" /\ Message' = "none"
    BY <2>1, Zenon DEF ProcessState, Message, Gone
  <2>4. SnapshotTaken' = Session!Snapshot
    BY <1>1, <1>6, <2>2, Zenon DEF SnapshotTaken
  <2>5. option = NoBackend \/ (option \in Backends /\ Session!Snapshot[option])
    BY <1>2, <1>6, <1>8, Zenon DEF Usable
  <2>6. NameChosen' = IF option = NoBackend THEN NoBackend ELSE option
    <3>1. CASE option = NoBackend
      BY <1>3, <1>4, <2>1, <3>1, Zenon DEF NameChosen, Chosen
    <3>2. CASE option # NoBackend
      <4>1. chosenBackend'.name = option
        BY <1>2, <2>1, <2>5, <3>2, Zenon DEF Chosen
      <4>2. option # ""
        BY <1>7, <3>2, SessionAssumption, Zenon
      <4> QED
        BY <3>2, <4>1, <4>2, Zenon DEF NameChosen
    <3> QED
      BY <3>1, <3>2
  <2>7. Session!Initialize
    BY <1>1, <1>4, <1>5, <2>2, <2>3, <2>4, <2>5, <2>6, Zenon DEF Session!Initialize,
        Session!AssignedBackend, Session!scratch, Session!serviceVars, NothingRun
  <2> QED
    BY <2>7, Zenon DEF Session!Next, Session!Client
<1>9. CASE ~ Usable
  <2>1. stage' = "exited" /\ chosenBackend' = chosenBackend
    BY <1>9, Zenon DEF FinishInitialize
  <2>2. Through' = FALSE
    BY <2>1, SMT DEF Through
  <2>3. (SnapshotTaken = <<>>)'
    <3>1. (~ Through)'
      BY <2>2, Zenon
    <3> QED
      BY <3>1, NothingTaken, PTL
  <2>4. NameChosen' = NameChosen
    BY <2>1, Zenon DEF NameChosen
  <2>5. /\ ProcessState' = "exited"
        /\ Message' = IF option \in Backends THEN "unavailable" ELSE "Invalid IBM Backend string"
    BY <1>1, <2>1, Zenon DEF ProcessState, Message, Gone
  <2>6. /\ option # NoBackend
        /\ option \in Backends => ~ Session!Snapshot[option]
    BY <1>2, <1>6, <1>9, Zenon DEF Usable
  <2>7. Session!InitializeRejected
    <3>1. CASE option \in Backends
      BY <1>1, <1>4, <1>5, <2>2, <2>3, <2>4, <2>5, <2>6, <3>1, Zenon DEF Session!InitializeRejected,
        Session!Error, Session!session, Session!scratch, Session!serviceVars, NothingRun
    <3>2. CASE option \notin Backends
      BY <1>1, <1>4, <1>5, <2>2, <2>3, <2>4, <2>5, <2>6, <3>2, Zenon DEF Session!InitializeRejected,
        Session!Error, Session!session, Session!scratch, Session!serviceVars, NothingRun
    <3> QED
      BY <3>1, <3>2
  <2> QED
    BY <2>7, Zenon DEF Session!Next, Session!Client
<1> QED
  BY <1>8, <1>9

-----------------------------------------------------------------------------
(* Between calls *)
LEMMA OptionSeen ==
    ASSUME SessionInv, NEW name \in BackendNames \cup {NoBackend}, SetOption(name)
    PROVE  Session!Next
<1>1. /\ stage \notin Gone /\ name # option /\ option' = name
      /\ stage' = stage /\ initialized' = initialized /\ availableBackends' = availableBackends
      /\ chosenBackend' = chosenBackend /\ listing' = listing
  BY Zenon DEF SetOption, searchVars, catalogVars, Gone
<1>2. Through' = Through
  BY <1>1, SMT DEF Through
<1>3. /\ ProcessState = "idle" /\ ProcessState' = "idle" /\ Message = "none" /\ Message' = "none"
      /\ NameChosen' = NameChosen /\ ListedStatus' = ListedStatus
  BY <1>1, ViewListed, Zenon DEF ProcessState, Message, NameChosen
<1>4. SnapshotTaken' = SnapshotTaken
  BY <1>1, <1>2, Zenon DEF SnapshotTaken
<1>5. Session!SetOption(name)
  BY <1>1, <1>2, <1>3, <1>4, Zenon DEF Session!SetOption, Session!scratch, Session!serviceVars,
        NothingRun
<1> QED
  BY <1>5, Zenon DEF Session!Next, Session!Client

ABatch == <<AKernel>>

LEMMA ABatchToRun == ABatch \in Session!Batches
<1>1. ABatch \in [1..1 -> {AKernel}]
  <2> HIDE DEF AKernel
  <2> QED
    BY SMT DEF ABatch
<1>2. 1 \in 1..1
  BY SMT
<1> QED
  BY <1>1, <1>2, Zenon DEF Session!Batches

(* A query with a name the list does not have *)
LEMMA RefusalSeen ==
    ASSUME SessionInv, QueryRefused, stage = "ready"
    PROVE  Session!Next
<1>1. /\ queried \notin DOMAIN availableBackends /\ stage' = "refused"
      /\ initialized' = initialized /\ availableBackends' = availableBackends
      /\ chosenBackend' = chosenBackend /\ listing' = listing /\ option' = option
  BY Zenon DEF QueryRefused, Ended, catalogVars
<1>2. initialized = TRUE
  BY SMT DEF SessionInv, ChosenInv, TypeOK
<1>3. DOMAIN availableBackends = Backends
  BY <1>2, HeldAll, Zenon DEF SessionInv, CatalogInv, ListInv
<1>4. option # NoBackend /\ option \notin DOMAIN availableBackends
  BY <1>1, <1>3, SessionAssumption, Zenon DEF queried
<1>5. Through = TRUE /\ Through' = TRUE
  BY <1>1, <1>2, SMT DEF Through
<1>6. /\ ProcessState = "idle" /\ ProcessState' = "exited"
      /\ Message' = "Invalid IBM Backend string"
      /\ NameChosen' = NameChosen /\ ListedStatus' = ListedStatus
  BY <1>1, <1>2, ViewListed, Zenon DEF ProcessState, Message, NameChosen, Gone
<1>7. SnapshotTaken' = SnapshotTaken /\ DOMAIN SnapshotTaken = DOMAIN availableBackends
  BY <1>1, <1>5, Zenon DEF SnapshotTaken
<1>8. Len(<<>>) < 1
  BY SMT
<1>9. Session!ProcessInputRejected(ABatch)
  BY <1>1, <1>4, <1>5, <1>6, <1>7, <1>8, Zenon DEF Session!ProcessInputRejected, Session!Error,
        Session!KnownBackend, Session!session, Session!scratch, Session!serviceVars, NothingRun
<1> QED
  BY <1>9, ABatchToRun, Zenon DEF Session!Next, Session!Client, Session!Execute

-----------------------------------------------------------------------------
LEMMA SessionStep ==
    ASSUME SessionInv, [Next]_setupVars
    PROVE  Session!Next \/ UNCHANGED Session!vars
<1>1. CASE UNCHANGED setupVars
  <2>1. /\ stage' = stage /\ initialized' = initialized /\ availableBackends' = availableBackends
        /\ chosenBackend' = chosenBackend /\ listing' = listing /\ option' = option
    BY <1>1, Zenon DEF setupVars, searchVars, catalogVars
  <2>2. Through' = Through
    BY <2>1, SMT DEF Through
  <2>3. UNCHANGED <<SnapshotTaken, NameChosen, ProcessState, ListedStatus>>
    BY <2>1, <2>2, ViewListed, Zenon DEF SnapshotTaken, NameChosen, ProcessState
  <2>4. Message' = Message
    BY <2>1, SMT DEF Message
  <2> QED
    BY <2>1, <2>2, <2>3, <2>4, SessionUnchanged, Zenon DEF View
<1>2. CASE \/ CallInitialize \/ Login \/ ListDevices \/ TakeDevice \/ Calibrate \/ TakeParameters
  <2>1. /\ stage \in Early \cup Loop /\ stage' \in Early \cup Loop
        /\ initialized' = initialized /\ chosenBackend' = chosenBackend
        /\ listing' = listing /\ option' = option
    BY <1>2, Zenon DEF CallInitialize, Login, ListDevices, TakeDevice, Calibrate, TakeParameters,
                       catalogVars, Early, Loop
  <2>2. Before /\ Before' /\ chosenBackend = NewBackend
    BY <2>1, Zenon DEF SessionInv, CatalogInv, ChosenInv, Before, Gone, Early, Loop
  <2> QED
    BY <2>1, <2>2, RequestsUnseen, Zenon
<1>3. CASE Search \/ RequestFailed \/ (QueryRefused /\ stage = "idle")
  <2>1. /\ stage \in Early \cup Loop /\ stage' \in Early \cup Gone
        /\ initialized' = initialized /\ chosenBackend' = chosenBackend
        /\ listing' = listing /\ option' = option
    BY <1>3, Zenon DEF Search, searchAPIKey, SearchWithoutHome, SearchFile, SearchOptions, ReadLine,
                       ReadBeyond, EndOfFile, KeyFound, KeyEmpty, Ended, Assigned, RequestFailed,
                       QueryRefused, catalogVars, Early, Loop, Gone, Requests
  <2>2. Before /\ ~ initialized' /\ chosenBackend = NewBackend
    BY <2>1, Zenon DEF SessionInv, CatalogInv, ChosenInv, Before, Gone, Early, Loop
  <2>3. CASE stage' \in Gone
    <3>1. Lost'
      BY <2>2, <2>3, Zenon DEF Lost, Gone
    <3> QED
      BY <2>1, <2>2, <3>1, EndedBefore, Zenon
  <2>4. CASE stage' \notin Gone
    <3>1. Before'
      BY <2>2, <2>4, Zenon DEF Before, Gone
    <3> QED
      BY <2>1, <2>2, <3>1, RequestsUnseen, Zenon
  <2> QED
    BY <2>3, <2>4
<1>4. CASE FinishInitialize
  BY <1>4, FinishSeen
<1>5. CASE QueryRefused /\ stage # "idle"
  BY <1>5, RefusalSeen, Zenon DEF QueryRefused
<1>6. ASSUME NEW name \in BackendNames \cup {NoBackend}, SetOption(name) PROVE Session!Next
  BY <1>6, OptionSeen
<1> QED
  BY <1>1, <1>2, <1>3, <1>4, <1>5, <1>6, Zenon DEF Next

(* Whatever a list holds and wherever initialize() is left, what is seen of it from *)
(* outside is one step with the whole catalogue, or the end of the process.          *)
(* (initialize, :134-278.)                                                           *)
THEOREM SetupImplementsInitialize == SessionSpec => ImplementsInitialize
<1>1. SessionInit => SessionInv
  BY TypeInit, CatalogInit, ChosenInit, Zenon DEF SessionInit, SessionInv, ListInv
<1>2. SessionInv /\ [Next]_setupVars => SessionInv'
  BY TypeNext, CatalogNext, ChosenNext, ListNext, Zenon DEF SessionInv
<1>3. SessionInv /\ [Next]_setupVars => [Session!Next]_(Session!vars)
  BY SessionStep, Zenon
<1> QED
  BY <1>1, <1>2, <1>3, SessionStart, PTL DEF SessionSpec, ImplementsInitialize, Session!Spec
=============================================================================
