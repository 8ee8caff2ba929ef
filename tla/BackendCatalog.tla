--------------------------- MODULE BackendCatalog ---------------------------
(***************************************************************************)
(* IBMAccelerator::initialize request by request: the search for a key,    *)
(* the login, the list of devices, and for each device of a network its    *)
(* calibration and parameters; and what the queries answer from then on.   *)
(* Rates and frequencies are the entries of the service's answers, in      *)
(* order.                                                                  *)
(***************************************************************************)
EXTENDS ApiKeySearch, SequencesExt

CONSTANTS
    BackendNames,   \* of backends, and names a user may give
    DefaultBackend, \* "ibmq_qasm_simulator"
    NoBackend,      \* ibm-backend not set
    Absent,         \* a member a JSON object does not have
    QubitCounts,    \* qubits of devices, and what an int may hold by chance
    Rates           \* entries of calibrations and parameters

(* An entry of the list, with the answers to the requests about it: per qubit *)
(* its rates, and the gates between qubits, each named by qubits and given a   *)
(* rate                                                                       *)
Pairs == Nat \X Nat
Device == [name : BackendNames, on : BOOLEAN, simulator : BOOLEAN,
           nQubits : QubitCounts \cup {Absent},
           couplingMap : Seq(Pairs) \cup {Absent},
           calibratedQubits : Seq(Rates) \cup {Absent},
           multiQubitGates : Seq([qubits : Seq(Nat), error : Rates]) \cup {Absent},
           parameters : Seq(Rates) \cup {Absent}]

ASSUME NamesAssumption ==
    /\ DefaultBackend \in BackendNames /\ NoBackend \notin BackendNames
    /\ QubitCounts \subseteq Nat /\ QubitCounts # {}
    /\ Absent \notin QubitCounts

VARIABLES
    listing,           \* the service: its devices, in order
    devices,           \* those the loop has to come to
    backend,           \* the IBMBackend being filled in
    availableBackends,
    chosenBackend,
    initialized,
    option             \* ibm-backend

catalogVars == <<devices, backend, availableBackends, chosenBackend, initialized>>
setupVars == <<searchVars, catalogVars, listing, option>>

(* name is "" in an IBMBackend that was never assigned *)
NewBackend == [name |-> "", nQubits |-> 0, couplers |-> <<>>, status |-> TRUE,
               isSimulator |-> TRUE, gateErrors |-> <<>>,
               multiQubitGates |-> <<>>, T1s |-> <<>>]

-----------------------------------------------------------------------------
(* handleOptions, or the framework, calls initialize() *)
CallInitialize ==
    /\ stage = "idle" /\ ~ initialized
    /\ stage' = "search"
    /\ UNCHANGED <<sources, lines, credentials, catalogVars, listing, option>>

Search == searchAPIKey /\ UNCHANGED <<catalogVars, listing, option>>

Requests == {"login", "list", "calibration", "parameters"}

(* A request gives up, or the login is answered with an error *)
RequestFailed ==
    /\ stage \in Requests
    /\ Ended("exited")
    /\ UNCHANGED <<catalogVars, listing, option>>

Login ==
    /\ stage = "login" /\ stage' = "list"
    /\ UNCHANGED <<sources, lines, credentials, catalogVars, listing, option>>

ListDevices ==
    /\ stage = "list" /\ stage' = "device"
    /\ devices' = listing
    /\ UNCHANGED <<sources, lines, credentials, backend, availableBackends,
                   chosenBackend, initialized, listing, option>>

\* Variant: members are taken to be there.
Unasked(array) == array
Member(array) == IF array = Absent THEN <<>> ELSE array

\* Variant: a second entry of a name replaces the first.
assign(made) ==
    [name \in DOMAIN availableBackends \cup {made.name} |->
        IF name = made.name THEN made ELSE availableBackends[name]]

(* availableBackends.insert keeps an entry of the same name *)
insert(made) ==
    [name \in DOMAIN availableBackends \cup {made.name} |->
        IF name \in DOMAIN availableBackends THEN availableBackends[name] ELSE made]

(* nQubits is not initialized: without the member it is what was there *)
Listed(device, qubits) ==
    [NewBackend EXCEPT
        !.name = device.name, !.nQubits = qubits, !.status = device.on,
        !.isSimulator = device.simulator,
        !.couplers = IF device.simulator THEN <<>> ELSE Member(device.couplingMap)]

(* The loop over devices.  Only those of a network are asked about further. *)
TakeDevice ==
    /\ stage = "device" /\ devices # <<>>
    /\ LET device == Head(devices) IN
        \E qubits \in QubitCounts :
            /\ device.nQubits \in {Absent, qubits}
            /\ LET made == Listed(device, qubits) IN
                IF ~ device.simulator /\ credentials["hub"] # <<>>
                THEN /\ backend' = made /\ stage' = "calibration"
                     /\ UNCHANGED <<devices, availableBackends>>
                ELSE /\ availableBackends' = insert(made)
                     /\ devices' = Tail(devices)
                     /\ UNCHANGED <<backend, stage>>
    /\ UNCHANGED <<sources, lines, credentials, chosenBackend, initialized, listing, option>>

\* Variant: each of the two members is taken if it is there.
TakenApart ==
    /\ stage = "calibration" /\ stage' = "parameters"
    /\ backend' = [backend EXCEPT
                    !.gateErrors = Member(Head(devices).calibratedQubits),
                    !.multiQubitGates = Member(Head(devices).multiQubitGates)]
    /\ UNCHANGED <<sources, lines, credentials, devices, availableBackends,
                   chosenBackend, initialized, listing, option>>

Calibrate ==
    /\ stage = "calibration" /\ stage' = "parameters"
    /\ LET device == Head(devices) IN
        backend' = IF Absent \in {device.calibratedQubits, device.multiQubitGates}
                   THEN backend
                   ELSE [backend EXCEPT !.gateErrors = device.calibratedQubits,
                                        !.multiQubitGates = device.multiQubitGates]
    /\ UNCHANGED <<sources, lines, credentials, devices, availableBackends,
                   chosenBackend, initialized, listing, option>>

TakeParameters ==
    /\ stage = "parameters" /\ stage' = "device"
    /\ backend' = [backend EXCEPT !.T1s = Member(Head(devices).parameters)]
    /\ availableBackends' = insert(backend')
    /\ devices' = Tail(devices)
    /\ UNCHANGED <<sources, lines, credentials, chosenBackend, initialized, listing, option>>

(* After the loop the option is looked at, once *)
\* Variant: its status is not.
ListedOption == option = NoBackend \/ option \in DOMAIN availableBackends
Usable == option = NoBackend \/
          (option \in DOMAIN availableBackends /\ availableBackends[option].status)

Chosen == IF option = NoBackend THEN chosenBackend ELSE availableBackends[option]

FinishInitialize ==
    /\ stage = "device" /\ devices = <<>>
    /\ initialized' = TRUE
    /\ stage' = IF Usable THEN "ready" ELSE "exited"
    /\ chosenBackend' = IF Usable THEN Chosen ELSE chosenBackend
    /\ UNCHANGED <<sources, lines, credentials, devices, backend, availableBackends,
                   listing, option>>

-----------------------------------------------------------------------------
(* Between calls: the option is set to a name, or, with NoBackend, removed *)
SetOption(name) ==
    /\ stage \in {"idle", "ready"} /\ name # option
    /\ option' = name
    /\ UNCHANGED <<searchVars, catalogVars, listing>>

queried == IF option = NoBackend THEN DefaultBackend ELSE option

(* A query by the option ends the process for a name that is not in the catalogue: *)
(* before initialize(), for any.                                                   *)
QueryRefused ==
    /\ stage \in {"idle", "ready"}
    /\ queried \notin DOMAIN availableBackends
    /\ Ended("refused")
    /\ UNCHANGED <<catalogVars, listing, option>>

\* Variant: both orders of a pair.
BothWays(n) == {pair \in (0..(n - 1)) \X (0..(n - 1)) : pair[1] # pair[2]}
AllPairs(n) == {pair \in (0..(n - 1)) \X (0..(n - 1)) : pair[1] < pair[2]}

getAcceleratorConnectivity ==
    LET asked == availableBackends[queried] IN
    IF asked.couplers # <<>> THEN ToSet(asked.couplers) ELSE AllPairs(asked.nQubits)

(* Whatever it pushes back, it clears in the end *)
getIRTransformations == <<>>

getOneBitErrorRates == chosenBackend.gateErrors

(* A gate is named after its qubits, of which the first two are taken *)
getTwoBitErrorRates ==
    [i \in DOMAIN chosenBackend.multiQubitGates |->
        LET gate == chosenBackend.multiQubitGates[i] IN
        <<<<gate.qubits[1], gate.qubits[2]>>, gate.error>>]

-----------------------------------------------------------------------------
Init ==
    /\ SearchInit
    /\ stage = "idle"
    /\ listing \in Seq(Device)
    /\ option \in BackendNames \cup {NoBackend}
    /\ devices = <<>> /\ backend = NewBackend
    /\ availableBackends = [name \in {} |-> NewBackend]
    /\ chosenBackend = NewBackend
    /\ initialized = FALSE

Next ==
    \/ CallInitialize \/ Search \/ RequestFailed \/ Login \/ ListDevices
    \/ TakeDevice \/ Calibrate \/ TakeParameters \/ FinishInitialize
    \/ QueryRefused
    \/ \E name \in BackendNames \cup {NoBackend} : SetOption(name)

Spec == Init /\ [][Next]_setupVars

-----------------------------------------------------------------------------
IBMBackends ==
    [name : BackendNames \cup {""}, nQubits : Nat, couplers : Seq(Pairs), status : BOOLEAN,
     isSimulator : BOOLEAN, gateErrors : Seq(Rates),
     multiQubitGates : Seq([qubits : Seq(Nat), error : Rates]), T1s : Seq(Rates)]

(* Every member is of its kind, a backend is kept under its own name, and the *)
(* loop stands at the device whose backend it fills in.                       *)
TypeOK ==
    /\ SearchTypeOK
    /\ stage \in {"idle", "search", "read", "check", "device", "ready", "exited", "crashed",
                  "refused"} \cup Requests
    /\ listing \in Seq(Device) /\ devices \in Seq(Device)
    /\ backend \in IBMBackends /\ chosenBackend \in IBMBackends
    /\ DOMAIN availableBackends \subseteq BackendNames
    /\ \A name \in DOMAIN availableBackends :
        availableBackends[name] \in IBMBackends /\ availableBackends[name].name = name
    /\ stage \in {"calibration", "parameters"} =>
        devices # <<>> /\ backend.name = Head(devices).name
    /\ initialized \in BOOLEAN
    /\ option \in BackendNames \cup {NoBackend}

(* The first entry of a name in the list *)
EntryOf(name) == CHOOSE i \in DOMAIN listing :
                    /\ listing[i].name = name
                    /\ \A j \in 1..(i - 1) : listing[j].name # name

(* What a backend holds if it was filled in from that entry of the list *)
StandsFor(made, device) ==
    LET asked == ~ device.simulator /\ credentials["hub"] # <<>>
        calibrated == asked /\ device.calibratedQubits # Absent
                            /\ device.multiQubitGates # Absent
    IN  /\ made.status = device.on /\ made.isSimulator = device.simulator
        /\ device.nQubits # Absent => made.nQubits = device.nQubits
        /\ made.couplers = IF device.simulator THEN <<>> ELSE Member(device.couplingMap)
        /\ made.gateErrors = IF calibrated THEN device.calibratedQubits ELSE <<>>
        /\ made.multiQubitGates = IF calibrated THEN device.multiQubitGates ELSE <<>>
        /\ made.T1s = IF asked /\ device.parameters # Absent THEN device.parameters ELSE <<>>

(* Once initialize() is through, every name listed stands for its first entry:   *)
(* what was asked about one device is with that device, and with a network only, *)
(* whatever comes twice or lacks members.  (initialize, :172-256.)               *)
CatalogOfListing ==
    initialized =>
        /\ DOMAIN availableBackends = {listing[i].name : i \in DOMAIN listing}
        /\ \A name \in DOMAIN availableBackends :
            StandsFor(availableBackends[name], listing[EntryOf(name)])

(* The connectivity answered is that of the device asked about: its couplers, or *)
(* every pair of its qubits once.  A device whose list entry has neither couplers *)
(* nor a number of qubits has any.  (getAcceleratorConnectivity, :665.)           *)
ConnectivityOfDevice ==
    initialized /\ queried \in DOMAIN availableBackends =>
        LET device == listing[EntryOf(queried)]
            coupled == ~ device.simulator /\ device.couplingMap \notin {Absent, <<>>}
        IN  IF coupled THEN getAcceleratorConnectivity = ToSet(device.couplingMap)
            ELSE device.nQubits # Absent =>
                    /\ \A edge \in getAcceleratorConnectivity :
                        edge[1] # edge[2] /\ <<edge[2], edge[1]>> \notin getAcceleratorConnectivity
                    /\ UNION {{edge[1], edge[2]} : edge \in getAcceleratorConnectivity} =
                            IF device.nQubits < 2 THEN {} ELSE 0..(device.nQubits - 1)

(* From initialize() on, whatever the option is set to and however often, the     *)
(* error rates answered are those of the first entry of the backend that was      *)
(* chosen, in its order and with its qubits: none for a simulator, without a      *)
(* network or without a calibration, and none if no backend was chosen.  Every    *)
(* request before may fail or lack members, and a name may come twice.  A call    *)
(* of execute() chooses again (:315), from the same catalogue; that is with the   *)
(* session.  (getOneBitErrorRates, :51, and getTwoBitErrorRates, :56.)            *)
Calibrated(device) ==
    /\ ~ device.simulator /\ credentials["hub"] # <<>>
    /\ Absent \notin {device.calibratedQubits, device.multiQubitGates}

RateOfPair(gate) == <<<<gate.qubits[1], gate.qubits[2]>>, gate.error>>

RatesOfDevice ==
    initialized =>
        LET device == listing[EntryOf(chosenBackend.name)] IN
        IF chosenBackend # NewBackend /\ Calibrated(device)
        THEN /\ getOneBitErrorRates = device.calibratedQubits
             /\ getTwoBitErrorRates =
                    [i \in DOMAIN device.multiQubitGates |-> RateOfPair(device.multiQubitGates[i])]
        ELSE getOneBitErrorRates = <<>> /\ getTwoBitErrorRates = <<>>
=============================================================================
