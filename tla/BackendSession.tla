--------------------------- MODULE BackendSession ---------------------------
(***************************************************************************)
(* initialize() as the session of IBMAccelerator sees it.  There the       *)
(* requests of BackendCatalog are one step, taken when initialize() ends,  *)
(* and of the catalogue a name and a status are left.                      *)
(***************************************************************************)
EXTENDS BackendCatalog

CONSTANTS
    Backends,   \* names in the list
    Simulators  \* those whose first entry is of a simulator

ASSUME SessionAssumption ==
    /\ Simulators \subseteq Backends /\ Backends \subseteq BackendNames
    /\ DefaultBackend \in Simulators
    /\ "" \notin BackendNames

SessionInit ==
    /\ Init
    /\ {listing[i].name : i \in DOMAIN listing} = Backends
    /\ Simulators = {name \in Backends : listing[EntryOf(name)].simulator}

SessionSpec == SessionInit /\ [][Next]_setupVars

-----------------------------------------------------------------------------
(* What the session has of each: nothing of initialize() before it is through *)
Gone == {"exited", "crashed", "refused"}
Through == initialized /\ stage # "exited"

SnapshotTaken ==
    [name \in IF Through THEN DOMAIN availableBackends ELSE {} |-> availableBackends[name].status]

NameChosen == IF chosenBackend.name = "" THEN NoBackend ELSE chosenBackend.name

ProcessState == IF stage \in Gone THEN "exited" ELSE "idle"

Message ==
    IF stage \notin Gone THEN "none"
    ELSE IF ~ initialized THEN "request failed"
    ELSE IF stage = "exited" /\ option \in Backends THEN "unavailable"
    ELSE "Invalid IBM Backend string"

ListedStatus == [name \in Backends |-> IF listing[EntryOf(name)].on THEN "on" ELSE "off"]

AKernel == [name |-> "f", isAnalog |-> FALSE, rejected |-> FALSE, measures |-> <<0>>]
NothingRun == [functions |-> <<>>, backend |-> NoBackend]

Session == INSTANCE IBMAccelerator WITH
    Kernels <- {AKernel}, BufferSize <- 1, DeviceSize <- 1, Outcomes <- {},
    MaxBatch <- 1, MaxCalls <- 1,
    initialized <- Through, availableBackends <- SnapshotTaken, chosenBackend <- NameChosen,
    measurementSupports <- <<>>, kernelNames <- <<>>, call <- NothingRun,
    results <- <<>>, jobs <- <<>>,
    pc <- ProcessState, failure <- Message, deviceStatus <- ListedStatus

(* initialize(), request by request, is what a session takes for one step: it ends *)
(* with the whole catalogue, under which the option names a device that is on, or   *)
(* it ends the process; no half of a catalogue can be seen.  (initialize, :134.)     *)
ImplementsInitialize == Session!Spec
=============================================================================
