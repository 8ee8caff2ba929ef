--------------------------- MODULE MCIBMAccelerator -------------------------
(***************************************************************************)
(* Instances of IBMAccelerator for TLC: the simulator and one device, of   *)
(* one qubit more than the buffer.                                         *)
(***************************************************************************)
EXTENDS IBMAccelerator, TLC

MCSimulators == {"sim"}
MCBackends == {"sim", "dev"}
MCBackendNames == {"sim", "dev", "typo"}

Gate(name, measures) ==
  [name |-> name, isAnalog |-> FALSE, rejected |-> FALSE, measures |-> measures]
Pulse(name) == [name |-> name, isAnalog |-> TRUE, rejected |-> FALSE, measures |-> <<>>]
WithCZ(name) == [name |-> name, isAnalog |-> FALSE, rejected |-> TRUE, measures |-> <<>>]

(* Kernels for a second call, and for the runs that only need two.         *)
SessionKernels == {Gate("f", <<1>>), Gate("g", <<0, 1>>)}
OneOutcome == {[q \in 0..(DeviceSize - 1) |-> IF q \in {1, 2} THEN 1 ELSE 0]}

(* Seven ways to measure a buffer of three qubits, and two outcomes that   *)
(* together tell the four qubits of the device apart; a pulse and a kernel *)
(* that is rejected.                                                       *)
MCKernels ==
  SessionKernels \union {Pulse("p"), WithCZ("z")} \union
    {Gate(ToString(m), m) : m \in {<<>>, <<0, 2>>, <<2, 0>>, <<0, 1, 2>>, <<1, 0, 1>>}}
MCOutcomes ==
  OneOutcome \union {[q \in 0..(DeviceSize - 1) |-> IF q \in {0, 2} THEN 1 ELSE 0]}

(* Bounds: kernels other than SessionKernels are run with both backends    *)
(* on since initialize(); they, and outcomes but the one, only in the last call of a process. *)
Few(functions) == functions \in Seq(SessionKernels)
Ordinary == \A k \in DOMAIN jobs : Few(jobs[k].functions) /\ jobs[k].outcomes \in Seq(OneOutcome)
AllOn == /\ \A b \in Backends : deviceStatus[b] = "on"
         /\ \A b \in DOMAIN availableBackends : availableBackends[b]

Bounds ==
  /\ CallPending' /\ ~Few(call'.functions) => AllOn /\ AllOn'
  /\ pc = "idle" /\ ~Ordinary => option' # option

MCSpec == Init /\ [][Next /\ Bounds]_vars /\ Fairness
=============================================================================
