------------------------- MODULE LocalIBMAccelerator ------------------------
(***************************************************************************)
(* LocalIBMAccelerator: both execute()s of one process, with the simulator *)
(* it is linked to.  A C++ exception leaves execute() where it is thrown   *)
(* and the caller may call again; xacc::error ends the process.            *)
(***************************************************************************)
EXTENDS ResultDecoding, SequencesExt

CONSTANTS
  Kernels,      \* functions a caller may pass, see Kernel
  BufferSize,   \* size of the caller's buffer
  Outcomes,     \* bits of the qubits at the end of a circuit
  MaxBatch,     \* bound: functions of a call
  MaxCalls      \* bound: calls of the process

(* What execute() reads of a kernel: the qubits of its enabled Measures in *)
(* order, whether its visitor rejects it, and whether it writes any        *)
(* operation (a kernel of disabled or dropped gates does not).             *)
Kernel ==
  [measures: Seq(0..(BufferSize - 1)), rejected: BOOLEAN, operations: BOOLEAN]

ASSUME LocalAssumption ==
  /\ BufferSize \in 1..30   \* isValidBufferSize
  /\ Kernels \subseteq Kernel
  /\ \A f \in Kernels : f.measures # <<>> => f.operations
  /\ Outcomes \subseteq BitStrings(BufferSize)
  /\ MaxBatch \in Nat /\ MaxCalls \in Nat

VARIABLES
  measurementSupports, \* the member; entry k is that of the k-th function
  pc,                  \* "idle", "build", "simulate" or "exited"
  functions,           \* of the call in progress
  circuits,            \* j["circuits"], so far
  calls,               \* calls so far
  results,             \* per finished call: what it was given and gave (history)
  clean                \* no call was left by an exception since the last that
                       \* finished (history)

vars == <<measurementSupports, pc, functions, circuits, calls, results, clean>>

Init ==
  /\ measurementSupports = <<>>
  /\ pc = "idle"
  /\ functions = <<>>
  /\ circuits = <<>>
  /\ calls = 0
  /\ results = <<>>
  /\ clean = TRUE

-----------------------------------------------------------------------------
Batches == UNION {[1..n -> Kernels] : n \in 1..MaxBatch}

Execute(batch) ==
  /\ pc = "idle"
  /\ calls < MaxCalls
  /\ calls' = calls + 1
  /\ pc' = "build"
  /\ functions' = batch
  /\ circuits' = <<>>
  /\ UNCHANGED <<measurementSupports, results, clean>>

kernelCounter == Len(circuits) + 1
kernel == functions[kernelCounter]
Building == pc = "build" /\ kernelCounter =< Len(functions)

\* Variant: only a new entry is filled.
FilledWhenNew(measures) ==
  IF kernelCounter \in DOMAIN measurementSupports
    THEN measurementSupports
    ELSE Append(measurementSupports, measures)

(* insert, which keeps an entry that is there, and push_back per Measure.  *)
Noted(measures) ==
  IF kernelCounter \in DOMAIN measurementSupports
    THEN ReplaceAt(measurementSupports, kernelCounter,
                   measurementSupports[kernelCounter] \o measures)
    ELSE Append(measurementSupports, measures)

(* The operations write register i from the i-th measured qubit; the       *)
(* header counts the registers of the entry.                               *)
BuildCircuit ==
  /\ Building
  /\ ~kernel.rejected
  /\ kernel.operations
  /\ measurementSupports' = Noted(kernel.measures)
  /\ circuits' = Append(circuits, [registers |-> kernel.measures,
                                   clbits |-> Len(measurementSupports'[kernelCounter])])
  /\ UNCHANGED <<pc, functions, calls, results, clean>>

(* json::parse of "]".                                                     *)
ParseThrows ==
  /\ Building
  /\ ~kernel.rejected
  /\ ~kernel.operations
  /\ measurementSupports' = Noted(kernel.measures)
  /\ pc' = "idle"
  /\ clean' = FALSE
  /\ UNCHANGED <<functions, circuits, calls, results>>

RejectKernel ==
  /\ Building
  /\ kernel.rejected
  /\ pc' = "exited"
  /\ UNCHANGED <<measurementSupports, functions, circuits, calls, results, clean>>

Built == pc = "build" /\ kernelCounter > Len(functions)

(* The options may be set to anything between calls: numbers, or text that *)
(* std::stoi or std::stod throw on.                                        *)
ReadOptions ==
  /\ Built
  /\ pc' = "simulate"
  /\ UNCHANGED <<measurementSupports, functions, circuits, calls, results, clean>>

OptionThrows ==
  /\ Built
  /\ pc' = "idle"
  /\ clean' = FALSE
  /\ UNCHANGED <<measurementSupports, functions, circuits, calls, results>>

(* The simulator reports one bit per clbit of the header, those that no    *)
(* operation writes being 0.                                               *)
Reported(circuit, outcome) ==
  LET written == ReportByRegister(outcome, circuit.registers)
  IN  [c \in 0..(circuit.clbits - 1) |-> IF c \in DOMAIN written THEN written[c] ELSE 0]

\* Variant: the leftmost bit is placed first.
LeftmostPlacedFirst(k, outcome) ==
  LET bits == Reported(circuits[k], outcome)
  IN  DecodeSimulator([c \in DOMAIN bits |-> bits[Width(bits) - 1 - c]],
                      measurementSupports[k], BufferSize)

Decoded(k, outcome) ==
  DecodeSimulator(Reported(circuits[k], outcome), measurementSupports[k], BufferSize)

(* The execute() of one function passes it on as a batch and copies the    *)
(* strings of its buffer to the caller's.                                  *)
Respond(supports, outcomes, single) ==
  LET buffers == [k \in DOMAIN functions |-> Decoded(k, outcomes[k])]
  IN  /\ pc = "simulate"
      /\ single => Len(functions) = 1
      /\ results' = Append(results, [functions |-> functions, outcomes |-> outcomes,
                                     buffers |-> buffers, clean |-> clean,
                                     onBuffer |-> IF single THEN buffers ELSE <<>>])
      /\ measurementSupports' = supports
      /\ pc' = "idle"
      /\ clean' = TRUE
      /\ UNCHANGED <<functions, circuits, calls>>

\* Variant: measurementSupports is not cleared.
SupportsKept(outcomes, single) == Respond(measurementSupports, outcomes, single)
Answer(outcomes, single) == Respond(<<>>, outcomes, single)

(* sim.execute() throws, which is caught and reported by xacc::error.      *)
SimulatorFails ==
  /\ pc = "simulate"
  /\ pc' = "exited"
  /\ UNCHANGED <<measurementSupports, functions, circuits, calls, results, clean>>

Next ==
  \/ \E batch \in Batches : Execute(batch)
  \/ BuildCircuit \/ ParseThrows \/ RejectKernel
  \/ ReadOptions \/ OptionThrows
  \/ \E outcomes \in [DOMAIN functions -> Outcomes], single \in BOOLEAN :
       Answer(outcomes, single)
  \/ SimulatorFails

Spec == Init /\ [][Next]_vars

-----------------------------------------------------------------------------
(* Type invariant: a call has an entry of measurementSupports and a        *)
(* register count for every circuit it has built.                          *)
TypeOK ==
  /\ measurementSupports \in Seq(Seq(0..(BufferSize - 1)))
  /\ pc \in {"idle", "build", "simulate", "exited"}
  /\ functions \in {<<>>} \union Batches
  /\ Len(circuits) =< Len(functions)
  /\ Len(circuits) =< Len(measurementSupports) \/ pc = "idle"
  /\ \A k \in DOMAIN circuits : circuits[k].clbits >= Len(circuits[k].registers)
  /\ calls \in 0..MaxCalls
  /\ Len(results) =< calls
  /\ clean \in BOOLEAN

(* A call that no exception preceded works on its own qubits, and leaves   *)
(* none behind when it returns.                                            *)
SupportsOfThisCall ==
  clean =>
    /\ pc = "idle" => measurementSupports = <<>>
    /\ pc \in {"build", "simulate"} =>
         measurementSupports = [k \in DOMAIN circuits |-> functions[k].measures]

(* A kernel that measures in ascending order gets the bits of its qubits,  *)
(* each at its place, unless the call before was left by an exception; one *)
(* call that returns is enough to be right again.                          *)
AnswersFaithful ==
  \A i \in DOMAIN results : results[i].clean =>
    \A k \in DOMAIN results[i].functions :
      LET measures == results[i].functions[k].measures
      IN  Ascending(measures) =>
            results[i].buffers[k] = Expected(results[i].outcomes[k], measures, BufferSize)
=============================================================================
