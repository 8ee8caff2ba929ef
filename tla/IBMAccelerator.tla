--------------------------- MODULE IBMAccelerator ---------------------------
(***************************************************************************)
(* One process that runs kernels on the IBM Quantum Experience through the *)
(* "ibm" Accelerator: initialize() takes a snapshot of the service's       *)
(* device list, and every execute() runs processInput(), posts the payload *)
(* and runs processResponse().  The service beside it switches devices on  *)
(* and off and runs the jobs it was sent, at any moment between two        *)
(* requests of the client.                                                 *)
(*                                                                         *)
(* xacc::error prints its message and ends the process: it is an action    *)
(* that moves pc to "exited" and leaves the message in failure.            *)
(***************************************************************************)
EXTENDS ResultDecoding

CONSTANTS
  Backends,       \* names in the service's device list
  Simulators,     \* those of them listed with "simulator": true
  BackendNames,   \* names a user may give to ibm-backend
  DefaultBackend, \* "ibmq_qasm_simulator"
  NoBackend,      \* ibm-backend not set; chosenBackend never assigned
  Kernels,        \* the functions a caller may execute, see Kernel below
  BufferSize,     \* qubits of the caller's AcceleratorBuffer
  DeviceSize,     \* qubits of the service's devices
  Outcomes,       \* what running a circuit may yield, a bit for every qubit
  MaxBatch,       \* bound: functions in one execute()
  MaxCalls        \* bound: jobs posted by one process

isValidBufferSize(NBits) == NBits > 0 /\ NBits < 31

(* What processInput looks at in a Function: its name, whether it is       *)
(* analog, the qubits of its enabled Measure instructions in iteration     *)
(* order, and whether the visitor for its kind rejects an instruction of   *)
(* it with xacc::error.                                                    *)
Kernel ==
  [name: STRING, isAnalog: BOOLEAN, rejected: BOOLEAN,
   measures: Seq(0..(BufferSize - 1))]

ASSUME BackendsAssumption ==
  /\ Simulators \subseteq Backends
  /\ Backends \subseteq BackendNames
  /\ DefaultBackend \in Simulators
  /\ NoBackend \notin BackendNames

ASSUME SizesAssumption ==
  /\ BufferSize \in Nat
  /\ isValidBufferSize(BufferSize)
  /\ DeviceSize \in Nat
  /\ BufferSize =< DeviceSize

ASSUME KernelsAssumption ==
  /\ Kernels \subseteq Kernel
  /\ Outcomes \subseteq BitStrings(DeviceSize)

ASSUME BoundsAssumption == MaxBatch \in Nat /\ MaxCalls \in Nat

VARIABLES
  option,              \* runtime option ibm-backend
  initialized,
  availableBackends,   \* name -> IBMBackend.status, as initialize() saw it
  chosenBackend,
  measurementSupports, \* index in the batch, from 0 -> measured qubits
  kernelNames,
  pc,                  \* where execute() stands
  call,                \* its functions and the backend named in the payload
  failure,             \* message of the xacc::error that ended the process
  results,             \* what each finished execute() handed to its caller
  deviceStatus,        \* the service: status of every device, now
  jobs                 \* the service: jobs accepted, in order

clientVars == <<option, initialized, availableBackends, chosenBackend,
                measurementSupports, kernelNames, pc, call, failure, results>>
serviceVars == <<deviceStatus, jobs>>
vars == <<clientVars, serviceVars>>

(* The execute() in progress; everything but its control state, which the  *)
(* actions below name one by one.                                          *)
session == <<option, initialized, availableBackends, chosenBackend>>
scratch == <<measurementSupports, kernelNames, call>>

DeviceStatuses == {"on", "off", "calibrating"}
Batches == UNION {[1..n -> Kernels] : n \in 1..MaxBatch}
NoCall == [functions |-> <<>>, backend |-> NoBackend]

(* A job the client still has to wait for, and the ways one can end.  A    *)
(* final status that is neither COMPLETED nor ERROR_RUNNING_JOB, such as a *)
(* cancellation, is "OTHER": the client does not recognise it.             *)
JobStatuses == {"QUEUED", "COMPLETED", "ERROR_RUNNING_JOB", "OTHER"}

(* execute() is between processInput and the end of processResponse.       *)
CallPending == pc \in {"checkOnline", "post", "poll"}

(* IBMBackend::isSimulator defaults to true in a backend never assigned.   *)
isSimulator(backend) == backend = NoBackend \/ backend \in Simulators

Init ==
  /\ option \in BackendNames \union {NoBackend}
  /\ initialized = FALSE
  /\ availableBackends = [b \in {} |-> FALSE]
  /\ chosenBackend = NoBackend
  /\ measurementSupports = <<>>
  /\ kernelNames = <<>>
  /\ pc = "idle"
  /\ call = NoCall
  /\ failure = "none"
  /\ results = <<>>
  /\ deviceStatus \in [Backends -> DeviceStatuses]
  /\ jobs = <<>>

(* xacc::error(msg)                                                        *)
Error(msg) ==
  /\ pc' = "exited"
  /\ failure' = msg
  /\ UNCHANGED <<session, scratch, results>>

-----------------------------------------------------------------------------
(* Between two calls xacc::setOption("ibm-backend", name), or, with         *)
(* NoBackend, xacc::unsetOption.                                           *)
SetOption(name) ==
  /\ pc = "idle"
  /\ name # option
  /\ option' = name
  /\ UNCHANGED <<initialized, availableBackends, chosenBackend, scratch,
                 pc, failure, results, serviceVars>>

\* Variant: only initialize() assigns it.
AssignedOnce == IF option = NoBackend \/ initialized THEN chosenBackend ELSE option

(* chosenBackend = availableBackends[newBackend], when there is an option; *)
(* without one it stays what an earlier call made it.                      *)
AssignedBackend == IF option = NoBackend THEN chosenBackend ELSE option

(* initialize(): the device list is read once; a listed status is          *)
(* "available" when it does not contain "off".                             *)
Snapshot == [b \in Backends |-> deviceStatus[b] # "off"]

Initialize ==
  /\ pc = "idle"
  /\ ~initialized
  /\ option = NoBackend \/ (option \in Backends /\ Snapshot[option])
  /\ initialized' = TRUE
  /\ availableBackends' = Snapshot
  /\ chosenBackend' = AssignedBackend
  /\ UNCHANGED <<option, scratch, pc, failure, results, serviceVars>>

InitializeRejected ==
  /\ pc = "idle"
  /\ ~initialized
  /\ \/ Error("request failed")
     \/ option \notin Backends \union {NoBackend} /\ Error("Invalid IBM Backend string")
     \/ option \in Backends /\ ~Snapshot[option] /\ Error("unavailable")
  /\ UNCHANGED serviceVars

-----------------------------------------------------------------------------
(* processInput(buffer, functions)                                         *)
KnownBackend == option \in DOMAIN availableBackends
BackendUsable == option = NoBackend \/ (KnownBackend /\ availableBackends[option])
\* Variant: no default.
OptionOnly == option
backendName == IF option = NoBackend THEN DefaultBackend ELSE option

nAnalogs(functions) == Cardinality({i \in DOMAIN functions : functions[i].isAnalog})
Mixed(functions) == nAnalogs(functions) > 0 /\ nAnalogs(functions) # Len(functions)
Rejected(functions) == \E i \in DOMAIN functions : functions[i].rejected

(* measurementSupports.insert keeps an entry that is already there, and    *)
(* the loop then appends to whichever entry it found.                      *)
Supports(functions) ==
  LET indices == 0..(Len(functions) - 1)
  IN  [i \in DOMAIN measurementSupports \union indices |->
         (IF i \in DOMAIN measurementSupports THEN measurementSupports[i] ELSE <<>>)
           \o (IF i \in indices THEN functions[i + 1].measures ELSE <<>>)]

Names(functions) == [i \in DOMAIN functions |-> functions[i].name]

ProcessInput(functions) ==
  /\ pc = "idle"
  /\ Len(jobs) < MaxCalls
  /\ BackendUsable
  /\ ~Mixed(functions)
  /\ ~Rejected(functions)
  /\ chosenBackend' = AssignedBackend
  /\ measurementSupports' = Supports(functions)
  /\ kernelNames' = kernelNames \o Names(functions)
  /\ call' = [functions |-> functions, backend |-> backendName]
  /\ pc' = IF backendName = DefaultBackend THEN "post" ELSE "checkOnline"
  /\ UNCHANGED <<option, initialized, availableBackends, failure, results,
                 serviceVars>>

\* Variant: the errors are reported and the call goes on.
RejectedYetRun(functions) ==
  /\ pc = "idle"
  /\ BackendUsable
  /\ Mixed(functions) \/ Rejected(functions)
  /\ pc' = "post"
  /\ UNCHANGED <<session, scratch, failure, results, serviceVars>>

ProcessInputRejected(functions) ==
  /\ pc = "idle"
  /\ Len(jobs) < MaxCalls
  /\ \/ option # NoBackend /\ ~KnownBackend /\ Error("Invalid IBM Backend string")
     \/ KnownBackend /\ ~availableBackends[option] /\ Error("unavailable")
     \/ BackendUsable /\ Mixed(functions) /\ Error("mixed batch")
     \/ BackendUsable /\ ~Mixed(functions) /\ Rejected(functions) /\ Error("instruction")
  /\ UNCHANGED serviceVars

(* The end of processInput polls the device until its status is "on".      *)
CheckOnline ==
  /\ pc = "checkOnline"
  /\ deviceStatus[call.backend] = "on"
  /\ pc' = "post"
  /\ UNCHANGED <<session, scratch, failure, results, serviceVars>>

-----------------------------------------------------------------------------
(* RemoteAccelerator posts the payload to the path initialize() stored,    *)
(* and hands the reply to processResponse, which takes the job id from it. *)
PostJob ==
  /\ pc = "post"
  /\ initialized
  /\ jobs' = Append(jobs, [functions |-> call.functions, backend |-> call.backend,
                           status |-> "QUEUED", outcomes |-> <<>>])
  /\ pc' = "poll"
  /\ UNCHANGED <<session, scratch, failure, results, deviceStatus>>

PostRejected ==
  /\ pc = "post"
  /\ Error("error in response")
  /\ UNCHANGED serviceVars

\* Variant: the call is given up without ending the process.
RequestDropped ==
  /\ CallPending
  /\ pc' = "idle"
  /\ call' = NoCall
  /\ measurementSupports' = <<>>
  /\ UNCHANGED <<session, kernelNames, failure, results, serviceVars>>

(* handleExceptionRestClientGet and ...Post give up on a request.          *)
RequestFailed ==
  /\ CallPending
  /\ Error("request failed")
  /\ UNCHANGED serviceVars

(* processResponse: one pass of the loop that gets the job, when the reply *)
(* says it is over.  A pass that finds it still queued changes nothing.    *)
job == jobs[Len(jobs)]

(* The one name under "counts" of circuit i of the job.  The blanks of a   *)
(* simulator's are erased if chosenBackend is a simulator.                 *)
Report(backend, function, outcome, erased) ==
  IF ~isSimulator(backend) THEN ReportByQubit(outcome, DeviceSize)
  ELSE LET bits == ReportByRegister(outcome, function.measures)
       IN  IF erased THEN bits ELSE Spaced(bits)

Counted(i) ==
  Report(job.backend, job.functions[i], job.outcomes[i], isSimulator(chosenBackend))

(* The device whose gate set, errors and times are added to the caller's   *)
(* buffer.                                                                 *)
ExtraInfo == IF isSimulator(chosenBackend) THEN NoBackend ELSE chosenBackend

\* Variant: another status is looked for.
FailureUnseen == pc = "poll" /\ job.status = "ERROR" /\ Error("job") /\ UNCHANGED serviceVars
JobFailed ==
  /\ pc = "poll"
  /\ job.status = "ERROR_RUNNING_JOB"
  /\ Error("Error encountered running IBM job.")
  /\ UNCHANGED serviceVars

\* Variant: the leftmost character is taken for qubit 0.
LeftmostFirst ==
  LET bits == Counted(1)
  IN  [onBuffer |-> <<[name |-> kernelNames[1],
                       bits |-> [c \in DOMAIN bits |-> bits[Width(bits) - 1 - c]]]>>,
       returned |-> <<>>, device |-> ExtraInfo]

(* The counts of a lone circuit go on the caller's buffer as reported,     *)
(* with the first kernel name the process ever saw.                        *)
SingleResult ==
  [onBuffer |-> <<[name |-> kernelNames[1], bits |-> Counted(1)]>>,
   returned |-> <<>>, device |-> ExtraInfo]

\* Variant: names are taken from the end.
LatestFirst(i) == kernelNames[Len(kernelNames) + 1 - i]

(* Those of a batch go on new buffers, one per circuit, named by position. *)
Label(i) == kernelNames[i]

Decoded(i) ==
  IF isSimulator(chosenBackend)
  THEN DecodeSimulator(Counted(i), measurementSupports[i - 1], BufferSize)
  ELSE DecodeDevice(Counted(i), measurementSupports[i - 1], BufferSize)

BatchResult ==
  [onBuffer |-> <<>>,
   returned |-> [i \in DOMAIN job.outcomes |-> [name |-> Label(i), bits |-> Decoded(i)]],
   device |-> ExtraInfo]

\* Variant: the loop is left at the first reply that is not an error.
NotFailed == job.status # "ERROR_RUNNING_JOB"
jobCompleted == job.status = "COMPLETED"

Respond(supports) ==
  /\ pc = "poll"
  /\ jobCompleted
  /\ results' = Append(results, IF Len(job.outcomes) = 1 THEN SingleResult ELSE BatchResult)
  /\ measurementSupports' = supports
  /\ call' = NoCall
  /\ pc' = "idle"
  /\ UNCHANGED <<session, kernelNames, failure, serviceVars>>

\* Variant: measurementSupports is not cleared.
SupportsKept == Respond(measurementSupports)
JobCompleted == Respond(<<>>)

-----------------------------------------------------------------------------
(* The service.                                                            *)
DeviceStatusChange(b, status) ==
  /\ deviceStatus[b] # status
  /\ deviceStatus' = [deviceStatus EXCEPT ![b] = status]
  /\ UNCHANGED <<clientVars, jobs>>

Running(k) == jobs[k].status = "QUEUED"

RunJob(k) ==
  /\ Running(k)
  /\ \E outcomes \in [DOMAIN jobs[k].functions -> Outcomes] :
       jobs' = [jobs EXCEPT ![k] =
                 [@ EXCEPT !.status = "COMPLETED", !.outcomes = outcomes]]
  /\ UNCHANGED <<clientVars, deviceStatus>>

EndJob(k, status) ==
  /\ Running(k)
  /\ jobs' = [jobs EXCEPT ![k] = [@ EXCEPT !.status = status]]
  /\ UNCHANGED <<clientVars, deviceStatus>>

-----------------------------------------------------------------------------
Execute(functions) == ProcessInput(functions) \/ ProcessInputRejected(functions)

Client ==
  \/ \E name \in BackendNames \union {NoBackend} : SetOption(name)
  \/ Initialize \/ InitializeRejected
  \/ \E functions \in Batches : Execute(functions)
  \/ CheckOnline
  \/ PostJob \/ PostRejected
  \/ JobCompleted \/ JobFailed
  \/ RequestFailed

Service ==
  \/ \E b \in Backends, status \in DeviceStatuses : DeviceStatusChange(b, status)
  \/ \E k \in DOMAIN jobs :
       RunJob(k) \/ \E status \in {"ERROR_RUNNING_JOB", "OTHER"} : EndJob(k, status)

Next == Client \/ Service

Spec == Init /\ [][Next]_vars

(* A started execute() runs on by itself: the client takes its next step   *)
(* when it can, and the service ends what it accepted.  Nothing obliges    *)
(* the caller to call, the service to keep a device on, or a request to    *)
(* fail.                                                                   *)
Fairness ==
  /\ WF_vars(CheckOnline)
  /\ WF_vars(PostJob \/ PostRejected)
  /\ WF_vars(JobCompleted \/ JobFailed)
  /\ \A k \in 1..MaxCalls :
       WF_vars(k \in DOMAIN jobs /\ (RunJob(k) \/ EndJob(k, "ERROR_RUNNING_JOB")))

FairSpec == Spec /\ Fairness
-----------------------------------------------------------------------------
KernelNames == {f.name : f \in Kernels}
Batch == {b \in Seq(Kernels) : Len(b) \in 1..MaxBatch}
Job == [functions: Batch, backend: Backends, status: JobStatuses, outcomes: Seq(Outcomes)]

(* What is delivered of a circuit: a string as long as the buffer, or the  *)
(* reported one, with a blank between two bits or without.                 *)
Lengths ==
  {BufferSize, DeviceSize} \union
    UNION {{Len(f.measures), 2 * Len(f.measures) - 1} : f \in Kernels}
Delivery == [name: KernelNames, bits: UNION {Strings(n) : n \in Lengths}]
Result == [onBuffer: Seq(Delivery), returned: Seq(Delivery),
           device: (Backends \ Simulators) \union {NoBackend}]

(* Type invariant of the client and of the service.  It also says what     *)
(* each pc needs: a call in progress has functions, names for all of them  *)
(* and a backend the service knows, and a call that polls was accepted as  *)
(* the last job.                                                           *)
TypeOK ==
  /\ option \in BackendNames \union {NoBackend}
  /\ initialized \in BOOLEAN
  /\ availableBackends \in [IF initialized THEN Backends ELSE {} -> BOOLEAN]
  /\ chosenBackend \in Backends \union {NoBackend}
  /\ kernelNames \in Seq(KernelNames)
  /\ pc \in {"idle", "checkOnline", "post", "poll", "exited"}
  /\ CallPending => /\ call \in [functions: Batch, backend: Backends]
                    /\ Len(call.functions) =< Len(kernelNames)
  /\ failure # "none" <=> pc = "exited"
  /\ results \in Seq(Result)
  /\ deviceStatus \in [Backends -> DeviceStatuses]
  /\ jobs \in Seq(Job)
  /\ \A k \in DOMAIN jobs :
       jobs[k].status = "COMPLETED" => Len(jobs[k].outcomes) = Len(jobs[k].functions)
  /\ pc = "poll" => jobs # <<>> /\ job.functions = call.functions
                                /\ job.backend = call.backend

(* The two calls of an execute() meet in measurementSupports: processInput *)
(* fills it and processResponse reads it.  While a call is under way it    *)
(* holds that call's measured qubits and no other's, and between two calls *)
(* it is empty; otherwise the insert-and-append loop mixes two batches.    *)
SupportsMatchCall ==
  /\ pc = "idle" => measurementSupports = <<>>
  /\ CallPending =>
       measurementSupports = [i \in 0..(Len(call.functions) - 1) |->
                                call.functions[i + 1].measures]

(* processResponse goes by chosenBackend, a member set by initialize() or  *)
(* by processInput() of whichever call last had an option; the job ran on  *)
(* the backend the payload named.  The errors and times that come with the *)
(* result of a device are that device's, whatever was chosen before and    *)
(* however the option was set and removed.  (processInput, :305-315, and   *)
(* processResponse, :544 and :567.)                                        *)
ExtraInfoOfJob ==
  \A k \in DOMAIN results :
    ~isSimulator(jobs[k].backend) => results[k].device = jobs[k].backend

(* Every finished execute() gave its caller the answer of its own job, one *)
(* bit string per function, on the given buffer for a lone function and on *)
(* new buffers for a batch; no job is answered twice or skipped.           *)
OneAnswerPerJob ==
  /\ pc # "exited" => Len(jobs) = Len(results) + (IF pc = "poll" THEN 1 ELSE 0)
  /\ Len(results) =< Len(jobs)
  /\ \A k \in DOMAIN results :
       LET n == Len(jobs[k].functions)
       IN  /\ jobs[k].status = "COMPLETED"
           /\ Len(results[k].onBuffer) = (IF n = 1 THEN 1 ELSE 0)
           /\ Len(results[k].returned) = (IF n = 1 THEN 0 ELSE n)

(* What the comments of processResponse promise holds of a batch that ran  *)
(* on a physical device, and of one that ran on the simulator if every     *)
(* kernel measures its qubits in ascending order and no device's data came *)
(* with the result: character q from the right is qubit q and unmeasured   *)
(* qubits are '0', at any later time too.                                  *)
TakenForDevice(k) == isSimulator(jobs[k].backend) /\ results[k].device # NoBackend

BatchResultsFaithful ==
  \A k \in DOMAIN results : \A i \in DOMAIN results[k].returned :
    LET measures == jobs[k].functions[i].measures
    IN  (\/ ~isSimulator(jobs[k].backend)
         \/ Ascending(measures) /\ ~TakenForDevice(k)) =>
          results[k].returned[i].bits = Expected(jobs[k].outcomes[i], measures, BufferSize)

(* The single-circuit path copies the report and neither moves a bit nor   *)
(* turns one off.  Every measured qubit still has its outcome in its own   *)
(* place on a device, and on the simulator if the kernel measures the      *)
(* qubits from 0 on, in order, and no device's data came with the result.  *)
MeasuresFromZero(measures) == \A j \in DOMAIN measures : measures[j] = j - 1

SingleResultFaithful ==
  \A k \in DOMAIN results : \A i \in DOMAIN results[k].onBuffer :
    LET measures == jobs[k].functions[1].measures
        bits == results[k].onBuffer[i].bits
    IN  (\/ ~isSimulator(jobs[k].backend)
         \/ MeasuresFromZero(measures) /\ ~TakenForDevice(k)) =>
          \A q \in Range(measures) :
            q \in DOMAIN bits /\ bits[q] = jobs[k].outcomes[1][q]

(* kernelNames only grows and is read from its start, so the ids are right *)
(* as long as every job of the process repeats the names of the first.     *)
LabelsRightWhileBatchRepeats ==
  (\A k \in DOMAIN jobs : Names(jobs[k].functions) = Names(jobs[1].functions)) =>
    \A k \in DOMAIN results :
      /\ \A i \in DOMAIN results[k].onBuffer :
           results[k].onBuffer[i].name = jobs[k].functions[i].name
      /\ \A i \in DOMAIN results[k].returned :
           results[k].returned[i].name = jobs[k].functions[i].name

(* A started execute() returns or ends the process, provided every device  *)
(* comes on for good and the service never ends a job in a status the      *)
(* client does not recognise (both loops of the client have no other way   *)
(* out).                                                                   *)
ServiceBehaves ==
  /\ <>[](\A b \in Backends : deviceStatus[b] = "on")
  /\ [](\A k \in DOMAIN jobs : jobs[k].status # "OTHER")

EveryCallEnds == ServiceBehaves => [](CallPending => <>(~CallPending))

(* execute() implements the contract of its caller.                        *)
Phase == IF pc = "exited" THEN "ended" ELSE IF pc = "idle" THEN "idle" ELSE "running"

Answered == [k \in DOMAIN results |->
  [functions |-> jobs[k].functions,
   strings |-> Len(results[k].onBuffer) + Len(results[k].returned)]]

Contract == INSTANCE ExecutionContract
  WITH phase <- Phase, request <- call.functions, answered <- Answered

(* Every step of the client and of the service is a step of the contract   *)
(* or leaves what its caller sees alone.                                   *)
ImplementsContract == Contract!Spec

-----------------------------------------------------------------------------
(* Statements of the repository that the code does not keep; each is the   *)
(* property of a run that shows how.                                       *)

(* "LEFT MOST IS (N-1)th Qubit, RIGHT MOST IS 0th qubit", of the bits of a *)
(* batch, with the measurements that were not requested turned off.        *)
BatchResultBitOrder ==
  \A k \in DOMAIN results : \A i \in DOMAIN results[k].returned :
    results[k].returned[i].bits =
      Expected(jobs[k].outcomes[i], jobs[k].functions[i].measures, BufferSize)

(* "The string id serves as a unique identifier": two returned buffers     *)
(* with the same id hold results of the same kernel.                       *)
BufferIdsIdentify ==
  \A k, l \in DOMAIN results :
    \A i \in DOMAIN results[k].returned, j \in DOMAIN results[l].returned :
      results[k].returned[i].name = results[l].returned[j].name =>
        jobs[k].functions[i].name = jobs[l].functions[j].name
=============================================================================
