------------------------ MODULE IBMAcceleratorProofs -------------------------
(***************************************************************************)
(* Invariants of IBMAccelerator for every catalogue of backends, every set *)
(* of kernels, every size of buffer and device, and any bounds.            *)
(***************************************************************************)
EXTENDS IBMAccelerator, ResultDecodingProofs

LEMMA BatchesAreSequences == Batches \subseteq Batch
<1> SUFFICES ASSUME NEW b \in Batches
             PROVE  b \in Batch
  OBVIOUS
<1>1. PICK n \in 1..MaxBatch : b \in [1..n -> Kernels]
  BY DEF Batches
<1>2. n \in Nat /\ MaxBatch \in Nat
  BY BoundsAssumption
<1>3. b \in Seq(Kernels) /\ Len(b) = n
  BY <1>1, <1>2
<1> QED
  BY <1>2, <1>3 DEF Batch

LEMMA BatchFacts ==
  ASSUME NEW b \in Batch
  PROVE  /\ b \in Seq(Kernels)
         /\ Len(b) \in Nat \ {0}
         /\ DOMAIN b = 1..Len(b)
         /\ \A i \in 1..Len(b) : b[i] \in Kernels
BY BoundsAssumption DEF Batch

LEMMA KernelFacts ==
  ASSUME NEW f \in Kernels
  PROVE  f.measures \in Seq(0..(BufferSize - 1)) /\ f.name \in KernelNames
BY KernelsAssumption DEF Kernel, KernelNames

LEMMA Sizes ==
  /\ BufferSize \in Nat /\ DeviceSize \in Nat
  /\ BufferSize > 0 /\ BufferSize =< DeviceSize
BY SizesAssumption DEF isValidBufferSize

(* What may be stored on a buffer.                                         *)
Deliverable == UNION {Strings(n) : n \in Lengths}

LEMMA LengthsOfKernel ==
  ASSUME NEW f \in Kernels
  PROVE  /\ Len(f.measures) \in Nat
         /\ Len(f.measures) \in Lengths /\ 2 * Len(f.measures) - 1 \in Lengths
BY KernelFacts DEF Lengths

(* A report can be delivered as it is, and is a bit string when its blanks *)
(* are erased.                                                             *)
LEMMA ReportIsString ==
  ASSUME NEW b \in Backends, NEW f \in Kernels, NEW o \in Outcomes, NEW erased \in BOOLEAN
  PROVE  /\ \E l \in Lengths : l \in Int /\ l >= -1 /\ Report(b, f, o, erased) \in Strings(l)
         /\ isSimulator(b) /\ erased => Report(b, f, o, erased) \in BitStrings(Len(f.measures))
<1> DEFINE l == Len(f.measures)
           bits == ReportByRegister(o, f.measures)
<1>1. o \in BitStrings(DeviceSize)
  BY KernelsAssumption
<1>2. bits \in BitStrings(l) /\ ReportByQubit(o, DeviceSize) \in BitStrings(DeviceSize)
  BY <1>1, KernelFacts, Sizes, ReportType
<1>3. l \in Nat /\ l \in Lengths /\ 2 * l - 1 \in Lengths
  BY LengthsOfKernel
<1>4. DeviceSize \in Lengths /\ DeviceSize \in Nat
  BY Sizes DEF Lengths
<1>5. Report(b, f, o, erased) =
        IF ~isSimulator(b) THEN ReportByQubit(o, DeviceSize)
        ELSE IF erased THEN bits ELSE Spaced(bits)
  BY DEF Report
<1> HIDE DEF l, bits
<1>6. /\ bits \in Strings(l) /\ Spaced(bits) \in Strings(2 * l - 1)
      /\ ReportByQubit(o, DeviceSize) \in Strings(DeviceSize)
  <2>1. BitStrings(l) \subseteq Strings(l)
    BY <1>3, BitStringsAreStrings
  <2>2. BitStrings(DeviceSize) \subseteq Strings(DeviceSize)
    BY <1>4, BitStringsAreStrings
  <2> QED
    BY <1>2, <1>3, <2>1, <2>2, SpacedType
<1>7. 2 * l - 1 \in Int /\ 2 * l - 1 >= -1
  BY <1>3
<1>8. CASE ~isSimulator(b)
  <2>1. DeviceSize \in Int /\ DeviceSize >= -1
    BY <1>4
  <2> QED
    BY <1>4, <1>5, <1>6, <1>8, <2>1
<1>9. CASE isSimulator(b) /\ erased
  <2>1. l \in Int /\ l >= -1
    BY <1>3
  <2>2. Report(b, f, o, erased) = bits
    BY <1>5, <1>9
  <2> QED
    BY <1>2, <1>3, <1>6, <2>1, <2>2 DEF l
<1>10. CASE isSimulator(b) /\ ~erased
  <2>1. Report(b, f, o, erased) = Spaced(bits)
    BY <1>5, <1>10
  <2> QED
    BY <1>3, <1>6, <1>7, <1>10, <2>1
<1> QED
  BY <1>8, <1>9, <1>10
-----------------------------------------------------------------------------
(* A call sent to a device has the device as chosenBackend: only an option *)
(* names one, and then processInput assigns it.  The converse fails, since *)
(* chosenBackend outlives the option.                                      *)
BackendInv ==
  CallPending /\ ~isSimulator(call.backend) => chosenBackend = call.backend

TypeInv == TypeOK /\ BackendInv

(* The job a polling client asks for, when it is complete.                 *)
LEMMA CompletedJob ==
  ASSUME TypeInv, pc = "poll", job.status = "COMPLETED"
  PROVE  /\ Len(jobs) \in DOMAIN jobs
         /\ job \in Job
         /\ job.functions = call.functions /\ job.backend = call.backend
         /\ Len(job.outcomes) = Len(job.functions)
         /\ job.functions \in Batch
         /\ \A i \in DOMAIN job.outcomes :
              /\ i \in 1..Len(job.functions)
              /\ job.functions[i] \in Kernels
              /\ job.outcomes[i] \in Outcomes
              /\ kernelNames[i] \in KernelNames
<1>1. jobs \in Seq(Job) /\ jobs # <<>> /\ kernelNames \in Seq(KernelNames)
  BY DEF TypeInv, TypeOK
<1>2. Len(jobs) \in DOMAIN jobs /\ job \in Job
  BY <1>1 DEF job
<1>3. /\ job.functions = call.functions /\ job.backend = call.backend
      /\ Len(job.outcomes) = Len(job.functions)
      /\ Len(job.functions) =< Len(kernelNames)
  BY <1>2 DEF TypeInv, TypeOK, CallPending, job
<1>4. job.functions \in Batch /\ job.outcomes \in Seq(Outcomes)
  BY <1>2 DEF Job
<1>5. ASSUME NEW i \in DOMAIN job.outcomes
      PROVE  /\ i \in 1..Len(job.functions)
             /\ job.functions[i] \in Kernels
             /\ job.outcomes[i] \in Outcomes
             /\ kernelNames[i] \in KernelNames
  <2>1. job.outcomes[i] \in Outcomes /\ i \in 1..Len(job.functions)
    BY <1>3, <1>4
  <2>2. job.functions[i] \in Kernels
    BY <1>4, <2>1, BatchFacts
  <2>3. Len(job.functions) \in Nat
    BY <1>4, BatchFacts
  <2>4. kernelNames[i] \in KernelNames
    BY <1>1, <1>3, <2>1, <2>3
  <2> QED
    BY <2>1, <2>2, <2>4
<1> QED
  BY <1>2, <1>3, <1>4, <1>5

LEMMA DeliveredType ==
  ASSUME TypeInv, pc = "poll", job.status = "COMPLETED", NEW i \in DOMAIN job.outcomes
  PROVE  Counted(i) \in Deliverable /\ Decoded(i) \in Deliverable
<1> DEFINE f == job.functions[i]
           erased == isSimulator(chosenBackend)
<1>1. /\ job.backend \in Backends /\ f \in Kernels
      /\ job.outcomes[i] \in Outcomes /\ job.backend = call.backend
  BY CompletedJob DEF Job
<1>2. Counted(i) = Report(job.backend, f, job.outcomes[i], erased)
  BY DEF Counted
<1>3. erased \in BOOLEAN
  BY DEF isSimulator
<1> HIDE DEF f, erased
<1>4. PICK l \in Lengths : l \in Int /\ l >= -1 /\ Counted(i) \in Strings(l)
  BY <1>1, <1>2, <1>3, ReportIsString
<1>5. BufferSize \in Lengths
  BY DEF Lengths
<1>6. CASE erased
  <2>1. isSimulator(job.backend)
    BY <1>1, <1>6 DEF TypeInv, BackendInv, CallPending, erased
  <2>2. Counted(i) \in BitStrings(Len(f.measures)) /\ Len(f.measures) \in Nat
    BY <1>1, <1>2, <1>3, <1>6, <2>1, ReportIsString, LengthsOfKernel
  <2>3. Scatter(Counted(i), measurementSupports[i - 1], BufferSize) \in BitStrings(BufferSize)
    BY <2>2, ScatterType, Sizes
  <2>4. BitStrings(BufferSize) \subseteq Strings(BufferSize)
    BY BitStringsAreStrings, Sizes
  <2> QED
    BY <1>4, <1>5, <1>6, <2>3, <2>4 DEF Decoded, DecodeSimulator, Deliverable, erased
<1>7. CASE ~erased
  <2>1. DecodeDevice(Counted(i), measurementSupports[i - 1], BufferSize)
          \in Strings(BufferSize) \union Strings(l)
    BY <1>4, DecodeDeviceString, Sizes
  <2> QED
    BY <1>4, <1>5, <1>7, <2>1 DEF Decoded, Deliverable, erased
<1> QED
  BY <1>6, <1>7

LEMMA ExtraInfoType ==
  ASSUME TypeInv
  PROVE  ExtraInfo \in (Backends \ Simulators) \union {NoBackend}
BY DEF ExtraInfo, isSimulator, TypeInv, TypeOK

-----------------------------------------------------------------------------
LEMMA TypeInit == Init => TypeInv
<1> SUFFICES ASSUME Init
             PROVE  TypeInv
  OBVIOUS
<1>1. availableBackends \in [IF initialized THEN Backends ELSE {} -> BOOLEAN]
  BY DEF Init
<1>2. /\ kernelNames \in Seq(KernelNames) /\ jobs \in Seq(Job)
      /\ results \in Seq(Result)
      /\ \A k \in DOMAIN jobs :
           jobs[k].status = "COMPLETED" => Len(jobs[k].outcomes) = Len(jobs[k].functions)
  BY DEF Init
<1>3. TypeOK
  BY <1>1, <1>2 DEF Init, TypeOK, CallPending
<1>4. BackendInv
  BY DEF Init, BackendInv, CallPending
<1> QED
  BY <1>3, <1>4 DEF TypeInv

(* xacc::error leaves everything but pc and the message alone.             *)
LEMMA TypeError ==
  ASSUME TypeInv, pc' = "exited", failure' # "none",
         UNCHANGED <<session, scratch, results>>, UNCHANGED serviceVars
  PROVE  TypeInv'
<1> USE DEF TypeInv, session, scratch, serviceVars
<1>1. TypeOK'
  BY DEF TypeOK, CallPending, job
<1>2. BackendInv'
  BY DEF BackendInv, CallPending
<1> QED
  BY <1>1, <1>2

LEMMA TypeSetOption ==
  ASSUME TypeInv, NEW name \in BackendNames \union {NoBackend}, SetOption(name)
  PROVE  TypeInv'
<1> USE DEF TypeInv, SetOption, scratch, serviceVars
<1>1. TypeOK'
  BY DEF TypeOK, CallPending, job
<1>2. BackendInv'
  BY DEF BackendInv, CallPending
<1> QED
  BY <1>1, <1>2

LEMMA TypeInitialize ==
  ASSUME TypeInv, Initialize
  PROVE  TypeInv'
<1> USE DEF TypeInv, Initialize, scratch, serviceVars
<1>1. Snapshot \in [Backends -> BOOLEAN]
  BY DEF Snapshot
<1>2. AssignedBackend \in Backends \union {NoBackend}
  BY DEF AssignedBackend, TypeOK
<1>3. TypeOK'
  BY <1>1, <1>2 DEF TypeOK, CallPending, job
<1>4. BackendInv'
  BY DEF BackendInv, CallPending
<1> QED
  BY <1>3, <1>4

(* The backend named in the payload is one the service listed, and it is   *)
(* the one assigned unless it is a simulator.                              *)
LEMMA BackendOfCall ==
  ASSUME TypeInv, BackendUsable
  PROVE  /\ backendName \in Backends
         /\ AssignedBackend \in Backends \union {NoBackend}
         /\ ~isSimulator(backendName) => AssignedBackend = backendName
<1>1. CASE option = NoBackend
  <2>1. backendName = DefaultBackend /\ DefaultBackend \in Simulators
    BY <1>1, BackendsAssumption DEF backendName
  <2>2. AssignedBackend \in Backends \union {NoBackend}
    BY <1>1 DEF AssignedBackend, TypeInv, TypeOK
  <2> QED
    BY <2>1, <2>2, BackendsAssumption DEF isSimulator
<1>2. CASE option # NoBackend
  <2>1. option \in Backends
    BY <1>2 DEF BackendUsable, KnownBackend, TypeInv, TypeOK
  <2> QED
    BY <1>2, <2>1 DEF backendName, AssignedBackend
<1> QED
  BY <1>1, <1>2

LEMMA NamesType ==
  ASSUME NEW b \in Batch
  PROVE  Names(b) \in Seq(KernelNames) /\ Len(Names(b)) = Len(b)
<1>1. \A i \in 1..Len(b) : b[i].name \in KernelNames
  BY BatchFacts, KernelFacts
<1> QED
  BY <1>1, BatchFacts DEF Names

LEMMA TypeProcessInput ==
  ASSUME TypeInv, NEW functions \in Batches, ProcessInput(functions)
  PROVE  TypeInv'
<1> USE DEF TypeInv
<1>1. functions \in Batch
  BY BatchesAreSequences
<1>2. call' = [functions |-> functions, backend |-> backendName]
  BY DEF ProcessInput
<1>3. /\ backendName \in Backends
      /\ AssignedBackend \in Backends \union {NoBackend}
      /\ ~isSimulator(backendName) => AssignedBackend = backendName
  BY BackendOfCall DEF ProcessInput
<1>4. /\ kernelNames' \in Seq(KernelNames)
      /\ Len(functions) =< Len(kernelNames')
  <2>1. Names(functions) \in Seq(KernelNames) /\ Len(Names(functions)) = Len(functions)
    BY <1>1, NamesType
  <2>2. kernelNames \in Seq(KernelNames) /\ kernelNames' = kernelNames \o Names(functions)
    BY DEF TypeOK, ProcessInput
  <2>3. Len(functions) \in Nat
    BY <1>1, BatchFacts
  <2> QED
    BY <2>1, <2>2, <2>3
<1>5. call' \in [functions: Batch, backend: Backends]
  BY <1>1, <1>2, <1>3
<1>6. /\ pc' \in {"checkOnline", "post"} /\ pc = "idle"
      /\ chosenBackend' = AssignedBackend
      /\ UNCHANGED <<option, initialized, availableBackends, failure, results,
                     deviceStatus, jobs>>
  BY DEF ProcessInput, serviceVars
<1>7. TypeOK'
  BY <1>2, <1>3, <1>4, <1>5, <1>6 DEF TypeOK
<1>8. call'.backend = backendName
  BY <1>2
<1>9. BackendInv'
  BY <1>3, <1>6, <1>8 DEF BackendInv
<1> QED
  BY <1>7, <1>9

LEMMA TypeCheckOnline ==
  ASSUME TypeInv, CheckOnline
  PROVE  TypeInv'
<1> USE DEF TypeInv, CheckOnline, session, scratch, serviceVars
<1>1. TypeOK'
  BY DEF TypeOK, CallPending
<1>2. BackendInv'
  BY DEF BackendInv, CallPending
<1> QED
  BY <1>1, <1>2

LEMMA TypePostJob ==
  ASSUME TypeInv, PostJob
  PROVE  TypeInv'
<1> USE DEF TypeInv
<1> DEFINE new == [functions |-> call.functions, backend |-> call.backend,
                   status |-> "QUEUED", outcomes |-> <<>>]
<1>1. /\ pc = "post" /\ pc' = "poll" /\ jobs' = Append(jobs, new)
      /\ UNCHANGED <<session, scratch, failure, results, deviceStatus>>
  BY DEF PostJob
<1>2. new \in Job
  BY <1>1 DEF TypeOK, CallPending, Job, JobStatuses
<1>3. jobs \in Seq(Job)
  BY DEF TypeOK
<1> HIDE DEF new
<1>4. /\ jobs' \in Seq(Job) /\ jobs' # <<>> /\ job' = new
      /\ \A k \in DOMAIN jobs' : jobs'[k] = new \/ (k \in DOMAIN jobs /\ jobs'[k] = jobs[k])
  BY <1>1, <1>2, <1>3 DEF job
<1>5. TypeOK'
  BY <1>1, <1>4 DEF TypeOK, CallPending, session, scratch, new
<1>6. BackendInv'
  BY <1>1 DEF BackendInv, CallPending, session, scratch
<1> QED
  BY <1>5, <1>6

LEMMA TypeJobCompleted ==
  ASSUME TypeInv, JobCompleted
  PROVE  TypeInv'
<1> USE DEF TypeInv
<1> DEFINE answer == IF Len(job.outcomes) = 1 THEN SingleResult ELSE BatchResult
<1>1. /\ pc = "poll" /\ job.status = "COMPLETED" /\ pc' = "idle"
      /\ results' = Append(results, answer)
      /\ UNCHANGED <<session, kernelNames, failure, serviceVars>>
  BY DEF JobCompleted, Respond, jobCompleted
<1>2. \A i \in DOMAIN job.outcomes : kernelNames[i] \in KernelNames
  BY <1>1, CompletedJob
<1>3. \A i \in DOMAIN job.outcomes :
        Counted(i) \in Deliverable /\ Decoded(i) \in Deliverable
  BY <1>1, DeliveredType
<1>4. job.outcomes \in Seq(Outcomes)
  BY <1>1, CompletedJob DEF Job
<1>5. ASSUME Len(job.outcomes) = 1
      PROVE  SingleResult \in Result
  <2>1. 1 \in DOMAIN job.outcomes
    BY <1>4, <1>5
  <2>2. [name |-> kernelNames[1], bits |-> Counted(1)] \in Delivery
    BY <1>2, <1>3, <2>1 DEF Delivery, Deliverable
  <2> QED
    BY <2>2, ExtraInfoType DEF SingleResult, Result
<1>6. BatchResult \in Result
  <2>1. \A i \in DOMAIN job.outcomes :
          [name |-> Label(i), bits |-> Decoded(i)] \in Delivery
    BY <1>2, <1>3 DEF Delivery, Deliverable, Label
  <2>2. DOMAIN job.outcomes = 1..Len(job.outcomes) /\ Len(job.outcomes) \in Nat
    BY <1>4
  <2>3. [i \in DOMAIN job.outcomes |-> [name |-> Label(i), bits |-> Decoded(i)]]
          \in Seq(Delivery)
    BY <2>1, <2>2
  <2> QED
    BY <2>3, ExtraInfoType DEF BatchResult, Result
<1>7. answer \in Result
  BY <1>5, <1>6
<1> HIDE DEF answer
<1>8. results' \in Seq(Result)
  BY <1>1, <1>7 DEF TypeOK
<1>9. TypeOK'
  BY <1>1, <1>8 DEF TypeOK, CallPending, session, serviceVars, job
<1>10. BackendInv'
  BY <1>1 DEF BackendInv, CallPending, session
<1> QED
  BY <1>9, <1>10

LEMMA TypeDeviceStatusChange ==
  ASSUME TypeInv, NEW b \in Backends, NEW status \in DeviceStatuses,
         DeviceStatusChange(b, status)
  PROVE  TypeInv'
<1> USE DEF TypeInv, DeviceStatusChange, clientVars
<1>1. TypeOK'
  BY DEF TypeOK, CallPending, job
<1>2. BackendInv'
  BY DEF BackendInv, CallPending
<1> QED
  BY <1>1, <1>2

(* The service changes one job, and neither what it is to run nor where.   *)
LEMMA TypeJobChange ==
  ASSUME TypeInv, NEW k \in DOMAIN jobs, NEW new \in Job,
         new.functions = jobs[k].functions, new.backend = jobs[k].backend,
         new.status = "COMPLETED" => Len(new.outcomes) = Len(new.functions),
         jobs' = [jobs EXCEPT ![k] = new], UNCHANGED <<clientVars, deviceStatus>>
  PROVE  TypeInv'
<1> USE DEF TypeInv, clientVars
<1>1. jobs \in Seq(Job)
  BY DEF TypeOK
<1>2. /\ jobs' \in Seq(Job) /\ Len(jobs') = Len(jobs) /\ DOMAIN jobs' = DOMAIN jobs
      /\ jobs'[k] = new /\ \A l \in DOMAIN jobs : l # k => jobs'[l] = jobs[l]
  BY <1>1
<1>3. \A l \in DOMAIN jobs : /\ jobs'[l].functions = jobs[l].functions
                            /\ jobs'[l].backend = jobs[l].backend
  BY <1>2
<1>4. pc = "poll" => /\ jobs' # <<>>
                     /\ job'.functions = call.functions
                     /\ job'.backend = call.backend
  <2> SUFFICES ASSUME pc = "poll"
               PROVE  /\ jobs' # <<>>
                      /\ job'.functions = call.functions
                      /\ job'.backend = call.backend
    OBVIOUS
  <2>1. Len(jobs) \in DOMAIN jobs /\ job.functions = call.functions /\ job.backend = call.backend
    BY <1>1 DEF TypeOK
  <2> QED
    BY <1>2, <1>3, <2>1 DEF job
<1>5. TypeOK'
  BY <1>2, <1>4 DEF TypeOK, CallPending
<1>6. BackendInv'
  BY DEF BackendInv, CallPending
<1> QED
  BY <1>5, <1>6

LEMMA JobUpdate ==
  ASSUME NEW j \in Job, NEW status, NEW outcomes
  PROVE  [j EXCEPT !.status = status, !.outcomes = outcomes] =
           [functions |-> j.functions, backend |-> j.backend,
            status |-> status, outcomes |-> outcomes]
<1> DEFINE ended == [functions |-> j.functions, backend |-> j.backend,
                     status |-> status, outcomes |-> j.outcomes]
<1>1. [j EXCEPT !.status = status] = ended
  BY DEF Job
<1>2. [ended EXCEPT !.outcomes = outcomes] =
        [functions |-> j.functions, backend |-> j.backend,
         status |-> status, outcomes |-> outcomes]
  OBVIOUS
<1>3. [j EXCEPT !.status = status, !.outcomes = outcomes] =
        [[j EXCEPT !.status = status] EXCEPT !.outcomes = outcomes]
  BY DEF Job
<1> HIDE DEF ended
<1> QED
  BY <1>1, <1>2, <1>3

LEMMA TypeService ==
  ASSUME TypeInv, Service
  PROVE  TypeInv'
<1>1. ASSUME NEW b \in Backends, NEW status \in DeviceStatuses, DeviceStatusChange(b, status)
      PROVE  TypeInv'
  BY <1>1, TypeDeviceStatusChange
<1>2. ASSUME NEW k \in DOMAIN jobs
      PROVE  /\ jobs \in Seq(Job) /\ jobs[k] \in Job
             /\ jobs[k].functions \in Seq(Kernels)
             /\ jobs[k].functions \in Batch
  <2>1. jobs \in Seq(Job) /\ jobs[k] \in Job
    BY <1>2 DEF TypeInv, TypeOK
  <2> QED
    BY <2>1, BatchFacts DEF Job
<1>3. ASSUME NEW k \in DOMAIN jobs, RunJob(k)
      PROVE  TypeInv'
  <2>1. PICK outcomes \in [DOMAIN jobs[k].functions -> Outcomes] :
          jobs' = [jobs EXCEPT ![k] =
                     [jobs[k] EXCEPT !.status = "COMPLETED", !.outcomes = outcomes]]
    BY <1>3 DEF RunJob
  <2> DEFINE new == [functions |-> jobs[k].functions, backend |-> jobs[k].backend,
                     status |-> "COMPLETED", outcomes |-> outcomes]
  <2>2. outcomes \in Seq(Outcomes) /\ Len(outcomes) = Len(jobs[k].functions)
    BY <1>2
  <2>3. new \in Job
    BY <1>2, <2>2 DEF Job, JobStatuses
  <2>4. jobs' = [jobs EXCEPT ![k] = new]
    <3>1. [jobs[k] EXCEPT !.status = "COMPLETED", !.outcomes = outcomes] = new
      BY <1>2, JobUpdate
    <3> HIDE DEF new
    <3> QED
      BY <2>1, <3>1
  <2>5. UNCHANGED <<clientVars, deviceStatus>>
    BY <1>3 DEF RunJob
  <2> QED
    BY <2>2, <2>3, <2>4, <2>5, TypeJobChange
<1>4. ASSUME NEW k \in DOMAIN jobs, NEW status \in {"ERROR_RUNNING_JOB", "OTHER"},
             EndJob(k, status)
      PROVE  TypeInv'
  <2> DEFINE new == [functions |-> jobs[k].functions, backend |-> jobs[k].backend,
                     status |-> status, outcomes |-> jobs[k].outcomes]
  <2>1. new \in Job
    BY <1>2 DEF Job, JobStatuses
  <2>2. jobs' = [jobs EXCEPT ![k] = new]
    <3>1. [jobs[k] EXCEPT !.status = status] = new
      BY <1>2 DEF Job
    <3>2. jobs' = [jobs EXCEPT ![k] = [jobs[k] EXCEPT !.status = status]]
      BY <1>4 DEF EndJob
    <3> HIDE DEF new
    <3> QED
      BY <3>1, <3>2
  <2>3. UNCHANGED <<clientVars, deviceStatus>>
    BY <1>4 DEF EndJob
  <2> QED
    BY <2>1, <2>2, <2>3, TypeJobChange
<1> QED
  BY <1>1, <1>3, <1>4 DEF Service

LEMMA TypeClient ==
  ASSUME TypeInv, Client
  PROVE  TypeInv'
<1>1. ASSUME NEW name \in BackendNames \union {NoBackend}, SetOption(name)
      PROVE  TypeInv'
  BY <1>1, TypeSetOption
<1>2. CASE Initialize
  BY <1>2, TypeInitialize
<1>3. CASE InitializeRejected
  BY <1>3, TypeError DEF Error, InitializeRejected
<1>4. ASSUME NEW functions \in Batches, ProcessInput(functions)
      PROVE  TypeInv'
  BY <1>4, TypeProcessInput
<1>5. ASSUME NEW functions \in Batches, ProcessInputRejected(functions)
      PROVE  TypeInv'
  BY <1>5, TypeError DEF Error, ProcessInputRejected
<1>6. CASE CheckOnline
  BY <1>6, TypeCheckOnline
<1>7. CASE PostJob
  BY <1>7, TypePostJob
<1>8. CASE PostRejected
  BY <1>8, TypeError DEF Error, PostRejected
<1>9. CASE JobCompleted
  BY <1>9, TypeJobCompleted
<1>10. CASE JobFailed
  BY <1>10, TypeError DEF Error, JobFailed
<1>11. CASE RequestFailed
  BY <1>11, TypeError DEF Error, RequestFailed
<1> QED
  BY <1>1, <1>2, <1>3, <1>4, <1>5, <1>6, <1>7, <1>8, <1>9, <1>10, <1>11 DEF Client, Execute

LEMMA TypeStutter == TypeInv /\ UNCHANGED vars => TypeInv'
BY DEF TypeInv, TypeOK, BackendInv, CallPending, job,
       vars, clientVars, serviceVars

LEMMA TypeInvariant == Spec => []TypeInv
<1>1. TypeInv /\ [Next]_vars => TypeInv'
  BY TypeService, TypeClient, TypeStutter DEF Next
<1> QED
  BY <1>1, TypeInit, PTL DEF Spec

(* Every variable keeps its type, with whatever each pc relies on.         *)
THEOREM TypeCorrect == Spec => []TypeOK
<1>1. TypeInv => TypeOK
  BY DEF TypeInv
<1> QED
  BY <1>1, TypeInvariant, PTL

-----------------------------------------------------------------------------
(* What a finished call left behind stays right because its job is over:   *)
(* the service only changes queued jobs, and there is one job per answer.  *)
ResultsRight ==
  /\ ExtraInfoOfJob
  /\ BatchResultsFaithful
  /\ SingleResultFaithful

AnswerInv ==
  /\ SupportsMatchCall
  /\ OneAnswerPerJob
  /\ ResultsRight

Inv == TypeInv /\ AnswerInv

LEMMA AnswerInit == Init => AnswerInv
<1> SUFFICES ASSUME Init
             PROVE  AnswerInv
  OBVIOUS
<1>1. results = <<>> /\ jobs = <<>> /\ pc = "idle" /\ measurementSupports = <<>>
  BY DEF Init
<1>2. DOMAIN results = {} /\ Len(results) = 0 /\ Len(jobs) = 0
  BY <1>1
<1>3. SupportsMatchCall
  BY <1>1 DEF SupportsMatchCall, CallPending
<1>4. OneAnswerPerJob
  BY <1>1, <1>2 DEF OneAnswerPerJob
<1>5. ExtraInfoOfJob /\ BatchResultsFaithful /\ SingleResultFaithful
  BY <1>2 DEF ExtraInfoOfJob, BatchResultsFaithful, SingleResultFaithful
<1> QED
  BY <1>3, <1>4, <1>5 DEF AnswerInv, ResultsRight

(* A step that delivers nothing and leaves the answered jobs alone.        *)
LEMMA AnswersKept ==
  ASSUME Inv, results' = results, Len(jobs') \in Nat, Len(jobs') >= Len(jobs),
         \A k \in DOMAIN results : jobs'[k] = jobs[k],
         pc' # "exited" => Len(jobs') = Len(results) + (IF pc' = "poll" THEN 1 ELSE 0)
  PROVE  OneAnswerPerJob' /\ ResultsRight'
<1>1. /\ OneAnswerPerJob /\ ResultsRight
      /\ Len(jobs) \in Nat /\ Len(results) \in Nat
  BY DEF Inv, AnswerInv, TypeInv, TypeOK
<1>2. OneAnswerPerJob'
  BY <1>1 DEF OneAnswerPerJob
<1>3. \A k \in DOMAIN results : TakenForDevice(k)' = TakenForDevice(k)
  BY DEF TakenForDevice
<1>4. ExtraInfoOfJob'
  BY <1>1 DEF ResultsRight, ExtraInfoOfJob
<1>5. BatchResultsFaithful'
  BY <1>1, <1>3 DEF ResultsRight, BatchResultsFaithful
<1>6. SingleResultFaithful'
  BY <1>1, <1>3 DEF ResultsRight, SingleResultFaithful
<1> QED
  BY <1>2, <1>4, <1>5, <1>6 DEF ResultsRight

(* The steps that neither post a job nor deliver a result.                 *)
LEMMA AnswerQuiet ==
  ASSUME Inv, UNCHANGED <<results, jobs>>, pc' = "poll" <=> pc = "poll",
         pc = "exited" => pc' = "exited", SupportsMatchCall'
  PROVE  AnswerInv'
<1>1. Len(jobs) \in Nat /\ OneAnswerPerJob
  BY DEF Inv, AnswerInv, TypeInv, TypeOK
<1>2. pc' # "exited" => Len(jobs') = Len(results) + (IF pc' = "poll" THEN 1 ELSE 0)
  BY <1>1 DEF OneAnswerPerJob
<1>3. OneAnswerPerJob' /\ ResultsRight'
  BY <1>1, <1>2, AnswersKept
<1> QED
  BY <1>3 DEF AnswerInv

LEMMA AnswerError ==
  ASSUME Inv, pc' = "exited", UNCHANGED <<session, scratch, results>>, UNCHANGED serviceVars
  PROVE  AnswerInv'
<1>1. SupportsMatchCall'
  BY DEF SupportsMatchCall, CallPending
<1>2. Len(jobs) \in Nat /\ UNCHANGED <<results, jobs>>
  BY DEF Inv, TypeInv, TypeOK, serviceVars
<1>3. OneAnswerPerJob' /\ ResultsRight'
  BY <1>2, AnswersKept
<1> QED
  BY <1>1, <1>3 DEF AnswerInv

(* processInput finds measurementSupports empty, so the insert-and-append  *)
(* loop leaves exactly this batch's measured qubits in it.                 *)
LEMMA AnswerProcessInput ==
  ASSUME Inv, NEW functions \in Batches, ProcessInput(functions)
  PROVE  AnswerInv'
<1>1. /\ pc = "idle" /\ pc' \in {"post", "checkOnline"} /\ UNCHANGED <<results, jobs>>
      /\ measurementSupports' = Supports(functions)
      /\ call' = [functions |-> functions, backend |-> backendName]
  BY DEF ProcessInput, serviceVars
<1>2. measurementSupports = <<>>
  BY <1>1 DEF Inv, AnswerInv, SupportsMatchCall
<1>3. DOMAIN measurementSupports = {}
  BY <1>2
<1>4. functions \in Batch
  BY BatchesAreSequences
<1>5. \A i \in 0..(Len(functions) - 1) :
        /\ <<>> \o functions[i + 1].measures = functions[i + 1].measures
  <2> SUFFICES ASSUME NEW i \in 0..(Len(functions) - 1)
               PROVE  <<>> \o functions[i + 1].measures = functions[i + 1].measures
    OBVIOUS
  <2>1. functions[i + 1] \in Kernels
    BY <1>4, BatchFacts
  <2>2. functions[i + 1].measures \in Seq(0..(BufferSize - 1))
    BY <2>1, KernelFacts
  <2> QED
    BY <2>2
<1>6. Supports(functions) =
        [i \in 0..(Len(functions) - 1) |-> functions[i + 1].measures]
  BY <1>3, <1>5 DEF Supports
<1>7. call'.functions = functions
  BY <1>1
<1>8. SupportsMatchCall'
  BY <1>1, <1>6, <1>7 DEF SupportsMatchCall
<1> QED
  BY <1>1, <1>8, AnswerQuiet

LEMMA AnswerPostJob ==
  ASSUME Inv, PostJob
  PROVE  AnswerInv'
<1> DEFINE new == [functions |-> call.functions, backend |-> call.backend,
                   status |-> "QUEUED", outcomes |-> <<>>]
<1>1. /\ pc = "post" /\ pc' = "poll" /\ jobs' = Append(jobs, new)
      /\ results' = results /\ UNCHANGED <<call, measurementSupports>>
  BY DEF PostJob, scratch
<1> HIDE DEF new
<1>2. jobs \in Seq(Job) /\ Len(results) \in Nat /\ results \in Seq(Range(results))
  BY DEF Inv, TypeInv, TypeOK, Range
<1>3. Len(jobs) = Len(results) /\ OneAnswerPerJob
  BY <1>1, <1>2 DEF Inv, AnswerInv, OneAnswerPerJob
<1>4. /\ Len(jobs') = Len(jobs) + 1 /\ \A k \in DOMAIN jobs : jobs'[k] = jobs[k]
      /\ DOMAIN results = DOMAIN jobs
  BY <1>1, <1>2, <1>3
<1>5. SupportsMatchCall'
  BY <1>1 DEF Inv, AnswerInv, SupportsMatchCall, CallPending
<1>6. OneAnswerPerJob' /\ ResultsRight'
  BY <1>1, <1>2, <1>3, <1>4, AnswersKept
<1> QED
  BY <1>5, <1>6 DEF AnswerInv

(* What processResponse goes by when it reads the counts of a device, and  *)
(* how its result tells that it took a simulator for one.                  *)
LEMMA ChosenForJob ==
  ASSUME Inv, pc = "poll"
  PROVE  /\ ~isSimulator(job.backend) =>
              ~isSimulator(chosenBackend) /\ ExtraInfo = job.backend
         /\ ExtraInfo = NoBackend => isSimulator(chosenBackend)
<1>1. job.backend = call.backend
  BY DEF Inv, TypeInv, TypeOK
<1>2. ~isSimulator(call.backend) => chosenBackend = call.backend
  BY DEF Inv, TypeInv, BackendInv, CallPending
<1> QED
  BY <1>1, <1>2 DEF ExtraInfo, isSimulator

(* What processResponse stores for circuit i of a batch.                   *)
LEMMA DecodedFaithful ==
  ASSUME Inv, pc = "poll", job.status = "COMPLETED", NEW i \in DOMAIN job.outcomes,
         \/ ~isSimulator(job.backend)
         \/ Ascending(job.functions[i].measures) /\ ExtraInfo = NoBackend
  PROVE  Decoded(i) = Expected(job.outcomes[i], job.functions[i].measures, BufferSize)
<1> DEFINE f == job.functions[i]
           o == job.outcomes[i]
<1>1. /\ f \in Kernels /\ o \in Outcomes /\ i \in 1..Len(job.functions)
      /\ job.functions = call.functions /\ job.backend = call.backend
      /\ Len(job.functions) \in Nat
  BY CompletedJob, BatchFacts DEF Inv
<1>2. o \in BitStrings(DeviceSize) /\ f.measures \in Seq(0..(BufferSize - 1))
  BY <1>1, KernelFacts, KernelsAssumption
<1>3. measurementSupports[i - 1] = f.measures
  <2>1. measurementSupports = [m \in 0..(Len(call.functions) - 1) |->
                                 call.functions[m + 1].measures]
    BY DEF Inv, AnswerInv, SupportsMatchCall, CallPending
  <2>2. i - 1 \in 0..(Len(call.functions) - 1) /\ (i - 1) + 1 = i
    BY <1>1
  <2> QED
    BY <1>1, <2>1, <2>2
<1>4. isSimulator(chosenBackend) <=> isSimulator(job.backend)
  <2>1. CASE ~isSimulator(job.backend)
    BY <2>1, ChosenForJob
  <2>2. CASE isSimulator(job.backend)
    BY <2>2, ChosenForJob
  <2> QED
    BY <2>1, <2>2
<1>5. Counted(i) = Report(job.backend, f, o, isSimulator(chosenBackend))
  BY DEF Counted
<1>6. CASE isSimulator(job.backend)
  <2>1. Decoded(i) = DecodeSimulator(ReportByRegister(o, f.measures), f.measures, BufferSize)
    BY <1>3, <1>4, <1>5, <1>6 DEF Decoded, Report
  <2>2. Ascending(f.measures)
    BY <1>6
  <2> HIDE DEF f, o
  <2>3. DecodeSimulator(ReportByRegister(o, f.measures), f.measures, BufferSize)
          = Expected(o, f.measures, BufferSize)
    BY <1>2, <2>2, Sizes, SimulatorDecodingFaithful
  <2> QED
    BY <2>1, <2>3 DEF f, o
<1>7. CASE ~isSimulator(job.backend)
  <2>1. Decoded(i) = DecodeDevice(ReportByQubit(o, DeviceSize), f.measures, BufferSize)
    BY <1>3, <1>4, <1>5, <1>7 DEF Decoded, Report
  <2> HIDE DEF f, o
  <2>2. DecodeDevice(ReportByQubit(o, DeviceSize), f.measures, BufferSize)
          = Expected(o, f.measures, BufferSize)
    BY <1>2, Sizes, DeviceDecodingFaithful
  <2> QED
    BY <2>1, <2>2 DEF f, o
<1> QED
  BY <1>6, <1>7

LEMMA MeasuredInBuffer ==
  ASSUME NEW f \in Kernels, NEW k \in DOMAIN f.measures
  PROVE  f.measures[k] \in 0..(BufferSize - 1)
<1> DEFINE Qubits == 0..(BufferSize - 1)
<1>1. f.measures \in Seq(Qubits)
  BY KernelFacts
<1> HIDE DEF Qubits
<1>2. f.measures[k] \in Qubits
  BY <1>1
<1> QED
  BY <1>2 DEF Qubits

(* What it leaves on the caller's buffer of a measured qubit.              *)
LEMMA CountedFaithful ==
  ASSUME Inv, pc = "poll", job.status = "COMPLETED", NEW i \in DOMAIN job.outcomes,
         \/ ~isSimulator(job.backend)
         \/ MeasuresFromZero(job.functions[i].measures) /\ ExtraInfo = NoBackend,
         NEW q \in Range(job.functions[i].measures)
  PROVE  q \in DOMAIN Counted(i) /\ Counted(i)[q] = job.outcomes[i][q]
<1> DEFINE s == job.functions[i].measures
           o == job.outcomes[i]
<1>1. job.functions[i] \in Kernels
  BY CompletedJob, BatchFacts DEF Inv
<1>2. s \in Seq(0..(BufferSize - 1))
  BY <1>1, KernelFacts
<1>3. Counted(i) = Report(job.backend, job.functions[i], o, isSimulator(chosenBackend))
  BY DEF Counted
<1>4. PICK k \in DOMAIN s : s[k] = q
  BY DEF Range
<1>5. CASE isSimulator(job.backend)
  <2>1. isSimulator(chosenBackend) /\ MeasuresFromZero(s)
    BY <1>5, ChosenForJob
  <2>2. Counted(i) = ReportByRegister(o, s)
    BY <1>3, <1>5, <2>1 DEF Report
  <2> HIDE DEF s, o
  <2>3. q = k - 1 /\ k \in 1..Len(s) /\ Len(s) \in Nat
    BY <1>2, <1>4, <2>1 DEF MeasuresFromZero
  <2>4. q \in 0..(Len(s) - 1) /\ q + 1 = k
    BY <2>3
  <2> QED
    BY <1>4, <2>2, <2>4 DEF ReportByRegister, o
<1>6. CASE ~isSimulator(job.backend)
  <2>1. Counted(i) = ReportByQubit(o, DeviceSize)
    BY <1>3, <1>6 DEF Report
  <2> HIDE DEF s, o
  <2>2. q \in 0..(BufferSize - 1)
    BY <1>1, <1>4, MeasuredInBuffer DEF s
  <2>3. q \in 0..(DeviceSize - 1)
    BY <2>2, Sizes
  <2> QED
    BY <2>1, <2>3 DEF ReportByQubit, o
<1> QED
  BY <1>5, <1>6

LEMMA AnswerJobCompleted ==
  ASSUME Inv, JobCompleted
  PROVE  AnswerInv'
<1> DEFINE answer == IF Len(job.outcomes) = 1 THEN SingleResult ELSE BatchResult
           n == Len(results) + 1
<1>1. /\ pc = "poll" /\ job.status = "COMPLETED" /\ pc' = "idle"
      /\ results' = Append(results, answer)
      /\ measurementSupports' = <<>> /\ jobs' = jobs
  BY DEF JobCompleted, Respond, jobCompleted, serviceVars
<1>2. /\ Len(jobs) \in DOMAIN jobs /\ Len(job.outcomes) = Len(job.functions)
      /\ Len(job.functions) \in Nat \ {0} /\ DOMAIN job.outcomes = 1..Len(job.functions)
  <2>1. job \in Job /\ Len(job.outcomes) = Len(job.functions) /\ Len(jobs) \in DOMAIN jobs
    BY <1>1, CompletedJob DEF Inv
  <2>2. job.functions \in Batch /\ job.outcomes \in Seq(Outcomes)
    BY <2>1 DEF Job
  <2> QED
    BY <2>1, <2>2, BatchFacts
<1>3. Len(jobs) = n /\ OneAnswerPerJob /\ Len(results) \in Nat /\ Len(jobs) \in Nat
  BY <1>1 DEF Inv, AnswerInv, OneAnswerPerJob, TypeInv, TypeOK
<1>4. job = jobs[n]
  BY <1>3 DEF job
<1>5. /\ answer.onBuffer = IF Len(job.outcomes) = 1
                           THEN <<[name |-> kernelNames[1], bits |-> Counted(1)]>> ELSE <<>>
      /\ answer.returned = IF Len(job.outcomes) = 1 THEN <<>>
                           ELSE [i \in DOMAIN job.outcomes |->
                                   [name |-> Label(i), bits |-> Decoded(i)]]
      /\ answer.device = ExtraInfo
  BY DEF SingleResult, BatchResult
<1> HIDE DEF answer
<1>6. /\ Len(results') = n /\ results'[n] = answer /\ n \in DOMAIN results'
      /\ \A k \in DOMAIN results' : k = n \/ (k \in DOMAIN results /\ results'[k] = results[k])
  <2>1. results \in Seq(Result)
    BY DEF Inv, TypeInv, TypeOK
  <2> QED
    BY <1>1, <1>3, <2>1
<1> HIDE DEF n
<1>7. SupportsMatchCall'
  BY <1>1 DEF SupportsMatchCall, CallPending
<1>8. OneAnswerPerJob'
  <2>1. /\ Len(answer.onBuffer) = (IF Len(job.functions) = 1 THEN 1 ELSE 0)
        /\ Len(answer.returned) = (IF Len(job.functions) = 1 THEN 0 ELSE Len(job.functions))
    BY <1>2, <1>5
  <2>2. /\ pc' # "exited" => Len(jobs') = Len(results') + (IF pc' = "poll" THEN 1 ELSE 0)
        /\ Len(results') =< Len(jobs')
    BY <1>1, <1>3, <1>6
  <2> QED
    BY <1>1, <1>3, <1>4, <1>6, <2>1, <2>2 DEF OneAnswerPerJob
<1>9. ExtraInfoOfJob'
  <2>1. ~isSimulator(jobs[n].backend) => answer.device = jobs[n].backend
    BY <1>1, <1>4, <1>5, ChosenForJob
  <2>2. \A k \in DOMAIN results :
          ~isSimulator(jobs[k].backend) => results[k].device = jobs[k].backend
    BY DEF Inv, AnswerInv, ResultsRight, ExtraInfoOfJob
  <2>3. \A k \in DOMAIN results' :
          ~isSimulator(jobs[k].backend) => results'[k].device = jobs[k].backend
    BY <1>6, <2>1, <2>2
  <2> QED
    BY <1>1, <2>3 DEF ExtraInfoOfJob
<1>10. BatchResultsFaithful'
  <2> DEFINE Stored(k, i, device, bits) ==
        (\/ ~isSimulator(jobs[k].backend)
         \/ /\ Ascending(jobs[k].functions[i].measures)
            /\ ~(isSimulator(jobs[k].backend) /\ device # NoBackend)) =>
          bits = Expected(jobs[k].outcomes[i], jobs[k].functions[i].measures, BufferSize)
  <2>1. ASSUME NEW i \in DOMAIN answer.returned
        PROVE  Stored(n, i, answer.device, answer.returned[i].bits)
    <3>1. i \in DOMAIN job.outcomes /\ answer.returned[i].bits = Decoded(i)
      BY <1>5, <2>1
    <3> QED
      BY <1>1, <1>4, <1>5, <3>1, DecodedFaithful
  <2>2. \A k \in DOMAIN results : \A i \in DOMAIN results[k].returned :
          Stored(k, i, results[k].device, results[k].returned[i].bits)
    BY DEF Inv, AnswerInv, ResultsRight, BatchResultsFaithful, TakenForDevice
  <2> HIDE DEF Stored
  <2>3. \A k \in DOMAIN results' : \A i \in DOMAIN results'[k].returned :
          Stored(k, i, results'[k].device, results'[k].returned[i].bits)
    BY <1>6, <2>1, <2>2
  <2> QED
    BY <1>1, <2>3 DEF BatchResultsFaithful, TakenForDevice, Stored
<1>11. SingleResultFaithful'
  <2> DEFINE Stored(k, device, bits) ==
        (\/ ~isSimulator(jobs[k].backend)
         \/ /\ MeasuresFromZero(jobs[k].functions[1].measures)
            /\ ~(isSimulator(jobs[k].backend) /\ device # NoBackend)) =>
          \A q \in Range(jobs[k].functions[1].measures) :
            q \in DOMAIN bits /\ bits[q] = jobs[k].outcomes[1][q]
  <2>1. ASSUME NEW i \in DOMAIN answer.onBuffer
        PROVE  Stored(n, answer.device, answer.onBuffer[i].bits)
    <3>1. Len(job.outcomes) = 1 /\ 1 \in DOMAIN job.outcomes
      BY <1>2, <1>5, <2>1
    <3>2. i = 1 /\ answer.onBuffer[i].bits = Counted(1)
      BY <1>5, <2>1, <3>1
    <3> QED
      BY <1>1, <1>4, <1>5, <3>1, <3>2, CountedFaithful
  <2>2. \A k \in DOMAIN results : \A i \in DOMAIN results[k].onBuffer :
          Stored(k, results[k].device, results[k].onBuffer[i].bits)
    BY DEF Inv, AnswerInv, ResultsRight, SingleResultFaithful, TakenForDevice
  <2> HIDE DEF Stored
  <2>3. \A k \in DOMAIN results' : \A i \in DOMAIN results'[k].onBuffer :
          Stored(k, results'[k].device, results'[k].onBuffer[i].bits)
    BY <1>6, <2>1, <2>2
  <2> QED
    BY <1>1, <2>3 DEF SingleResultFaithful, TakenForDevice, Stored
<1> QED
  BY <1>7, <1>8, <1>9, <1>10, <1>11 DEF AnswerInv, ResultsRight

(* The service ends a queued job, and no answered job is queued.           *)
LEMMA AnswerJobEnds ==
  ASSUME Inv, NEW j \in DOMAIN jobs, jobs[j].status = "QUEUED", NEW new,
         jobs' = [jobs EXCEPT ![j] = new], UNCHANGED <<clientVars, deviceStatus>>
  PROVE  AnswerInv'
<1>1. /\ jobs \in Seq(Job) /\ results \in Seq(Range(results)) /\ OneAnswerPerJob
  BY DEF Inv, AnswerInv, TypeInv, TypeOK, Range
<1>2. /\ Len(jobs') = Len(jobs) /\ Len(jobs) \in Nat
      /\ \A k \in DOMAIN jobs : k # j => jobs'[k] = jobs[k]
  BY <1>1
<1>3. \A k \in DOMAIN results : k \in DOMAIN jobs /\ k # j
  BY <1>1 DEF OneAnswerPerJob
<1>4. SupportsMatchCall'
  BY DEF Inv, AnswerInv, SupportsMatchCall, CallPending, clientVars
<1>5. pc' # "exited" => Len(jobs') = Len(results) + (IF pc' = "poll" THEN 1 ELSE 0)
  BY <1>1, <1>2 DEF OneAnswerPerJob, clientVars
<1>6. OneAnswerPerJob' /\ ResultsRight'
  <2>1. /\ results' = results /\ Len(jobs') \in Nat /\ Len(jobs') >= Len(jobs)
        /\ \A k \in DOMAIN results : jobs'[k] = jobs[k]
    BY <1>2, <1>3 DEF clientVars
  <2> QED
    BY <1>5, <2>1, AnswersKept
<1> QED
  BY <1>4, <1>6 DEF AnswerInv

LEMMA AnswerService ==
  ASSUME Inv, Service
  PROVE  AnswerInv'
<1>1. ASSUME NEW b \in Backends, NEW status \in DeviceStatuses, DeviceStatusChange(b, status)
      PROVE  AnswerInv'
  <2>1. UNCHANGED <<results, jobs>> /\ pc' = pc /\ UNCHANGED <<call, measurementSupports>>
    BY <1>1 DEF DeviceStatusChange, clientVars
  <2>2. SupportsMatchCall'
    BY <2>1 DEF Inv, AnswerInv, SupportsMatchCall, CallPending
  <2> QED
    BY <2>1, <2>2, AnswerQuiet
<1>2. ASSUME NEW k \in DOMAIN jobs, RunJob(k)
      PROVE  AnswerInv'
  <2>1. PICK outcomes \in [DOMAIN jobs[k].functions -> Outcomes] :
          jobs' = [jobs EXCEPT ![k] =
                     [jobs[k] EXCEPT !.status = "COMPLETED", !.outcomes = outcomes]]
    BY <1>2 DEF RunJob
  <2>2. jobs[k].status = "QUEUED" /\ UNCHANGED <<clientVars, deviceStatus>>
    BY <1>2 DEF RunJob, Running
  <2> QED
    BY <2>1, <2>2, AnswerJobEnds
<1>3. ASSUME NEW k \in DOMAIN jobs, NEW status, EndJob(k, status)
      PROVE  AnswerInv'
  <2>1. /\ jobs' = [jobs EXCEPT ![k] = [jobs[k] EXCEPT !.status = status]]
        /\ jobs[k].status = "QUEUED" /\ UNCHANGED <<clientVars, deviceStatus>>
    BY <1>3 DEF EndJob, Running
  <2> QED
    BY <2>1, AnswerJobEnds
<1> QED
  BY <1>1, <1>2, <1>3 DEF Service

LEMMA AnswerClient ==
  ASSUME Inv, Client
  PROVE  AnswerInv'
<1>1. ASSUME UNCHANGED <<results, jobs>>, pc = "idle", pc' = "idle",
             UNCHANGED <<call, measurementSupports>>
      PROVE  AnswerInv'
  <2>1. SupportsMatchCall'
    BY <1>1 DEF Inv, AnswerInv, SupportsMatchCall, CallPending
  <2> QED
    BY <1>1, <2>1, AnswerQuiet
<1>2. ASSUME NEW name \in BackendNames \union {NoBackend}, SetOption(name)
      PROVE  AnswerInv'
  BY <1>1, <1>2 DEF SetOption, scratch, serviceVars
<1>3. CASE Initialize
  BY <1>1, <1>3 DEF Initialize, scratch, serviceVars
<1>4. CASE InitializeRejected
  BY <1>4, AnswerError DEF Error, InitializeRejected
<1>5. ASSUME NEW functions \in Batches, ProcessInput(functions)
      PROVE  AnswerInv'
  BY <1>5, AnswerProcessInput
<1>6. ASSUME NEW functions \in Batches, ProcessInputRejected(functions)
      PROVE  AnswerInv'
  BY <1>6, AnswerError DEF Error, ProcessInputRejected
<1>7. CASE CheckOnline
  <2>1. /\ UNCHANGED <<results, jobs>> /\ pc = "checkOnline" /\ pc' = "post"
        /\ UNCHANGED <<call, measurementSupports>>
    BY <1>7 DEF CheckOnline, scratch, serviceVars
  <2>2. SupportsMatchCall'
    BY <2>1 DEF Inv, AnswerInv, SupportsMatchCall, CallPending
  <2> QED
    BY <2>1, <2>2, AnswerQuiet
<1>8. CASE PostJob
  BY <1>8, AnswerPostJob
<1>9. CASE PostRejected
  BY <1>9, AnswerError DEF Error, PostRejected
<1>10. CASE JobCompleted
  BY <1>10, AnswerJobCompleted
<1>11. CASE JobFailed
  BY <1>11, AnswerError DEF Error, JobFailed
<1>12. CASE RequestFailed
  BY <1>12, AnswerError DEF Error, RequestFailed
<1> QED
  BY <1>2, <1>3, <1>4, <1>5, <1>6, <1>7, <1>8, <1>9, <1>10, <1>11, <1>12 DEF Client, Execute

LEMMA AnswerStutter == Inv /\ UNCHANGED vars => AnswerInv'
BY DEF Inv, AnswerInv, SupportsMatchCall, OneAnswerPerJob, ResultsRight,
       ExtraInfoOfJob, BatchResultsFaithful, SingleResultFaithful, TakenForDevice, CallPending, vars, clientVars, serviceVars

LEMMA Invariance == Spec => []Inv
<1>1. Init => Inv
  BY TypeInit, AnswerInit DEF Inv
<1>2. Inv /\ [Next]_vars => Inv'
  <2>1. Inv /\ [Next]_vars => TypeInv'
    BY TypeService, TypeClient, TypeStutter DEF Next, Inv
  <2>2. Inv /\ [Next]_vars => AnswerInv'
    BY AnswerService, AnswerClient, AnswerStutter DEF Next
  <2> QED
    BY <2>1, <2>2 DEF Inv
<1> QED
  BY <1>1, <1>2, PTL DEF Spec

(* measurementSupports never mixes two calls.                              *)
THEOREM SupportsOfOneCall == Spec => []SupportsMatchCall
<1>1. Inv => SupportsMatchCall
  BY DEF Inv, AnswerInv
<1> QED
  BY <1>1, Invariance, PTL

(* Every call is answered by its own job, once.                            *)
THEOREM AnsweredOnce == Spec => []OneAnswerPerJob
<1>1. Inv => OneAnswerPerJob
  BY DEF Inv, AnswerInv
<1> QED
  BY <1>1, Invariance, PTL

(* The errors and times that come with the result of a device are that     *)
(* device's, however the option ibm-backend was set and removed between    *)
(* the calls of the process (chosenBackend, :305-315 and :544).            *)
THEOREM ExtraInfoRight == Spec => []ExtraInfoOfJob
<1>1. Inv => ExtraInfoOfJob
  BY DEF Inv, AnswerInv, ResultsRight
<1> QED
  BY <1>1, Invariance, PTL

(* Batches on a device, and ascending batches on a simulator that was not  *)
(* taken for a device, are decoded as the comments of processResponse say. *)
THEOREM BatchesFaithful == Spec => []BatchResultsFaithful
<1>1. Inv => BatchResultsFaithful
  BY DEF Inv, AnswerInv, ResultsRight
<1> QED
  BY <1>1, Invariance, PTL

(* A lone circuit is copied as reported, which leaves each measured qubit  *)
(* in its own place on a device, and on a simulator not taken for one if   *)
(* the qubits are measured from 0 on.                                      *)
THEOREM SinglesFaithful == Spec => []SingleResultFaithful
<1>1. Inv => SingleResultFaithful
  BY DEF Inv, AnswerInv, ResultsRight
<1> QED
  BY <1>1, Invariance, PTL

-----------------------------------------------------------------------------
(* Every id was read from the start of kernelNames, which holds the names  *)
(* of the first job and never changes there.                               *)
Labelled(names, result) ==
  /\ \A i \in DOMAIN result.onBuffer :
       i \in DOMAIN names /\ result.onBuffer[i].name = names[i]
  /\ \A i \in DOMAIN result.returned :
       i \in DOMAIN names /\ result.returned[i].name = names[i]

Begin(names, functions) == \A i \in DOMAIN functions :
  i \in DOMAIN names /\ names[i] = functions[i].name

LabelInv ==
  /\ \A k \in DOMAIN results : Labelled(kernelNames, results[k])
  /\ jobs = <<>> /\ pc = "idle" => kernelNames = <<>>
  /\ jobs = <<>> /\ CallPending => Begin(kernelNames, call.functions)
  /\ jobs # <<>> => Begin(kernelNames, jobs[1].functions)

LEMMA LabelInit == Init => LabelInv
<1> SUFFICES ASSUME Init
             PROVE  LabelInv
  OBVIOUS
<1>1. results = <<>> /\ jobs = <<>> /\ pc = "idle" /\ kernelNames = <<>>
  BY DEF Init
<1>2. DOMAIN results = {}
  BY <1>1
<1> QED
  BY <1>1, <1>2 DEF LabelInv, CallPending

(* A step that neither names, posts nor delivers.                          *)
LEMMA LabelQuiet ==
  ASSUME LabelInv, UNCHANGED <<results, kernelNames, call>>,
         jobs' = <<>> <=> jobs = <<>>,
         jobs # <<>> => jobs'[1].functions = jobs[1].functions,
         pc' = "idle" => pc = "idle",
         CallPending' => CallPending
  PROVE  LabelInv'
BY DEF LabelInv

LEMMA LabelProcessInput ==
  ASSUME Inv, LabelInv, NEW functions \in Batches, ProcessInput(functions)
  PROVE  LabelInv'
<1>1. /\ pc = "idle" /\ pc' \in {"post", "checkOnline"} /\ UNCHANGED <<results, jobs>>
      /\ kernelNames' = kernelNames \o Names(functions)
      /\ call' = [functions |-> functions, backend |-> backendName]
  BY DEF ProcessInput, serviceVars
<1>2. functions \in Batch
  BY BatchesAreSequences
<1>3. kernelNames \in Seq(KernelNames) /\ Names(functions) \in Seq(KernelNames)
  BY <1>2, NamesType DEF Inv, TypeInv, TypeOK
<1>4. \A i \in DOMAIN kernelNames : i \in DOMAIN kernelNames' /\ kernelNames'[i] = kernelNames[i]
  BY <1>1, <1>3
<1>5. jobs = <<>> => kernelNames' = Names(functions)
  <2>1. jobs = <<>> => kernelNames = <<>>
    BY <1>1 DEF LabelInv
  <2> QED
    BY <1>1, <1>3, <2>1
<1>6. jobs' = <<>> => Begin(kernelNames', call'.functions)
  <2>1. call'.functions = functions
    BY <1>1
  <2>2. \A i \in DOMAIN functions : Names(functions)[i] = functions[i].name
    BY DEF Names
  <2>3. DOMAIN Names(functions) = DOMAIN functions
    BY DEF Names
  <2> QED
    BY <1>1, <1>5, <2>1, <2>2, <2>3 DEF Begin
<1>7. \A k \in DOMAIN results' : Labelled(kernelNames', results'[k])
  BY <1>1, <1>4 DEF LabelInv, Labelled
<1>8. jobs' # <<>> => Begin(kernelNames', jobs'[1].functions)
  BY <1>1, <1>4 DEF LabelInv, Begin
<1> QED
  BY <1>1, <1>6, <1>7, <1>8 DEF LabelInv

LEMMA LabelPostJob ==
  ASSUME Inv, LabelInv, PostJob
  PROVE  LabelInv'
<1> DEFINE new == [functions |-> call.functions, backend |-> call.backend,
                   status |-> "QUEUED", outcomes |-> <<>>]
<1>1. /\ pc = "post" /\ jobs' = Append(jobs, new) /\ UNCHANGED <<results, kernelNames, call>>
  BY DEF PostJob, scratch
<1>2. jobs \in Seq(Job) /\ new.functions = call.functions /\ call.functions \in Batch
  BY <1>1 DEF Inv, TypeInv, TypeOK, CallPending
<1> HIDE DEF new
<1>3. jobs' # <<>> /\ (jobs = <<>> => jobs'[1] = new) /\ (jobs # <<>> => jobs'[1] = jobs[1])
  BY <1>1, <1>2
<1>4. Begin(kernelNames', jobs'[1].functions)
  <2>1. CASE jobs = <<>>
    <3>1. Begin(kernelNames, call.functions)
      BY <1>1, <2>1 DEF LabelInv, CallPending
    <3> QED
      BY <1>1, <1>2, <1>3, <2>1, <3>1 DEF Begin
  <2>2. CASE jobs # <<>>
    BY <1>1, <1>3, <2>2 DEF LabelInv, Begin
  <2> QED
    BY <2>1, <2>2
<1>5. \A k \in DOMAIN results' : Labelled(kernelNames', results'[k])
  BY <1>1 DEF LabelInv, Labelled
<1> QED
  BY <1>3, <1>4, <1>5 DEF LabelInv

LEMMA LabelJobCompleted ==
  ASSUME Inv, LabelInv, JobCompleted
  PROVE  LabelInv'
<1> DEFINE answer == IF Len(job.outcomes) = 1 THEN SingleResult ELSE BatchResult
<1>1. /\ pc = "poll" /\ job.status = "COMPLETED" /\ results' = Append(results, answer)
      /\ UNCHANGED <<kernelNames, jobs>>
  BY DEF JobCompleted, Respond, jobCompleted, serviceVars
<1>2. /\ \A i \in DOMAIN job.outcomes : i \in DOMAIN kernelNames
      /\ job.outcomes \in Seq(Outcomes)
  <2>1. job \in Job /\ kernelNames \in Seq(KernelNames)
    BY <1>1, CompletedJob DEF Inv, TypeInv, TypeOK
  <2>2. /\ Len(job.functions) =< Len(kernelNames) /\ Len(job.outcomes) = Len(job.functions)
        /\ job.functions = call.functions
    BY <1>1, CompletedJob DEF Inv, TypeInv, TypeOK, CallPending
  <2> QED
    BY <2>1, <2>2 DEF Job
<1>3. Labelled(kernelNames, answer)
  <2>1. CASE Len(job.outcomes) = 1
    <3>1. 1 \in DOMAIN kernelNames
      BY <1>2, <2>1
    <3> QED
      BY <2>1, <3>1 DEF SingleResult, Labelled
  <2>2. CASE Len(job.outcomes) # 1
    BY <1>2, <2>2 DEF BatchResult, Label, Labelled
  <2> QED
    BY <2>1, <2>2
<1> HIDE DEF answer
<1>4. \A k \in DOMAIN results' :
        results'[k] = answer \/ (k \in DOMAIN results /\ results'[k] = results[k])
  <2>1. results \in Seq(Result)
    BY DEF Inv, TypeInv, TypeOK
  <2> QED
    BY <1>1, <2>1
<1>5. jobs # <<>>
  BY <1>1 DEF Inv, TypeInv, TypeOK
<1>6. \A k \in DOMAIN results' : Labelled(kernelNames', results'[k])
  <2>1. \A k \in DOMAIN results' : Labelled(kernelNames, results'[k])
    BY <1>3, <1>4 DEF LabelInv
  <2> QED
    BY <1>1, <2>1 DEF Labelled
<1>7. Begin(kernelNames', jobs'[1].functions)
  BY <1>1, <1>5 DEF LabelInv, Begin
<1> QED
  BY <1>1, <1>5, <1>6, <1>7 DEF LabelInv

(* The service never changes the functions of a job it accepted.           *)
LEMMA ServiceKeepsFunctions ==
  ASSUME Inv, Service
  PROVE  /\ DOMAIN jobs' = DOMAIN jobs
         /\ \A k \in DOMAIN jobs : jobs'[k].functions = jobs[k].functions
         /\ jobs' = <<>> <=> jobs = <<>>
         /\ UNCHANGED clientVars
<1>1. jobs \in Seq(Job)
  BY DEF Inv, TypeInv, TypeOK
<1>2. ASSUME NEW j \in DOMAIN jobs, NEW new, new.functions = jobs[j].functions,
             jobs' = [jobs EXCEPT ![j] = new]
      PROVE  /\ DOMAIN jobs' = DOMAIN jobs
             /\ \A k \in DOMAIN jobs : jobs'[k].functions = jobs[k].functions
             /\ jobs' = <<>> <=> jobs = <<>>
  <2>1. /\ DOMAIN jobs' = DOMAIN jobs
        /\ \A k \in DOMAIN jobs : jobs'[k].functions = jobs[k].functions
    BY <1>2
  <2>2. jobs # <<>>
    BY <1>1
  <2>3. jobs' # <<>>
    BY <2>1
  <2> QED
    BY <2>1, <2>2, <2>3
<1>3. CASE \E b \in Backends, status \in DeviceStatuses : DeviceStatusChange(b, status)
  BY <1>3 DEF DeviceStatusChange
<1>4. ASSUME NEW j \in DOMAIN jobs, RunJob(j)
      PROVE  /\ DOMAIN jobs' = DOMAIN jobs
             /\ \A k \in DOMAIN jobs : jobs'[k].functions = jobs[k].functions
             /\ jobs' = <<>> <=> jobs = <<>>
             /\ UNCHANGED clientVars
  <2>1. PICK outcomes \in [DOMAIN jobs[j].functions -> Outcomes] :
          jobs' = [jobs EXCEPT ![j] =
                     [jobs[j] EXCEPT !.status = "COMPLETED", !.outcomes = outcomes]]
    BY <1>4 DEF RunJob
  <2>2. UNCHANGED clientVars
    BY <1>4 DEF RunJob
  <2>3. [jobs[j] EXCEPT !.status = "COMPLETED", !.outcomes = outcomes].functions =
          jobs[j].functions
    BY <1>1 DEF Job
  <2> QED
    BY <1>2, <2>1, <2>2, <2>3
<1>5. ASSUME NEW j \in DOMAIN jobs, NEW status, EndJob(j, status)
      PROVE  /\ DOMAIN jobs' = DOMAIN jobs
             /\ \A k \in DOMAIN jobs : jobs'[k].functions = jobs[k].functions
             /\ jobs' = <<>> <=> jobs = <<>>
             /\ UNCHANGED clientVars
  <2>1. /\ jobs' = [jobs EXCEPT ![j] = [jobs[j] EXCEPT !.status = status]]
        /\ UNCHANGED clientVars
    BY <1>5 DEF EndJob
  <2>2. [jobs[j] EXCEPT !.status = status].functions = jobs[j].functions
    BY <1>1 DEF Job
  <2> QED
    BY <1>2, <2>1, <2>2
<1> QED
  BY <1>3, <1>4, <1>5 DEF Service

LEMMA LabelService ==
  ASSUME Inv, LabelInv, Service
  PROVE  LabelInv'
<1>1. /\ UNCHANGED <<results, kernelNames, call>> /\ pc' = pc
      /\ jobs' = <<>> <=> jobs = <<>>
      /\ \A k \in DOMAIN jobs : jobs'[k].functions = jobs[k].functions
  BY ServiceKeepsFunctions DEF clientVars
<1>2. jobs # <<>> => 1 \in DOMAIN jobs
  BY DEF Inv, TypeInv, TypeOK
<1>3. jobs # <<>> => jobs'[1].functions = jobs[1].functions
  BY <1>1, <1>2
<1>4. CallPending' => CallPending
  BY <1>1 DEF CallPending
<1> QED
  BY <1>1, <1>3, <1>4, LabelQuiet

LEMMA LabelError ==
  ASSUME Inv, LabelInv, pc' = "exited", UNCHANGED <<session, scratch, results>>,
         UNCHANGED serviceVars
  PROVE  LabelInv'
<1>1. /\ UNCHANGED <<results, kernelNames, call>> /\ jobs' = jobs
      /\ pc' # "idle" /\ ~CallPending'
  BY DEF scratch, serviceVars, CallPending
<1> QED
  BY <1>1, LabelQuiet

LEMMA LabelClient ==
  ASSUME Inv, LabelInv, Client
  PROVE  LabelInv'
<1>1. ASSUME NEW name \in BackendNames \union {NoBackend}, SetOption(name)
      PROVE  LabelInv'
  <2>1. UNCHANGED <<results, kernelNames, call, jobs, pc>> /\ (CallPending' <=> CallPending)
    BY <1>1 DEF SetOption, scratch, serviceVars, CallPending
  <2> QED
    BY <2>1, LabelQuiet
<1>2. CASE Initialize
  <2>1. UNCHANGED <<results, kernelNames, call, jobs, pc>> /\ (CallPending' <=> CallPending)
    BY <1>2 DEF Initialize, scratch, serviceVars, CallPending
  <2> QED
    BY <2>1, LabelQuiet
<1>3. CASE InitializeRejected
  BY <1>3, LabelError DEF Error, InitializeRejected
<1>4. ASSUME NEW functions \in Batches, ProcessInput(functions)
      PROVE  LabelInv'
  BY <1>4, LabelProcessInput
<1>5. ASSUME NEW functions \in Batches, ProcessInputRejected(functions)
      PROVE  LabelInv'
  BY <1>5, LabelError DEF Error, ProcessInputRejected
<1>6. CASE CheckOnline
  <2>1. /\ UNCHANGED <<results, kernelNames, call, jobs>>
        /\ pc' # "idle" /\ CallPending
    BY <1>6 DEF CheckOnline, scratch, serviceVars, CallPending
  <2> QED
    BY <2>1, LabelQuiet
<1>7. CASE PostJob
  BY <1>7, LabelPostJob
<1>8. CASE PostRejected
  BY <1>8, LabelError DEF Error, PostRejected
<1>9. CASE JobCompleted
  BY <1>9, LabelJobCompleted
<1>10. CASE JobFailed
  BY <1>10, LabelError DEF Error, JobFailed
<1>11. CASE RequestFailed
  BY <1>11, LabelError DEF Error, RequestFailed
<1> QED
  BY <1>1, <1>2, <1>3, <1>4, <1>5, <1>6, <1>7, <1>8, <1>9, <1>10, <1>11 DEF Client, Execute

LEMMA LabelStutter == LabelInv /\ UNCHANGED vars => LabelInv'
BY DEF LabelInv, CallPending, vars, clientVars, serviceVars

(* An answer holds results for functions of its job only.                  *)
LEMMA AnswerShape ==
  ASSUME Inv, NEW k \in DOMAIN results
  PROVE  /\ DOMAIN results[k].onBuffer \subseteq DOMAIN jobs[k].functions
         /\ DOMAIN results[k].returned \subseteq DOMAIN jobs[k].functions
<1>1. /\ jobs \in Seq(Job) /\ OneAnswerPerJob
      /\ results \in Seq(Result)
  BY DEF Inv, AnswerInv, TypeInv, TypeOK
<1>2. k \in DOMAIN jobs
  BY <1>1 DEF OneAnswerPerJob
<1>3. results[k].onBuffer \in Seq(Delivery) /\ results[k].returned \in Seq(Delivery)
  <2>1. results[k] \in Result
    BY <1>1
  <2> QED
    BY <2>1 DEF Result
<1>4. jobs[k].functions \in Seq(Kernels)
  <2>1. jobs[k] \in Job
    BY <1>1, <1>2
  <2>2. jobs[k].functions \in Batch
    BY <2>1 DEF Job
  <2> QED
    BY <2>2, BatchFacts
<1>5. /\ Len(results[k].onBuffer) = (IF Len(jobs[k].functions) = 1 THEN 1 ELSE 0)
      /\ Len(results[k].returned) =
           (IF Len(jobs[k].functions) = 1 THEN 0 ELSE Len(jobs[k].functions))
  BY <1>1 DEF OneAnswerPerJob
<1> QED
  BY <1>3, <1>4, <1>5

(* As long as every job repeats the names of the first, ids are right.     *)
THEOREM LabelsRight == Spec => []LabelsRightWhileBatchRepeats
<1>1. Init => LabelInv
  BY LabelInit
<1>2. Inv /\ LabelInv /\ [Next]_vars => LabelInv'
  BY LabelService, LabelClient, LabelStutter DEF Next
<1>3. ASSUME Inv, LabelInv
      PROVE  LabelsRightWhileBatchRepeats
  <2> SUFFICES ASSUME \A k \in DOMAIN jobs : Names(jobs[k].functions) = Names(jobs[1].functions),
                      NEW k \in DOMAIN results
               PROVE  /\ \A i \in DOMAIN results[k].onBuffer :
                           results[k].onBuffer[i].name = jobs[k].functions[i].name
                      /\ \A i \in DOMAIN results[k].returned :
                           results[k].returned[i].name = jobs[k].functions[i].name
    BY DEF LabelsRightWhileBatchRepeats
  <2>1. /\ jobs \in Seq(Job) /\ Len(jobs) \in Nat /\ Len(results) \in Nat
        /\ results \in Seq(Result)
    BY <1>3 DEF Inv, TypeInv, TypeOK
  <2>2. OneAnswerPerJob
    BY <1>3 DEF Inv, AnswerInv
  <2>3. k \in DOMAIN jobs /\ jobs # <<>> /\ 1 \in DOMAIN jobs
    BY <2>1, <2>2 DEF OneAnswerPerJob
  <2>4. /\ DOMAIN jobs[k].functions = DOMAIN jobs[1].functions
        /\ \A i \in DOMAIN jobs[1].functions :
             jobs[k].functions[i].name = jobs[1].functions[i].name
    <3>1. Names(jobs[k].functions) = Names(jobs[1].functions)
      BY <2>3
    <3>2. ASSUME NEW f
          PROVE  DOMAIN Names(f) = DOMAIN f /\ \A i \in DOMAIN f : Names(f)[i] = f[i].name
      BY DEF Names
    <3> QED
      BY <3>1, <3>2
  <2>5. \A i \in DOMAIN jobs[k].functions : kernelNames[i] = jobs[k].functions[i].name
    BY <1>3, <2>3, <2>4 DEF LabelInv, Begin
  <2>6. /\ DOMAIN results[k].onBuffer \subseteq DOMAIN jobs[k].functions
        /\ DOMAIN results[k].returned \subseteq DOMAIN jobs[k].functions
    BY <1>3, AnswerShape
  <2>7. Labelled(kernelNames, results[k])
    BY <1>3 DEF LabelInv
  <2> QED
    BY <2>5, <2>6, <2>7 DEF Labelled
<1> QED
  BY <1>1, <1>2, <1>3, Invariance, PTL DEF Spec

-----------------------------------------------------------------------------
(* The refinement: processInput submits, processResponse answers, and      *)
(* xacc::error ends the process; nothing else is seen by the caller.       *)
LEMMA AnsweredKept ==
  ASSUME Inv, results' = results,
         \A k \in DOMAIN results : jobs'[k].functions = jobs[k].functions
  PROVE  Answered' = Answered
BY DEF Answered

LEMMA ContractQuiet ==
  ASSUME Inv, results' = results, call' = call, Phase' = Phase,
         \A k \in DOMAIN results : jobs'[k].functions = jobs[k].functions
  PROVE  UNCHANGED Contract!contractVars
BY AnsweredKept DEF Contract!contractVars

LEMMA ContractError ==
  ASSUME Inv, pc # "exited", pc' = "exited", UNCHANGED <<session, scratch, results>>,
         UNCHANGED serviceVars
  PROVE  Contract!Next
<1>1. Answered' = Answered /\ call' = call
  BY AnsweredKept DEF scratch, serviceVars
<1>2. Phase # "ended" /\ Phase' = "ended"
  BY DEF Phase
<1> QED
  BY <1>1, <1>2 DEF Contract!Next, Contract!EndProcess

LEMMA ContractSubmit ==
  ASSUME Inv, NEW functions \in Batches, ProcessInput(functions)
  PROVE  Contract!Next
<1>1. Phase = "idle" /\ Phase' = "running"
  BY DEF ProcessInput, Phase
<1>2. call'.functions \in Batches
  BY DEF ProcessInput
<1>3. Answered' = Answered
  BY AnsweredKept DEF ProcessInput, serviceVars
<1> QED
  BY <1>1, <1>2, <1>3 DEF Contract!Next, Contract!Submit

LEMMA ContractAnswer ==
  ASSUME Inv, JobCompleted
  PROVE  Contract!Next
<1> DEFINE answer == IF Len(job.outcomes) = 1 THEN SingleResult ELSE BatchResult
           entry(k) == [functions |-> jobs[k].functions,
                        strings |-> Len(results[k].onBuffer) + Len(results[k].returned)]
           new == [functions |-> call.functions, strings |-> Len(call.functions)]
<1>1. /\ pc = "poll" /\ pc' = "idle" /\ job.status = "COMPLETED"
      /\ results' = Append(results, answer) /\ jobs' = jobs /\ call' = NoCall
  BY DEF JobCompleted, Respond, jobCompleted, serviceVars
<1>2. Phase = "running" /\ Phase' = "idle" /\ call'.functions = <<>>
  BY <1>1 DEF Phase, NoCall
<1>3. /\ job.functions = call.functions /\ Len(call.functions) \in Nat \ {0}
      /\ OneAnswerPerJob /\ OneAnswerPerJob' /\ Len(jobs) \in Nat /\ Len(results) \in Nat
      /\ results \in Seq(Result)
  <2>1. AnswerInv'
    BY AnswerJobCompleted
  <2>2. call.functions \in Batch
    BY <1>1 DEF Inv, TypeInv, TypeOK, CallPending
  <2> QED
    BY <1>1, <2>1, <2>2, BatchFacts, CompletedJob DEF Inv, AnswerInv, TypeInv, TypeOK
<1>4. Len(jobs) = Len(results) + 1
  BY <1>1, <1>3 DEF OneAnswerPerJob
<1> HIDE DEF answer
<1>5. /\ DOMAIN results' = 1..(Len(results) + 1) /\ DOMAIN results = 1..Len(results)
      /\ \A k \in DOMAIN results : results'[k] = results[k]
      /\ results'[Len(results) + 1] = answer
  BY <1>1, <1>3
<1>6. Len(answer.onBuffer) + Len(answer.returned) = Len(call.functions)
  <2>1. Len(results) + 1 \in DOMAIN results'
    BY <1>3, <1>5
  <2>2. jobs'[Len(results) + 1] = job
    BY <1>1, <1>4 DEF job
  <2>3. ASSUME NEW k \in DOMAIN results'
        PROVE  /\ Len(results'[k].onBuffer) = (IF Len(jobs'[k].functions) = 1 THEN 1 ELSE 0)
               /\ Len(results'[k].returned) =
                    (IF Len(jobs'[k].functions) = 1 THEN 0 ELSE Len(jobs'[k].functions))
    BY <1>3 DEF OneAnswerPerJob
  <2>4. /\ Len(answer.onBuffer) = (IF Len(call.functions) = 1 THEN 1 ELSE 0)
        /\ Len(answer.returned) =
             (IF Len(call.functions) = 1 THEN 0 ELSE Len(call.functions))
    BY <1>3, <1>5, <2>1, <2>2, <2>3
  <2>5. CASE Len(call.functions) = 1
    BY <2>4, <2>5
  <2>6. CASE Len(call.functions) # 1
    BY <1>3, <2>4, <2>6
  <2> QED
    BY <2>5, <2>6
<1>7. Answered' = [k \in 1..(Len(results) + 1) |->
                     IF k = Len(results) + 1 THEN new ELSE entry(k)]
  <2>1. ASSUME NEW k \in DOMAIN results'
        PROVE  [functions |-> jobs'[k].functions,
                strings |-> Len(results'[k].onBuffer) + Len(results'[k].returned)] =
                  (IF k = Len(results) + 1 THEN new ELSE entry(k))
    <3>1. CASE k = Len(results) + 1
      <4>1. jobs'[k] = job /\ results'[k] = answer
        BY <1>1, <1>4, <1>5, <3>1 DEF job
      <4> QED
        BY <1>3, <1>6, <3>1, <4>1
    <3>2. CASE k # Len(results) + 1
      <4>1. k \in DOMAIN results
        BY <1>3, <1>5, <3>2
      <4> QED
        BY <1>1, <1>5, <3>2, <4>1
    <3> QED
      BY <3>1, <3>2
  <2> QED
    BY <1>5, <2>1 DEF Answered
<1>8. Answered = [k \in 1..Len(results) |-> entry(k)]
  BY <1>5 DEF Answered
<1> HIDE DEF entry, new
<1>9. Answered' = Append(Answered, new)
  <2>1. Answered \in Seq({entry(k) : k \in 1..Len(results)}) /\ Len(Answered) = Len(results)
    BY <1>3, <1>8
  <2> QED
    BY <1>3, <1>7, <1>8, <2>1
<1> QED
  BY <1>2, <1>9 DEF Contract!Next, Contract!Answer, new

LEMMA ContractClient ==
  ASSUME Inv, Client
  PROVE  Contract!Next \/ UNCHANGED Contract!contractVars
<1>1. ASSUME NEW name \in BackendNames \union {NoBackend}, SetOption(name)
      PROVE  UNCHANGED Contract!contractVars
  BY <1>1, ContractQuiet DEF SetOption, scratch, serviceVars, Phase
<1>2. CASE Initialize
  BY <1>2, ContractQuiet DEF Initialize, scratch, serviceVars, Phase
<1>3. CASE InitializeRejected
  BY <1>3, ContractError DEF Error, InitializeRejected
<1>4. ASSUME NEW functions \in Batches, ProcessInput(functions)
      PROVE  Contract!Next
  BY <1>4, ContractSubmit
<1>5. ASSUME NEW functions \in Batches, ProcessInputRejected(functions)
      PROVE  Contract!Next
  BY <1>5, ContractError DEF Error, ProcessInputRejected
<1>6. CASE CheckOnline
  BY <1>6, ContractQuiet DEF CheckOnline, scratch, serviceVars, Phase
<1>7. CASE PostJob
  <2>1. results' = results /\ call' = call /\ Phase' = Phase
    BY <1>7 DEF PostJob, scratch, Phase
  <2>2. \A k \in DOMAIN results : jobs'[k] = jobs[k]
    <3>1. \A k \in DOMAIN results : k \in DOMAIN jobs
      BY DEF Inv, AnswerInv, OneAnswerPerJob, TypeInv, TypeOK
    <3>2. jobs \in Seq(Job)
      BY DEF Inv, TypeInv, TypeOK
    <3> QED
      BY <1>7, <3>1, <3>2 DEF PostJob
  <2> QED
    BY <2>1, <2>2, ContractQuiet
<1>8. CASE PostRejected
  BY <1>8, ContractError DEF Error, PostRejected
<1>9. CASE JobCompleted
  BY <1>9, ContractAnswer
<1>10. CASE JobFailed
  BY <1>10, ContractError DEF Error, JobFailed
<1>11. CASE RequestFailed
  BY <1>11, ContractError DEF Error, RequestFailed, CallPending
<1> QED
  BY <1>1, <1>2, <1>3, <1>4, <1>5, <1>6, <1>7, <1>8, <1>9, <1>10, <1>11 DEF Client, Execute

LEMMA ContractService ==
  ASSUME Inv, Service
  PROVE  UNCHANGED Contract!contractVars
<1>1. /\ DOMAIN jobs' = DOMAIN jobs /\ UNCHANGED clientVars
      /\ \A k \in DOMAIN jobs : jobs'[k].functions = jobs[k].functions
  BY ServiceKeepsFunctions
<1>2. \A k \in DOMAIN results : k \in DOMAIN jobs
  BY DEF Inv, AnswerInv, OneAnswerPerJob, TypeInv, TypeOK
<1> QED
  BY <1>1, <1>2, ContractQuiet DEF clientVars, Phase

(* The accelerator implements the contract of its caller.                  *)
THEOREM Implements == Spec => ImplementsContract
<1>1. Init => Contract!Init
  <2> SUFFICES ASSUME Init
               PROVE  Contract!Init
    OBVIOUS
  <2>1. results = <<>> /\ pc = "idle" /\ call = NoCall
    BY DEF Init
  <2>2. DOMAIN results = {}
    BY <2>1
  <2>3. Answered = <<>>
    BY <2>2 DEF Answered
  <2> QED
    BY <2>1, <2>3 DEF Contract!Init, Phase, NoCall
<1>2. Inv /\ [Next]_vars => [Contract!Next]_(Contract!contractVars)
  <2>1. Inv /\ UNCHANGED vars => UNCHANGED Contract!contractVars
    BY DEF vars, clientVars, serviceVars, Contract!contractVars, Phase, Answered
  <2> QED
    BY <2>1, ContractClient, ContractService DEF Next
<1> QED
  BY <1>1, <1>2, Invariance, PTL DEF Spec, ImplementsContract, Contract!Spec

=============================================================================
