# xacc-ibm: TLA+ models, model checking and proofs

XACC programs run quantum kernels on the IBM Quantum Experience through the
plugins of this repository. This directory models what those plugins do with
their state: which measured qubits, names and backend a result is decoded
with, over calls, errors and a service that changes beside the client.

## The system

| Part | Source | State | Operations | Talks to |
|---|---|---|---|---|
| Accelerator `ibm`, session | `accelerator/IBMAccelerator.{hpp,cpp}` | `availableBackends`, `chosenBackend`, `measurementSupports`, `kernelNames`, `initialized` | `processInput`, `processResponse`, decoding | the caller (`execute`), runtime options, the IBM service over HTTP, the OpenQasm/OpenPulse visitors |
| Accelerator `ibm`, setup | same | key, URL, hub, group, project; the catalogue of backends | `initialize`: search for a key, login, list, calibration and parameters; connectivity, error rates, `isPhysical` | files, environment, runtime options, the IBM service |
| Accelerator `local-ibm` | `accelerator/LocalIBMAccelerator.{hpp,cpp}` | `measurementSupports` | `execute`, one kernel or several | the OpenQasm visitor, a Python simulator run as a child process |
| Transformation | `accelerator/IBMIRTransformation.{hpp,cpp}` | the function it builds, an index | `transform` over an IR | the coupling map of the chosen backend |
| OpenQasm visitor | `utils/OpenQasmVisitor.hpp` | text so far, classical registers, bit of every qubit | one `visit` per gate, `getNativeAssembly` | called by both accelerators for every instruction of a kernel |
| OpenPulse visitor | `utils/OpenPulseVisitor.hpp` | JSON so far | one `visit` per pulse | called by `ibm` for analog kernels |
| OpenQASM parser | `compiler/generated/OQASM2Parser.cpp` | tokens left, calls of rule functions, the tree | one function per rule of the grammar | the lexer, `OQASMErrorListener` |
| OpenQASM compiler | `compiler/OQASMCompiler.cpp`, `compiler/OQASMToXACCListener.cpp` | the IR, the function being built, functions by name | `compile`, `translate`, callbacks of a walk | the parser, the IR provider, the OpenQasm visitor |
| Activators, Python module | | none | registration | |

How they interact: a caller compiles kernels to IR (compiler), transforms them
for a coupling map (transformation) and calls `Accelerator::execute`, which
for a remote accelerator is `processInput`, an HTTP post, and
`processResponse`. The two halves communicate through members of the
accelerator: `processInput` fills `measurementSupports`, `kernelNames` and
`chosenBackend`, `processResponse` reads them. The visitor, called from the
first half, decides the order of the classical registers and so the order of
the reported bits that the second half has to undo.

What is hard here is not parallelism inside the client, which has one thread.
It is that members outlive a call; that the two halves have to agree on the
order of bits; that the service moves between any two requests; that errors end
the process in the middle of a call; and that two loops wait without a bound.

What makes each part correct:

* `ibm`: results are decoded with the qubits, names and backend of their own
  job; strings obey the bit order the comments promise; a call is answered once
  or the process ends; a call ends.
* `local-ibm`: the same for its batches, also after a call that failed.
* transformation: of a kernel whose CNOTs are on coupled pairs, every CNOT it emits
  is available on the device, and nothing else of the kernel changes, in the order
  of the program.
* visitor: both texts perform the kernel's gates; a conditional tests the register
  its qubit was measured into.
* compiler: every gate of the source is one instruction of the right kernel,
  in order; the IR has every kernel once; a text with a syntax error makes none;
  every compilation ends.
* setup: the key and the network it is for come from one source; the catalogue is the
  device list, whole or not at all; connectivity is that of the device asked about,
  error rates those of the device chosen.

## Plan

1. `ResultDecoding`, `ResultDecodingProofs`: counts to strings. **Done.**
2. `IBMAccelerator`, `MCIBMAccelerator`, `IBMAcceleratorProofs`: the session of
   one process with the service beside it. Composes 1. **Done.**
3. `ExecutionContract`: the abstract specification of `execute`; refined by 2,
   checked and proved. **Done.**
4. `LocalIBMAccelerator`, `LocalIBMAcceleratorProofs`: both `execute`s and the
   exceptions that leave them. Composes 1. **Done.**
5. `OpenQasmVisitor`, `OpenQasmVisitorProofs`: the visits as actions; measured
   qubit to register to tested bit. **Done**, alone; still to be composed with 1,
   to derive the order of reported bits that 1 takes from the service.
6. `IBMIRTransformation`, `IBMIRTransformationProofs`: `transform` instruction by
   instruction over shared instructions. **Done.** `FlattenLemmas` has what the
   proofs of 5 and 6 need of `FlattenSeq`.
7. `OQASMToXACCListener`, `ParseTree`, `OQASM2Parser`, `OQASMCompiler` (which composes
   them), `OQASMCompilerProofs`: from tokens to IR; the compiler refines the
   listener, checked and proved. **Done.**
8. `ApiKeySearch`, `BackendCatalog` (which extends it), `BackendCatalogProofs`,
   `MCBackendCatalog`: `initialize` request by request; `BackendSession`: shown to
   be one step of 2, proved in `BackendCatalogProofs`. **Done.**
9. `OpenPulseVisitor` beside 5, and `translate`, which drives 5's visitor. **Done.**

Still worth doing: 5 composed with 1; the IR of 7 as the input of 6.

## ResultDecoding

Pure operators. A bit string is a function indexed from the right, as the
code's own `counter` is, so "character q from the right is qubit q" is
`bits[q]`. `ReportByRegister` and `ReportByQubit` say what the service returns
for an outcome of the circuit: one bit per classical register on a simulator
(the visitor declares one register per measurement, in program order), one bit
per qubit on a device. `DecodeSimulator` and `DecodeDevice` are the two
branches of the loop over `counts`; `Sorted` is `std::sort`; `Scatter` is the
loop that places bits, a later write winning when a qubit is measured twice.
`Spaced` is the simulator's report as it comes, with a `Blank` between two
registers, which the code erases if it takes the backend for a simulator.
`Expected` is the string the comments promise.

## IBMAccelerator

One process and the service. The members of the class are variables with the
same names. `pc` says where `execute` stands: `idle`, `checkOnline` (the loop
at the end of `processInput`), `post`, `poll` (the loop in `processResponse`)
and `exited` (after `xacc::error`, which ends the process). `call` holds what
is local to the call: its functions, and the backend written in the payload.
`results` collects what every finished call gave its caller, on the given buffer
(`onBuffer`) or on new buffers (`returned`), and the `device` whose gate set, errors
and times were added to the caller's buffer.

| Action | Code |
|---|---|
| `SetOption` | `xacc::setOption` and `xacc::unsetOption` between two calls |
| `Initialize`, `InitializeRejected` | `initialize()` |
| `ProcessInput`, `ProcessInputRejected` | `processInput()` up to the online check, and each of its errors |
| `CheckOnline` | the last pass of the online loop |
| `PostJob`, `PostRejected` | the post and the first lines of `processResponse()` |
| `JobCompleted`, `JobFailed` | the passes of the polling loop that leave it, with all that follows |
| `RequestFailed` | any HTTP request that gives up |
| `DeviceStatusChange`, `RunJob`, `EndJob` | the service (external) |

The size of an action is the code between two requests: the client has one
thread, so only the service and errors come between. Passes of the two waiting
loops that find nothing change no state and are left out; the loops'
termination is a liveness property. A `Function` is reduced to what
`processInput` reads: name, whether it is analog, the qubits of its enabled
`Measure`s in iteration order, and whether its visitor rejects an instruction.
A job yields one outcome per circuit; counts over many shots are several such
outcomes decoded one by one by the same code. Buffer sizes above the device's
are left out (`SizesAssumption`).

The option may be set, changed and removed between calls. Removing it matters:
the payload then names the default simulator, while `chosenBackend` stays the
device chosen before, by which `processResponse` goes. A device's job is not
touched by that, since a job runs on a device only if this very call chose it
(`ExtraInfoOfJob`: whatever happened before, its errors and times are that
device's). A simulator's job is: its blanks stay, its bits are trimmed and masked
as if they stood by qubit, and the device's data come with its result (run
`stale_backend`). The decoding properties therefore leave out simulator results
that were taken for a device's (`TakenForDevice`), and only those.

`ExecutionContract` is what the caller may rely on: calls one at a time, each
answered once, in order, with one string per function, or the process ends.

### Fairness

`EveryCallEnds` assumes weak fairness of the client's own next step, which its
single thread justifies, and of the end of an accepted job, which is the
service's promise. It does not assume that a device stays on, that a request
fails or that a caller calls. What is left are two premises
stated in `ServiceBehaves`: devices come on for good, and no job ends in a status
the client does not know. Without either the code loops forever: neither loop
has a bound.

## LocalIBMAccelerator

The client is sequential here too, but calls can be left in the middle and the
process lives on: `json::parse` throws for a kernel that wrote no operation
(`ParseThrows`), `std::stoi` and `std::stod` for malformed options
(`OptionThrows`), while `xacc::error` ends the process (`RejectKernel`,
`SimulatorFails`). `Execute`, `BuildCircuit` (one pass of the loop over
functions), `ReadOptions` and `Answer` (simulation, decoding, return; with the
copy to the caller's buffer in the `execute` of one function) are the normal
path. `measurementSupports` survives an exception, so the history variable
`clean` says whether the last call that did not return was left by one;
`SupportsOfThisCall` and `AnswersFaithful` hold while it is true, and a call that
returns makes it true. A call in between is answered from merged lists.

## OpenQasmVisitor

`visitor` holds the visitor's members, `supports` the list the accelerator keeps
beside it; `Skip`, `Reject` and `Visit` are the three ways a turn of the loop in
`processInput` (and in the local `execute`) may go. Text is a sequence of tokens,
and the token `if` has no end of its own, as in OpenQASM: it guards what comes
next, which is what makes a conditional `Swap` go wrong. `Meaning` and `Intended`
say what a kernel means without a visitor; `Performed` reads the text.
`RegistersFollowSupports` is what the two accelerators rely on when they match
reported bits with qubits by position, and the reason for
`ResultDecoding!ReportByRegister`.

Both texts are written by hand in every visit, so they are two tables here,
`NativeGates` and `OperationGates`, each transcribed from its own string, and two
appends in every operator that visits. `TextsAgree` compares what they come to. A
kernel's meaning is a third matter: `EulerAngles` has the rotation every gate is, and
`Effect` the rotation a statement performs by `qelib1.inc`. For Y the two differ: its
visit writes u3(pi, pi/2, pi) where Y is u3(pi, pi/2, pi/2), so `Translatable` leaves
it out, as it does CPhase, whose visit is empty. A conditional's body holds no
further conditional.

`TextIsEquivalent` is what the class promises of every kernel it does not reject, but
for conditionals that measure or test a qubit never measured; run
`visitor_equivalence` shows a qubit measured twice, whose conditional tests the first
result. It would fail of Y, CPhase and a conditional Swap as well.

`OQASMCompiler::translate` drives the same visitor and writes a `qreg` before its
text. `maxBit` is the size it counts, over enabled instructions. `TranslatedFits`
says that no statement of the text is out of that register; kernels whose
conditional bodies reach further than their enabled instructions are left out
(`BodiesWithin`), since a body is disabled when it is counted.

## OpenPulseVisitor

The loop of `processInput` over an analog kernel. No visit of this visitor adds to
its text: they end the process (`NotAnalog`) or do nothing. What is left of an
analog kernel is what the accelerator notes beside it, an entry of `supports` for
each `Measure`, and `SupportsAreMeasures` says that neither visitor lets an entry
pass that the text does not measure. Pulses are one class: their visits are empty.

## IBMIRTransformation

Instructions are shared pointers, so the model has a heap (`instructions`), and
functions have bodies of pointers. That matters because the compiler inserts a
called kernel itself, not a copy: replacing a CNOT in a kernel changes its
callers, and a caller's iterator walks the callee's gates. `transform`,
`TakeKernel`, `AddKernel` and `Return` are the outer loop; `PassOver`, `Keep`,
`ReverseCNOT` and `ReverseOutside` the turns of the inner one, with `HandOut` the
framework's pre-order iterator. `ReverseOutside`, an index past the end of the
kernel, ends the model: what the framework does then is its own affair.

`TransformedMeansGiven` compares the gates every kernel performs after one and
after two transformations with the compiled ones, each CNOT turned round where
the device has it the other way only. It is stated for `Rewritable` programs: in
the others the index is off (run `transformation_index`) or the device cannot
do the CNOT at all.

`Program` says what the compiler makes: kernels are completed one after the other,
so their places increase, and every callback creates an instruction and adds it to
one body, once; only a kernel is added again, by a call (`Unshared`). A kernel that
calls itself, which the compiler lets through, is left out: it performs nothing
finite.

## OQASM2Parser, ParseTree, OQASMToXACCListener, OQASMCompiler

`OQASM2Parser` is the generated parser. Its functions, one per rule, have one
shape, so a rule is data: the sequence of its alternatives, under the rule's name
and over the token types of the vocabulary. One machine runs them on a stack of
calls: `match`, `branch` (a loop or an option inside a function), `enterRule`,
`exitRule`, `syntaxError`. A function decides on one token, as its switch does, or
leaves the choice to `adaptivePredict` (`Adaptive`), which is `Viable` with
`Lookahead` tokens instead of as many as it takes. Precedence of operators is left
out: it decides how contexts of `exp` nest, and the compiler reads their text only.
`OQASMErrorListener` ends the process at the first error, so recovery is left out.
`stream` is the `CommonTokenStream` as it was filled; the rest of it is `input`.

`ParseTree` has the contexts and what the callbacks read of them. A context is made
when its rule's function returns and never changes after, so it is given its text
(`getText`) and the callbacks of a walk below it (`ParseTreeWalker::walk`) at once,
from those of its children: no operator descends the tree, and neither does a proof.

`OQASMToXACCListener` is one action per callback it overrides; functions are places
in `kernels`, since the map, `curFunc` and calls share them. `Left` is how a
callback may leave `compile`: `xacc::error` (`exited`), a null child or a vector too
short (`crashed`), an exception of `std::stoi` (`thrown`). The framework's registry
of gates and exprtk are constants. By itself the module takes any well-nested
sequence of callbacks; `OQASMCompiler` gives it those of the tree parsed, and
`ListenerSpec` as a property of the run says that the tree never gives others.
`SourcesAssumption` is what the lexer gives: tokens of its vocabulary, names for `ID`
and numerals for `INT`. `EOL`, of a line ended by two characters, is one of them that
no rule takes: such a source does not compile.

`MCOQASMCompiler` builds sources out of statements, each with its tokens and with
what it means, so `CompiledMeansSource` compares what the compiler makes of the
tokens with a meaning it does not compute. Statements exist for every alternative
of the grammar that compiles, for gates refused by registry, parameter count, index
or angle, for texts with an error, and for a character the lexer drops.

`KernelsOfWholeSource` looks at the way there: a kernel, or IR, is made only of a tree
that holds every token of the stream in its place. The one thing that may be left
unread is what follows the last kernel and does not begin another, since `xaccsrc`
asks for no end of input.

`CompileEnds` assumes weak fairness of `Next`: `compile` is one call on one thread
that waits for nothing. It is about the loops of the parser and of the walk, not
about scheduling.

## ApiKeySearch, BackendCatalog

`stage` says where `initialize` stands: `search`, `read` (the loop over lines of
`findApiKeyInFile`), `check`, then a stage per request (`login`, `list`,
`calibration`, `parameters`) and `device`, the loop between them; `ready` after it,
or how it ended.

| Action | Code |
|---|---|
| `SearchWithoutHome`, `SearchFile`, `SearchOptions` | `searchAPIKey()`: `$HOME/.ibm_config`, `$IBM_CONFIG`, the options |
| `ReadLine`, `ReadBeyond`, `EndOfFile` | a turn of `findApiKeyInFile`; a line with too few pieces; the end |
| `KeyFound`, `KeyEmpty` | the test of the key after it |
| `Login`, `ListDevices`, `RequestFailed` | the two posts and gets, and any that gives up |
| `TakeDevice`, `Calibrate`, `TakeParameters` | the loop over devices, with the two requests for those of a network |
| `FinishInitialize` | the look at `ibm-backend` after the loop |
| `SetOption`, `QueryRefused` | between calls: the option, a query that ends the process |

Of a line the model keeps which words occur anywhere in it and its pieces between
colons: all that `findApiKeyInFile` looks at. A read beyond the vector of pieces
crashes or yields `Garbage`; an uninitialized `nQubits` is any of `QubitCounts`.
Queries that change nothing (`getAcceleratorConnectivity`, the error rates) are
operators; `isPhysical` reads one member of an entry and is left out.
`getIRTransformations` clears what it pushes back, so it answers none, ever: the
transformation of this repository is not asked for by it.

`CatalogOfListing`, `ConnectivityOfDevice` and `CredentialsOfOneSource` are as their
comments say. `RatesOfDevice` says of the error rates what `ConnectivityOfDevice` says
of the connectivity: they are those the service gave for the first entry of the name
chosen, however the option is set, changed or removed since. The two queries go by
different members, `chosenBackend` and the option, and may so speak of two devices at
once; nothing in the repository says that they do not. No call is executed in this
module: that `processInput` (:315) chooses again is in `IBMAccelerator`.

`BackendSession` has the view of a session (`Through`, `SnapshotTaken`, `NameChosen`,
`Message`) and the refinement `ImplementsInitialize`: request by request,
`initialize` is the `Initialize`, `InitializeRejected` or `RequestFailed` of
`IBMAccelerator`, in one step, and no half of a catalogue is ever visible. The
session is mapped with one kernel and no outcomes, since no call is made here, and
its backends are constants: `SessionInit` takes the lists of those names, whose
first entry of a name says whether it is a simulator.

The option text at `IBMAccelerator.hpp:145` promises that `ibm-api-url` overrides
`$HOME/.ibm_config`. The code does not look at it when there is a file: run
`url_override`. `CredentialsOfOneSource` speaks of key, hub, group and project, so it
holds whether the promise is kept or not.

## Runs

| Run | Question | Bounds |
|---|---|---|
| `session` | does the state of one call reach another's answer? are strings the measured qubits? is a refused call never half executed, and does every call end? | two calls of batches of up to two; three-qubit buffer; the simulator and one four-qubit device; a misspelt backend; option set, changed, removed. Kernels: seven ways to measure (none, one, two, all, out of order, twice), a pulse, a rejected one; two outcomes that tell the four qubits apart |
| `local` | which calls are spoilt by an exception? | three calls (one left, one spoilt, one right again) of up to two of five kernels on three qubits |
| `visitor` | does the text perform the kernel, are registers in order, and do they and `translate`'s register fit what is measured, by either visitor? do both texts agree? | four turns over twenty-three instructions, one for every way through the visits; analog kernels likewise |
| `transformation` | do transformed kernels perform the same gates? | two kernels of up to two and three instructions, with and without a call, on three qubits with two couplers, transformed twice |
| `compiler` | does every source make what it means, or end as it must? | one kernel of up to two of all statements; three kernels, two of a name, of one of four statements each; stray tokens between kernels; lookahead of 16 tokens |
| `setup` | do credentials, catalogue, connectivity and rates agree with the sources and the list? | every file of up to three of nine lines with one list, every list of devices with two environments: members missing, a name twice, a device off |
| `buffer_ids`, `stale_backend`, `visitor_equivalence`, `transformation_index`, `compiler_guarded`, `url_override` | does the code keep what its comments say? TLC shows that it does not | as above, or smaller |

Two calls are enough for what `session` asks, since the only state carried from
call to call is `measurementSupports`, `kernelNames`, `chosenBackend` and the
snapshot, and the hazards are between a call and the next one; `local` needs a
third to see that the damage does not last. The theorems below remove these
bounds. `Bounds` of `MCIBMAccelerator` keeps the product small: of the kernels, those but
two, and of the outcomes, all but one, are run in the last call only and with both
backends on, since what a call leaves behind for the next does not depend on
them but through its qubits and names, in which the two differ. With one device,
`ExtraInfoOfJob` tells a device's data from none; that they are of the right one among
several is what its theorem adds. Three buffer qubits are the fewest on which "ascending", "a proper subset"
and "out of order" differ, and the device is one wider so that trimming
happens. Four turns of the visitor hold two measurements, a conditional and
something after it; two kernels are the fewest with a call, and the third
instruction shows what a wrong index did to those behind it. Two statements of the
compiler put every statement before and after every other; three kernels are the
fewest with a name defined twice and a call after it. Sixteen tokens are more than
two statements that `adaptivePredict` could confuse have in common. Three lines are
the fewest with a setting given twice and a line between. The gates lists of
devices differ in every rate, so that a rate with the wrong device shows.

Deadlock checking is off where the process or the compilation may end, a kernel is
at its bound or the option may be the only thing left to change.

What the runs found:

* `buffer_ids`: `kernelNames` is never cleared.
* `stale_backend`: after the option is removed, a batch runs on the simulator and is
  decoded as the results of the device chosen before.
* `visitor_equivalence`: a conditional after a second measurement of its qubit tests
  the first.
* `url_override`: a URL given as an option is ignored beside a configuration file.
* `transformation_index`: after a call or a disabled instruction the
  transformation replaces the wrong instruction.
* `compiler_guarded`: a gate under an `if`, or in the body of a gate's declaration,
  is performed unconditionally, where it stands.

More limits show as preconditions of properties that hold. `std::sort` breaks the match
of bits and qubits unless a kernel measures in ascending order
(`BatchResultsFaithful`); a lone circuit's string is neither placed nor masked, so on a
simulator it is right only if qubits are measured from 0 on, in order, and on a device
only at the measured qubits (`SingleResultFaithful`); of a conditional `Swap` only
the first CNOT is conditional, a `Y` is another rotation, and a `CPhase` is nothing
(`TextMeansKernel`); a calling kernel is rewritten right only where the index is, and
where every pair is coupled some way (`TransformedMeansGiven`).

## Proofs

`ResultDecodingProofs` proves of buffers and devices of every size that
scattering an ascending report, and masking a device report, give `Expected`.
The crux is `ScatterAscending`: in an ascending list the rank of an entry is
its index, so `Sorted` is the identity and every place has at most one writer;
an ascending list as long as the buffer is the whole buffer (`AscendingFull`,
by a least-element argument), which covers the branch that does not scatter.

`IBMAcceleratorProofs` proves, for every catalogue of backends, kernel set, size
and bound (assumptions of `IBMAccelerator`: the default backend is a simulator,
sizes are natural numbers with the buffer no wider than the device):

* `TypeCorrect`, from `TypeInv`: the type invariant with `BackendInv`, that a pending
  call on a device is one that chose it. The option cannot be removed while a call
  is pending, and a call that finds it removed runs on the default, a simulator.
* `SupportsOfOneCall`, `AnsweredOnce`, `BatchesFaithful`, `SinglesFaithful`,
  `ExtraInfoRight`, from `Inv`: the results are right only because the supports are
  those of the call and the chosen backend, if the job ran on a device, is that device
  (`ChosenForJob`), and stay so because a finished job is never changed; hence the
  conjunction. A simulator's result is decoded right unless the result itself tells
  that a device was left chosen.
* `LabelsRight`, from `LabelInv`: ids come from a prefix of `kernelNames` that
  holds the first job's names and never changes.
* `Implements`: every step is a step of `ExecutionContract` or a stutter.

`LocalIBMAcceleratorProofs` proves the three properties of run `local` from
`LocalInv`: it adds to them that every circuit built was announced with at least
the registers it writes (`CircuitsMatch`), and with exactly those in a clean
call, so that `SimulatorDecodingFaithful` applies to what the simulator reports.
The case that needs it is `BuildCircuit`, where an entry of an earlier call may
be in the way (`NotedFacts`).

`OpenQasmVisitorProofs` proves, for any gates, instructions and length of
kernel (qubits are natural numbers), of the loop over a digital kernel (`Spec`) and
over an analog one (`WalkSpec`). The invariant is a conjunction:

* `VisitorInv` (`VisitorTypeCorrect`, `RegistersInOrder`): the register counter is
  the length of `supports`. Every visit but `Measure` extends each text by
  statements without measurements (`ElementaryExtends`, `ConditionalVisit`), which
  keep the order (`OrderKept`); a `Measure` appends the register that is the place
  of its qubit (`OrderExtended`).
* `IndexInv`: the register the visitor remembers for a qubit is that of the first
  measurement of the qubit, which is what a conditional may test.
* `TextInv` (`TextPerformsKernel`): what the text so far performs is what the kernel
  so far means. It needs `IndexInv` for the register of a conditional, and that a
  text that does not end in an open `if` performs what its two parts perform.
* `AgreeInv` (`BothTextsAgree`): without declarations both texts are the same. The two
  tables are compared entry by entry (`Tables`), the other visits one by one.
* `FitsInv` (`TranslationFits`): every token of the text is on a qubit of an
  instruction visited, enabled or in a conditional's body.
* `CountInv` (`SupportsCountMeasures`): as many entries as measurements.

Three of them speak of `FlattenSeq`, a recursive function of the community modules.
What `FlattenLemmas` proves of it needs no induction over an operator: a set of
numbers at which it went wrong would have a least one (`LeastOfNaturals`), and there
it is right. `MapFlat`, a function applied to every entry and the results joined,
distributes over concatenation (`MapFlatConcat`) and composes (`MapFlatCompose`).

`OQASMCompilerProofs` proves, for any names, registry and well-nested callbacks, not
only those of a tree, `ListenerTypeCorrect`, `ListenerCallsGoBack` and
`ListenerIRInOrder`. The invariant (`ListenerInv`) says what a walk in the middle of a
kernel relies on: the open kernel is the last made, those before it are in the IR, and
the map knows the first of each name.

Then it proves that the compiler is such a listener, `CompilerImplementsListener`, for
every source and every `Lookahead`, so that the three hold of `compile` as well
(`CompilerTypeCorrect`, `CompilerCallsGoBack`, `CompilerIRInOrder`). The stack of calls
is what has to be understood, and `StackOK` is its invariant:

* Of each call, what its rule has called, is in and is still to do make a sequence
  of symbols, its form. A call keeps its form, except that a decision puts one of its
  outcomes in the place of a symbol (`FormBranch`). `FormOK` says of a form: what the
  callbacks ask for is in it (`Complete`), no rule but `xaccsrc` has a kernel in it,
  and that of `measure` keeps the shape of a measurement. For each rule this is read
  off the grammar, one lemma a rule (`Fine` and `Sound`).
* The contexts made so far are `Good`: what the callbacks read of them has its kind,
  and the walk below is one of a kernel, of kernels, or of neither (`WalkOK`). A call
  that returns has only contexts left in its form, so its own is good too
  (`ContextGood`), and that of `xaccsrc` has a well-nested walk.
* `exitMeasure` needs two contexts of `gatearg`, and the grammar has another place for
  what it reads: a `qbit` may be a `qregister`, with the same texts. The argument is
  about prediction: tokens that begin as `qregister` does begin as `gatearg` does
  (`GateargImplied`), and `gatearg` is the first alternative, so `adaptivePredict`
  never takes the other (`GateargTaken`). `Viable` is a function defined by recursion
  on a grammar with loops; that there is one is proved as the greatest fixed point of
  its equation (`Predicted`), after which `ViableIs` unfolds it.

`CompilerReadsWholeSource` needs a second invariant beside it, `SourceInv`. While the
parser runs, the texts in the contexts of the calls (`YieldOf`, from the outermost in)
and then the input are the stream, and `xaccsrc` is in its loop or past it where no
kernel begins (`Reading`); once it returned, the tree has taken their place
(`WholeTree`). `match` moves one text over (`MatchReads`); a return hands the texts of
one call to its caller (`ExitReads`), which is associativity. That the loop ends only
there is prediction by one token: `'__qpu__'` makes its first outcome viable
(`KernelBegins`), and the first viable one is taken (`LoopTaken`).

`IBMIRTransformationProofs` proves, for every coupling map, set of programs and
number of transformations:

* `TransformTypeCorrect`, from `TypeInv`, which adds to `TypeOK` that the kernels
  still to come are functions. The case that matters is a CNOT turned round: it is
  one update of two cells and an extension of the heap at once (`HeapReversed`), and
  the body rewritten still leads into the heap (`ReplacedFacts`).
* `FlatCnotIsAtIndex`, the other side of the run `transformation_index`: if the
  bodies of the programs are enabled gates alone and share no CNOT (`Flat`), then
  the comment at `IBMIRTransformation.cpp:65` is right. `FlatInv` says that what the
  iterator has still to give is the rest of the body from the index on (`Walked`).
  Sharing must be excluded because a CNOT turned round in one kernel is disabled in
  every other, whose index it then puts off; `Origins` traces every pointer of the
  new heap to the old one, so that no CNOT comes to be shared.
* `TransformKeepsMeaning`, that is `TransformedMeansGiven`, from `MeansInv`. There is
  a set D of functions dealt with: each is `Done`, with nothing left to turn round,
  callees in D only, and a body that performs on the device what the compiled one
  means. Functions out of D are still `AsCompiled`. The kernel at hand is half done
  (`Half`): its compiled body is one part already performed by the current body up
  to the index, and the rest, which is what the iterator has still to give. This
  holds as long as nothing was passed over; after that nothing in the rest has to
  be turned round, and the index no longer matters. Callees precede callers
  (`CalleesBefore`), so a walk that enters a callee finds it done. The CNOT turned
  round is in no other body (`OnlyPlace`, from `Unshared`), so no other function
  changes. Once all are done, `Performed` is what it should be because its recursion
  has one solution on a heap whose calls lead back (`OneSolution`, again by a least
  counterexample), and `AllDone` exhibits one.

`BackendCatalogProofs` proves for every environment, file, option and list of
devices, from the assumptions of `ApiKeySearch` and `BackendCatalog`:

* `SetupTypeCorrect`, inductive by itself: `TypeOK` includes that a backend is kept
  under its own name and that the loop stands at the device whose backend it fills.
* `SetupCredentialsOfOneSource`, from `SourceInv`: the lines to come are the
  source's, and until one is read nothing is stored.
* `SetupCatalogOfListing`, from `CatalogInv`: after k turns of the loop the catalogue
  has the names of the first k entries, each filled in from the first entry of its
  name (`Held`), and the devices to come are the rest of the list (`ToCome`);
  between the requests about one device, its backend has what was answered so far.
  `HeldNext` is the turn of the loop, `EntryFound` that a name has one first entry.
* `SetupConnectivityOfDevice`, from `CatalogInv` and `ChosenInv`: until `initialize` is
  through no backend is chosen, and after it neither the catalogue nor the choice
  changes.
* `SetupRatesOfDevice`, from `RatesInv` beside them: once initialized, the backend chosen
  is one never assigned or an entry of the catalogue, whose rates are its device's.
* `SetupSettingsFromOwnLines`, from `OwnLinesInv`: after k lines each setting is what
  the last of them that names it says (`SaidSoFar`), and the lines to come are the
  others (`Left`); a line read before its setting is known keeps it so.

`BackendCatalogProofs` also proves `SetupImplementsInitialize`: for every environment and
list of devices every step of `initialize` is a step of the session's specification
or a stutter, from `SessionInv`: the catalogue is that of the listing and the
session's names are the listing's (assumption `SessionAssumption`: the default
backend is a simulator, no device has the empty name). All requests but the last
leave the view alone (`NothingTaken`); the last shows the whole catalogue at once.

Only model-checked: liveness (`EveryCallEnds`, `CompileEnds`), which is out of the
prover's reach; `CompiledMeansSource` and `InvalidMakesNothing`, which compare the
compiler with the meanings the statements of `MCOQASMCompiler` are labelled with, and
so speak of that run's sources; and the negative results.

## Not modelled

* The lexer's tables: a source is a sequence of tokens, those the lexer skips or
  drops among them. Precedence of operators and error recovery of the parser, for
  the reasons above.
* Wording of payloads and of the pulse JSON (which is the same for every analog kernel,
  and malformed: `OpenPulseVisitor.hpp:154` drops its opening bracket), logging, shots,
  the text of the extra information on buffers; the network paths built from hub, group and project.
* The HTTP client: a request is answered or gives up.
* Plugin activators and the Python module register services with the framework and
  keep no state; `IBMResultsProcessor` is an empty interface; build files, tests and
  examples have no behaviour of this project's own.
