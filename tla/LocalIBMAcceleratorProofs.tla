---------------------- MODULE LocalIBMAcceleratorProofs ---------------------
(***************************************************************************)
(* The supports and answers of LocalIBMAccelerator are right for any set   *)
(* of kernels, size of buffer and number of calls.                         *)
(***************************************************************************)
EXTENDS LocalIBMAccelerator, ResultDecodingProofs

Places == 0..(BufferSize - 1)
Circuits == [registers: Seq(Places), clbits: Nat]

(* The invariant.  results is only known to be a sequence.                 *)
CircuitsMatch ==
  \A k \in DOMAIN circuits :
    /\ circuits[k].registers = functions[k].measures
    /\ circuits[k].clbits >= Len(circuits[k].registers)
    /\ clean /\ pc # "idle" => circuits[k].clbits = Len(circuits[k].registers)

TypeInv ==
  /\ measurementSupports \in Seq(Seq(Places))
  /\ pc \in {"idle", "build", "simulate", "exited"}
  /\ functions \in {<<>>} \union Batches
  /\ circuits \in Seq(Circuits)
  /\ Len(circuits) =< Len(functions)
  /\ pc # "idle" => Len(circuits) =< Len(measurementSupports)
  /\ pc = "simulate" => Len(circuits) = Len(functions)
  /\ calls \in 0..MaxCalls
  /\ \E S : results \in Seq(S)
  /\ Len(results) =< calls
  /\ pc \in {"build", "simulate"} => Len(results) < calls
  /\ clean \in BOOLEAN
  /\ CircuitsMatch

LocalInv == TypeInv /\ SupportsOfThisCall /\ AnswersFaithful

-----------------------------------------------------------------------------
LEMMA BatchFacts ==
  ASSUME NEW batch \in {<<>>} \union Batches
  PROVE  /\ DOMAIN batch = 1..Len(batch) /\ Len(batch) \in Nat
         /\ \A k \in DOMAIN batch : batch[k] \in Kernels /\ batch[k].measures \in Seq(Places)
<1>1. \A f \in Kernels : f.measures \in Seq(Places)
  BY LocalAssumption DEF Kernel, Places
<1>2. CASE batch = <<>>
  BY <1>2
<1>3. CASE batch \in Batches
  <2>1. PICK n \in 1..MaxBatch : batch \in [1..n -> Kernels]
    BY <1>3 DEF Batches
  <2>2. batch \in Seq(Kernels) /\ Len(batch) = n
    BY <2>1
  <2> QED
    BY <1>1, <2>1, <2>2
<1> QED
  BY <1>2, <1>3

(* An entry that is there grows, else the entry is a new one.              *)
LEMMA NotedFacts ==
  ASSUME NEW measures \in Seq(Places), measurementSupports \in Seq(Seq(Places)),
         circuits \in Seq(Circuits), Len(circuits) =< Len(measurementSupports)
  PROVE  /\ Noted(measures) \in Seq(Seq(Places))
         /\ Len(circuits) + 1 =< Len(Noted(measures))
         /\ Len(Noted(measures)[Len(circuits) + 1]) >= Len(measures)
         /\ Len(measurementSupports) = Len(circuits) =>
              Noted(measures) = Append(measurementSupports, measures)
<1> DEFINE c == Len(circuits) + 1
           s == measurementSupports
<1>1. c \in Nat /\ c > 0 /\ c =< Len(s) + 1 /\ Len(s) \in Nat
  OBVIOUS
<1>2. Noted(measures) = IF c \in DOMAIN s THEN ReplaceAt(s, c, s[c] \o measures)
                                          ELSE Append(s, measures)
  BY DEF Noted, kernelCounter
<1> HIDE DEF c
<1>3. CASE c \in DOMAIN s
  <2> DEFINE more == s[c] \o measures
  <2>1. s[c] \in Seq(Places)
    BY <1>3
  <2>2. more \in Seq(Places) /\ Len(more) = Len(s[c]) + Len(measures) /\ Len(s[c]) \in Nat
    BY <2>1
  <2>3. Noted(measures) = [s EXCEPT ![c] = more]
    BY <1>2, <1>3 DEF ReplaceAt
  <2> HIDE DEF more
  <2>4. Noted(measures) \in Seq(Seq(Places)) /\ Len(Noted(measures)) = Len(s)
        /\ Noted(measures)[c] = more
    BY <1>3, <2>2, <2>3
  <2> QED
    BY <1>1, <1>3, <2>2, <2>4 DEF c
<1>4. CASE c \notin DOMAIN s
  <2>1. c = Len(s) + 1
    BY <1>1, <1>4
  <2> QED
    BY <1>1, <1>2, <1>4, <2>1 DEF c
<1> QED
  BY <1>3, <1>4

LEMMA LocalTypeOK == TypeInv => TypeOK
BY BatchFacts DEF TypeInv, TypeOK, CircuitsMatch, Places, Circuits

LEMMA LocalInit == Init => LocalInv
<1> SUFFICES ASSUME Init
             PROVE  LocalInv
  OBVIOUS
<1>1. /\ measurementSupports = <<>> /\ pc = "idle" /\ functions = <<>> /\ circuits = <<>>
      /\ calls = 0 /\ results = <<>> /\ clean = TRUE
  BY DEF Init
<1>2. CircuitsMatch /\ SupportsOfThisCall /\ AnswersFaithful
  BY <1>1 DEF CircuitsMatch, SupportsOfThisCall, AnswersFaithful
<1>3. results \in Seq({}) /\ Len(results) = 0
  BY <1>1
<1>4. 0 \in 0..MaxCalls
  BY LocalAssumption
<1>5. TypeInv
  BY <1>1, <1>2, <1>3, <1>4 DEF TypeInv
<1> QED
  BY <1>2, <1>5 DEF LocalInv

-----------------------------------------------------------------------------
LEMMA ExecuteStep ==
  ASSUME LocalInv, NEW batch \in Batches, Execute(batch)
  PROVE  LocalInv'
<1> USE DEF LocalInv, Execute
<1>1. circuits' = <<>> /\ circuits' \in Seq(Circuits) /\ Len(circuits') = 0
  OBVIOUS
<1>2. Len(functions') \in Nat /\ Len(measurementSupports') \in Nat
  BY BatchFacts DEF TypeInv
<1>3. CircuitsMatch'
  BY <1>1 DEF CircuitsMatch
<1>4. AnswersFaithful'
  BY DEF AnswersFaithful
<1>5. SupportsOfThisCall'
  <2>1. clean' => measurementSupports' = <<>>
    BY DEF SupportsOfThisCall
  <2>2. [k \in DOMAIN circuits' |-> functions'[k].measures] = <<>>
    BY <1>1
  <2> QED
    BY <2>1, <2>2 DEF SupportsOfThisCall
<1>6. calls' \in 0..MaxCalls /\ Len(results') < calls' /\ Len(results') =< calls'
  <2>1. PICK S : results \in Seq(S)
    BY DEF TypeInv
  <2> QED
    BY <2>1, LocalAssumption DEF TypeInv
<1>7. TypeInv'
  BY <1>1, <1>2, <1>3, <1>6 DEF TypeInv
<1> QED
  BY <1>4, <1>5, <1>7

LEMMA BuildStep ==
  ASSUME LocalInv, BuildCircuit
  PROVE  LocalInv'
<1> DEFINE c == Len(circuits)
           measures == functions[c + 1].measures
           noted == Noted(measures)
           circuit == [registers |-> measures, clbits |-> Len(noted[c + 1])]
<1>1. /\ pc = "build" /\ c + 1 =< Len(functions)
      /\ measurementSupports' = noted
      /\ circuits' = Append(circuits, circuit)
      /\ UNCHANGED <<pc, functions, calls, results, clean>>
  BY DEF BuildCircuit, Building, kernelCounter, kernel
<1>2. /\ circuits \in Seq(Circuits) /\ c \in Nat /\ c =< Len(measurementSupports)
      /\ measurementSupports \in Seq(Seq(Places)) /\ Len(measurementSupports) \in Nat
      /\ functions \in {<<>>} \union Batches /\ clean \in BOOLEAN
      /\ CircuitsMatch
  BY <1>1 DEF LocalInv, TypeInv
<1>3. c + 1 \in DOMAIN functions /\ measures \in Seq(Places) /\ Len(measures) \in Nat
  BY <1>1, <1>2, BatchFacts
<1>4. /\ noted \in Seq(Seq(Places)) /\ c + 1 =< Len(noted)
      /\ Len(noted[c + 1]) >= Len(measures) /\ Len(noted[c + 1]) \in Nat
      /\ Len(measurementSupports) = c => noted = Append(measurementSupports, measures)
  <2>1. /\ noted \in Seq(Seq(Places)) /\ c + 1 =< Len(noted)
        /\ Len(noted[c + 1]) >= Len(measures)
        /\ Len(measurementSupports) = c => noted = Append(measurementSupports, measures)
    BY <1>2, <1>3, NotedFacts
  <2> HIDE DEF noted
  <2>2. noted[c + 1] \in Seq(Places)
    BY <1>2, <2>1
  <2> QED
    BY <2>1, <2>2
<1> HIDE DEF noted, measures
<1>5. circuit \in Circuits
  BY <1>3, <1>4 DEF Circuits
<1>6. clean => /\ Len(measurementSupports) = c
               /\ measurementSupports = [k \in 1..c |-> functions[k].measures]
  BY <1>1, <1>2 DEF LocalInv, SupportsOfThisCall
<1>7. clean => noted[c + 1] = measures
  <2> SUFFICES ASSUME clean
               PROVE  noted[c + 1] = measures
    OBVIOUS
  <2>1. Len(measurementSupports) = c /\ noted = Append(measurementSupports, measures)
    BY <1>4, <1>6
  <2>2. Append(measurementSupports, measures)[Len(measurementSupports) + 1] = measures
    BY <1>2, <1>3
  <2> QED
    BY <2>1, <2>2
<1>8. circuit.registers = measures /\ circuit.clbits = Len(noted[c + 1])
  OBVIOUS
<1> HIDE DEF circuit
<1>9. /\ circuits' \in Seq(Circuits) /\ Len(circuits') = c + 1 /\ DOMAIN circuits' = 1..(c + 1)
      /\ circuits'[c + 1] = circuit /\ \A k \in 1..c : circuits'[k] = circuits[k]
      /\ DOMAIN circuits = 1..c
  BY <1>1, <1>2, <1>5
<1>10. CircuitsMatch'
  <2> SUFFICES ASSUME NEW k \in 1..(c + 1)
               PROVE  /\ circuits'[k].registers = functions[k].measures
                      /\ circuits'[k].clbits >= Len(circuits'[k].registers)
                      /\ clean => circuits'[k].clbits = Len(circuits'[k].registers)
    BY <1>1, <1>9 DEF CircuitsMatch
  <2>1. CASE k = c + 1
    BY <1>4, <1>7, <1>8, <1>9, <2>1 DEF measures
  <2>2. CASE k \in 1..c
    BY <1>1, <1>2, <1>9, <2>2 DEF CircuitsMatch
  <2> QED
    BY <1>2, <2>1, <2>2
<1>11. SupportsOfThisCall'
  <2> SUFFICES ASSUME clean
               PROVE  noted = [k \in 1..(c + 1) |-> functions[k].measures]
    BY <1>1, <1>9 DEF SupportsOfThisCall
  <2>1. noted = Append(measurementSupports, measures)
    BY <1>4, <1>6
  <2>2. /\ DOMAIN noted = 1..(c + 1) /\ noted[c + 1] = measures
        /\ \A k \in 1..c : noted[k] = measurementSupports[k]
    BY <1>2, <1>3, <1>6, <2>1
  <2>3. \A k \in 1..(c + 1) : noted[k] = functions[k].measures
    <3> SUFFICES ASSUME NEW k \in 1..(c + 1)
                 PROVE  noted[k] = functions[k].measures
      OBVIOUS
    <3>1. CASE k = c + 1
      BY <2>2, <3>1 DEF measures
    <3>2. CASE k \in 1..c
      BY <1>6, <2>2, <3>2
    <3> QED
      BY <1>2, <3>1, <3>2
  <2>4. noted = [k \in DOMAIN noted |-> noted[k]]
    BY <1>4
  <2> QED
    BY <2>2, <2>3, <2>4
<1>12. AnswersFaithful'
  BY <1>1 DEF LocalInv, AnswersFaithful
<1>13. TypeInv'
  BY <1>1, <1>2, <1>4, <1>9, <1>10 DEF LocalInv, TypeInv
<1> QED
  BY <1>11, <1>12, <1>13 DEF LocalInv

(* The steps that leave the supports and circuits as they are.             *)
LEMMA QuietLocalStep ==
  ASSUME LocalInv, UNCHANGED <<measurementSupports, functions, circuits, calls, results>>,
         \/ pc = "build" /\ pc' = "simulate" /\ Len(circuits) = Len(functions) /\ UNCHANGED clean
         \/ pc' = "exited" /\ pc # "idle" /\ UNCHANGED clean
         \/ pc' = "idle" /\ clean' = FALSE
         \/ UNCHANGED <<pc, clean>>
  PROVE  LocalInv'
<1>1. CircuitsMatch'
  BY DEF LocalInv, TypeInv, CircuitsMatch
<1>2. SupportsOfThisCall'
  BY DEF LocalInv, TypeInv, SupportsOfThisCall
<1>3. AnswersFaithful'
  BY DEF LocalInv, AnswersFaithful
<1>4. TypeInv'
  BY <1>1 DEF LocalInv, TypeInv
<1> QED
  BY <1>2, <1>3, <1>4 DEF LocalInv

LEMMA ThrowStep ==
  ASSUME LocalInv, ParseThrows
  PROVE  LocalInv'
<1> DEFINE c == Len(circuits)
           measures == functions[c + 1].measures
<1>1. /\ pc = "build" /\ c + 1 =< Len(functions) /\ pc' = "idle" /\ clean' = FALSE
      /\ measurementSupports' = Noted(measures)
      /\ UNCHANGED <<functions, circuits, calls, results>>
  BY DEF ParseThrows, Building, kernelCounter, kernel
<1>2. /\ circuits \in Seq(Circuits) /\ c \in Nat /\ c =< Len(measurementSupports)
      /\ measurementSupports \in Seq(Seq(Places))
      /\ functions \in {<<>>} \union Batches
  BY <1>1 DEF LocalInv, TypeInv
<1>3. c + 1 \in DOMAIN functions /\ measures \in Seq(Places)
  BY <1>1, <1>2, BatchFacts
<1>4. measurementSupports' \in Seq(Seq(Places))
  BY <1>1, <1>2, <1>3, NotedFacts
<1>5. CircuitsMatch'
  BY <1>1 DEF LocalInv, TypeInv, CircuitsMatch
<1>6. AnswersFaithful'
  BY <1>1 DEF LocalInv, AnswersFaithful
<1>7. SupportsOfThisCall'
  BY <1>1 DEF SupportsOfThisCall
<1>8. TypeInv'
  BY <1>1, <1>4, <1>5 DEF LocalInv, TypeInv
<1> QED
  BY <1>6, <1>7, <1>8 DEF LocalInv

(* What a call that no exception preceded decodes is what its kernels      *)
(* measured.                                                               *)
LEMMA DecodedFaithfully ==
  ASSUME LocalInv, pc = "simulate", clean,
         NEW k \in DOMAIN functions, Ascending(functions[k].measures),
         NEW outcome \in Outcomes
  PROVE  Decoded(k, outcome) = Expected(outcome, functions[k].measures, BufferSize)
<1> DEFINE measures == functions[k].measures
<1>1. /\ functions \in {<<>>} \union Batches /\ circuits \in Seq(Circuits)
      /\ Len(circuits) = Len(functions) /\ CircuitsMatch
  BY DEF LocalInv, TypeInv
<1>2. k \in DOMAIN circuits /\ measures \in Seq(Places) /\ Len(measures) \in Nat
  BY <1>1, BatchFacts
<1>3. circuits[k].registers = measures /\ circuits[k].clbits = Len(measures)
  BY <1>1, <1>2 DEF CircuitsMatch
<1>4. measurementSupports[k] = measures
  BY <1>2 DEF LocalInv, SupportsOfThisCall
<1> HIDE DEF measures
<1>5. Reported(circuits[k], outcome) = ReportByRegister(outcome, measures)
  <2>1. ReportByRegister(outcome, measures) =
          [i \in 0..(Len(measures) - 1) |-> outcome[measures[i + 1]]]
    BY DEF ReportByRegister
  <2>2. Reported(circuits[k], outcome) =
          [i \in 0..(Len(measures) - 1) |->
             IF i \in DOMAIN ReportByRegister(outcome, measures)
               THEN ReportByRegister(outcome, measures)[i] ELSE 0]
    BY <1>3 DEF Reported
  <2> QED
    BY <2>1, <2>2
<1>6. BufferSize \in Nat /\ outcome \in BitStrings(BufferSize)
  <2>1. Outcomes \subseteq BitStrings(BufferSize) /\ BufferSize \in 1..30
    BY LocalAssumption, Zenon
  <2> QED
    BY <2>1
<1>7. DecodeSimulator(ReportByRegister(outcome, measures), measures, BufferSize) =
        Expected(outcome, measures, BufferSize)
  BY <1>2, <1>6, SimulatorDecodingFaithful DEF Places, measures
<1> QED
  BY <1>4, <1>5, <1>7 DEF Decoded, measures

LEMMA AnswerStep ==
  ASSUME LocalInv, NEW outcomes \in [DOMAIN functions -> Outcomes], NEW single \in BOOLEAN,
         Answer(outcomes, single)
  PROVE  LocalInv'
<1> DEFINE buffers == [k \in DOMAIN functions |-> Decoded(k, outcomes[k])]
           result == [functions |-> functions, outcomes |-> outcomes,
                      buffers |-> buffers, clean |-> clean,
                      onBuffer |-> IF single THEN buffers ELSE <<>>]
<1>1. /\ pc = "simulate" /\ results' = Append(results, result)
      /\ measurementSupports' = <<>> /\ pc' = "idle" /\ clean' = TRUE
      /\ UNCHANGED <<functions, circuits, calls>>
  BY DEF Answer, Respond
<1>2. /\ result.functions = functions /\ result.outcomes = outcomes
      /\ result.buffers = buffers /\ result.clean = clean
  OBVIOUS
<1>3. PICK S : results \in Seq(S)
  BY DEF LocalInv, TypeInv
<1>4. ASSUME clean, NEW k \in DOMAIN functions, Ascending(functions[k].measures)
      PROVE  buffers[k] = Expected(outcomes[k], functions[k].measures, BufferSize)
  <2>1. outcomes[k] \in Outcomes
    OBVIOUS
  <2> QED
    BY <1>1, <1>4, <2>1, DecodedFaithfully
<1> HIDE DEF result, buffers
<1>5. /\ DOMAIN results' = 1..(Len(results) + 1) /\ results'[Len(results) + 1] = result
      /\ DOMAIN results = 1..Len(results) /\ Len(results) \in Nat
      /\ \A i \in 1..Len(results) : results'[i] = results[i]
      /\ Len(results') = Len(results) + 1 /\ results' \in Seq(S \union {result})
  BY <1>1, <1>3
<1>6. AnswersFaithful'
  <2> SUFFICES ASSUME NEW i \in DOMAIN results', results'[i].clean,
                      NEW k \in DOMAIN results'[i].functions,
                      Ascending(results'[i].functions[k].measures)
               PROVE  results'[i].buffers[k] =
                        Expected(results'[i].outcomes[k],
                                 results'[i].functions[k].measures, BufferSize)
    BY DEF AnswersFaithful
  <2>1. CASE i = Len(results) + 1
    BY <1>2, <1>4, <1>5, <2>1
  <2>2. CASE i \in DOMAIN results
    <3>1. results'[i] = results[i]
      BY <1>5, <2>2
    <3> QED
      BY <2>2, <3>1 DEF LocalInv, AnswersFaithful
  <2> QED
    BY <1>5, <2>1, <2>2
<1>7. SupportsOfThisCall'
  BY <1>1 DEF SupportsOfThisCall
<1>8. CircuitsMatch'
  BY <1>1 DEF LocalInv, TypeInv, CircuitsMatch
<1>9. TypeInv'
  <2>1. <<>> \in Seq(Seq(Places))
    OBVIOUS
  <2>2. Len(results') =< calls'
    BY <1>1, <1>5 DEF LocalInv, TypeInv
  <2> QED
    BY <1>1, <1>5, <1>8, <2>1, <2>2 DEF LocalInv, TypeInv
<1> QED
  BY <1>6, <1>7, <1>9 DEF LocalInv

-----------------------------------------------------------------------------
LEMMA LocalStep == LocalInv /\ [Next]_vars => LocalInv'
<1> SUFFICES ASSUME LocalInv, [Next]_vars
             PROVE  LocalInv'
  OBVIOUS
<1>1. ASSUME NEW batch \in Batches, Execute(batch)
      PROVE  LocalInv'
  BY <1>1, ExecuteStep
<1>2. CASE BuildCircuit
  BY <1>2, BuildStep
<1>3. CASE ParseThrows
  BY <1>3, ThrowStep
<1>4. CASE RejectKernel
  BY <1>4, QuietLocalStep DEF RejectKernel, Building
<1>5. CASE ReadOptions
  <2>1. Len(circuits) = Len(functions)
    BY <1>5, BatchFacts DEF ReadOptions, Built, kernelCounter, LocalInv, TypeInv
  <2> QED
    BY <1>5, <2>1, QuietLocalStep DEF ReadOptions, Built
<1>6. CASE OptionThrows
  BY <1>6, QuietLocalStep DEF OptionThrows
<1>7. ASSUME NEW outcomes \in [DOMAIN functions -> Outcomes], NEW single \in BOOLEAN,
             Answer(outcomes, single)
      PROVE  LocalInv'
  BY <1>7, AnswerStep
<1>8. CASE SimulatorFails
  BY <1>8, QuietLocalStep DEF SimulatorFails
<1>9. CASE UNCHANGED vars
  BY <1>9, QuietLocalStep DEF vars
<1> QED
  BY <1>1, <1>2, <1>3, <1>4, <1>5, <1>6, <1>7, <1>8, <1>9 DEF Next

LEMMA LocalInvariant == Spec => []LocalInv
BY LocalInit, LocalStep, PTL DEF Spec

(* Every call has an entry of measurementSupports and a register count for *)
(* each circuit it has built, whatever was left by the calls before.       *)
THEOREM LocalTypeCorrect == Spec => []TypeOK
<1>1. LocalInv => TypeOK
  BY LocalTypeOK DEF LocalInv
<1> QED
  BY <1>1, LocalInvariant, PTL

(* measurementSupports holds the qubits of the call in progress alone,     *)
(* unless the call before was left by an exception.                        *)
THEOREM LocalSupportsOfOneCall == Spec => []SupportsOfThisCall
<1>1. LocalInv => SupportsOfThisCall
  BY DEF LocalInv
<1> QED
  BY <1>1, LocalInvariant, PTL

(* The bits of kernels that measure in ascending order are stored each at  *)
(* its qubit's place, by every call not preceded by an exception.          *)
THEOREM LocalAnswersRight == Spec => []AnswersFaithful
<1>1. LocalInv => AnswersFaithful
  BY DEF LocalInv
<1> QED
  BY <1>1, LocalInvariant, PTL
=============================================================================
