----------------------- MODULE OpenQasmVisitorProofs ------------------------
(***************************************************************************)
(* Invariants of OpenQasmVisitor and OpenPulseVisitor for any qubits,      *)
(* instructions and length of kernel.  In order:                           *)
(*   both tables of written gates hold the same statements, and those do   *)
(*   what the gates mean (but for Y);                                      *)
(*   VisitorInv  types, and registers declared as supports are noted down; *)
(*   what a text performs grows by a token at a time;                      *)
(*   IndexInv    the register the visitor has for a qubit is the one of    *)
(*               the qubit's first measurement;                            *)
(*   TextInv     the text so far performs the kernel so far (IndexInv      *)
(*               tells the register of a conditional);                     *)
(*   AgreeInv    both texts are the same but for declarations;             *)
(*   FitsInv     the text is on qubits of the kernel;                      *)
(*   CountInv    there are as many supports as measurements;               *)
(*   the theorems, from the conjunction of all of them.                    *)
(***************************************************************************)
EXTENDS OpenPulseVisitor, FlattenLemmas, FiniteSetTheorems

Visitors ==
  [native: Seq(Tokens), operations: Seq(Tokens), classicalBitCounter: Nat,
   qubitToClassicalBitIndex: UNION {[D -> Nat] : D \in SUBSET Qubits}]

Unmeasured(text) == \A i \in DOMAIN text : text[i].name # "Measure"

-----------------------------------------------------------------------------
(* What the visits of gates write: the same to both texts, and but for Y   *)
(* what the gate means.                                                    *)
Silent == {"if", "creg"}
Statement(k) == k \in Tokens /\ k.name \notin {"if", "creg", "Measure"}
Opcodes == {"u1", "u2", "u3", "U", "id"}
Angles == {"0", "pi", "pi/2", "-pi/2", "p0", "p1", "p2"}
Entry(e) == \E opcode \in Opcodes, angles \in Seq(Angles) : e = Written(opcode, angles)

LEMMA Tables == NativeGates = OperationGates
BY Zenon DEF NativeGates, OperationGates

LEMMA AngleLists ==
  \A a, b, c \in Angles :
    <<>> \in Seq(Angles) /\ <<a>> \in Seq(Angles) /\ <<a, b>> \in Seq(Angles) /\ <<a, b, c>> \in Seq(Angles)
BY SMT

LEMMA Entries == \A g \in Gates : Entry(NativeGates[g])
<1>1. /\ "0" \in Angles /\ "pi" \in Angles /\ "pi/2" \in Angles /\ "-pi/2" \in Angles
      /\ "p0" \in Angles /\ "p1" \in Angles /\ "p2" \in Angles
  BY DEF Angles
<1>2. /\ "u1" \in Opcodes /\ "u2" \in Opcodes /\ "u3" \in Opcodes /\ "U" \in Opcodes /\ "id" \in Opcodes
  BY DEF Opcodes
<1>3. Entry(Written("u2", <<"0", "pi">>)) /\ Entry(Written("id", <<>>)) /\ Entry(Written("u3", <<"pi", "0", "pi">>))
  BY <1>1, <1>2, AngleLists, Zenon DEF Entry
<1>4. Entry(Written("u3", <<"pi", "pi/2", "pi">>)) /\ Entry(Written("u1", <<"pi">>))
      /\ Entry(Written("U", <<"p0", "p1", "p2">>))
  BY <1>1, <1>2, AngleLists, Zenon DEF Entry
<1>5. Entry(Written("u3", <<"p0", "-pi/2", "pi/2">>)) /\ Entry(Written("u3", <<"p0", "0", "0">>))
      /\ Entry(Written("u1", <<"p0">>))
  BY <1>1, <1>2, AngleLists, Zenon DEF Entry
<1> QED
  BY <1>3, <1>4, <1>5 DEF NativeGates, Gates

LEMMA EffectByName ==
  ASSUME NEW k
  PROVE  /\ k.name = "id" => Effect(k) = Rotation(<<"0", "0", "0">>, k.bits)
         /\ k.name = "u1" => Effect(k) = Rotation(<<"0", "0", k.angles[1]>>, k.bits)
         /\ k.name = "u2" => Effect(k) = Rotation(<<"pi/2", k.angles[1], k.angles[2]>>, k.bits)
         /\ k.name = "u3" => Effect(k) = Rotation(k.angles, k.bits)
         /\ k.name = "U" => Effect(k) = Rotation(k.angles, k.bits)
<1>1. k.name = "id" => Effect(k) = Rotation(<<"0", "0", "0">>, k.bits)
  BY SMT DEF Effect
<1>2. k.name = "u1" => Effect(k) = Rotation(<<"0", "0", k.angles[1]>>, k.bits)
  BY SMT DEF Effect
<1>3. k.name = "u2" => Effect(k) = Rotation(<<"pi/2", k.angles[1], k.angles[2]>>, k.bits)
  BY SMT DEF Effect
<1>4. k.name = "u3" => Effect(k) = Rotation(k.angles, k.bits)
  BY SMT DEF Effect
<1>5. k.name = "U" => Effect(k) = Rotation(k.angles, k.bits)
  BY SMT DEF Effect
<1> QED
  BY <1>1, <1>2, <1>3, <1>4, <1>5

LEMMA EntryToken ==
  ASSUME NEW opcode, NEW angles, NEW bits
  PROVE  /\ GateOn(Written(opcode, angles), bits).name = opcode
         /\ GateOn(Written(opcode, angles), bits).angles = angles
         /\ GateOn(Written(opcode, angles), bits).bits = bits
BY DEF GateOn, Written, Token

LEMMA EffectOfGate ==
  ASSUME NEW g \in Gates \ {"Y"}, NEW bits
  PROVE Effect(GateOn(NativeGates[g], bits)) = Rotation(EulerAngles[g], bits)
<1> DEFINE k == GateOn(NativeGates[g], bits)
<1>1. CASE g = "Hadamard"
  <2>1. NativeGates[g] = Written("u2", <<"0", "pi">>) /\ EulerAngles[g] = <<"pi/2", "0", "pi">>
    BY <1>1 DEF NativeGates, EulerAngles
  <2>2. k.name = "u2" /\ k.angles = <<"0", "pi">> /\ k.bits = bits
    BY <2>1, EntryToken
  <2>3. Effect(k) = Rotation(<<"pi/2", k.angles[1], k.angles[2]>>, bits)
    BY <2>2, EffectByName
  <2>4. k.angles[1] = "0" /\ k.angles[2] = "pi"
    BY <2>2
  <2> HIDE DEF k
  <2> QED
    BY <2>1, <2>3, <2>4 DEF k
<1>2. CASE g = "Identity"
  <2>1. NativeGates[g] = Written("id", <<>>) /\ EulerAngles[g] = <<"0", "0", "0">>
    BY <1>2 DEF NativeGates, EulerAngles
  <2>2. k.name = "id" /\ k.bits = bits
    BY <2>1, EntryToken
  <2> HIDE DEF k
  <2> QED
    BY <2>1, <2>2, EffectByName DEF k
<1>3. CASE g \in {"X", "U", "Rx", "Ry"}
  <2>1. NativeGates[g] = Written("u3", EulerAngles[g]) \/ NativeGates[g] = Written("U", EulerAngles[g])
    BY <1>3 DEF NativeGates, EulerAngles
  <2>2. k.name \in {"u3", "U"} /\ k.bits = bits /\ k.angles = EulerAngles[g]
    BY <2>1, EntryToken
  <2> HIDE DEF k
  <2> QED
    BY <2>2, EffectByName DEF k
<1>4. CASE g \in {"Z", "Rz"}
  <2>1. PICK a : NativeGates[g] = Written("u1", <<a>>) /\ EulerAngles[g] = <<"0", "0", a>>
    <3>1. CASE g = "Z"
      <4>1. NativeGates[g] = Written("u1", <<"pi">>) /\ EulerAngles[g] = <<"0", "0", "pi">>
        BY <3>1 DEF NativeGates, EulerAngles
      <4> QED
        BY <4>1, Zenon
    <3>2. CASE g = "Rz"
      <4>1. NativeGates[g] = Written("u1", <<"p0">>) /\ EulerAngles[g] = <<"0", "0", "p0">>
        BY <3>2 DEF NativeGates, EulerAngles
      <4> QED
        BY <4>1, Zenon
    <3> QED
      BY <1>4, <3>1, <3>2
  <2>2. k.name = "u1" /\ k.angles = <<a>> /\ k.bits = bits
    BY <2>1, EntryToken
  <2>3. Effect(k) = Rotation(<<"0", "0", k.angles[1]>>, bits)
    BY <2>2, EffectByName
  <2>4. k.angles[1] = a
    BY <2>2
  <2> HIDE DEF k
  <2> QED
    BY <2>1, <2>3, <2>4 DEF k
<1> QED
  BY <1>1, <1>2, <1>3, <1>4 DEF Gates

LEMMA TableEntry ==
  ASSUME NEW opcode \in Opcodes, NEW angles \in Seq(Angles), NEW bits \in Seq(Qubits)
  PROVE  /\ Statement(GateOn(Written(opcode, angles), bits))
         /\ GateOn(Written(opcode, angles), bits).bits = bits
<1> DEFINE k == GateOn(Written(opcode, angles), bits)
<1>1. k = [name |-> opcode, angles |-> angles, bits |-> bits, c |-> NoBit]
  BY DEF GateOn, Written, Token
<1>2. opcode \notin {"if", "creg", "Measure"}
  BY DEF Opcodes
<1>3. opcode \in {"u1", "u2", "u3", "U", "id", "CNOT", "Measure", "if", "creg"}
  BY DEF Opcodes
<1>4. NoBit \in Nat \union {NoBit}
  OBVIOUS
<1>5. k \in Tokens /\ k.name = opcode /\ k.bits = bits
  BY <1>1, <1>3, <1>4 DEF Tokens, Angles
<1> QED
  BY <1>2, <1>5 DEF Statement

LEMMA CNOTToken ==
  ASSUME NEW bits \in Seq(Qubits)
  PROVE  /\ Statement(CNOTOn(bits)) /\ CNOTOn(bits).bits = bits
         /\ Effect(CNOTOn(bits)) = CNOTOn(bits)
<1>1. CNOTOn(bits) = [name |-> "CNOT", angles |-> <<>>, bits |-> bits, c |-> NoBit]
  BY DEF CNOTOn, Token
<1>2. NoBit \in Nat \union {NoBit} /\ <<>> \in Seq({"0", "pi", "pi/2", "-pi/2", "p0", "p1", "p2"})
  OBVIOUS
<1>3. CNOTOn(bits) \in Tokens /\ CNOTOn(bits).name = "CNOT" /\ CNOTOn(bits).bits = bits
  BY <1>1, <1>2 DEF Tokens
<1>4. Effect(CNOTOn(bits)) = CNOTOn(bits)
  BY <1>3, Zenon DEF Effect
<1> QED
  BY <1>3, <1>4, Zenon DEF Statement

LEMMA EffectOfMeasured == \A q, c : Effect(Measured(q, c)) = Measured(q, c)
<1>1. \A q, c : Measured(q, c).name = "Measure"
  BY DEF Measured, Token
<1> QED
  BY <1>1, Zenon DEF Effect

LEMMA GateToken ==
  ASSUME NEW g \in Gates, NEW bits \in Seq(Qubits)
  PROVE  /\ Statement(GateOn(NativeGates[g], bits))
         /\ GateOn(NativeGates[g], bits).bits = bits
         /\ GateOn(OperationGates[g], bits) = GateOn(NativeGates[g], bits)
<1>1. PICK opcode \in Opcodes, angles \in Seq(Angles) : NativeGates[g] = Written(opcode, angles)
  BY Entries DEF Entry
<1> QED
  BY <1>1, TableEntry, Tables

(* v with the same statements added to both of its texts                   *)
Write(v, statements) ==
  [v EXCEPT !.native = @ \o statements, !.operations = @ \o statements]

LEMMA AppendOne ==
  ASSUME NEW text \in Seq(Tokens), NEW k \in Tokens
  PROVE  Append(text, k) = text \o <<k>>
OBVIOUS

LEMMA AppendBoth ==
  ASSUME NEW v \in Visitors, NEW k, Statement(k)
  PROVE  [v EXCEPT !.native = Append(@, k), !.operations = Append(@, k)] = Write(v, <<k>>)
<1>1. v.native \in Seq(Tokens) /\ v.operations \in Seq(Tokens) /\ k \in Tokens
  BY DEF Visitors, Statement
<1>2. Append(v.native, k) = v.native \o <<k>> /\ Append(v.operations, k) = v.operations \o <<k>>
  BY <1>1, AppendOne
<1> QED
  BY <1>2, Zenon DEF Write

LEMMA GateWritten ==
  ASSUME NEW v \in Visitors, NEW inst, inst.op \in Gates, inst.bits[1] \in Qubits
  PROVE  visitGate(v, inst) = Write(v, <<GateOn(NativeGates[inst.op], <<inst.bits[1]>>)>>)
<1> DEFINE bits == <<inst.bits[1]>>
           k == GateOn(NativeGates[inst.op], bits)
<1>1. bits \in Seq(Qubits)
  OBVIOUS
<1>2. Statement(k) /\ GateOn(OperationGates[inst.op], bits) = k
  BY <1>1, GateToken
<1>3. visitGate(v, inst) = [v EXCEPT !.native = Append(@, k), !.operations = Append(@, k)]
  BY <1>2, Zenon DEF visitGate
<1> HIDE DEF k
<1>4. visitGate(v, inst) = Write(v, <<k>>)
  BY <1>2, <1>3, AppendBoth
<1> QED
  BY <1>4 DEF k

LEMMA CNOTWritten ==
  ASSUME NEW v \in Visitors, NEW bits \in Seq(Qubits)
  PROVE  visitCNOT(v, bits) = Write(v, <<CNOTOn(bits)>>)
<1>1. Statement(CNOTOn(bits))
  BY CNOTToken
<1> QED
  BY <1>1, AppendBoth, Zenon DEF visitCNOT

-----------------------------------------------------------------------------
(* How an elementary instruction other than a Measure extends both texts.  *)
LEMMA InstructionFacts ==
  ASSUME NEW inst \in Instructions
  PROVE  /\ inst \in Instruction
         /\ inst.op \in Gates \union TwoQubitGates \union Composites \union {"Measure"}
         /\ inst.bits[1] \in Qubits
         /\ inst.op = "if" => inst.body \in Seq(Elementary)
         /\ inst \in Elementary \/ inst.op \in Composites
BY InstructionsAssumption DEF Instruction, Elementary, Composites, TwoQubitGates, Gates

LEMMA ElementaryFacts ==
  ASSUME NEW inst \in Elementary
  PROVE  /\ inst.op \in Gates \union {"CNOT", "CZ", "CPhase", "Swap", "Measure"}
         /\ inst.bits[1] \in Qubits
         /\ inst.op \in {"CNOT", "CZ", "CPhase", "Swap"} =>
              inst.bits[2] \in Qubits /\ inst.bits = <<inst.bits[1], inst.bits[2]>>
BY InstructionsAssumption DEF Elementary, TwoQubitGates, Gates

LEMMA NewVisitorType == NewVisitor \in Visitors /\ NewVisitor.native = <<>>
<1>1. [q \in {} |-> 0] \in [{} -> Nat]
  OBVIOUS
<1> QED
  BY <1>1 DEF NewVisitor, Visitors

LEMMA VisitorUpdate ==
  ASSUME NEW A, NEW B, NEW C, NEW D, NEW text, NEW ops,
         NEW v \in [native: A, operations: B, classicalBitCounter: C,
                    qubitToClassicalBitIndex: D]
  PROVE  [v EXCEPT !.native = text, !.operations = ops] =
           [native |-> text, operations |-> ops,
            classicalBitCounter |-> v.classicalBitCounter,
            qubitToClassicalBitIndex |-> v.qubitToClassicalBitIndex]
<1> DEFINE w == [native |-> text, operations |-> v.operations,
                 classicalBitCounter |-> v.classicalBitCounter,
                 qubitToClassicalBitIndex |-> v.qubitToClassicalBitIndex]
<1>1. [v EXCEPT !.native = text] = w
  OBVIOUS
<1>2. [w EXCEPT !.operations = ops] =
        [native |-> text, operations |-> ops,
         classicalBitCounter |-> v.classicalBitCounter,
         qubitToClassicalBitIndex |-> v.qubitToClassicalBitIndex]
  OBVIOUS
<1>3. [v EXCEPT !.native = text, !.operations = ops] =
        [[v EXCEPT !.native = text] EXCEPT !.operations = ops]
  OBVIOUS
<1> HIDE DEF w
<1> QED
  BY <1>1, <1>2, <1>3

LEMMA WriteExtends ==
  ASSUME NEW v \in Visitors, NEW statements \in Seq(Tokens)
  PROVE  /\ Write(v, statements) \in Visitors
         /\ Write(v, statements).native = v.native \o statements
         /\ Write(v, statements).operations = v.operations \o statements
         /\ Write(v, statements).classicalBitCounter = v.classicalBitCounter
         /\ Write(v, statements).qubitToClassicalBitIndex = v.qubitToClassicalBitIndex
<1> DEFINE Indices == UNION {[D -> Nat] : D \in SUBSET Qubits}
<1>1. Visitors = [native: Seq(Tokens), operations: Seq(Tokens), classicalBitCounter: Nat,
                  qubitToClassicalBitIndex: Indices]
  BY DEF Visitors
<1> HIDE DEF Indices
<1>2. v.native \o statements \in Seq(Tokens) /\ v.operations \o statements \in Seq(Tokens)
  BY <1>1
<1>3. Write(v, statements) =
        [native |-> v.native \o statements, operations |-> v.operations \o statements,
         classicalBitCounter |-> v.classicalBitCounter,
         qubitToClassicalBitIndex |-> v.qubitToClassicalBitIndex]
  <2>1. Write(v, statements) = [v EXCEPT !.native = v.native \o statements,
                                         !.operations = v.operations \o statements]
    BY DEF Write
  <2> QED
    BY <1>1, <2>1, VisitorUpdate
<1> QED
  BY <1>1, <1>2, <1>3

(* v with the same quiet text added to both of its texts                   *)
Extended(v, w) ==
  /\ w \in Visitors
  /\ w.classicalBitCounter = v.classicalBitCounter
  /\ \E text \in Seq(Tokens) :
       /\ Unmeasured(text)
       /\ w.native = v.native \o text
       /\ w.operations = v.operations \o text

LEMMA WriteExtended ==
  ASSUME NEW v \in Visitors, NEW text \in Seq(Tokens), Unmeasured(text)
  PROVE  Extended(v, Write(v, text))
<1>1. /\ Write(v, text) \in Visitors
      /\ Write(v, text).native = v.native \o text
      /\ Write(v, text).operations = v.operations \o text
      /\ Write(v, text).classicalBitCounter = v.classicalBitCounter
  BY WriteExtends
<1> QED
  BY <1>1, Zenon DEF Extended

LEMMA StatementExtended ==
  ASSUME NEW v \in Visitors, NEW k, Statement(k)
  PROVE  Extended(v, Write(v, <<k>>))
<1>1. <<k>> \in Seq(Tokens) /\ Unmeasured(<<k>>)
  BY DEF Statement, Unmeasured
<1> QED
  BY <1>1, WriteExtended

LEMMA CNOTExtends ==
  ASSUME NEW v \in Visitors, NEW a \in Qubits, NEW b \in Qubits
  PROVE  Extended(v, visitCNOT(v, <<a, b>>))
<1>1. <<a, b>> \in Seq(Qubits)
  OBVIOUS
<1>2. Statement(CNOTOn(<<a, b>>)) /\ visitCNOT(v, <<a, b>>) = Write(v, <<CNOTOn(<<a, b>>)>>)
  BY <1>1, CNOTToken, CNOTWritten
<1> QED
  BY <1>2, StatementExtended

LEMMA ThreeTexts ==
  \A r, s, t \in Seq(Tokens) : (r \o s) \o t = r \o (s \o t)
BY ConcatAssociative

LEMMA ExtendedTwice ==
  ASSUME NEW u \in Visitors, NEW v, NEW w, Extended(u, v), Extended(v, w)
  PROVE  Extended(u, w)
<1>1. PICK s \in Seq(Tokens) :
        Unmeasured(s) /\ v.native = u.native \o s /\ v.operations = u.operations \o s
  BY DEF Extended
<1>2. PICK t \in Seq(Tokens) :
        Unmeasured(t) /\ w.native = v.native \o t /\ w.operations = v.operations \o t
  BY DEF Extended
<1>3. u.native \in Seq(Tokens) /\ u.operations \in Seq(Tokens)
  BY DEF Visitors
<1>4. s \o t \in Seq(Tokens) /\ Unmeasured(s \o t)
  <2>1. ASSUME NEW i \in DOMAIN (s \o t)
        PROVE  (s \o t)[i].name # "Measure"
    <3>1. CASE i =< Len(s)
      <4>1. i \in DOMAIN s /\ (s \o t)[i] = s[i]
        BY <3>1
      <4> QED
        BY <1>1, <4>1 DEF Unmeasured
    <3>2. CASE i > Len(s)
      <4>1. i - Len(s) \in DOMAIN t /\ (s \o t)[i] = t[i - Len(s)]
        BY <3>2
      <4> QED
        BY <1>2, <4>1 DEF Unmeasured
    <3> QED
      BY <3>1, <3>2
  <2> QED
    BY <2>1 DEF Unmeasured
<1>5. w.native = u.native \o (s \o t) /\ w.operations = u.operations \o (s \o t)
  <2>1. (u.native \o s) \o t = u.native \o (s \o t)
    BY <1>3, ThreeTexts, ZenonT(40)
  <2>2. (u.operations \o s) \o t = u.operations \o (s \o t)
    BY <1>3, ThreeTexts, Zenon
  <2> QED
    BY <1>1, <1>2, <2>1, <2>2
<1> QED
  BY <1>4, <1>5 DEF Extended

LEMMA SwapExtends ==
  ASSUME NEW v \in Visitors, NEW a \in Qubits, NEW b \in Qubits
  PROVE  Extended(v, visitSwap(v, <<a, b>>))
<1> DEFINE v1 == visitCNOT(v, <<a, b>>)
           v2 == visitCNOT(v1, <<b, a>>)
           v3 == visitCNOT(v2, <<a, b>>)
<1>1. Extended(v, v1) /\ v1 \in Visitors
  BY CNOTExtends DEF Extended
<1> HIDE DEF v1
<1>2. Extended(v1, v2) /\ v2 \in Visitors
  BY <1>1, CNOTExtends DEF Extended
<1> HIDE DEF v2
<1>3. Extended(v2, v3)
  BY <1>2, CNOTExtends DEF Extended
<1>4. visitSwap(v, <<a, b>>) = v3
  BY DEF visitSwap, v1, v2
<1> HIDE DEF v3
<1> QED
  BY <1>1, <1>2, <1>3, <1>4, ExtendedTwice

LEMMA ElementaryExtends ==
  ASSUME NEW v \in Visitors, NEW inst \in Elementary, inst.op # "Measure"
  PROVE  Extended(v, visitElementary(v, inst))
<1>1. CASE inst.op = "CNOT"
  <2>1. inst.bits[1] \in Qubits /\ inst.bits[2] \in Qubits
        /\ inst.bits = <<inst.bits[1], inst.bits[2]>>
    BY <1>1, ElementaryFacts
  <2>2. visitElementary(v, inst) = visitCNOT(v, inst.bits)
    BY <1>1 DEF visitElementary
  <2> QED
    BY <2>1, <2>2, CNOTExtends
<1>2. CASE inst.op = "Swap"
  <2>1. inst.bits[1] \in Qubits /\ inst.bits[2] \in Qubits
        /\ inst.bits = <<inst.bits[1], inst.bits[2]>>
    BY <1>2, ElementaryFacts
  <2>2. visitElementary(v, inst) = visitSwap(v, inst.bits)
    BY <1>2 DEF visitElementary
  <2> QED
    BY <2>1, <2>2, SwapExtends
<1>3. CASE inst.op \in {"CPhase", "CZ"}
  <2>1. visitElementary(v, inst) = v
    BY <1>3 DEF visitElementary
  <2>2. <<>> \in Seq(Tokens) /\ Unmeasured(<<>>)
    BY DEF Unmeasured
  <2>3. v.native = v.native \o <<>> /\ v.operations = v.operations \o <<>>
    BY DEF Visitors
  <2> QED
    BY <2>1, <2>2, <2>3 DEF Extended
<1>4. CASE inst.op \in Gates
  <2> DEFINE k == GateOn(NativeGates[inst.op], <<inst.bits[1]>>)
  <2>1. inst.bits[1] \in Qubits /\ inst.op \notin {"Measure", "CNOT", "Swap", "CPhase", "CZ"}
    BY <1>4, ElementaryFacts DEF Gates
  <2>2. visitElementary(v, inst) = visitGate(v, inst)
    BY <2>1 DEF visitElementary
  <2>3. Statement(k) /\ visitGate(v, inst) = Write(v, <<k>>)
    <3>1. <<inst.bits[1]>> \in Seq(Qubits)
      BY <2>1
    <3> QED
      BY <1>4, <2>1, <3>1, GateToken, GateWritten
  <2> HIDE DEF k
  <2> QED
    BY <2>2, <2>3, StatementExtended
<1> QED
  BY <1>1, <1>2, <1>3, <1>4, ElementaryFacts

-----------------------------------------------------------------------------
(* Text without measurements keeps the registers in order.                 *)
LEMMA OrderKept ==
  ASSUME NEW qubits \in Seq(Qubits), NEW s \in Seq(Tokens), NEW t \in Seq(Tokens),
         DeclaredInOrder(s, qubits), Unmeasured(t)
  PROVE  DeclaredInOrder(s \o t, qubits)
<1>1. ASSUME NEW i \in DOMAIN (s \o t), (s \o t)[i].name = "Measure"
      PROVE  i \in DOMAIN s /\ (s \o t)[i] = s[i]
  <2>1. CASE i =< Len(s)
    BY <2>1
  <2>2. CASE i > Len(s)
    <3>1. i - Len(s) \in DOMAIN t /\ (s \o t)[i] = t[i - Len(s)]
      BY <2>2
    <3> QED
      BY <1>1, <3>1 DEF Unmeasured
  <2> QED
    BY <2>1, <2>2
<1> QED
  BY <1>1 DEF DeclaredInOrder

(* A measurement takes the next register and its qubit the next support.   *)
LEMMA OrderExtended ==
  ASSUME NEW qubits \in Seq(Qubits), NEW q \in Qubits, NEW s \in Seq(Tokens),
         DeclaredInOrder(s, qubits)
  PROVE  DeclaredInOrder(Append(s, Measured(q, Len(qubits))), Append(qubits, q))
<1> DEFINE m == Measured(q, Len(qubits))
           text == Append(s, m)
           more == Append(qubits, q)
<1>1. m.name = "Measure" /\ m.bits = <<q>> /\ m.c = Len(qubits)
  BY DEF Token, Measured
<1> HIDE DEF m
<1>2. /\ DOMAIN text = 1..(Len(s) + 1) /\ text[Len(s) + 1] = m
      /\ DOMAIN s = 1..Len(s) /\ \A i \in 1..Len(s) : text[i] = s[i]
  OBVIOUS
<1>3. /\ DOMAIN more = 1..(Len(qubits) + 1) /\ more[Len(qubits) + 1] = q
      /\ DOMAIN qubits = 1..Len(qubits) /\ \A i \in 1..Len(qubits) : more[i] = qubits[i]
      /\ Len(qubits) \in Nat /\ Len(s) \in Nat
  OBVIOUS
<1> HIDE DEF text, more
<1>4. ASSUME NEW i \in DOMAIN text, text[i].name = "Measure"
      PROVE  text[i].c + 1 \in DOMAIN more /\ text[i].bits = <<more[text[i].c + 1]>>
  <2>1. CASE i = Len(s) + 1
    BY <1>1, <1>2, <1>3, <2>1
  <2>2. CASE i \in DOMAIN s
    BY <1>2, <1>3, <1>4, <2>2 DEF DeclaredInOrder
  <2> QED
    BY <1>2, <1>3, <2>1, <2>2
<1>5. ASSUME NEW i \in DOMAIN text, NEW j \in DOMAIN text, i < j,
             text[i].name = "Measure", text[j].name = "Measure"
      PROVE  text[i].c < text[j].c
  <2>1. i \in DOMAIN s /\ text[i] = s[i]
    BY <1>2, <1>3, <1>5
  <2>2. s[i] \in Tokens
    BY <2>1
  <2>3. CASE j = Len(s) + 1
    <3>1. s[i].c + 1 \in 1..Len(qubits)
      BY <1>3, <1>5, <2>1 DEF DeclaredInOrder
    <3>2. s[i].c \in Int
      BY <2>2 DEF Tokens, NoBit
    <3>3. text[j].c = Len(qubits)
      BY <1>1, <1>2, <2>3
    <3> QED
      BY <1>3, <2>1, <3>1, <3>2, <3>3
  <2>4. CASE j \in DOMAIN s
    BY <1>2, <1>5, <2>1, <2>4 DEF DeclaredInOrder
  <2> QED
    BY <1>2, <1>3, <2>3, <2>4
<1> QED
  BY <1>4, <1>5 DEF DeclaredInOrder, text, more, m

(* The invariant: registers are counted and declared as supports are noted *)
(* down, for kernels that measure in no conditional.                       *)
VisitorInv ==
  /\ kernel \in Seq(Instructions)
  /\ Len(kernel) =< MaxLength
  /\ visitor \in Visitors
  /\ supports \in Seq(Qubits)
  /\ failed \in BOOLEAN
  /\ visitor.classicalBitCounter = Len(supports)
  /\ RegistersFollowSupports

LEMMA VisitorTypeOK == VisitorInv => TypeOK
<1> SUFFICES ASSUME VisitorInv
             PROVE  TypeOK
  OBVIOUS
<1>1. /\ visitor.native \in Seq(Tokens) /\ visitor.operations \in Seq(Tokens)
      /\ visitor.classicalBitCounter \in Nat
      /\ visitor.qubitToClassicalBitIndex \in UNION {[D -> Nat] : D \in SUBSET Qubits}
  BY DEF VisitorInv, Visitors
<1>2. PICK D \in SUBSET Qubits : visitor.qubitToClassicalBitIndex \in [D -> Nat]
  BY <1>1
<1> QED
  BY <1>1, <1>2 DEF VisitorInv, TypeOK

LEMMA VisitorInit == Init => VisitorInv
<1> SUFFICES ASSUME Init
             PROVE  VisitorInv
  OBVIOUS
<1>1. kernel = <<>> /\ visitor = NewVisitor /\ supports = <<>> /\ failed = FALSE
  BY DEF Init
<1>2. NewVisitor.native = <<>> /\ NewVisitor.operations = <<>>
      /\ NewVisitor.classicalBitCounter = 0
  BY DEF NewVisitor
<1>3. DeclaredInOrder(<<>>, <<>>)
  BY DEF DeclaredInOrder
<1>4. RegistersFollowSupports
  BY <1>1, <1>2, <1>3 DEF RegistersFollowSupports
<1>5. /\ kernel \in Seq(Instructions) /\ Len(kernel) = 0
      /\ supports \in Seq(Qubits) /\ Len(supports) = 0
  BY <1>1
<1>6. 0 =< MaxLength
  BY InstructionsAssumption
<1> QED
  BY <1>1, <1>2, <1>4, <1>5, <1>6, NewVisitorType DEF VisitorInv

(* What a turn adds to the kernel measures in no conditional either, if    *)
(* the longer kernel does not.                                             *)
LEMMA TurnKeeps ==
  ASSUME VisitorInv, NEW inst \in Instructions, Turn(inst)
  PROVE  /\ kernel' \in Seq(Instructions) /\ Len(kernel') =< MaxLength
         /\ (\A i \in DOMAIN kernel' : ~MeasuresInBody(kernel'[i])) =>
              /\ \A i \in DOMAIN kernel : ~MeasuresInBody(kernel[i])
              /\ ~MeasuresInBody(inst)
<1>1. kernel \in Seq(Instructions) /\ kernel' = Append(kernel, inst) /\ Len(kernel) < MaxLength
  BY DEF VisitorInv, Turn
<1>2. /\ DOMAIN kernel' = 1..(Len(kernel) + 1) /\ kernel'[Len(kernel) + 1] = inst
      /\ DOMAIN kernel = 1..Len(kernel) /\ Len(kernel) \in Nat
      /\ \A i \in 1..Len(kernel) : kernel'[i] = kernel[i]
  BY <1>1
<1>3. Len(kernel) + 1 \in DOMAIN kernel' /\ \A i \in DOMAIN kernel : i \in DOMAIN kernel'
  BY <1>2
<1>4. kernel' \in Seq(Instructions) /\ Len(kernel') =< MaxLength
  BY <1>1, InstructionsAssumption
<1> QED
  BY <1>2, <1>3, <1>4

LEMMA QuietStep ==
  ASSUME VisitorInv, NEW inst \in Instructions, Turn(inst), UNCHANGED supports,
         failed' \in BOOLEAN, visitor' \in Visitors,
         visitor'.classicalBitCounter = visitor.classicalBitCounter,
         ~MeasuresInBody(inst) => \E text, ops \in Seq(Tokens) :
           /\ Unmeasured(text) /\ Unmeasured(ops)
           /\ visitor'.native = visitor.native \o text
           /\ visitor'.operations = visitor.operations \o ops
  PROVE  VisitorInv'
<1>1. /\ visitor.native \in Seq(Tokens) /\ visitor.operations \in Seq(Tokens)
      /\ supports \in Seq(Qubits)
  BY DEF VisitorInv, Visitors
<1>2. RegistersFollowSupports'
  <2> SUFFICES ASSUME \A i \in DOMAIN kernel' : ~MeasuresInBody(kernel'[i])
               PROVE  /\ DeclaredInOrder(visitor'.native, supports)
                      /\ DeclaredInOrder(visitor'.operations, supports)
    BY DEF RegistersFollowSupports
  <2>1. /\ \A i \in DOMAIN kernel : ~MeasuresInBody(kernel[i])
        /\ ~MeasuresInBody(inst)
    BY TurnKeeps
  <2>2. /\ DeclaredInOrder(visitor.native, supports)
        /\ DeclaredInOrder(visitor.operations, supports)
    BY <2>1 DEF VisitorInv, RegistersFollowSupports
  <2>3. PICK text, ops \in Seq(Tokens) :
           /\ Unmeasured(text) /\ Unmeasured(ops)
           /\ visitor'.native = visitor.native \o text
           /\ visitor'.operations = visitor.operations \o ops
    BY <2>1
  <2> QED
    BY <1>1, <2>2, <2>3, OrderKept
<1> QED
  BY <1>2, TurnKeeps DEF VisitorInv

-----------------------------------------------------------------------------
(* The visit of a measurement, field by field.                             *)
LEMMA MeasureVisit ==
  ASSUME NEW v \in Visitors, NEW q \in Qubits
  PROVE  /\ visitMeasure(v, q) \in Visitors
         /\ visitMeasure(v, q).native =
              Append(v.native \o <<Creg(v.classicalBitCounter)>>,
                     Measured(q, v.classicalBitCounter))
         /\ visitMeasure(v, q).operations =
              Append(v.operations, Measured(q, v.classicalBitCounter))
         /\ visitMeasure(v, q).classicalBitCounter = v.classicalBitCounter + 1
         /\ visitMeasure(v, q).qubitToClassicalBitIndex =
              [r \in DOMAIN v.qubitToClassicalBitIndex \union {q} |->
                 IF r \in DOMAIN v.qubitToClassicalBitIndex
                 THEN v.qubitToClassicalBitIndex[r] ELSE v.classicalBitCounter]
<1> DEFINE Indices == UNION {[D -> Nat] : D \in SUBSET Qubits}
           c == v.classicalBitCounter
           index == v.qubitToClassicalBitIndex
           m == Measured(q, c)
           k == Creg(c)
           index1 == [r \in DOMAIN index \union {q} |-> IF r \in DOMAIN index THEN index[r] ELSE c]
           native1 == v.native \o <<k, m>>
           ops1 == Append(v.operations, m)
<1>1. c \in Nat /\ v.native \in Seq(Tokens) /\ v.operations \in Seq(Tokens) /\ index \in Indices
  BY DEF Visitors
<1>2. m \in Tokens /\ k \in Tokens
  BY <1>1 DEF Measured, Token, Creg, Tokens
<1>3. index1 \in Indices
  <2>1. PICK D \in SUBSET Qubits : index \in [D -> Nat]
    BY <1>1
  <2>2. index1 \in [D \union {q} -> Nat]
    BY <1>1, <2>1
  <2>3. D \union {q} \in SUBSET Qubits
    BY <2>1
  <2> QED
    BY <2>2, <2>3
<1>4. ops1 \in Seq(Tokens)
  <2> HIDE DEF m
  <2> QED
    BY <1>1, <1>2
<1>5. visitMeasure(v, q) =
        [v EXCEPT !.native = native1, !.operations = ops1,
                  !.qubitToClassicalBitIndex = index1, !.classicalBitCounter = c + 1]
  BY DEF visitMeasure
<1>6. native1 = Append(v.native \o <<k>>, m) /\ native1 \in Seq(Tokens)
  <2> HIDE DEF m, k
  <2> QED
    BY <1>1, <1>2, SMTT(30)
<1>7. Visitors = [native: Seq(Tokens), operations: Seq(Tokens), classicalBitCounter: Nat,
                  qubitToClassicalBitIndex: Indices]
  BY DEF Visitors
<1> HIDE DEF native1, ops1, index1, Indices
<1>8. visitMeasure(v, q) =
        [native |-> native1, operations |-> ops1,
         classicalBitCounter |-> c + 1, qubitToClassicalBitIndex |-> index1]
  BY <1>5, <1>7
<1>9. c + 1 \in Nat
  BY <1>1
<1>10. visitMeasure(v, q).qubitToClassicalBitIndex = index1
  BY <1>8
<1>11. /\ visitMeasure(v, q) \in Visitors
       /\ visitMeasure(v, q).native = Append(v.native \o <<k>>, m)
       /\ visitMeasure(v, q).operations = Append(v.operations, m)
       /\ visitMeasure(v, q).classicalBitCounter = c + 1
  <2>1. visitMeasure(v, q) \in Visitors
    BY <1>3, <1>4, <1>6, <1>7, <1>8, <1>9
  <2>2. visitMeasure(v, q).operations = Append(v.operations, m)
    BY <1>8 DEF ops1
  <2> QED
    BY <1>6, <1>8, <2>1, <2>2
<1> QED
  BY <1>10, <1>11, Zenon DEF index1

(* An enabled Measure declares the register its support is the place of.   *)
LEMMA MeasureStep ==
  ASSUME VisitorInv, NEW inst \in Instructions, Visit(inst), inst.op = "Measure"
  PROVE  VisitorInv'
<1> DEFINE q == inst.bits[1]
           c == Len(supports)
           m == Measured(q, c)
<1>1. q \in Qubits
  BY InstructionFacts
<1>2. /\ visitor \in Visitors /\ supports \in Seq(Qubits)
      /\ visitor.native \in Seq(Tokens) /\ visitor.operations \in Seq(Tokens)
      /\ visitor.classicalBitCounter = c /\ c \in Nat
  BY DEF VisitorInv, Visitors
<1>3. Turn(inst) /\ failed' \in BOOLEAN /\ supports' = Append(supports, q)
      /\ visitor' = visitMeasure(visitor, q)
  BY DEF Visit, accept, visitElementary, VisitorInv
<1>4. /\ visitor' \in Visitors
      /\ visitor'.native = Append(visitor.native \o <<Creg(c)>>, m)
      /\ visitor'.operations = Append(visitor.operations, m)
      /\ visitor'.classicalBitCounter = c + 1
  BY <1>1, <1>2, <1>3, MeasureVisit
<1>5. RegistersFollowSupports'
  <2> SUFFICES ASSUME \A i \in DOMAIN kernel' : ~MeasuresInBody(kernel'[i])
               PROVE  /\ DeclaredInOrder(visitor'.native, supports')
                      /\ DeclaredInOrder(visitor'.operations, supports')
    BY DEF RegistersFollowSupports
  <2>1. /\ DeclaredInOrder(visitor.native, supports)
        /\ DeclaredInOrder(visitor.operations, supports)
    BY <1>3, TurnKeeps DEF VisitorInv, RegistersFollowSupports
  <2>2. <<Creg(c)>> \in Seq(Tokens) /\ Unmeasured(<<Creg(c)>>)
    BY <1>2 DEF Creg, Token, Tokens, Unmeasured
  <2>3. visitor.native \o <<Creg(c)>> \in Seq(Tokens)
    BY <1>2, <2>2
  <2>4. DeclaredInOrder(visitor.native \o <<Creg(c)>>, supports)
    BY <1>2, <2>1, <2>2, OrderKept
  <2> QED
    BY <1>1, <1>2, <1>3, <1>4, <2>1, <2>3, <2>4, OrderExtended
<1>6. supports' \in Seq(Qubits) /\ Len(supports') = c + 1
  BY <1>1, <1>2, <1>3
<1> QED
  BY <1>3, <1>4, <1>5, <1>6, TurnKeeps DEF VisitorInv

-----------------------------------------------------------------------------
(* What a conditional adds to the text.                                    *)
LEMMA NestedText ==
  ASSUME NEW body \in Seq(Elementary)
  PROVE  /\ Nested(body).native \in Seq(Tokens)
         /\ (\A i \in DOMAIN body : body[i].op # "Measure") => Unmeasured(Nested(body).native)
<1>1. CASE body = <<>>
  BY <1>1, NewVisitorType DEF Nested, Visitors, Unmeasured
<1>2. CASE body # <<>>
  <2> DEFINE inst == body[1]
             w == visitElementary(NewVisitor, inst)
  <2>1. inst \in Elementary /\ 1 \in DOMAIN body /\ Nested(body) = w
    BY <1>2 DEF Nested
  <2> HIDE DEF inst
  <2>2. CASE inst.op = "Measure"
    <3>1. w = visitMeasure(NewVisitor, inst.bits[1])
      BY <2>2 DEF visitElementary
    <3>2. w \in Visitors
      BY <2>1, <3>1, NewVisitorType, MeasureVisit, ElementaryFacts
    <3> QED
      BY <2>1, <2>2, <3>2 DEF inst, Visitors
  <2>3. CASE inst.op # "Measure"
    <3>1. Extended(NewVisitor, w)
      BY <2>1, <2>3, NewVisitorType, ElementaryExtends
    <3>2. PICK text \in Seq(Tokens) :
            Unmeasured(text) /\ w.native = NewVisitor.native \o text
      BY <3>1 DEF Extended
    <3>3. w.native = text
      BY <3>2, NewVisitorType
    <3> QED
      BY <2>1, <3>2, <3>3
  <2> QED
    BY <2>2, <2>3
<1> QED
  BY <1>1, <1>2

LEMMA ConditionalVisit ==
  ASSUME NEW v \in Visitors, NEW inst \in Instructions, inst.op = "if"
  PROVE  /\ visitConditional(v, inst) \in Visitors
         /\ visitConditional(v, inst).operations = v.operations
         /\ visitConditional(v, inst).classicalBitCounter = v.classicalBitCounter
         /\ \E text \in Seq(Tokens) :
              /\ visitConditional(v, inst).native = v.native \o text
              /\ ~MeasuresInBody(inst) => Unmeasured(text)
         /\ visitConditional(v, inst).native =
              v.native \o (<<If(ClassicalBitIdx(v, inst.bits[1]))>> \o Nested(inst.body).native)
         /\ visitConditional(v, inst).qubitToClassicalBitIndex =
              [r \in DOMAIN v.qubitToClassicalBitIndex \union {inst.bits[1]} |->
                 IF r = inst.bits[1] THEN ClassicalBitIdx(v, inst.bits[1])
                 ELSE v.qubitToClassicalBitIndex[r]]
<1> DEFINE Indices == UNION {[D -> Nat] : D \in SUBSET Qubits}
           q == inst.bits[1]
           c == ClassicalBitIdx(v, q)
           index == v.qubitToClassicalBitIndex
           index1 == [r \in DOMAIN index \union {q} |-> IF r = q THEN c ELSE index[r]]
           nested == Nested(inst.body).native
           text == <<If(c)>> \o nested
<1>1. q \in Qubits /\ inst.body \in Seq(Elementary)
  BY InstructionFacts
<1>2. Visitors = [native: Seq(Tokens), operations: Seq(Tokens), classicalBitCounter: Nat,
                  qubitToClassicalBitIndex: Indices]
  BY DEF Visitors
<1>3. PICK D \in SUBSET Qubits : index \in [D -> Nat]
  BY <1>2
<1>4. c \in Nat
  BY <1>3 DEF ClassicalBitIdx
<1>5. index1 \in Indices
  <2>1. index1 \in [D \union {q} -> Nat] /\ D \union {q} \in SUBSET Qubits
    BY <1>1, <1>3, <1>4
  <2> QED
    BY <2>1
<1>6. /\ nested \in Seq(Tokens)
      /\ ~MeasuresInBody(inst) => Unmeasured(nested)
  BY <1>1, NestedText DEF MeasuresInBody
<1>7. If(c) \in Tokens /\ If(c).name # "Measure"
  BY <1>4 DEF If, Token, Tokens
<1>8. /\ text \in Seq(Tokens)
      /\ ~MeasuresInBody(inst) => Unmeasured(text)
  <2> HIDE DEF nested
  <2>1. \A k \in Tokens : <<k>> \o nested \in Seq(Tokens)
    BY <1>6
  <2>2. ASSUME NEW k \in Tokens, k.name # "Measure", Unmeasured(nested)
        PROVE  Unmeasured(<<k>> \o nested)
    <3> SUFFICES ASSUME NEW i \in DOMAIN (<<k>> \o nested)
                 PROVE  (<<k>> \o nested)[i].name # "Measure"
      BY DEF Unmeasured
    <3>1. CASE i = 1
      <4>1. (<<k>> \o nested)[i] = k
        BY <1>6, <3>1
      <4> QED
        BY <2>2, <4>1
    <3>2. CASE i # 1
      <4>1. i - 1 \in DOMAIN nested /\ (<<k>> \o nested)[i] = nested[i - 1]
        BY <1>6, <3>2
      <4> QED
        BY <2>2, <4>1 DEF Unmeasured
    <3> QED
      BY <3>1, <3>2
  <2> QED
    BY <1>6, <1>7, <2>1, <2>2
<1>9. visitConditional(v, inst) =
        [v EXCEPT !.native = (v.native \o <<If(c)>>) \o nested,
                  !.qubitToClassicalBitIndex = index1]
  BY DEF visitConditional
<1>10. (v.native \o <<If(c)>>) \o nested = v.native \o text
  <2>1. <<If(c)>> \in Seq(Tokens) /\ v.native \in Seq(Tokens)
    BY <1>2, <1>7
  <2> QED
    BY <1>6, <2>1, ThreeTexts, Zenon
<1>11. v.native \o text \in Seq(Tokens)
  <2> HIDE DEF text
  <2> QED
    BY <1>2, <1>8
<1> HIDE DEF text, index1, Indices, c, nested
<1>12. visitConditional(v, inst) =
        [native |-> v.native \o text, operations |-> v.operations,
         classicalBitCounter |-> v.classicalBitCounter, qubitToClassicalBitIndex |-> index1]
  BY <1>2, <1>9, <1>10
<1>13. /\ visitConditional(v, inst).operations = v.operations
       /\ visitConditional(v, inst).classicalBitCounter = v.classicalBitCounter
       /\ visitConditional(v, inst).native = v.native \o text
  BY <1>12
<1>14. visitConditional(v, inst) \in Visitors
  BY <1>2, <1>5, <1>11, <1>12
<1>15. visitConditional(v, inst).qubitToClassicalBitIndex = index1
  BY <1>12
<1>16. \E t \in Seq(Tokens) : /\ visitConditional(v, inst).native = v.native \o t
                              /\ ~MeasuresInBody(inst) => Unmeasured(t)
  BY <1>8, <1>13
<1> QED
  BY <1>13, <1>14, <1>15, <1>16, Zenon DEF text, nested, c, index1

-----------------------------------------------------------------------------
(* Every other step adds no measurement, whatever it visits.               *)
LEMMA UnchangedTexts ==
  ASSUME VisitorInv, NEW inst \in Instructions, Turn(inst), UNCHANGED <<visitor, supports>>,
         failed' \in BOOLEAN
  PROVE  VisitorInv'
<1>1. <<>> \in Seq(Tokens) /\ Unmeasured(<<>>)
  BY DEF Unmeasured
<1>2. /\ visitor \in Visitors
      /\ visitor.native = visitor.native \o <<>>
      /\ visitor.operations = visitor.operations \o <<>>
  BY DEF VisitorInv, Visitors
<1> QED
  BY <1>1, <1>2, QuietStep

LEMMA ConditionalStep ==
  ASSUME VisitorInv, NEW inst \in Instructions, Visit(inst), inst.op = "if"
  PROVE  VisitorInv'
<1>1. Turn(inst) /\ failed' \in BOOLEAN /\ UNCHANGED supports
      /\ visitor' = visitConditional(visitor, inst) /\ visitor \in Visitors
  BY DEF Visit, accept, VisitorInv
<1>2. /\ visitor' \in Visitors
      /\ visitor'.operations = visitor.operations
      /\ visitor'.classicalBitCounter = visitor.classicalBitCounter
  BY <1>1, ConditionalVisit
<1>3. PICK text \in Seq(Tokens) :
        /\ visitor'.native = visitor.native \o text
        /\ ~MeasuresInBody(inst) => Unmeasured(text)
  BY <1>1, ConditionalVisit
<1>4. /\ <<>> \in Seq(Tokens) /\ Unmeasured(<<>>)
      /\ visitor'.operations = visitor.operations \o <<>>
  BY <1>1, <1>2 DEF Unmeasured, Visitors
<1>5. ~MeasuresInBody(inst) => \E extra, ops \in Seq(Tokens) :
           /\ Unmeasured(extra) /\ Unmeasured(ops)
           /\ visitor'.native = visitor.native \o extra
           /\ visitor'.operations = visitor.operations \o ops
  BY <1>3, <1>4
<1> QED
  BY <1>1, <1>2, <1>5, QuietStep

LEMMA GateStep ==
  ASSUME VisitorInv, NEW inst \in Elementary, inst \in Instructions, Visit(inst),
         inst.op # "Measure"
  PROVE  VisitorInv'
<1>1. inst.op \notin Composites
  BY ElementaryFacts DEF Composites, Gates
<1>2. Turn(inst) /\ failed' \in BOOLEAN /\ UNCHANGED supports
      /\ visitor' = visitElementary(visitor, inst) /\ visitor \in Visitors
  BY <1>1 DEF Visit, accept, Composites, VisitorInv
<1>3. Extended(visitor, visitor')
  BY <1>2, ElementaryExtends
<1> QED
  BY <1>2, <1>3, QuietStep DEF Extended

(* A turn of the loop over a digital kernel, or one over an analog kernel. *)
Step == [Next]_vars \/ (UNCHANGED <<kernel, visitor, supports>> /\ failed' = TRUE)

LEMMA VisitorStep == VisitorInv /\ Step => VisitorInv'
<1> SUFFICES ASSUME VisitorInv, Step
             PROVE  VisitorInv'
  OBVIOUS
<1>1. ASSUME NEW inst \in Instructions, Skip(inst)
      PROVE  VisitorInv'
  <2>1. Turn(inst) /\ UNCHANGED <<visitor, supports>> /\ failed' \in BOOLEAN
    BY <1>1 DEF Skip, VisitorInv
  <2> QED
    BY <2>1, UnchangedTexts
<1>2. ASSUME NEW inst \in Instructions, Reject(inst)
      PROVE  VisitorInv'
  <2>1. Turn(inst) /\ UNCHANGED <<visitor, supports>> /\ failed' \in BOOLEAN
    BY <1>2 DEF Reject
  <2> QED
    BY <2>1, UnchangedTexts
<1>3. ASSUME NEW inst \in Instructions, Visit(inst)
      PROVE  VisitorInv'
  <2>1. CASE inst.op = "Measure"
    BY <1>3, <2>1, MeasureStep
  <2>2. CASE inst.op = "if"
    BY <1>3, <2>2, ConditionalStep
  <2>3. CASE inst.op = "GateFunction"
    <3>1. Turn(inst) /\ UNCHANGED <<visitor, supports>> /\ failed' \in BOOLEAN
      BY <1>3, <2>3 DEF Visit, accept, VisitorInv
    <3> QED
      BY <3>1, UnchangedTexts
  <2>4. CASE inst.op \notin Composites /\ inst.op # "Measure"
    <3>1. inst \in Elementary
      BY <2>4, InstructionFacts
    <3> QED
      BY <1>3, <2>4, <3>1, GateStep
  <2> QED
    BY <2>1, <2>2, <2>3, <2>4 DEF Composites
<1>4. CASE UNCHANGED <<kernel, visitor, supports>> /\ failed' \in BOOLEAN
  BY <1>4 DEF VisitorInv, RegistersFollowSupports
<1>5. UNCHANGED vars => UNCHANGED <<kernel, visitor, supports>> /\ failed' \in BOOLEAN
  BY DEF vars, VisitorInv
<1> QED
  BY <1>1, <1>2, <1>3, <1>4, <1>5 DEF Next, Step

-----------------------------------------------------------------------------
(* What a text performs, one token more at a time.                         *)
Effects == {Effect(k) : k \in Tokens}
Actions == [token: Effects, guard: Nat \union {NoBit}]
Piece(text, i) ==
  IF text[i].name \in Silent THEN <<>>
  ELSE <<Guarded(Effect(text[i]), IF i > 1 /\ text[i - 1].name = "if" THEN text[i - 1].c ELSE NoBit)>>
Pieces(text) == [i \in DOMAIN text |-> Piece(text, i)]
GuardOfNext(text) ==
  IF Len(text) > 0 /\ text[Len(text)].name = "if" THEN text[Len(text)].c ELSE NoBit

LEMMA TokenFacts ==
  ASSUME NEW k \in Tokens
  PROVE  k.c \in Nat \union {NoBit}
BY SMT DEF Tokens

LEMMA PieceType ==
  ASSUME NEW text \in Seq(Tokens), NEW i \in DOMAIN text
  PROVE  Piece(text, i) \in Seq(Actions)
<1> DEFINE guard == IF i > 1 /\ text[i - 1].name = "if" THEN text[i - 1].c ELSE NoBit
           act == Guarded(Effect(text[i]), guard)
<1>1. Effect(text[i]) \in Effects
  BY DEF Effects
<1>2. guard \in Nat \union {NoBit}
  <2>1. CASE i > 1 /\ text[i - 1].name = "if"
    <3>1. text[i - 1] \in Tokens
      BY <2>1
    <3> QED
      BY <2>1, <3>1, TokenFacts
  <2> QED
    BY <2>1
<1> HIDE DEF guard
<1>3. act \in Actions
  BY <1>1, <1>2 DEF Guarded, Actions
<1>4. Piece(text, i) = IF text[i].name \in Silent THEN <<>> ELSE <<act>>
  BY DEF Piece, guard
<1> HIDE DEF act
<1>5. <<act>> \in Seq(Actions)
  BY <1>3
<1> QED
  BY <1>4, <1>5

LEMMA PiecesType ==
  ASSUME NEW text \in Seq(Tokens)
  PROVE  Pieces(text) \in Seq(Seq(Actions))
<1> DEFINE f == [i \in 1..Len(text) |-> Piece(text, i)]
<1>1. Pieces(text) = f /\ DOMAIN text = 1..Len(text) /\ Len(text) \in Nat
  BY DEF Pieces
<1>2. \A i \in 1..Len(text) : f[i] \in Seq(Actions)
  BY <1>1, PieceType
<1> HIDE DEF f
<1> QED
  BY <1>1, <1>2, IsASeq DEF f

LEMMA PiecesAppend ==
  ASSUME NEW text \in Seq(Tokens), NEW k \in Tokens
  PROVE  Pieces(Append(text, k)) =
           Append(Pieces(text),
                  IF k.name \in Silent THEN <<>> ELSE <<Guarded(Effect(k), GuardOfNext(text))>>)
<1> DEFINE n == Len(text)
           more == Append(text, k)
           last == IF k.name \in Silent THEN <<>> ELSE <<Guarded(Effect(k), GuardOfNext(text))>>
           old == Pieces(text)
<1>1. /\ n \in Nat /\ DOMAIN text = 1..n /\ DOMAIN more = 1..(n + 1)
      /\ more[n + 1] = k /\ \A i \in 1..n : more[i] = text[i]
  OBVIOUS
<1>2. old \in Seq(Seq(Actions)) /\ Len(old) = n /\ \A i \in 1..n : old[i] = Piece(text, i)
  <2>1. old = [i \in 1..n |-> Piece(text, i)]
    BY <1>1 DEF Pieces
  <2>2. old \in Seq(Seq(Actions))
    BY PiecesType
  <2> HIDE DEF old
  <2>3. DOMAIN old = 1..n
    BY <2>1
  <2> QED
    BY <1>1, <2>1, <2>2, <2>3, LenProperties
<1>3. ASSUME NEW i \in 1..n
      PROVE  Piece(more, i) = Piece(text, i)
  <2>1. more[i] = text[i] /\ (i > 1 => more[i - 1] = text[i - 1])
    BY <1>1
  <2> HIDE DEF more, n
  <2> QED
    BY <2>1, Zenon DEF Piece
<1>4. Piece(more, n + 1) = last
  <2>1. CASE n > 0
    <3>1. n + 1 > 1 /\ (n + 1) - 1 = n /\ n \in 1..n /\ Len(text) > 0
      BY <1>1, <2>1
    <3>2. more[n + 1] = k /\ more[(n + 1) - 1] = text[Len(text)]
      BY <1>1, <3>1
    <3> HIDE DEF more
    <3> QED
      BY <3>1, <3>2, Zenon DEF Piece, GuardOfNext
  <2>2. CASE ~(n > 0)
    <3>1. ~(n + 1 > 1)
      BY <1>1, <2>2
    <3> HIDE DEF more
    <3> QED
      BY <1>1, <2>2, <3>1, Zenon DEF Piece, GuardOfNext
  <2> QED
    BY <2>1, <2>2
<1>5. Pieces(more) = [i \in 1..(n + 1) |-> Piece(more, i)]
  BY <1>1 DEF Pieces
<1> HIDE DEF n, more, last, old
<1>6. Append(old, last) = [i \in 1..(n + 1) |-> IF i = n + 1 THEN last ELSE old[i]]
  <2> DEFINE joined == Append(old, last)
  <2>1. more \in Seq(Tokens) /\ n + 1 \in DOMAIN more
    BY <1>1 DEF more
  <2>2. last \in Seq(Actions)
    BY <1>4, <2>1, PieceType
  <2>3. /\ joined \in Seq(Seq(Actions)) /\ Len(joined) = n + 1
        /\ \A i \in 1..n : joined[i] = old[i] 
        /\ joined[n + 1] = last
    BY <1>1, <1>2, <2>2, AppendProperties
  <2> HIDE DEF joined
  <2>4. joined = [i \in 1..(n + 1) |-> joined[i]]
    BY <2>3
  <2>5. \A i \in 1..(n + 1) : joined[i] = IF i = n + 1 THEN last ELSE old[i]
    BY <1>1, <2>3
  <2>6. joined = [i \in 1..(n + 1) |-> IF i = n + 1 THEN last ELSE old[i]]
    BY <2>4, <2>5
  <2> QED
    BY <2>6 DEF joined
<1>7. \A i \in 1..(n + 1) : Piece(more, i) = IF i = n + 1 THEN last ELSE old[i]
  BY <1>1, <1>2, <1>3, <1>4
<1>8. Pieces(more) = Append(old, last)
  BY <1>5, <1>6, <1>7
<1> QED
  BY <1>8 DEF more, old, last

LEMMA PerformedPieces ==
  ASSUME NEW text
  PROVE  Performed(text) = FlattenSeq(Pieces(text))
BY Zenon DEF Performed, Pieces, Piece, Silent

LEMMA PerformedType ==
  ASSUME NEW text \in Seq(Tokens)
  PROVE  Performed(text) \in Seq(Actions)
BY PerformedPieces, PiecesType, FlattenType

LEMMA PerformedAppend ==
  ASSUME NEW text \in Seq(Tokens), NEW k \in Tokens
  PROVE  /\ k.name \in Silent => Performed(Append(text, k)) = Performed(text)
         /\ k.name \notin Silent =>
              Performed(Append(text, k)) =
                Performed(text) \o <<Guarded(Effect(k), GuardOfNext(text))>>
<1> DEFINE more == Append(text, k)
           n == Len(text)
           last == IF k.name \in Silent THEN <<>> ELSE <<Guarded(Effect(k), GuardOfNext(text))>>
<1>1. more \in Seq(Tokens) /\ more[Len(text) + 1] = k /\ Len(text) + 1 \in DOMAIN more
  OBVIOUS
<1>2. last \in Seq(Actions)
  <2>1. CASE k.name \in Silent
    BY <2>1
  <2>2. CASE k.name \notin Silent
    <3> DEFINE act == Guarded(Effect(k), GuardOfNext(text))
    <3>1. GuardOfNext(text) \in Nat \union {NoBit}
      <4>1. CASE Len(text) > 0 /\ text[Len(text)].name = "if"
        <5>1. text[Len(text)] \in Tokens
          BY <4>1
        <5> QED
          BY <4>1, <5>1, TokenFacts DEF GuardOfNext
      <4> QED
        BY <4>1 DEF GuardOfNext
    <3>2. act \in Actions
      BY <3>1 DEF Guarded, Actions, Effects
    <3>3. last = <<act>>
      BY <2>2
    <3> HIDE DEF act, last
    <3> QED
      BY <3>2, <3>3
  <2> QED
    BY <2>1, <2>2
<1>3. Pieces(more) = Append(Pieces(text), last)
  BY PiecesAppend
<1> HIDE DEF last, more
<1>4. FlattenSeq(Pieces(more)) = FlattenSeq(Pieces(text)) \o last
  BY <1>2, <1>3, PiecesType, FlattenAppend
<1>5. Performed(more) = Performed(text) \o last
  BY <1>4, PerformedPieces, Zenon
<1>6. Performed(text) \in Seq(Actions)
  BY PerformedType
<1>7. \A s \in Seq(Actions) : s \o <<>> = s
  BY SMT
<1> QED
  BY <1>5, <1>6, <1>7, Zenon DEF last, more

LEMMA TokenWritten ==
  ASSUME NEW text \in Seq(Tokens), NEW k \in Tokens
  PROVE  /\ Append(text, k) \in Seq(Tokens)
         /\ GuardOfNext(Append(text, k)) = IF k.name = "if" THEN k.c ELSE NoBit
<1> DEFINE more == Append(text, k)
<1>1. more \in Seq(Tokens) /\ Len(more) > 0 /\ more[Len(more)] = k
  OBVIOUS
<1> HIDE DEF more
<1>2. GuardOfNext(more) = IF k.name = "if" THEN k.c ELSE NoBit
  BY <1>1, Zenon DEF GuardOfNext
<1> QED
  BY <1>1, <1>2 DEF more

(* w is v with text added that performs the actions and ends in none of    *)
(* the ifs.                                                                *)
Performs(v, w, actions) ==
  /\ actions \in Seq(Actions)
  /\ GuardOfNext(w.native) = NoBit
  /\ Performed(w.native) = Performed(v.native) \o actions

LEMMA StatementPerforms ==
  ASSUME NEW text \in Seq(Tokens), NEW k, Statement(k)
  PROVE  /\ Append(text, k) \in Seq(Tokens)
         /\ GuardOfNext(Append(text, k)) = NoBit
         /\ <<Guarded(Effect(k), GuardOfNext(text))>> \in Seq(Actions)
         /\ Performed(Append(text, k)) =
              Performed(text) \o <<Guarded(Effect(k), GuardOfNext(text))>>
<1> DEFINE more == Append(text, k)
           guard == GuardOfNext(text)
           act == Guarded(Effect(k), guard)
<1>1. k \in Tokens /\ k.name \notin Silent /\ k.name # "if"
  BY DEF Statement, Silent
<1>2. guard \in Nat \union {NoBit}
  <2>1. CASE Len(text) > 0 /\ text[Len(text)].name = "if"
    <3>1. text[Len(text)] \in Tokens
      BY <2>1
    <3> QED
      BY <2>1, <3>1, TokenFacts DEF GuardOfNext
  <2> QED
    BY <2>1 DEF GuardOfNext
<1>3. act \in Actions
  BY <1>1, <1>2 DEF Guarded, Actions, Effects
<1>4. <<act>> \in Seq(Actions)
  <2> HIDE DEF act
  <2> QED
    BY <1>3
<1>5. Performed(more) = Performed(text) \o <<act>>
  BY <1>1, PerformedAppend
<1>6. more \in Seq(Tokens) /\ GuardOfNext(more) = NoBit
  <2>1. more \in Seq(Tokens) /\ GuardOfNext(more) = IF k.name = "if" THEN k.c ELSE NoBit
    BY <1>1, TokenWritten
  <2> QED
    BY <1>1, <2>1, Zenon
<1> QED
  BY <1>4, <1>5, <1>6

(* w is v with the statement k in both texts                               *)
Wrote(v, w, k) ==
  /\ w \in Visitors
  /\ w.native = Append(v.native, k)
  /\ w.operations = Append(v.operations, k)
  /\ w.classicalBitCounter = v.classicalBitCounter
  /\ w.qubitToClassicalBitIndex = v.qubitToClassicalBitIndex
  /\ Performs(v, w, <<Guarded(Effect(k), GuardOfNext(v.native))>>)

LEMMA WriteStatement ==
  ASSUME NEW v \in Visitors, NEW k, Statement(k)
  PROVE  Wrote(v, Write(v, <<k>>), k)
<1> DEFINE w == Write(v, <<k>>)
<1>1. k \in Tokens
  BY DEF Statement
<1>2. v.native \in Seq(Tokens) /\ v.operations \in Seq(Tokens)
  BY DEF Visitors
<1> HIDE DEF w
<1>3. <<k>> \in Seq(Tokens)
  BY <1>1
<1>4. /\ w \in Visitors
      /\ w.native = v.native \o <<k>>
      /\ w.operations = v.operations \o <<k>>
      /\ w.classicalBitCounter = v.classicalBitCounter
      /\ w.qubitToClassicalBitIndex = v.qubitToClassicalBitIndex
  BY <1>3, WriteExtends DEF w
<1>5. w.native = Append(v.native, k) /\ w.operations = Append(v.operations, k)
  BY <1>1, <1>2, <1>4
<1>6. /\ GuardOfNext(w.native) = NoBit
      /\ <<Guarded(Effect(k), GuardOfNext(v.native))>> \in Seq(Actions)
      /\ Performed(w.native) = Performed(v.native) \o <<Guarded(Effect(k), GuardOfNext(v.native))>>
  <2>1. /\ GuardOfNext(Append(v.native, k)) = NoBit
        /\ <<Guarded(Effect(k), GuardOfNext(v.native))>> \in Seq(Actions)
        /\ Performed(Append(v.native, k)) =
             Performed(v.native) \o <<Guarded(Effect(k), GuardOfNext(v.native))>>
    BY <1>2, StatementPerforms, Zenon
  <2> QED
    BY <1>5, <2>1, Zenon
<1> QED
  BY <1>4, <1>5, <1>6, Zenon DEF Performs, Wrote, w

LEMMA ThreeActions ==
  \A r, s, t \in Seq(Actions) : (r \o s) \o t = r \o (s \o t)
BY ConcatAssociative

LEMMA PerformsTwice ==
  ASSUME NEW u, NEW v, NEW w, NEW s, NEW t, u.native \in Seq(Tokens),
         Performs(u, v, s), Performs(v, w, t)
  PROVE  Performs(u, w, s \o t)
<1>1. Performed(u.native) \in Seq(Actions) /\ s \in Seq(Actions) /\ t \in Seq(Actions)
  BY PerformedType DEF Performs
<1>2. Performed(w.native) = (Performed(u.native) \o s) \o t
  BY Zenon DEF Performs
<1>3. s \o t \in Seq(Actions)
  BY <1>1
<1>4. (Performed(u.native) \o s) \o t = Performed(u.native) \o (s \o t)
  BY <1>1, ThreeActions, Zenon
<1> QED
  BY <1>2, <1>3, <1>4, Zenon DEF Performs

-----------------------------------------------------------------------------
(* A text without its declarations, one token more at a time.              *)
Bare(text) == [i \in DOMAIN text |-> IF text[i].name = "creg" THEN <<>> ELSE <<text[i]>>]

LEMMA BareAppend ==
  ASSUME NEW text \in Seq(Tokens), NEW k \in Tokens
  PROVE  /\ Bare(text) \in Seq(Seq(Tokens))
         /\ Bare(Append(text, k)) = Append(Bare(text), IF k.name = "creg" THEN <<>> ELSE <<k>>)
<1> DEFINE n == Len(text)
           more == Append(text, k)
           last == IF k.name = "creg" THEN <<>> ELSE <<k>>
           old == Bare(text)
           all == Append(old, last)
<1>1. /\ n \in Nat /\ DOMAIN text = 1..n /\ DOMAIN more = 1..(n + 1)
      /\ more[n + 1] = k /\ \A i \in 1..n : more[i] = text[i] /\ text[i] \in Tokens
  OBVIOUS
<1>2. \A t \in Tokens : <<>> \in Seq(Tokens) /\ <<t>> \in Seq(Tokens)
  BY SMT
<1>3. last \in Seq(Tokens)
  BY <1>2
<1>4. old = [i \in 1..n |-> IF text[i].name = "creg" THEN <<>> ELSE <<text[i]>>]
  BY <1>1, Zenon DEF Bare
<1>5. old \in Seq(Seq(Tokens)) /\ Len(old) = n
  <2>1. \A i \in 1..n : old[i] \in Seq(Tokens)
    BY <1>1, <1>2, <1>4
  <2>2. old = [i \in 1..n |-> old[i]]
    BY <1>4
  <2> HIDE DEF old
  <2>3. DOMAIN old = 1..n
    BY <2>2
  <2>4. old \in Seq(Seq(Tokens))
    BY <1>1, <2>1, <2>2, IsASeq
  <2> QED
    BY <1>1, <2>3, <2>4, LenProperties
<1> HIDE DEF n, more, last, old
<1>6. /\ all \in Seq(Seq(Tokens)) /\ Len(all) = n + 1 /\ all[n + 1] = last
      /\ \A i \in 1..n : all[i] = old[i]
  BY <1>1, <1>3, <1>5, AppendProperties
<1> HIDE DEF all
<1>7. all = [i \in 1..(n + 1) |-> all[i]]
  BY <1>6
<1>8. ASSUME NEW i \in 1..(n + 1)
      PROVE  all[i] = IF more[i].name = "creg" THEN <<>> ELSE <<more[i]>>
  <2>1. CASE i = n + 1
    BY <1>1, <1>6, <2>1 DEF last
  <2>2. CASE i # n + 1
    <3>1. i \in 1..n
      BY <1>1, <2>2
    <3>2. all[i] = old[i] /\ more[i] = text[i]
      BY <1>1, <1>6, <3>1
    <3>3. old[i] = IF text[i].name = "creg" THEN <<>> ELSE <<text[i]>>
      BY <1>4, <3>1
    <3> QED
      BY <3>2, <3>3
  <2> QED
    BY <2>1, <2>2
<1>9. Bare(more) = [i \in 1..(n + 1) |-> IF more[i].name = "creg" THEN <<>> ELSE <<more[i]>>]
  BY <1>1, Zenon DEF Bare
<1>10. Bare(more) = all
  BY <1>7, <1>8, <1>9
<1> QED
  BY <1>5, <1>10 DEF more, all, old, last

LEMMA WithoutAppend ==
  ASSUME NEW text \in Seq(Tokens), NEW k \in Tokens
  PROVE  /\ WithoutDeclarations(text) \in Seq(Tokens)
         /\ k.name = "creg" => WithoutDeclarations(Append(text, k)) = WithoutDeclarations(text)
         /\ k.name # "creg" =>
              WithoutDeclarations(Append(text, k)) = WithoutDeclarations(text) \o <<k>>
<1> DEFINE last == IF k.name = "creg" THEN <<>> ELSE <<k>>
           more == Append(text, k)
<1>1. last \in Seq(Tokens)
  OBVIOUS
<1>2. Bare(text) \in Seq(Seq(Tokens)) /\ Bare(more) = Append(Bare(text), last)
  BY BareAppend
<1>3. \A t : WithoutDeclarations(t) = FlattenSeq(Bare(t))
  BY Zenon DEF WithoutDeclarations, Bare
<1> HIDE DEF last, more
<1>4. WithoutDeclarations(text) \in Seq(Tokens)
  BY <1>2, <1>3, FlattenType
<1>5. WithoutDeclarations(more) = WithoutDeclarations(text) \o last
  <2>1. FlattenSeq(Bare(more)) = FlattenSeq(Bare(text)) \o last
    BY <1>1, <1>2, FlattenAppend
  <2> QED
    BY <1>3, <2>1, Zenon
<1>6. \A s \in Seq(Tokens) : s \o <<>> = s
  BY SMT
<1> QED
  BY <1>4, <1>5, <1>6, Zenon DEF last, more

(* Every token of the text is on qubits of B.                              *)
Within(text, B) == \A i \in DOMAIN text : \A b \in DOMAIN text[i].bits : text[i].bits[b] \in B
Agree(v) == v.operations = WithoutDeclarations(v.native)

LEMMA WithinAppend ==
  ASSUME NEW text \in Seq(Tokens), NEW k \in Tokens, NEW B,
         Within(text, B), \A b \in DOMAIN k.bits : k.bits[b] \in B
  PROVE  Within(Append(text, k), B)
<1> DEFINE more == Append(text, k)
<1>1. ASSUME NEW i \in DOMAIN more
      PROVE  (i \in DOMAIN text /\ more[i] = text[i]) \/ more[i] = k
  <2>1. /\ DOMAIN more = 1..(Len(text) + 1) /\ more[Len(text) + 1] = k /\ Len(text) \in Nat
        /\ DOMAIN text = 1..Len(text) /\ \A j \in 1..Len(text) : more[j] = text[j]
    OBVIOUS
  <2> HIDE DEF more
  <2>2. CASE i = Len(text) + 1
    BY <2>1, <2>2
  <2>3. CASE i # Len(text) + 1
    <3>1. i \in 1..Len(text)
      BY <2>1, <2>3
    <3> QED
      BY <2>1, <3>1
  <2> QED
    BY <2>2, <2>3
<1> HIDE DEF more
<1>2. Within(more, B)
  BY <1>1, Zenon DEF Within
<1> QED
  BY <1>2 DEF more

(* w is v with statements on the qubits of B in both texts                 *)
Quiet(v, w, B) ==
  /\ w \in Visitors
  /\ w.classicalBitCounter = v.classicalBitCounter
  /\ w.qubitToClassicalBitIndex = v.qubitToClassicalBitIndex
  /\ Agree(v) => Agree(w)
  /\ \A C : B \subseteq C /\ Within(v.native, C) => Within(w.native, C)

LEMMA QuietTwice ==
  ASSUME NEW u, NEW v, NEW w, NEW B, Quiet(u, v, B), Quiet(v, w, B)
  PROVE  Quiet(u, w, B)
BY Zenon DEF Quiet

LEMMA WriteQuiet ==
  ASSUME NEW v \in Visitors, NEW k, Statement(k), NEW B, \A b \in DOMAIN k.bits : k.bits[b] \in B
  PROVE  Quiet(v, Write(v, <<k>>), B)
<1> DEFINE w == Write(v, <<k>>)
<1>1. k \in Tokens /\ k.name # "creg"
  BY DEF Statement
<1>2. v.native \in Seq(Tokens) /\ v.operations \in Seq(Tokens)
  BY DEF Visitors
<1>3. /\ w \in Visitors
      /\ w.native = Append(v.native, k)
      /\ w.operations = Append(v.operations, k)
      /\ w.classicalBitCounter = v.classicalBitCounter
      /\ w.qubitToClassicalBitIndex = v.qubitToClassicalBitIndex
  BY WriteStatement, Zenon DEF Wrote
<1> HIDE DEF w
<1>4. ASSUME Agree(v)
      PROVE  Agree(w)
  <2>1. WithoutDeclarations(Append(v.native, k)) = WithoutDeclarations(v.native) \o <<k>>
    BY <1>1, <1>2, WithoutAppend
  <2>2. Append(v.operations, k) = v.operations \o <<k>>
    BY <1>1, <1>2
  <2> QED
    BY <1>3, <1>4, <2>1, <2>2, Zenon DEF Agree
<1>5. ASSUME NEW C, B \subseteq C, Within(v.native, C)
      PROVE  Within(w.native, C)
  <2>1. \A b \in DOMAIN k.bits : k.bits[b] \in C
    BY <1>1, <1>5, Zenon
  <2>2. Within(Append(v.native, k), C)
    BY <1>1, <1>2, <1>5, <2>1, WithinAppend
  <2> QED
    BY <1>3, <2>2, Zenon
<1> QED
  BY <1>3, <1>4, <1>5, Zenon DEF Quiet, w

-----------------------------------------------------------------------------
(* The visits of gates.                                                    *)
LEMMA PairOfQubits ==
  ASSUME NEW a \in Qubits, NEW b \in Qubits
  PROVE  <<a, b>> \in Seq(Qubits) /\ \A i \in DOMAIN <<a, b>> : <<a, b>>[i] \in {a, b}
OBVIOUS

LEMMA CNOTWrites ==
  ASSUME NEW v \in Visitors, NEW a \in Qubits, NEW b \in Qubits
  PROVE  /\ Wrote(v, visitCNOT(v, <<a, b>>), CNOTOn(<<a, b>>))
         /\ Quiet(v, visitCNOT(v, <<a, b>>), {a, b})
<1> DEFINE bits == <<a, b>>
           k == CNOTOn(bits)
<1>1. bits \in Seq(Qubits) /\ \A i \in DOMAIN bits : bits[i] \in {a, b}
  BY PairOfQubits
<1> HIDE DEF bits
<1>2. Statement(k) /\ k.bits = bits /\ visitCNOT(v, bits) = Write(v, <<k>>)
  BY <1>1, CNOTToken, CNOTWritten
<1> HIDE DEF k
<1>3. Wrote(v, visitCNOT(v, bits), k)
  BY <1>2, WriteStatement
<1>4. Quiet(v, visitCNOT(v, bits), {a, b})
  BY <1>1, <1>2, WriteQuiet
<1> QED
  BY <1>3, <1>4, Zenon DEF bits, k

LEMMA CNOTPerforms ==
  ASSUME NEW v \in Visitors, NEW a \in Qubits, NEW b \in Qubits, GuardOfNext(v.native) = NoBit
  PROVE  /\ visitCNOT(v, <<a, b>>) \in Visitors
         /\ GuardOfNext(visitCNOT(v, <<a, b>>).native) = NoBit
         /\ Performs(v, visitCNOT(v, <<a, b>>), <<Guarded(CNOTOn(<<a, b>>), NoBit)>>)
<1>1. Wrote(v, visitCNOT(v, <<a, b>>), CNOTOn(<<a, b>>))
  BY CNOTWrites
<1>2. <<a, b>> \in Seq(Qubits)
  OBVIOUS
<1>3. Effect(CNOTOn(<<a, b>>)) = CNOTOn(<<a, b>>)
  BY <1>2, CNOTToken
<1> QED
  BY <1>1, <1>3, Zenon DEF Wrote, Performs

LEMMA ThreeInOne ==
  ASSUME NEW x, NEW y
  PROVE  (<<x>> \o <<y>>) \o <<x>> = <<x, y, x>>
<1> DEFINE S == {x, y}
           one == <<x>>
           two == one \o <<y>>
           three == two \o one
           whole == <<x, y, x>>
<1>1. /\ one \in Seq(S) /\ <<y>> \in Seq(S) /\ whole \in Seq(S)
      /\ Len(one) = 1 /\ one[1] = x
  OBVIOUS
<1>2. two \in Seq(S) /\ Len(two) = 2 /\ two[1] = x /\ two[2] = y
  BY <1>1
<1> HIDE DEF one, two, S
<1>3. three \in Seq(S) /\ Len(three) = 3 /\ three[1] = x /\ three[2] = y /\ three[3] = x
  <2>1. /\ three \in Seq(S) /\ Len(three) = Len(two) + Len(one)
        /\ \A i \in 1..(Len(two) + Len(one)) :
             three[i] = IF i <= Len(two) THEN two[i] ELSE one[i - Len(two)]
    BY <1>1, <1>2, ConcatProperties, ZenonT(40)
  <2> HIDE DEF three
  <2>2. /\ three \in Seq(S) /\ Len(three) = 3
        /\ \A i \in 1..3 : three[i] = IF i <= 2 THEN two[i] ELSE one[i - 2]
    BY <1>1, <1>2, <2>1
  <2>3. three[1] = two[1] /\ three[2] = two[2] /\ three[3] = one[3 - 2]
    BY <2>2
  <2>4. 3 - 2 = 1
    OBVIOUS
  <2> QED
    BY <1>1, <1>2, <2>2, <2>3, <2>4
<1> HIDE DEF three
<1>4. Len(whole) = 3 /\ whole[1] = x /\ whole[2] = y /\ whole[3] = x
  OBVIOUS
<1> HIDE DEF whole
<1>5. \A i \in 1..Len(three) : three[i] = whole[i]
  BY <1>3, <1>4
<1>6. three = whole
  BY <1>1, <1>3, <1>4, <1>5, SeqEqual
<1> QED
  BY <1>6 DEF three, two, one, whole

LEMMA SwapWrites ==
  ASSUME NEW v \in Visitors, NEW a \in Qubits, NEW b \in Qubits, GuardOfNext(v.native) = NoBit
  PROVE  Performs(v, visitSwap(v, <<a, b>>),
                  <<Guarded(CNOTOn(<<a, b>>), NoBit),
                    Guarded(CNOTOn(<<b, a>>), NoBit),
                    Guarded(CNOTOn(<<a, b>>), NoBit)>>)
<1> DEFINE v1 == visitCNOT(v, <<a, b>>)
           v2 == visitCNOT(v1, <<b, a>>)
           v3 == visitCNOT(v2, <<a, b>>)
           ab == Guarded(CNOTOn(<<a, b>>), NoBit)
           ba == Guarded(CNOTOn(<<b, a>>), NoBit)
<1>1. visitSwap(v, <<a, b>>) = v3
  BY DEF visitSwap
<1>2. v1 \in Visitors /\ GuardOfNext(v1.native) = NoBit /\ Performs(v, v1, <<ab>>)
  BY CNOTPerforms, Zenon
<1> HIDE DEF v1
<1>3. v2 \in Visitors /\ GuardOfNext(v2.native) = NoBit /\ Performs(v1, v2, <<ba>>)
  BY <1>2, CNOTPerforms, Zenon
<1> HIDE DEF v2
<1>4. Performs(v2, v3, <<ab>>)
  BY <1>3, CNOTPerforms, Zenon
<1> HIDE DEF v3
<1>5. v.native \in Seq(Tokens) /\ v1.native \in Seq(Tokens)
  BY <1>2 DEF Visitors
<1> HIDE DEF ab, ba
<1>6. Performs(v, v2, <<ab>> \o <<ba>>)
  BY <1>2, <1>3, <1>5, PerformsTwice
<1>7. Performs(v, v3, (<<ab>> \o <<ba>>) \o <<ab>>)
  BY <1>4, <1>5, <1>6, PerformsTwice
<1>8. (<<ab>> \o <<ba>>) \o <<ab>> = <<ab, ba, ab>>
  BY ThreeInOne
<1>9. Performs(v, v3, <<ab, ba, ab>>)
  BY <1>7, <1>8
<1> QED
  BY <1>1, <1>9, Zenon DEF ab, ba

LEMMA SwapQuiet ==
  ASSUME NEW v \in Visitors, NEW a \in Qubits, NEW b \in Qubits
  PROVE  Quiet(v, visitSwap(v, <<a, b>>), {a, b})
<1> DEFINE v1 == visitCNOT(v, <<a, b>>)
           v2 == visitCNOT(v1, <<b, a>>)
           v3 == visitCNOT(v2, <<a, b>>)
<1>1. visitSwap(v, <<a, b>>) = v3
  BY DEF visitSwap
<1>2. {b, a} = {a, b}
  OBVIOUS
<1>3. v1 \in Visitors /\ Quiet(v, v1, {a, b})
  BY CNOTWrites, Zenon DEF Quiet
<1> HIDE DEF v1
<1>4. v2 \in Visitors /\ Quiet(v1, v2, {a, b})
  <2>1. Quiet(v1, v2, {b, a})
    BY <1>3, CNOTWrites, Zenon
  <2> QED
    BY <1>2, <2>1 DEF Quiet
<1> HIDE DEF v2
<1>5. Quiet(v2, v3, {a, b})
  BY <1>4, CNOTWrites, Zenon
<1> HIDE DEF v3
<1> QED
  BY <1>1, <1>3, <1>4, <1>5, QuietTwice, Zenon

LEMMA GateVisit ==
  ASSUME NEW v \in Visitors, NEW inst \in Elementary, inst.op \in Gates
  PROVE  /\ visitElementary(v, inst) = visitGate(v, inst)
         /\ Wrote(v, visitGate(v, inst), GateOn(NativeGates[inst.op], <<inst.bits[1]>>))
         /\ Quiet(v, visitGate(v, inst), {inst.bits[1]})
<1> DEFINE bits == <<inst.bits[1]>>
           k == GateOn(NativeGates[inst.op], bits)
<1>1. inst.op \notin {"Measure", "CNOT", "Swap", "CPhase", "CZ"}
  BY DEF Gates
<1>2. visitElementary(v, inst) = visitGate(v, inst)
  BY <1>1 DEF visitElementary
<1>3. inst.bits[1] \in Qubits
  BY ElementaryFacts
<1>4. bits \in Seq(Qubits) /\ \A i \in DOMAIN bits : bits[i] \in {inst.bits[1]}
  BY <1>3
<1>5. visitGate(v, inst) = Write(v, <<k>>)
  BY <1>3, GateWritten
<1> HIDE DEF bits
<1>6. Statement(k) /\ k.bits = bits
  BY <1>4, GateToken
<1> HIDE DEF k
<1>7. Wrote(v, visitGate(v, inst), k)
  BY <1>5, <1>6, WriteStatement
<1>8. Quiet(v, visitGate(v, inst), {inst.bits[1]})
  BY <1>4, <1>5, <1>6, WriteQuiet
<1> QED
  BY <1>2, <1>7, <1>8, Zenon DEF bits, k

LEMMA CNOTVisit ==
  ASSUME NEW v, NEW inst \in Elementary, inst.op \in {"CNOT", "Swap"}
  PROVE  /\ inst.bits[1] \in Qubits /\ inst.bits[2] \in Qubits
         /\ inst.bits = <<inst.bits[1], inst.bits[2]>>
         /\ inst.op = "CNOT" =>
              visitElementary(v, inst) = visitCNOT(v, <<inst.bits[1], inst.bits[2]>>)
         /\ inst.op = "Swap" =>
              visitElementary(v, inst) = visitSwap(v, <<inst.bits[1], inst.bits[2]>>)
<1>1. inst.bits[1] \in Qubits /\ inst.bits[2] \in Qubits
      /\ inst.bits = <<inst.bits[1], inst.bits[2]>>
  BY ElementaryFacts
<1>2. inst.op = "CNOT" => visitElementary(v, inst) = visitCNOT(v, inst.bits)
  BY SMT DEF visitElementary
<1>3. inst.op = "Swap" => visitElementary(v, inst) = visitSwap(v, inst.bits)
  BY SMT DEF visitElementary
<1> QED
  BY <1>1, <1>2, <1>3, Zenon

(* A gate does what it means, in a text that ends in no `if`.              *)
LEMMA ElementaryPerforms ==
  ASSUME NEW v \in Visitors, NEW inst \in Elementary,
         inst.op \in (Gates \ {"Y"}) \union {"CNOT", "Swap"},
         GuardOfNext(v.native) = NoBit, NEW register
  PROVE  Performs(v, visitElementary(v, inst), Meaning(inst, register, NoBit))
<1>1. CASE inst.op \in Gates \ {"Y"}
  <2> DEFINE k == GateOn(NativeGates[inst.op], <<inst.bits[1]>>)
  <2>1. inst.op \notin {"Measure", "CNOT", "Swap", "CPhase", "CZ"}
    BY <1>1 DEF Gates
  <2>2. Meaning(inst, register, NoBit) =
          <<Guarded(Rotation(EulerAngles[inst.op], <<inst.bits[1]>>), NoBit)>>
    BY <2>1, Zenon DEF Meaning
  <2>3. Wrote(v, visitElementary(v, inst), k)
    BY <1>1, GateVisit, Zenon
  <2>4. Effect(k) = Rotation(EulerAngles[inst.op], <<inst.bits[1]>>)
    BY <1>1, EffectOfGate
  <2> QED
    BY <2>2, <2>3, <2>4, Zenon DEF Wrote
<1>2. CASE inst.op = "CNOT"
  <2>1. Meaning(inst, register, NoBit) =
          <<Guarded(CNOTOn(<<inst.bits[1], inst.bits[2]>>), NoBit)>>
    BY <1>2 DEF Meaning
  <2>2. Wrote(v, visitElementary(v, inst), CNOTOn(<<inst.bits[1], inst.bits[2]>>))
    BY <1>2, CNOTVisit, CNOTWrites
  <2>3. inst.bits[1] \in Qubits /\ inst.bits[2] \in Qubits
    BY <1>2, CNOTVisit
  <2> DEFINE bits == <<inst.bits[1], inst.bits[2]>>
  <2>4. Effect(CNOTOn(bits)) = CNOTOn(bits)
    <3>1. bits \in Seq(Qubits)
      BY <2>3
    <3> QED
      BY <3>1, CNOTToken
  <2> QED
    BY <2>1, <2>2, <2>4, Zenon DEF Wrote
<1>3. CASE inst.op = "Swap"
  <2> DEFINE a == inst.bits[1]
             b == inst.bits[2]
  <2>1. Meaning(inst, register, NoBit) =
          <<Guarded(CNOTOn(<<a, b>>), NoBit), Guarded(CNOTOn(<<b, a>>), NoBit),
            Guarded(CNOTOn(<<a, b>>), NoBit)>>
    BY <1>3, SMT DEF Meaning
  <2>2. a \in Qubits /\ b \in Qubits /\ visitElementary(v, inst) = visitSwap(v, <<a, b>>)
    BY <1>3, CNOTVisit
  <2> HIDE DEF a, b
  <2> QED
    BY <2>1, <2>2, SwapWrites, Zenon
<1> QED
  BY <1>1, <1>2, <1>3

LEMMA ElementaryQuiet ==
  ASSUME NEW v \in Visitors, NEW inst \in Elementary, inst.op # "Measure"
  PROVE  Quiet(v, visitElementary(v, inst), {inst.bits[1], inst.bits[2]})
<1> DEFINE B == {inst.bits[1], inst.bits[2]}
<1>1. CASE inst.op \in Gates
  <2>1. Quiet(v, visitElementary(v, inst), {inst.bits[1]})
    BY <1>1, GateVisit, Zenon
  <2>2. \A C : B \subseteq C => {inst.bits[1]} \subseteq C
    OBVIOUS
  <2> HIDE DEF B
  <2>3. Quiet(v, visitElementary(v, inst), B)
    BY <2>1, <2>2, Zenon DEF Quiet
  <2> QED
    BY <2>3 DEF B
<1>2. CASE inst.op = "CNOT"
  <2>1. /\ inst.bits[1] \in Qubits /\ inst.bits[2] \in Qubits
        /\ visitElementary(v, inst) = visitCNOT(v, <<inst.bits[1], inst.bits[2]>>)
    BY <1>2, CNOTVisit
  <2> QED
    BY <2>1, CNOTWrites
<1>3. CASE inst.op = "Swap"
  <2>1. /\ inst.bits[1] \in Qubits /\ inst.bits[2] \in Qubits
        /\ visitElementary(v, inst) = visitSwap(v, <<inst.bits[1], inst.bits[2]>>)
    BY <1>3, CNOTVisit
  <2> QED
    BY <2>1, SwapQuiet
<1>4. CASE inst.op \in {"CPhase", "CZ"}
  <2>1. visitElementary(v, inst) = v
    BY <1>4 DEF visitElementary
  <2> QED
    BY <2>1, Zenon DEF Quiet
<1> QED
  BY <1>1, <1>2, <1>3, <1>4, ElementaryFacts

-----------------------------------------------------------------------------
(* What a kernel means does not change with the instructions that follow.  *)
LEMMA KernelGrows ==
  ASSUME kernel \in Seq(Instructions), NEW inst \in Instructions, kernel' = Append(kernel, inst)
  PROVE  /\ Len(kernel) \in Nat
         /\ DOMAIN kernel = 1..Len(kernel)
         /\ kernel' \in Seq(Instructions)
         /\ Len(kernel') = Len(kernel) + 1
         /\ DOMAIN kernel' = 1..(Len(kernel) + 1)
         /\ kernel'[Len(kernel) + 1] = inst
         /\ \A i \in 1..Len(kernel) : kernel'[i] = kernel[i]
OBVIOUS

MeasuredBefore(i) == {j \in 1..(i - 1) : IsMeasure(kernel[j])}

LEMMA RegisterType ==
  ASSUME NEW i \in Nat
  PROVE  /\ IsFiniteSet(MeasuredBefore(i))
         /\ RegisterOf(i) = Cardinality(MeasuredBefore(i))
         /\ RegisterOf(i) \in Nat
         /\ \A q : IsFiniteSet(Measurements(i, q))
<1>1. IsFiniteSet(1..(i - 1))
  BY FS_Interval
<1>2. IsFiniteSet(MeasuredBefore(i))
  <2>1. MeasuredBefore(i) \in SUBSET (1..(i - 1))
    BY Zenon DEF MeasuredBefore
  <2> QED
    BY <1>1, <2>1, FS_Subset, Zenon
<1>3. RegisterOf(i) = Cardinality(MeasuredBefore(i))
  BY Zenon DEF RegisterOf, MeasuredBefore
<1>4. ASSUME NEW q
      PROVE  IsFiniteSet(Measurements(i, q))
  <2>1. Measurements(i, q) \in SUBSET (1..(i - 1))
    BY Zenon DEF Measurements
  <2> QED
    BY <1>1, <2>1, FS_Subset, Zenon
<1> QED
  BY <1>2, <1>3, <1>4, FS_CardinalityType, Zenon

LEMMA RegisterKept ==
  ASSUME kernel \in Seq(Instructions), NEW inst \in Instructions, kernel' = Append(kernel, inst)
  PROVE  /\ \A i \in 1..(Len(kernel) + 1) : RegisterOf(i)' = RegisterOf(i)
         /\ \A i \in 1..(Len(kernel) + 1) : \A q : Measurements(i, q)' = Measurements(i, q)
         /\ RegisterOf(Len(kernel) + 1)' =
              IF IsMeasure(inst) THEN RegisterOf(Len(kernel) + 1) + 1
              ELSE RegisterOf(Len(kernel) + 1)
<1>n. PICK n \in Nat : n = Len(kernel)
  BY KernelGrows
<1>1. /\ kernel'[n + 1] = inst /\ Len(kernel') = n + 1
      /\ \A i \in 1..n : kernel'[i] = kernel[i]
  BY <1>n, KernelGrows
<1>2. \A i \in 1..(n + 1) : \A j \in 1..(i - 1) : kernel'[j] = kernel[j]
  <2>1. \A i \in 1..(n + 1) : \A j \in 1..(i - 1) : j \in 1..n
    BY <1>1
  <2> QED
    BY <1>1, <2>1, Zenon
<1>3. ASSUME NEW i \in 1..(n + 1)
      PROVE  /\ RegisterOf(i)' = RegisterOf(i)
             /\ \A q : Measurements(i, q)' = Measurements(i, q)
  <2>1. {j \in 1..(i - 1) : IsMeasure(kernel'[j])} = {j \in 1..(i - 1) : IsMeasure(kernel[j])}
    BY <1>2, Zenon
  <2>2. RegisterOf(i)' = RegisterOf(i)
    BY <2>1, Zenon DEF RegisterOf, IsMeasure
  <2>3. ASSUME NEW q
        PROVE  Measurements(i, q)' = Measurements(i, q)
    <3>1. {j \in 1..(i - 1) : IsMeasure(kernel'[j]) /\ kernel'[j].bits[1] = q} =
            {j \in 1..(i - 1) : IsMeasure(kernel[j]) /\ kernel[j].bits[1] = q}
      BY <1>2, Zenon
    <3> QED
      BY <3>1, Zenon DEF Measurements, IsMeasure
  <2> QED
    BY <2>2, <2>3
<1>4. RegisterOf(n + 2)' = 
        IF IsMeasure(inst) THEN RegisterOf(n + 1) + 1 ELSE RegisterOf(n + 1)
  <2> DEFINE Old == MeasuredBefore(n + 1)
             New == {j \in 1..((n + 2) - 1) : IsMeasure(kernel'[j])}
  <2>1. IsFiniteSet(Old) /\ RegisterOf(n + 1) = Cardinality(Old) /\ n + 1 \notin Old
    <3>1. n + 1 \in Nat /\ n + 1 \notin 1..((n + 1) - 1)
      BY <1>1
    <3> QED
      BY <3>1, RegisterType, Zenon DEF MeasuredBefore
  <2>2. RegisterOf(n + 2)' = Cardinality(New)
    BY Zenon DEF RegisterOf, IsMeasure
  <2>3. /\ \A j : j \in 1..((n + 2) - 1) <=> j \in 1..((n + 1) - 1) \/ j = n + 1
        /\ \A j \in 1..((n + 1) - 1) : j \in 1..n
    BY <1>1
  <2>4. New = IF IsMeasure(inst) THEN Old \union {n + 1} ELSE Old
    BY <1>1, <2>3, Zenon DEF MeasuredBefore
  <2> HIDE DEF Old, New
  <2>5. Cardinality(Old \union {n + 1}) = Cardinality(Old) + 1
    BY <2>1, FS_AddElement
  <2> QED
    BY <2>1, <2>2, <2>4, <2>5, Zenon
<1>5. RegisterOf(Len(kernel) + 1)' = RegisterOf(n + 2)'
  <2>1. Len(kernel') + 1 = n + 2
    BY <1>1
  <2> QED
    BY <2>1, Zenon DEF RegisterOf
<1> QED
  BY <1>n, <1>3, <1>4, <1>5, Zenon

-----------------------------------------------------------------------------
(* The register a qubit gets is the one of its first measurement, unless   *)
(* a conditional asked for it before.                                      *)
FirstUse(j) ==
  /\ IsMeasure(kernel[j])
  /\ \A k \in 1..(j - 1) : kernel[k].bits[1] = kernel[j].bits[1] =>
       ~IsMeasure(kernel[k]) /\ kernel[k].op # "if"

Index == visitor.qubitToClassicalBitIndex

Known(q) == \E j \in 1..Len(kernel) :
              kernel[j].bits[1] = q /\ (IsMeasure(kernel[j]) \/ kernel[j].op = "if")

Indexed(j) == kernel[j].bits[1] \in DOMAIN Index /\ Index[kernel[j].bits[1]] = RegisterOf(j)

IndexInv ==
  /\ visitor.classicalBitCounter = RegisterOf(Len(kernel) + 1)
  /\ \A q \in DOMAIN Index : Known(q)
  /\ \A j \in 1..Len(kernel) : FirstUse(j) => Indexed(j)

LEMMA IndexInit == Init => IndexInv
<1> SUFFICES ASSUME Init
             PROVE  IndexInv
  OBVIOUS
<1>1. Len(kernel) = 0 /\ visitor.classicalBitCounter = 0 /\ DOMAIN Index = {}
  BY DEF Init, NewVisitor, Index
<1>2. MeasuredBefore(1) = {}
  BY DEF MeasuredBefore
<1>3. RegisterOf(1) = 0
  BY <1>2, RegisterType, FS_EmptySet
<1> QED
  BY <1>1, <1>3 DEF IndexInv

(* A visit that leaves the registers alone.                                *)
LEMMA IndexKept ==
  ASSUME kernel \in Seq(Instructions), IndexInv, NEW inst \in Instructions,
         kernel' = Append(kernel, inst), ~IsMeasure(inst),
         visitor'.classicalBitCounter = visitor.classicalBitCounter,
         \/ Index' = Index
         \/ /\ inst.op = "if"
            /\ Index' = [r \in DOMAIN Index \union {inst.bits[1]} |->
                           IF r = inst.bits[1] THEN ClassicalBitIdx(visitor, inst.bits[1])
                           ELSE Index[r]]
  PROVE  IndexInv'
<1>n. PICK n \in Nat : n = Len(kernel)
  BY KernelGrows
<1>1. /\ kernel'[n + 1] = inst /\ Len(kernel') = n + 1
      /\ \A i \in 1..n : kernel'[i] = kernel[i]
  BY <1>n, KernelGrows
<1>2. /\ \A i \in 1..(n + 1) : RegisterOf(i)' = RegisterOf(i)
      /\ RegisterOf(Len(kernel) + 1)' = RegisterOf(Len(kernel) + 1)
  BY <1>n, RegisterKept
<1>3. /\ n + 1 \in 1..(n + 1)
      /\ \A j \in 1..(n + 1) : j \in 1..n \/ j = n + 1
      /\ \A j \in 1..n : j \in 1..(n + 1)
  BY <1>1
<1>4. (visitor.classicalBitCounter = RegisterOf(Len(kernel) + 1))'
  BY <1>2, Zenon DEF IndexInv
<1>5. /\ DOMAIN Index \subseteq DOMAIN Index'
      /\ \A r \in DOMAIN Index : Index'[r] = Index[r]
      /\ \A r \in DOMAIN Index' : r \in DOMAIN Index \/ (inst.op = "if" /\ r = inst.bits[1])
  <2>1. CASE Index' = Index
    <3> HIDE DEF Index
    <3> QED
      BY <2>1
  <2>2. CASE /\ inst.op = "if"
             /\ Index' = [r \in DOMAIN Index \union {inst.bits[1]} |->
                            IF r = inst.bits[1] THEN ClassicalBitIdx(visitor, inst.bits[1])
                            ELSE Index[r]]
    <3>1. inst.bits[1] \in DOMAIN Index =>
            ClassicalBitIdx(visitor, inst.bits[1]) = Index[inst.bits[1]]
      BY Zenon DEF ClassicalBitIdx, Index
    <3> HIDE DEF Index
    <3>2. DOMAIN Index' = DOMAIN Index \union {inst.bits[1]}
      BY <2>2
    <3>3. \A r \in DOMAIN Index' :
            Index'[r] = IF r = inst.bits[1] THEN ClassicalBitIdx(visitor, inst.bits[1])
                        ELSE Index[r]
      BY <2>2, <3>2
    <3> QED
      BY <2>2, <3>1, <3>2, <3>3
  <2> QED
    BY <2>1, <2>2
<1>6. ASSUME NEW q \in DOMAIN Index'
      PROVE  Known(q)'
  <2>1. CASE q \in DOMAIN Index
    <3>1. PICK j \in 1..n : kernel[j].bits[1] = q /\ (IsMeasure(kernel[j]) \/ kernel[j].op = "if")
      BY <1>n, <2>1, Zenon DEF IndexInv, Known
    <3>2. j \in 1..Len(kernel') /\ kernel'[j] = kernel[j]
      BY <1>1, <1>3, <3>1
    <3> QED
      BY <3>1, <3>2, Zenon DEF Known, IsMeasure
  <2>2. CASE inst.op = "if" /\ q = inst.bits[1]
    <3>1. n + 1 \in 1..Len(kernel')
      BY <1>1, <1>3
    <3> QED
      BY <1>1, <2>2, <3>1, Zenon DEF Known
  <2> QED
    BY <1>5, <2>1, <2>2
<1>7. ASSUME NEW j \in 1..(n + 1), FirstUse(j)'
      PROVE  Indexed(j)'
  <2>1. IsMeasure(kernel'[j])
    BY <1>7, Zenon DEF FirstUse, IsMeasure
  <2>2. j \in 1..n /\ kernel'[j] = kernel[j]
    BY <1>1, <1>3, <2>1
  <2>3. FirstUse(j)
    <3>1. \A k \in 1..(j - 1) : kernel'[k] = kernel[k]
      BY <1>1, <2>2
    <3> QED
      BY <1>7, <2>2, <3>1, ZenonT(40) DEF FirstUse, IsMeasure
  <2>4. Indexed(j)
    BY <1>n, <2>2, <2>3, Zenon DEF IndexInv
  <2> QED
    BY <1>2, <1>5, <2>2, <2>4, Zenon DEF Indexed
<1>8. Len(kernel') = n + 1
  BY <1>1
<1> HIDE DEF Index
<1> QED
  BY <1>4, <1>6, <1>7, <1>8, Zenon DEF IndexInv

LEMMA IndexMeasured ==
  ASSUME kernel \in Seq(Instructions), IndexInv, NEW inst \in Instructions,
         kernel' = Append(kernel, inst), IsMeasure(inst),
         visitor'.classicalBitCounter = visitor.classicalBitCounter + 1,
         Index' = [r \in DOMAIN Index \union {inst.bits[1]} |->
                     IF r \in DOMAIN Index THEN Index[r] ELSE visitor.classicalBitCounter]
  PROVE  IndexInv'
<1>n. PICK n \in Nat : n = Len(kernel)
  BY KernelGrows
<1>q. PICK q : q = inst.bits[1]
  OBVIOUS
<1>1. /\ kernel'[n + 1] = inst /\ Len(kernel') = n + 1
      /\ \A i \in 1..n : kernel'[i] = kernel[i]
  BY <1>n, KernelGrows
<1>2. /\ \A i \in 1..(n + 1) : RegisterOf(i)' = RegisterOf(i)
      /\ RegisterOf(Len(kernel) + 1)' = RegisterOf(Len(kernel) + 1) + 1
  BY <1>n, RegisterKept
<1>3. /\ n + 1 \in 1..(n + 1)
      /\ \A j \in 1..(n + 1) : j \in 1..n \/ j = n + 1
      /\ \A j \in 1..n : j \in 1..(n + 1)
  OBVIOUS
<1>4. (visitor.classicalBitCounter = RegisterOf(Len(kernel) + 1))'
  BY <1>2, Zenon DEF IndexInv
<1>5. /\ DOMAIN Index' = DOMAIN Index \union {q}
      /\ \A r \in DOMAIN Index : Index'[r] = Index[r]
      /\ q \notin DOMAIN Index => Index'[q] = visitor.classicalBitCounter
  <2> HIDE DEF Index
  <2> QED
    BY <1>q
<1>6. ASSUME NEW r \in DOMAIN Index'
      PROVE  Known(r)'
  <2>1. CASE r \in DOMAIN Index
    <3>1. PICK j \in 1..n : kernel[j].bits[1] = r /\ (IsMeasure(kernel[j]) \/ kernel[j].op = "if")
      BY <1>n, <2>1, Zenon DEF IndexInv, Known
    <3>2. j \in 1..Len(kernel') /\ kernel'[j] = kernel[j]
      BY <1>1, <1>3, <3>1
    <3> QED
      BY <3>1, <3>2, Zenon DEF Known, IsMeasure
  <2>2. CASE r = q
    <3>1. n + 1 \in 1..Len(kernel')
      BY <1>1, <1>3
    <3> QED
      BY <1>q, <1>1, <2>2, <3>1, Zenon DEF Known, IsMeasure
  <2> QED
    BY <1>5, <2>1, <2>2
<1>7. ASSUME NEW j \in 1..(n + 1), FirstUse(j)'
      PROVE  Indexed(j)'
  <2>1. CASE j \in 1..n
    <3>1. FirstUse(j)
      <4>1. \A k \in 1..(j - 1) : kernel'[k] = kernel[k]
        BY <1>1, <2>1
      <4> QED
        BY <1>1, <1>7, <2>1, <4>1, ZenonT(40) DEF FirstUse, IsMeasure
    <3>2. Indexed(j)
      BY <1>n, <2>1, <3>1, Zenon DEF IndexInv
    <3>3. kernel'[j] = kernel[j] /\ RegisterOf(j)' = RegisterOf(j)
      BY <1>1, <1>2, <2>1
    <3>4. kernel[j].bits[1] \in DOMAIN Index'
      BY <1>5, <3>2 DEF Indexed
    <3> QED
      BY <1>5, <3>2, <3>3, <3>4, Zenon DEF Indexed
  <2>2. CASE j = n + 1
    <3>1. q \notin DOMAIN Index
      <4>1. ASSUME q \in DOMAIN Index
            PROVE  FALSE
        <5>1. PICK k \in 1..n :
                kernel[k].bits[1] = q /\ (IsMeasure(kernel[k]) \/ kernel[k].op = "if")
          BY <1>n, <4>1, Zenon DEF IndexInv, Known
        <5>2. k \in 1..(j - 1) /\ kernel'[k] = kernel[k]
          BY <1>1, <2>2, <5>1
        <5>3. kernel'[j].bits[1] = q
          BY <1>q, <1>1, <2>2
        <5> QED
          BY <1>7, <5>1, <5>2, <5>3, Zenon DEF FirstUse, IsMeasure
      <4> QED
        BY <4>1
    <3>2. kernel'[j].bits[1] = q /\ q \in DOMAIN Index'
      BY <1>q, <1>1, <1>5, <2>2
    <3>3. Index'[q] = RegisterOf(n + 1)
      BY <1>n, <1>5, <3>1, Zenon DEF IndexInv
    <3>4. RegisterOf(j)' = RegisterOf(n + 1)
      BY <1>2, <2>2
    <3> QED
      BY <3>2, <3>3, <3>4, Zenon DEF Indexed
  <2> QED
    BY <1>3, <2>1, <2>2
<1> HIDE DEF Index
<1> QED
  BY <1>1, <1>4, <1>6, <1>7, Zenon DEF IndexInv

(* A step hands out no instruction, or one that is passed over or visited; *)
(* the instructions of an analog kernel never reach this visitor.          *)
LEMMA StepCases ==
  ASSUME VisitorInv, Step
  PROVE  \/ UNCHANGED <<kernel, visitor, supports>> /\ (failed' = failed \/ failed' = TRUE)
         \/ \E inst \in Instructions :
              /\ kernel' = Append(kernel, inst) /\ Len(kernel) < MaxLength /\ ~failed
              /\ \/ ~inst.enabled /\ UNCHANGED <<visitor, supports, failed>>
                 \/ failed' = TRUE /\ UNCHANGED <<visitor, supports>>
                    /\ inst.enabled /\ Unsupported(inst)
                 \/ Visit(inst) /\ inst.enabled
<1>1. CASE [Next]_vars
  <2>1. CASE UNCHANGED vars
    BY <2>1, Zenon DEF vars
  <2>2. CASE Next
    BY <2>2, Zenon DEF Next, Skip, Reject, Visit, Turn
  <2> QED
    BY <1>1, <2>1, <2>2
<1> QED
  BY <1>1, Zenon DEF Step

LEMMA UnsupportedFacts ==
  ASSUME NEW inst, Unsupported(inst)
  PROVE  inst.op \in {"CZ", "if"}
BY DEF Unsupported

LEMMA IndexNext ==
  ASSUME VisitorInv, IndexInv, Step
  PROVE  IndexInv'
<1>1. CASE UNCHANGED <<kernel, visitor>>
  <2>1. kernel' = kernel /\ visitor' = visitor
    BY <1>1
  <2>2. /\ \A i : RegisterOf(i)' = RegisterOf(i)
        /\ RegisterOf(Len(kernel) + 1)' = RegisterOf(Len(kernel) + 1)
    BY <2>1, Zenon DEF RegisterOf, IsMeasure
  <2>3. Index' = Index
    BY <2>1, Zenon DEF Index
  <2>4. \A q : Known(q) => Known(q)'
    BY <2>1, Zenon DEF Known, IsMeasure
  <2>5. \A j : FirstUse(j)' => FirstUse(j)
    BY <2>1, Zenon DEF FirstUse, IsMeasure
  <2>6. \A j : Indexed(j) => Indexed(j)'
    BY <2>1, <2>2, <2>3, Zenon DEF Indexed
  <2> HIDE DEF Index
  <2> QED
    BY <2>1, <2>2, <2>3, <2>4, <2>5, <2>6, Zenon DEF IndexInv
<1>2. ASSUME NEW inst \in Instructions, kernel' = Append(kernel, inst), ~IsMeasure(inst),
             UNCHANGED visitor
      PROVE  IndexInv'
  <2>1. Index' = Index /\ visitor'.classicalBitCounter = visitor.classicalBitCounter
    BY <1>2, Zenon DEF Index
  <2>2. kernel \in Seq(Instructions)
    BY DEF VisitorInv
  <2> QED
    BY <1>2, <2>1, <2>2, IndexKept, Zenon
<1>3. ASSUME NEW inst \in Instructions, Visit(inst), inst.enabled
      PROVE  IndexInv'
  <2>1. /\ kernel' = Append(kernel, inst) /\ visitor' = accept(visitor, inst)
        /\ visitor \in Visitors /\ kernel \in Seq(Instructions)
    BY <1>3, Zenon DEF Visit, Turn, VisitorInv
  <2>2. CASE inst.op = "Measure"
    <3>1. visitor' = visitMeasure(visitor, inst.bits[1]) /\ inst.bits[1] \in Qubits
      BY <2>1, <2>2, InstructionFacts DEF accept, visitElementary
    <3>2. /\ visitor'.classicalBitCounter = visitor.classicalBitCounter + 1
          /\ Index' = [r \in DOMAIN Index \union {inst.bits[1]} |->
                         IF r \in DOMAIN Index THEN Index[r] ELSE visitor.classicalBitCounter]
      BY <2>1, <3>1, MeasureVisit, Zenon DEF Index
    <3>3. IsMeasure(inst)
      BY <1>3, <2>2 DEF IsMeasure
    <3> HIDE DEF Index
    <3> QED
      BY <2>1, <3>2, <3>3, IndexMeasured, Zenon
  <2>3. CASE inst.op = "if"
    <3>1. visitor' = visitConditional(visitor, inst) /\ ~IsMeasure(inst)
      BY <2>1, <2>3 DEF accept, IsMeasure
    <3>2. /\ visitor'.classicalBitCounter = visitor.classicalBitCounter
          /\ Index' = [r \in DOMAIN Index \union {inst.bits[1]} |->
                         IF r = inst.bits[1] THEN ClassicalBitIdx(visitor, inst.bits[1])
                         ELSE Index[r]]
      <4>1. /\ visitConditional(visitor, inst).classicalBitCounter = visitor.classicalBitCounter
            /\ visitConditional(visitor, inst).qubitToClassicalBitIndex =
                 [r \in DOMAIN visitor.qubitToClassicalBitIndex \union {inst.bits[1]} |->
                    IF r = inst.bits[1] THEN ClassicalBitIdx(visitor, inst.bits[1])
                    ELSE visitor.qubitToClassicalBitIndex[r]]
        BY <2>1, <2>3, ConditionalVisit
      <4> QED
        BY <3>1, <4>1, Zenon DEF Index
    <3> HIDE DEF Index
    <3> QED
      BY <2>1, <2>3, <3>1, <3>2, IndexKept, Zenon
  <2>4. CASE inst.op = "GateFunction"
    <3>1. visitor' = visitor /\ ~IsMeasure(inst)
      BY <2>1, <2>4 DEF accept, IsMeasure
    <3> QED
      BY <1>2, <2>1, <3>1
  <2>5. CASE inst.op \notin Composites /\ inst.op # "Measure"
    <3>1. inst \in Elementary /\ visitor' = visitElementary(visitor, inst) /\ ~IsMeasure(inst)
      BY <2>1, <2>5, InstructionFacts DEF accept, Composites, IsMeasure
    <3>2. Quiet(visitor, visitor', {inst.bits[1], inst.bits[2]})
      BY <2>1, <2>5, <3>1, ElementaryQuiet
    <3>3. /\ visitor'.classicalBitCounter = visitor.classicalBitCounter
          /\ Index' = Index
      BY <3>2, Zenon DEF Quiet, Index
    <3> HIDE DEF Index
    <3> QED
      BY <2>1, <3>1, <3>3, IndexKept, Zenon
  <2> QED
    BY <2>2, <2>3, <2>4, <2>5 DEF Composites
<1>4. ASSUME NEW inst \in Instructions, ~inst.enabled \/ Unsupported(inst)
      PROVE  ~IsMeasure(inst)
  BY <1>4, UnsupportedFacts DEF IsMeasure
<1> QED
  BY <1>1, <1>2, <1>3, <1>4, StepCases

-----------------------------------------------------------------------------
(* The text of a conditional over one gate guards that gate.               *)
LEMMA BodyToken ==
  ASSUME NEW g \in Elementary, g.op \in (Gates \ {"Y"}) \union {"CNOT"}
  PROVE  \E k : /\ Statement(k)
                /\ \A v \in Visitors : Wrote(v, visitElementary(v, g), k)
                /\ \A guard, register :
                     Meaning(g, register, guard) = <<Guarded(Effect(k), guard)>>
<1>1. CASE g.op = "CNOT"
  <2> DEFINE bits == <<g.bits[1], g.bits[2]>>
             k == CNOTOn(bits)
  <2>1. g.bits[1] \in Qubits /\ g.bits[2] \in Qubits
    BY <1>1, ElementaryFacts
  <2>2. bits \in Seq(Qubits)
    BY <2>1
  <2>3. Statement(k) /\ Effect(k) = k
    BY <2>2, CNOTToken
  <2>4. ASSUME NEW v \in Visitors
        PROVE  Wrote(v, visitElementary(v, g), k)
    <3>1. visitElementary(v, g) = visitCNOT(v, bits)
      BY <1>1, CNOTVisit
    <3> QED
      BY <2>1, <3>1, CNOTWrites
  <2>5. ASSUME NEW guard, NEW register
        PROVE  Meaning(g, register, guard) = <<Guarded(k, guard)>>
    BY <1>1 DEF Meaning
  <2> HIDE DEF bits, k
  <2> QED
    BY <2>3, <2>4, <2>5, Zenon
<1>2. CASE g.op \in Gates \ {"Y"}
  <2> DEFINE bits == <<g.bits[1]>>
             k == GateOn(NativeGates[g.op], bits)
  <2>1. bits \in Seq(Qubits)
    BY ElementaryFacts
  <2>2. Statement(k) /\ Effect(k) = Rotation(EulerAngles[g.op], bits)
    BY <1>2, <2>1, GateToken, EffectOfGate
  <2>3. ASSUME NEW v \in Visitors
        PROVE  Wrote(v, visitElementary(v, g), k)
    BY <1>2, GateVisit, Zenon
  <2>4. g.op \notin {"Measure", "CNOT", "Swap", "CPhase", "CZ"}
    BY <1>2 DEF Gates
  <2>5. ASSUME NEW guard, NEW register
        PROVE  Meaning(g, register, guard) = <<Guarded(Rotation(EulerAngles[g.op], bits), guard)>>
    BY <2>4, Zenon DEF Meaning
  <2> HIDE DEF bits, k
  <2> QED
    BY <2>2, <2>3, <2>5, Zenon
<1> QED
  BY <1>1, <1>2

LEMMA GuardedText ==
  ASSUME NEW text \in Seq(Tokens), NEW c \in Nat, NEW k \in Tokens, k.name \notin Silent
  PROVE  /\ <<Guarded(Effect(k), c)>> \in Seq(Actions)
         /\ GuardOfNext(text \o (<<If(c)>> \o <<k>>)) = NoBit
         /\ Performed(text \o (<<If(c)>> \o <<k>>)) = Performed(text) \o <<Guarded(Effect(k), c)>>
<1> DEFINE f == If(c)
           once == Append(text, f)
           act == Guarded(Effect(k), c)
<1>1. f \in Tokens /\ f.name = "if" /\ f.c = c /\ f.name \in Silent
  BY DEF If, Token, Tokens, Silent
<1> HIDE DEF f
<1>2. once \in Seq(Tokens) /\ GuardOfNext(once) = c
  BY <1>1, TokenWritten
<1>3. Performed(once) = Performed(text)
  BY <1>1, PerformedAppend
<1> HIDE DEF once
<1>4. k.name # "if"
  BY DEF Silent
<1>5. /\ GuardOfNext(Append(once, k)) = NoBit
      /\ Performed(Append(once, k)) = Performed(once) \o <<act>>
  <2>1. GuardOfNext(Append(once, k)) = NoBit
    BY <1>2, <1>4, TokenWritten
  <2>2. Performed(Append(once, k)) = Performed(once) \o <<Guarded(Effect(k), GuardOfNext(once))>>
    BY <1>2, PerformedAppend
  <2> QED
    BY <1>2, <2>1, <2>2, Zenon
<1>6. text \o (<<f>> \o <<k>>) = Append(once, k)
  <2>1. <<f>> \in Seq(Tokens) /\ <<k>> \in Seq(Tokens)
    BY <1>1
  <2>2. text \o (<<f>> \o <<k>>) = (text \o <<f>>) \o <<k>>
    BY <2>1, ThreeTexts, Zenon
  <2>3. text \o <<f>> = once
    BY <1>1 DEF once
  <2>4. once \o <<k>> = Append(once, k)
    BY <1>2
  <2> QED
    BY <2>2, <2>3, <2>4, Zenon
<1>7. act \in Actions
  BY DEF Guarded, Actions, Effects
<1> HIDE DEF act
<1>8. <<act>> \in Seq(Actions)
  BY <1>7
<1> QED
  BY <1>3, <1>5, <1>6, <1>8, Zenon DEF f, act

LEMMA ConditionalPerforms ==
  ASSUME NEW v \in Visitors, NEW inst \in Instructions, inst.op = "if",
         Len(inst.body) = 1, inst.body[1].op \in (Gates \ {"Y"}) \union {"CNOT"}
  PROVE  Performs(v, visitConditional(v, inst),
                  Meaning(inst.body[1], 0, ClassicalBitIdx(v, inst.bits[1])))
<1> DEFINE g == inst.body[1]
           c == ClassicalBitIdx(v, inst.bits[1])
           w == visitConditional(v, inst)
<1>1. inst.body \in Seq(Elementary) /\ g \in Elementary /\ inst.body # <<>>
  BY InstructionFacts
<1>2. c \in Nat
  <2>1. PICK D \in SUBSET Qubits : v.qubitToClassicalBitIndex \in [D -> Nat]
    BY DEF Visitors
  <2> QED
    BY <2>1 DEF ClassicalBitIdx
<1>3. v.native \in Seq(Tokens)
  BY DEF Visitors
<1>4. w.native = v.native \o (<<If(c)>> \o Nested(inst.body).native)
  BY ConditionalVisit
<1>5. Nested(inst.body) = visitElementary(NewVisitor, g)
  BY <1>1 DEF Nested
<1> HIDE DEF g, c, w
<1>6. g.op \in (Gates \ {"Y"}) \union {"CNOT"}
  BY DEF g
<1>7. PICK k : /\ Statement(k)
               /\ \A u \in Visitors : Wrote(u, visitElementary(u, g), k)
               /\ \A guard, register :
                    Meaning(g, register, guard) = <<Guarded(Effect(k), guard)>>
  BY <1>1, <1>6, BodyToken
<1>8. k \in Tokens /\ k.name \notin Silent
  BY <1>7 DEF Statement, Silent
<1>9. Nested(inst.body).native = <<k>>
  <2>1. Nested(inst.body).native = Append(<<>>, k)
    <3>1. Wrote(NewVisitor, Nested(inst.body), k)
      BY <1>5, <1>7, NewVisitorType, Zenon
    <3> QED
      BY <3>1, NewVisitorType, Zenon DEF Wrote
  <2> QED
    BY <2>1
<1>10. /\ <<Guarded(Effect(k), c)>> \in Seq(Actions)
       /\ GuardOfNext(w.native) = NoBit
       /\ Performed(w.native) = Performed(v.native) \o <<Guarded(Effect(k), c)>>
  <2>1. w.native = v.native \o (<<If(c)>> \o <<k>>)
    BY <1>4, <1>9, Zenon
  <2>2. /\ <<Guarded(Effect(k), c)>> \in Seq(Actions)
        /\ GuardOfNext(v.native \o (<<If(c)>> \o <<k>>)) = NoBit
        /\ Performed(v.native \o (<<If(c)>> \o <<k>>)) =
             Performed(v.native) \o <<Guarded(Effect(k), c)>>
    BY <1>2, <1>3, <1>8, GuardedText, Zenon
  <2> QED
    BY <2>1, <2>2, Zenon
<1>11. Meaning(g, 0, c) = <<Guarded(Effect(k), c)>>
  BY <1>7, Zenon
<1> QED
  BY <1>10, <1>11, Zenon DEF Performs, g, c, w

LEMMA MeasurePerforms ==
  ASSUME NEW v \in Visitors, NEW q \in Qubits, GuardOfNext(v.native) = NoBit
  PROVE  Performs(v, visitMeasure(v, q),
                  <<Guarded(Measured(q, v.classicalBitCounter), NoBit)>>)
<1> DEFINE c == v.classicalBitCounter
           d == Creg(c)
           m == Measured(q, c)
           w == visitMeasure(v, q)
           once == v.native \o <<d>>
           act == Guarded(m, NoBit)
<1>1. c \in Nat /\ v.native \in Seq(Tokens)
  BY DEF Visitors
<1>2. /\ d \in Tokens /\ d.name \in Silent /\ d.name # "if"
      /\ m \in Tokens /\ m.name \notin Silent /\ m.name # "if"
  BY <1>1 DEF Creg, Measured, Token, Tokens, Silent
<1>e. Effect(m) = m
  BY EffectOfMeasured
<1>3. w.native = Append(once, m)
  BY MeasureVisit
<1> HIDE DEF c, d, m, w
<1>4. once = Append(v.native, d)
  BY <1>1, <1>2
<1> HIDE DEF once
<1>5. once \in Seq(Tokens) /\ GuardOfNext(once) = NoBit
  BY <1>1, <1>2, <1>4, TokenWritten
<1>6. Performed(once) = Performed(v.native)
  BY <1>1, <1>2, <1>4, PerformedAppend
<1>7. GuardOfNext(w.native) = NoBit
  BY <1>2, <1>3, <1>5, TokenWritten
<1>8. Performed(w.native) = Performed(v.native) \o <<act>>
  <2>1. Performed(Append(once, m)) = Performed(once) \o <<Guarded(Effect(m), GuardOfNext(once))>>
    BY <1>2, <1>5, PerformedAppend
  <2> QED
    BY <1>3, <1>5, <1>6, <1>e, <2>1, Zenon
<1>9. act \in Actions
  BY <1>2, <1>e DEF Guarded, Actions, Effects
<1> HIDE DEF act
<1>10. <<act>> \in Seq(Actions)
  BY <1>9
<1> QED
  BY <1>7, <1>8, <1>10, Zenon DEF Performs, act, m, c, w

-----------------------------------------------------------------------------
(* The qubit of a translatable conditional was measured once.              *)
LEMMA SoleMeasurement ==
  ASSUME NEW i \in Nat, NEW q, Cardinality(Measurements(i, q)) = 1
  PROVE  \E m \in 1..(i - 1) :
           /\ Measurements(i, q) = {m} /\ Max(Measurements(i, q)) = m
           /\ IsMeasure(kernel[m]) /\ kernel[m].bits[1] = q
<1>1. PICK m : Measurements(i, q) = {m}
  BY RegisterType, FS_Singleton, Zenon
<1>2. m \in 1..(i - 1) /\ IsMeasure(kernel[m]) /\ kernel[m].bits[1] = q
  BY <1>1, Zenon DEF Measurements
<1>3. Max({m}) = m
  <2>1. m >= m
    BY <1>2
  <2>2. \E x \in {m} : \A y \in {m} : x >= y
    BY <2>1, Zenon
  <2>3. Max({m}) \in {m}
    BY <2>2, Zenon DEF Max
  <2> QED
    BY <2>3, Zenon
<1> QED
  BY <1>1, <1>2, <1>3, Zenon

LEMMA TranslatableKept ==
  ASSUME kernel \in Seq(Instructions), NEW inst \in Instructions, kernel' = Append(kernel, inst),
         NEW i \in 1..Len(kernel), Translatable(i)'
  PROVE  Translatable(i) /\ Intended(i)' = Intended(i)
<1>n. PICK n \in Nat : n = Len(kernel)
  BY KernelGrows
<1>q. PICK q : q = kernel[i].bits[1]
  OBVIOUS
<1>1. /\ \A j \in 1..n : kernel'[j] = kernel[j]
      /\ \A j \in 1..(n + 1) : RegisterOf(j)' = RegisterOf(j)
      /\ \A j \in 1..(n + 1) : \A r : Measurements(j, r)' = Measurements(j, r)
  BY <1>n, KernelGrows, RegisterKept
<1>2. i \in 1..n /\ i \in 1..(n + 1) /\ i \in Nat /\ \A j \in 1..(i - 1) : j \in 1..n /\ j \in 1..(n + 1)
  BY <1>n
<1>3. /\ kernel'[i] = kernel[i] /\ RegisterOf(i)' = RegisterOf(i)
      /\ Measurements(i, q)' = Measurements(i, q)
  BY <1>1, <1>2
<1>4. CASE kernel[i].op # "if"
  <2>1. Translatable(i)
    BY <1>3, <1>4, Zenon DEF Translatable
  <2>2. Intended(i)' = Intended(i)
    BY <1>3, <1>4, Zenon DEF Intended
  <2> QED
    BY <2>1, <2>2
<1>5. CASE kernel[i].op = "if"
  <2>1. /\ kernel[i].op \notin {"CPhase", "Y"}
        /\ Len(kernel[i].body) = 1 /\ kernel[i].body[1].op \in (Gates \ {"Y"}) \union {"CNOT"}
        /\ Cardinality(Measurements(i, q)) = 1
        /\ \A j \in 1..(Max(Measurements(i, q)) - 1) :
             ~(kernel'[j].op = "if" /\ kernel'[j].bits[1] = q)
    BY <1>q, <1>3, <1>5, Zenon DEF Translatable
  <2>2. PICK m \in 1..(i - 1) : Max(Measurements(i, q)) = m
    BY <1>2, <2>1, SoleMeasurement
  <2>3. \A j \in 1..(m - 1) : j \in 1..n
    BY <1>2, <2>2
  <2>4. Translatable(i)
    <3>1. \A j \in 1..(Max(Measurements(i, q)) - 1) :
            ~(kernel[j].op = "if" /\ kernel[j].bits[1] = q)
      BY <1>1, <2>1, <2>2, <2>3, Zenon
    <3> QED
      BY <1>q, <1>5, <2>1, <3>1, Zenon DEF Translatable
  <2>5. RegisterOf(Max(Measurements(i, q)))' = RegisterOf(Max(Measurements(i, q)))
    <3>1. RegisterOf(m)' = RegisterOf(m)
      BY <1>1, <1>2, <2>2
    <3>2. Max(Measurements(i, q))' = Max(Measurements(i, q))
      BY <1>3, Zenon
    <3>3. RegisterOf(Max(Measurements(i, q)))' = RegisterOf(m)'
      BY <2>2, <3>2, Zenon DEF RegisterOf
    <3> QED
      BY <2>2, <3>1, <3>3, Zenon
  <2>6. Intended(i)' = Intended(i)
    BY <1>q, <1>3, <1>5, <2>5, Zenon DEF Intended
  <2> QED
    BY <2>4, <2>6
<1> QED
  BY <1>4, <1>5

-----------------------------------------------------------------------------
(* The text so far performs the kernel so far.                             *)
Intents == [i \in 1..Len(kernel) |-> Intended(i)]
Meant == ~failed /\ \A i \in 1..Len(kernel) : kernel[i].enabled => Translatable(i)

TextInv ==
  Meant =>
    /\ GuardOfNext(visitor.native) = NoBit
    /\ Intents \in Seq(Seq(Actions))
    /\ Performed(visitor.native) = FlattenSeq(Intents)

LEMMA TextInit == Init => TextInv
<1> SUFFICES ASSUME Init
             PROVE  TextInv
  OBVIOUS
<1>1. visitor.native = <<>> /\ Len(kernel) = 0
  BY NewVisitorType DEF Init
<1>2. GuardOfNext(<<>>) = NoBit
  BY DEF GuardOfNext
<1>3. Intents = <<>>
  <2>1. \A i \in 1..0 : Intended(i) = <<>>
    OBVIOUS
  <2>2. Intents = [i \in 1..0 |-> <<>>]
    BY <1>1, <2>1 DEF Intents
  <2> QED
    BY <2>2
<1>4. Performed(<<>>) = <<>>
  <2>1. Pieces(<<>>) = <<>>
    <3>1. \A i \in 1..0 : Piece(<<>>, i) = <<>>
      OBVIOUS
    <3>2. Pieces(<<>>) = [i \in 1..0 |-> <<>>]
      BY <3>1 DEF Pieces
    <3> QED
      BY <3>2
  <2> QED
    BY <2>1, PerformedPieces, EmptyJoined
<1>5. <<>> \in Seq(Seq(Actions))
  OBVIOUS
<1> QED
  BY <1>1, <1>2, <1>3, <1>4, <1>5, EmptyJoined DEF TextInv

LEMMA TextStep ==
  ASSUME kernel \in Seq(Instructions), NEW inst \in Instructions, kernel' = Append(kernel, inst),
         visitor.native \in Seq(Tokens), TextInv, failed' \/ ~failed,
         \A n \in Nat : Meant /\ Meant' /\ GuardOfNext(visitor.native) = NoBit /\ n = Len(kernel) =>
           Performs(visitor, visitor', Intended(n + 1)')
  PROVE  TextInv'
<1> SUFFICES ASSUME Meant'
             PROVE  (/\ GuardOfNext(visitor.native) = NoBit
                     /\ Intents \in Seq(Seq(Actions))
                     /\ Performed(visitor.native) = FlattenSeq(Intents))'
  BY DEF TextInv
<1>n. PICK n \in Nat : n = Len(kernel)
  BY KernelGrows
<1>1. /\ Len(kernel') = n + 1
      /\ \A i \in 1..n : kernel'[i] = kernel[i] /\ i \in 1..(n + 1)
  BY <1>n, KernelGrows
<1>2. ASSUME NEW i \in 1..n
      PROVE  /\ kernel[i].enabled => Translatable(i)
             /\ Intended(i)' = Intended(i)
  <2>1. CASE kernel[i].enabled
    <3>1. Translatable(i)'
      BY <1>1, <2>1, Zenon DEF Meant
    <3> QED
      BY <1>n, <3>1, TranslatableKept
  <2>2. CASE ~kernel[i].enabled
    <3>1. kernel'[i] = kernel[i]
      BY <1>1
    <3> QED
      BY <2>2, <3>1, Zenon DEF Intended
  <2> QED
    BY <2>1, <2>2
<1>3. Meant
  BY <1>n, <1>2, Zenon DEF Meant
<1>4. /\ GuardOfNext(visitor.native) = NoBit
      /\ Intents \in Seq(Seq(Actions))
      /\ Performed(visitor.native) = FlattenSeq(Intents)
  BY <1>3, Zenon DEF TextInv
<1>5. Performs(visitor, visitor', Intended(n + 1)')
  BY <1>n, <1>3, <1>4, Zenon
<1>6. Intents' = Append(Intents, Intended(n + 1)')
  <2> DEFINE last == Intended(n + 1)'
             joined == Append(Intents, last)
  <2>1. Intents = [i \in 1..n |-> Intended(i)]
    BY <1>n, Zenon DEF Intents
  <2>2. Intents' = [i \in 1..(n + 1) |-> Intended(i)']
    BY <1>1, Zenon DEF Intents
  <2>3. last \in Seq(Actions)
    BY <1>5, Zenon DEF Performs
  <2> HIDE DEF last, Intents
  <2>4. Len(Intents) = n
    <3>1. DOMAIN Intents = 1..n
      BY <2>1
    <3> QED
      BY <1>4, <3>1, LenProperties
  <2>5. /\ joined \in Seq(Seq(Actions)) /\ Len(joined) = n + 1
        /\ \A i \in 1..n : joined[i] = Intents[i]
        /\ joined[n + 1] = last
    BY <1>4, <2>3, <2>4, AppendProperties
  <2> HIDE DEF joined
  <2>6. joined = [i \in 1..(n + 1) |-> joined[i]]
    BY <2>5
  <2>7. ASSUME NEW i \in 1..(n + 1)
        PROVE  joined[i] = Intended(i)'
    <3>1. CASE i = n + 1
      BY <2>5, <3>1 DEF last
    <3>2. CASE i # n + 1
      <4>1. i \in 1..n
        BY <3>2
      <4>2. joined[i] = Intended(i)
        BY <2>1, <2>5, <4>1
      <4> QED
        BY <1>2, <4>1, <4>2
    <3> QED
      BY <3>1, <3>2
  <2> QED
    BY <2>2, <2>6, <2>7 DEF joined, last
<1> DEFINE last == Intended(n + 1)'
<1>7. last \in Seq(Actions) /\ GuardOfNext(visitor'.native) = NoBit
      /\ Performed(visitor'.native) = Performed(visitor.native) \o last
  BY <1>5, Zenon DEF Performs
<1> HIDE DEF last, Intents
<1>8. FlattenSeq(Append(Intents, last)) = FlattenSeq(Intents) \o last
  BY <1>4, <1>7, FlattenAppend
<1>9. Append(Intents, last) \in Seq(Seq(Actions))
  BY <1>4, <1>7
<1> QED
  BY <1>4, <1>6, <1>7, <1>8, <1>9, Zenon DEF last

(* Nothing is added to the text, and nothing was to be performed.          *)
LEMMA NothingPerformed ==
  ASSUME visitor.native \in Seq(Tokens), visitor' = visitor, GuardOfNext(visitor.native) = NoBit
  PROVE  Performs(visitor, visitor', <<>>)
<1>1. Performed(visitor.native) \in Seq(Actions)
  BY PerformedType
<1>2. Performed(visitor.native) = Performed(visitor.native) \o <<>>
  BY <1>1
<1>3. <<>> \in Seq(Actions)
  OBVIOUS
<1> QED
  BY <1>2, <1>3, Zenon DEF Performs

LEMMA FlattenOne ==
  ASSUME NEW s \in Seq(Actions)
  PROVE  FlattenSeq([k \in 1..1 |-> s]) = s
<1>1. [k \in 1..1 |-> s] = <<s>>
  OBVIOUS
<1>2. <<>> \in Seq(Seq(Actions)) /\ Append(<<>>, s) = <<s>> /\ <<>> \o s = s
  OBVIOUS
<1>3. FlattenSeq(Append(<<>>, s)) = FlattenSeq(<<>>) \o s
  BY <1>2, FlattenAppend
<1> QED
  BY <1>1, <1>2, <1>3, EmptyJoined

(* A translatable conditional tests the register its qubit was measured    *)
(* into.                                                                   *)
LEMMA ConditionalMeans ==
  ASSUME VisitorInv, IndexInv, NEW inst \in Instructions, kernel' = Append(kernel, inst),
         inst.op = "if", inst.enabled, NEW n \in Nat, n = Len(kernel),
         NEW i \in Nat, i = n + 1, Translatable(i)',
         visitor' = visitConditional(visitor, inst)
  PROVE  Performs(visitor, visitor', Intended(i)')
<1>q. PICK q : q = inst.bits[1]
  OBVIOUS
<1>1. /\ kernel \in Seq(Instructions) /\ visitor \in Visitors
  BY DEF VisitorInv
<1>2. /\ kernel'[i] = inst /\ i \in 1..(n + 1) /\ i \in Nat
      /\ \A j \in 1..n : kernel'[j] = kernel[j] /\ j \in 1..(n + 1)
      /\ \A j \in 1..(n + 1) : RegisterOf(j)' = RegisterOf(j)
      /\ Measurements(i, q)' = Measurements(i, q)
  <2>1. kernel'[i] = inst /\ i \in 1..(n + 1) /\ i \in Nat
        /\ \A j \in 1..n : kernel'[j] = kernel[j] /\ j \in 1..(n + 1)
    BY <1>1, KernelGrows
  <2>2. \A j \in 1..(n + 1) : RegisterOf(j)' = RegisterOf(j)
    BY <1>1, RegisterKept
  <2>3. \A r : Measurements(i, r)' = Measurements(i, r)
    BY <1>1, <2>1, RegisterKept
  <2>4. Measurements(i, q)' = {j \in 1..(i - 1) : IsMeasure(kernel'[j]) /\ kernel'[j].bits[1] = q}
    BY DEF Measurements, IsMeasure
  <2> QED
    BY <2>1, <2>2, <2>3
<1>3. /\ Len(inst.body) = 1 /\ inst.body[1].op \in (Gates \ {"Y"}) \union {"CNOT"}
      /\ Cardinality(Measurements(i, q)) = 1
      /\ \A j \in 1..(Max(Measurements(i, q)) - 1) :
           ~(kernel'[j].op = "if" /\ kernel'[j].bits[1] = q)
  <2>1. /\ kernel'[i] = inst /\ Measurements(i, q)' = Measurements(i, q)
        /\ kernel'[i].op = "if" /\ kernel'[i].bits[1] = q
    BY <1>q, <1>2
  <2>2. /\ Len(kernel'[i].body) = 1 /\ kernel'[i].body[1].op \in (Gates \ {"Y"}) \union {"CNOT"}
        /\ Cardinality(Measurements(i, q)) = 1
        /\ \A j \in 1..(Max(Measurements(i, q)) - 1) :
             ~(kernel'[j].op = "if" /\ kernel'[j].bits[1] = q)
    BY ONLY <2>1, Translatable(i)', Zenon DEF Translatable
  <2> QED
    BY <2>1, <2>2, Zenon
<1>4. PICK m \in 1..(i - 1) :
        /\ Measurements(i, q) = {m} /\ Max(Measurements(i, q)) = m
        /\ IsMeasure(kernel[m]) /\ kernel[m].bits[1] = q
  BY <1>2, <1>3, SoleMeasurement
<1>5. m \in 1..n /\ \A j \in 1..(m - 1) : j \in 1..n /\ j \in 1..(i - 1) /\ j # m
  BY <1>4
<1>6. FirstUse(m)
  <2>1. ASSUME NEW j \in 1..(m - 1), kernel[j].bits[1] = q
        PROVE  ~IsMeasure(kernel[j]) /\ kernel[j].op # "if"
    <3>1. j \notin Measurements(i, q)
      BY <1>4, <1>5
    <3>2. ~IsMeasure(kernel[j])
      BY <1>5, <2>1, <3>1, Zenon DEF Measurements
    <3>3. kernel'[j] = kernel[j]
      BY <1>2, <1>5
    <3>4. kernel[j].op # "if"
      BY <1>3, <1>4, <2>1, <3>3, Zenon
    <3> QED
      BY <3>2, <3>4
  <2> QED
    BY <1>4, <2>1, Zenon DEF FirstUse
<1>7. ClassicalBitIdx(visitor, q) = RegisterOf(m)
  <2>1. Indexed(m)
    BY <1>5, <1>6, Zenon DEF IndexInv
  <2> QED
    BY <1>4, <2>1, Zenon DEF Indexed, ClassicalBitIdx, Index
<1>8. RegisterOf(Max(Measurements(i, q)))' = RegisterOf(m)
  <2>1. RegisterOf(m)' = RegisterOf(m)
    BY <1>2, <1>5
  <2>2. (Max(Measurements(i, q)))' = m
    BY <1>2, <1>4, Zenon
  <2> QED
    BY <2>1, <2>2, Zenon DEF RegisterOf
<1> DEFINE acts == Meaning(inst.body[1], 0, RegisterOf(m))
<1>9. Performs(visitor, visitor', acts)
  <2>1. Performs(visitor, visitConditional(visitor, inst),
                 Meaning(inst.body[1], 0, ClassicalBitIdx(visitor, inst.bits[1])))
    BY <1>1, <1>3, ConditionalPerforms
  <2> QED
    BY <1>q, <1>7, <2>1, Zenon
<1>10. Intended(i)' = acts
  <2>1. DOMAIN inst.body = 1..1
    <3>1. inst.body \in Seq(Elementary)
      BY InstructionFacts
    <3> QED
      BY <1>3, <3>1
  <2>2. Intended(i)' = FlattenSeq([k \in DOMAIN inst.body |->
                                     Meaning(inst.body[k], 0, RegisterOf(m))])
    BY <1>q, <1>2, <1>8, ZenonT(40) DEF Intended
  <2>3. \A k \in 1..1 : k = 1
    OBVIOUS
  <2>4. [k \in DOMAIN inst.body |-> Meaning(inst.body[k], 0, RegisterOf(m))] =
          [k \in 1..1 |-> acts]
    BY <2>1, <2>3, Zenon
  <2>5. acts \in Seq(Actions)
    BY <1>9, Zenon DEF Performs
  <2> HIDE DEF acts
  <2> QED
    BY <2>2, <2>4, <2>5, FlattenOne
<1> HIDE DEF acts
<1> QED
  BY <1>9, <1>10, Zenon

LEMMA VisitMeans ==
  ASSUME VisitorInv, IndexInv, NEW inst \in Instructions, kernel' = Append(kernel, inst),
         inst.enabled, visitor' = accept(visitor, inst), ~Unsupported(inst),
         NEW n \in Nat, n = Len(kernel), Translatable(n + 1)',
         GuardOfNext(visitor.native) = NoBit
  PROVE  Performs(visitor, visitor', Intended(n + 1)')
<1> DEFINE i == n + 1
<1>1. /\ kernel \in Seq(Instructions) /\ visitor \in Visitors /\ visitor.native \in Seq(Tokens)
  BY DEF VisitorInv, Visitors
<1>2. kernel'[i] = inst
  BY <1>1, KernelGrows
<1>3. RegisterOf(i)' = visitor.classicalBitCounter
  <2>1. i \in 1..(n + 1)
    OBVIOUS
  <2>2. RegisterOf(i)' = RegisterOf(i)
    BY <1>1, <2>1, RegisterKept
  <2> QED
    BY <2>2, Zenon DEF IndexInv
<1>4. inst.op \notin {"CPhase", "Y"}
  BY <1>2, Zenon DEF Translatable
<1>5. CASE inst.op = "if"
  <2>1. visitor' = visitConditional(visitor, inst)
    BY <1>5 DEF accept
  <2> QED
    BY <1>5, <2>1, ConditionalMeans
<1>6. CASE inst.op = "GateFunction"
  <2>1. visitor' = visitor
    BY <1>6 DEF accept
  <2>2. Intended(i)' = <<>>
    BY <1>2, <1>6 DEF Intended
  <2> QED
    BY <1>1, <2>1, <2>2, NothingPerformed
<1>7. CASE inst.op \notin Composites
  <2>1. visitor' = visitElementary(visitor, inst) /\ inst \in Elementary
    BY <1>7, InstructionFacts DEF accept, Composites
  <2>2. Intended(i)' = Meaning(inst, visitor.classicalBitCounter, NoBit)
    <3>1. inst.op # "GateFunction" /\ inst.op # "if"
      BY <1>7 DEF Composites
    <3>2. Intended(i)' = Meaning(inst, RegisterOf(i)', NoBit)
      BY <1>2, <3>1, Zenon DEF Intended
    <3> QED
      BY <1>3, <3>2, Zenon
  <2>3. CASE inst.op = "Measure"
    <3>1. visitor' = visitMeasure(visitor, inst.bits[1]) /\ inst.bits[1] \in Qubits
      BY <2>1, <2>3, ElementaryFacts DEF visitElementary
    <3>2. Meaning(inst, visitor.classicalBitCounter, NoBit) =
            <<Guarded(Measured(inst.bits[1], visitor.classicalBitCounter), NoBit)>>
      BY <2>3 DEF Meaning
    <3> QED
      BY <1>1, <2>2, <3>1, <3>2, MeasurePerforms, Zenon
  <2>4. CASE inst.op # "Measure"
    <3>1. inst.op \in (Gates \ {"Y"}) \union {"CNOT", "Swap"}
      BY <1>4, <2>1, <2>4, ElementaryFacts, Zenon DEF Unsupported
    <3> QED
      BY <1>1, <2>1, <2>2, <3>1, ElementaryPerforms, Zenon
  <2> QED
    BY <2>3, <2>4
<1> QED
  BY <1>5, <1>6, <1>7 DEF Composites

LEMMA TextNext ==
  ASSUME VisitorInv, IndexInv, TextInv, Step
  PROVE  TextInv'
<1>1. CASE UNCHANGED <<kernel, visitor, failed>>
  <2>1. kernel' = kernel /\ visitor' = visitor /\ failed' = failed
    BY <1>1
  <2>2. /\ \A i : Intended(i)' = Intended(i)
        /\ \A i : Translatable(i)' => Translatable(i)
    <3>1. \A i : RegisterOf(i)' = RegisterOf(i)
      BY <2>1, Zenon DEF RegisterOf, IsMeasure
    <3>2. \A i, q : Measurements(i, q)' = Measurements(i, q)
      BY <2>1, Zenon DEF Measurements, IsMeasure
    <3>3. \A i : RegisterOf(Max(Measurements(i, kernel[i].bits[1])))' =
                   RegisterOf(Max(Measurements(i, kernel[i].bits[1])))
      BY <2>1, <3>2, Zenon DEF RegisterOf, IsMeasure
    <3>4. \A i : Intended(i)' = Intended(i)
      BY <2>1, <3>1, <3>3, Zenon DEF Intended
    <3>5. \A i : Translatable(i)' => Translatable(i)
      BY <2>1, <3>2, Zenon DEF Translatable
    <3> QED
      BY <3>4, <3>5
  <2>3. Intents' = Intents /\ (Meant' => Meant)
    BY <2>1, <2>2, Zenon DEF Intents, Meant
  <2> HIDE DEF Intents, Meant
  <2> QED
    BY <2>1, <2>3, Zenon DEF TextInv
<1>2. /\ kernel \in Seq(Instructions) /\ visitor.native \in Seq(Tokens) /\ failed \in BOOLEAN
  BY DEF VisitorInv, Visitors
<1>3. ASSUME NEW inst \in Instructions, kernel' = Append(kernel, inst), ~failed,
             ~inst.enabled, UNCHANGED <<visitor, supports, failed>>
      PROVE  TextInv'
  <2>1. ASSUME NEW n \in Nat, n = Len(kernel), GuardOfNext(visitor.native) = NoBit
        PROVE  Performs(visitor, visitor', Intended(n + 1)')
    <3>1. kernel'[n + 1] = inst
      BY <1>2, <1>3, <2>1, KernelGrows
    <3>2. Intended(n + 1)' = <<>>
      BY <1>3, <3>1 DEF Intended
    <3> QED
      BY <1>2, <1>3, <2>1, <3>2, NothingPerformed
  <2> QED
    BY <1>2, <1>3, <2>1, TextStep
<1>4. ASSUME failed'
      PROVE  TextInv'
  BY <1>4 DEF TextInv, Meant
<1>5. ASSUME NEW inst \in Instructions, kernel' = Append(kernel, inst), ~failed,
             Visit(inst), inst.enabled
      PROVE  TextInv'
  <2>1. visitor' = accept(visitor, inst) /\ ~Unsupported(inst)
    BY <1>5 DEF Visit
  <2>2. ASSUME NEW n \in Nat, Meant', n = Len(kernel), GuardOfNext(visitor.native) = NoBit
        PROVE  Performs(visitor, visitor', Intended(n + 1)')
    <3>1. kernel'[n + 1] = inst /\ n + 1 \in 1..Len(kernel')
      BY <1>2, <1>5, <2>2, KernelGrows
    <3>2. Translatable(n + 1)'
      BY <1>5, <2>2, <3>1, Zenon DEF Meant
    <3> QED
      BY <1>5, <2>1, <2>2, <3>2, VisitMeans
  <2> QED
    BY <1>2, <1>5, <2>2, TextStep
<1> QED
  BY <1>1, <1>3, <1>4, <1>5, StepCases

-----------------------------------------------------------------------------
(* Without conditionals both texts say the same.                           *)
AgreeInv == (\A i \in 1..Len(kernel) : kernel[i].op # "if") => Agree(visitor)

LEMMA MeasureAgrees ==
  ASSUME NEW v \in Visitors, NEW q \in Qubits, Agree(v)
  PROVE  Agree(visitMeasure(v, q))
<1> DEFINE c == v.classicalBitCounter
           d == Creg(c)
           m == Measured(q, c)
           w == visitMeasure(v, q)
           once == v.native \o <<d>>
<1>1. c \in Nat /\ v.native \in Seq(Tokens) /\ v.operations \in Seq(Tokens)
  BY DEF Visitors
<1>2. d \in Tokens /\ d.name = "creg" /\ m \in Tokens /\ m.name # "creg"
  BY <1>1 DEF Creg, Measured, Token, Tokens
<1>3. w.native = Append(once, m) /\ w.operations = Append(v.operations, m)
  BY MeasureVisit
<1> HIDE DEF c, d, m, w
<1>4. once = Append(v.native, d) /\ Append(v.operations, m) = v.operations \o <<m>>
  BY <1>1, <1>2
<1> HIDE DEF once
<1>5. once \in Seq(Tokens)
  BY <1>1, <1>2, <1>4, TokenWritten
<1>6. WithoutDeclarations(once) = WithoutDeclarations(v.native)
  BY <1>1, <1>2, <1>4, WithoutAppend
<1>7. WithoutDeclarations(Append(once, m)) = WithoutDeclarations(once) \o <<m>>
  BY <1>2, <1>5, WithoutAppend
<1> QED
  BY <1>3, <1>4, <1>6, <1>7, Zenon DEF Agree, w

LEMMA AgreeInit == Init => AgreeInv
<1> SUFFICES ASSUME Init
             PROVE  Agree(visitor)
  BY Zenon DEF AgreeInv
<1>1. visitor.native = <<>> /\ visitor.operations = <<>>
  BY DEF Init, NewVisitor
<1>2. WithoutDeclarations(<<>>) = <<>>
  <2>1. Bare(<<>>) = <<>>
    <3>1. Bare(<<>>) = [i \in 1..0 |-> <<>>]
      <4>1. \A i \in 1..0 : (IF <<>>[i].name = "creg" THEN <<>> ELSE <<<<>>[i]>>) = <<>>
        OBVIOUS
      <4> QED
        BY <4>1 DEF Bare
    <3> QED
      BY <3>1
  <2>2. WithoutDeclarations(<<>>) = FlattenSeq(Bare(<<>>))
    BY Zenon DEF WithoutDeclarations, Bare
  <2> QED
    BY <2>1, <2>2, EmptyJoined
<1> QED
  BY <1>1, <1>2 DEF Agree

LEMMA AgreeNext ==
  ASSUME VisitorInv, AgreeInv, Step
  PROVE  AgreeInv'
<1>1. CASE UNCHANGED <<kernel, visitor>>
  BY <1>1, Zenon DEF AgreeInv, Agree
<1>2. kernel \in Seq(Instructions) /\ visitor \in Visitors
  BY DEF VisitorInv
<1>3. ASSUME NEW inst \in Instructions, kernel' = Append(kernel, inst),
             inst.op # "if" => visitor' = visitor \/ visitor' = accept(visitor, inst)
      PROVE  AgreeInv'
  <2> SUFFICES ASSUME \A i \in 1..Len(kernel') : kernel'[i].op # "if"
               PROVE  Agree(visitor)'
    BY DEF AgreeInv
  <2>1. PICK n \in Nat : n = Len(kernel)
    BY <1>2, KernelGrows
  <2>2. /\ kernel'[n + 1] = inst /\ n + 1 \in 1..Len(kernel')
        /\ \A i \in 1..n : kernel'[i] = kernel[i] /\ i \in 1..Len(kernel')
    BY <1>2, <1>3, <2>1, KernelGrows
  <2>3. inst.op # "if" /\ Agree(visitor)
    BY <2>1, <2>2, Zenon DEF AgreeInv
  <2>4. CASE visitor' = visitor
    BY <2>3, <2>4, Zenon DEF Agree
  <2>5. CASE visitor' = accept(visitor, inst)
    <3>1. CASE inst.op = "GateFunction"
      <4>1. visitor' = visitor
        BY <2>5, <3>1 DEF accept
      <4> QED
        BY <2>4, <4>1
    <3>2. CASE inst.op = "Measure"
      <4>1. visitor' = visitMeasure(visitor, inst.bits[1]) /\ inst.bits[1] \in Qubits
        BY <2>5, <3>2, InstructionFacts DEF accept, visitElementary
      <4> QED
        BY <1>2, <2>3, <4>1, MeasureAgrees DEF Agree
    <3>3. CASE inst.op \notin Composites /\ inst.op # "Measure"
      <4>1. inst \in Elementary /\ visitor' = visitElementary(visitor, inst)
        BY <2>5, <3>3, InstructionFacts DEF accept, Composites
      <4>2. Quiet(visitor, visitor', {inst.bits[1], inst.bits[2]})
        BY <1>2, <3>3, <4>1, ElementaryQuiet
      <4> QED
        BY <2>3, <4>2, Zenon DEF Quiet, Agree
    <3> QED
      BY <2>3, <3>1, <3>2, <3>3 DEF Composites
  <2> QED
    BY <1>3, <2>3, <2>4, <2>5
<1>4. ASSUME NEW inst \in Instructions, Visit(inst)
      PROVE  visitor' = accept(visitor, inst)
  BY <1>4, Zenon DEF Visit
<1> QED
  BY <1>1, <1>3, <1>4, StepCases

-----------------------------------------------------------------------------
(* A bounded set of naturals has a largest member.                         *)
LEMMA LargestOfBounded ==
  ASSUME NEW S, S \subseteq Nat, 0 \in S, NEW m \in Nat, \A y \in S : y =< m
  PROVE  Max(S) \in S /\ Max(S) \in Nat /\ \A y \in S : y =< Max(S)
<1> DEFINE U == {n \in Nat : \A y \in S : y =< n}
<1>1. U \subseteq Nat /\ m \in U
  BY Zenon
<1>2. PICK u \in U : \A n \in U : u =< n
  <2> HIDE DEF U
  <2> QED
    BY <1>1, LeastOfNaturals
<1>3. u \in Nat /\ \A y \in S : y =< u
  BY <1>2, Zenon
<1>4. u \in S
  <2> SUFFICES ASSUME u \notin S
               PROVE  FALSE
    OBVIOUS
  <2>1. u # 0
    BY <1>3
  <2>2. u - 1 \in Nat /\ \A y \in S : y =< u - 1
    BY <1>3, <2>1
  <2>3. u - 1 \in U
    BY <2>2, Zenon
  <2>4. u =< u - 1
    BY <1>2, <2>3, Zenon
  <2> QED
    BY <1>3, <2>4
<1>5. \A y \in S : u >= y
  BY <1>3
<1>6. Max(S) \in S /\ \A y \in S : Max(S) >= y
  <2> DEFINE Top(x) == \A y \in S : x >= y
             top == CHOOSE x \in S : Top(x)
  <2>1. top \in S /\ Top(top)
    <3>1. Top(u)
      BY <1>5, Zenon
    <3> HIDE DEF Top
    <3> QED
      BY <1>4, <3>1, Zenon
  <2>2. Max(S) = top
    BY Zenon DEF Max
  <2> QED
    BY <2>1, <2>2, Zenon
<1> HIDE DEF U
<1>7. Max(S) \in Nat
  BY <1>6
<1> QED
  BY <1>6, <1>7

(* What a kernel looks at, and what its text may be on.                    *)
Looked == UNION {{kernel[i].bits[1], kernel[i].bits[2]} : i \in Counting}
InBodies == {b \in Nat : \E i \in DOMAIN kernel : \E k \in DOMAIN kernel[i].body :
                           \E x \in 1..2 : b = kernel[i].body[k].bits[x]}

FitsInv ==
  /\ Looked \subseteq Nat
  /\ \E m \in Nat : \A y \in Looked : y =< m
  /\ Within(visitor.native, Looked \union InBodies)

LEMMA FitsImplies == FitsInv => TranslatedFits
<1> SUFFICES ASSUME FitsInv, BodiesWithin,
                    NEW i \in DOMAIN translate.text, NEW b \in DOMAIN translate.text[i].bits
             PROVE  translate.text[i].bits[b] < translate.nQubits
  BY Zenon DEF TranslatedFits
<1> DEFINE S == {0} \union Looked
<1>1. S \subseteq Nat /\ 0 \in S
  BY DEF FitsInv
<1>2. PICK m \in Nat : \A y \in S : y =< m
  BY DEF FitsInv
<1>3. maxBit = Max(S)
  BY Zenon DEF maxBit, Looked
<1> HIDE DEF S
<1>4. maxBit \in Nat /\ \A y \in S : y =< maxBit
  BY <1>1, <1>2, <1>3, LargestOfBounded
<1>5. translate.text = visitor.native /\ translate.nQubits = maxBit + 1
  BY DEF translate
<1> DEFINE y == visitor.native[i].bits[b]
<1>6. y \in Looked \union InBodies
  BY <1>5, Zenon DEF FitsInv, Within
<1>7. CASE y \in Looked
  <2>1. y =< maxBit /\ y \in Nat
    BY <1>1, <1>4, <1>7 DEF S
  <2> QED
    BY <1>4, <1>5, <2>1
<1>8. CASE y \in InBodies
  <2>1. y =< maxBit /\ y \in Nat
    BY <1>8, Zenon DEF InBodies, BodiesWithin
  <2> QED
    BY <1>4, <1>5, <2>1
<1> QED
  BY <1>6, <1>7, <1>8

LEMMA BitsAreNaturals ==
  ASSUME NEW inst \in Elementary
  PROVE  inst.bits[1] \in Nat /\ inst.bits[2] \in Nat
<1>1. inst.bits \in (Qubits \X {0}) \union (Qubits \X Qubits)
  <2>1. \/ inst \in [op: Gates \union {"Measure"}, bits: Qubits \X {0}, enabled: BOOLEAN, body: {<<>>}]
        \/ inst \in [op: TwoQubitGates, bits: Qubits \X Qubits, enabled: BOOLEAN, body: {<<>>}]
    BY Zenon DEF Elementary
  <2>2. ASSUME NEW A, NEW B, NEW C, NEW D, inst \in [op: A, bits: B, enabled: C, body: D]
        PROVE  inst.bits \in B
    BY <2>2
  <2> QED
    BY <2>1, <2>2, Zenon
<1>2. \A p \in (Qubits \X {0}) \union (Qubits \X Qubits) : p[1] \in Nat /\ p[2] \in Nat
  <2>1. Qubits \subseteq Nat
    BY InstructionsAssumption, Zenon
  <2>2. \A p \in Qubits \X {0} : p[1] \in Nat /\ p[2] \in Nat
    <3>1. ASSUME NEW A, NEW B, NEW p \in A \X B
          PROVE  p[1] \in A /\ p[2] \in B
      OBVIOUS
    <3>2. \A p \in Qubits \X {0} : p[1] \in Qubits /\ p[2] \in {0}
      BY <3>1, Zenon
    <3>3. \A z \in {0} : z \in Nat
      OBVIOUS
    <3> QED
      BY <2>1, <3>2, <3>3, Zenon
  <2>3. \A p \in Qubits \X Qubits : p[1] \in Nat /\ p[2] \in Nat
    BY <2>1
  <2> QED
    BY <2>2, <2>3, Zenon
<1> QED
  BY <1>1, <1>2, Zenon

LEMMA InstructionBits ==
  ASSUME NEW inst \in Instructions, inst.op \notin Composites
  PROVE  inst.bits[1] \in Nat /\ inst.bits[2] \in Nat
BY InstructionFacts, BitsAreNaturals

LEMMA FitsInit == Init => FitsInv
<1> SUFFICES ASSUME Init
             PROVE  FitsInv
  OBVIOUS
<1>1. kernel = <<>> /\ visitor.native = <<>>
  BY NewVisitorType DEF Init
<1>2. Counting = {}
  BY <1>1 DEF Counting
<1>3. Looked = {}
  BY <1>2, Zenon DEF Looked
<1>4. Within(<<>>, Looked \union InBodies)
  BY DEF Within
<1> QED
  BY <1>1, <1>3, <1>4 DEF FitsInv

LEMMA BitsOf ==
  ASSUME NEW K, NEW C, NEW b
  PROVE  b \in UNION {{K[i].bits[1], K[i].bits[2]} : i \in C} <=>
           \E i \in C : b = K[i].bits[1] \/ b = K[i].bits[2]
OBVIOUS

(* A kernel of one instruction more looks at the qubits of that one.       *)
LEMMA LookedGrows ==
  ASSUME kernel \in Seq(Instructions), NEW inst \in Instructions, kernel' = Append(kernel, inst)
  PROVE  /\ Looked \subseteq Looked' /\ InBodies \subseteq InBodies'
         /\ inst.enabled /\ inst.op \notin Composites =>
              Looked' = Looked \union {inst.bits[1], inst.bits[2]}
         /\ ~(inst.enabled /\ inst.op \notin Composites) => Looked' = Looked
         /\ inst.op = "if" => \A k \in DOMAIN inst.body : \A x \in 1..2 :
              inst.body[k].bits[x] \in InBodies'
<1>n. PICK n \in Nat : n = Len(kernel)
  BY KernelGrows
<1>1. /\ DOMAIN kernel = 1..n /\ DOMAIN kernel' = 1..(n + 1) /\ kernel'[n + 1] = inst
      /\ \A i \in 1..n : kernel'[i] = kernel[i]
  BY <1>n, KernelGrows
<1>2. /\ n + 1 \in 1..(n + 1) /\ n + 1 \notin 1..n
      /\ \A i : i \in 1..(n + 1) <=> i \in 1..n \/ i = n + 1
  OBVIOUS
<1>3. Counting' = IF inst.enabled /\ inst.op \notin Composites
                  THEN Counting \union {n + 1} ELSE Counting
  <2>1. Counting' = {i \in 1..(n + 1) : kernel'[i].enabled /\ kernel'[i].op \notin Composites}
    BY <1>1, Zenon DEF Counting
  <2>2. Counting = {i \in 1..n : kernel[i].enabled /\ kernel[i].op \notin Composites}
    BY <1>1, Zenon DEF Counting
  <2> QED
    BY <1>1, <1>2, <2>1, <2>2
<1>4. \A i \in Counting : i \in 1..n /\ kernel'[i] = kernel[i]
  BY <1>1, Zenon DEF Counting
<1>5. \A b : b \in Looked <=> \E i \in Counting : b = kernel[i].bits[1] \/ b = kernel[i].bits[2]
  BY BitsOf, ZenonT(40) DEF Looked
<1>6. \A b : b \in Looked' <=>
               \E i \in Counting' : b = kernel'[i].bits[1] \/ b = kernel'[i].bits[2]
  <2>1. Looked' = UNION {{kernel'[i].bits[1], kernel'[i].bits[2]} : i \in Counting'}
    BY DEF Looked
  <2>2. PICK K, C : K = kernel' /\ C = Counting'
    OBVIOUS
  <2>3. Looked' = UNION {{K[i].bits[1], K[i].bits[2]} : i \in C}
    BY <2>1, <2>2, Zenon
  <2>4. \A b : b \in UNION {{K[i].bits[1], K[i].bits[2]} : i \in C} <=>
                 \E i \in C : b = K[i].bits[1] \/ b = K[i].bits[2]
    BY BitsOf
  <2>5. ASSUME NEW b
        PROVE  (\E i \in C : b = K[i].bits[1] \/ b = K[i].bits[2]) <=>
               (\E i \in Counting' : b = kernel'[i].bits[1] \/ b = kernel'[i].bits[2])
    BY ONLY <2>2, Zenon
  <2> DEFINE All == UNION {{K[i].bits[1], K[i].bits[2]} : i \in C}
             Old(b) == \E i \in C : b = K[i].bits[1] \/ b = K[i].bits[2]
             New(b) == \E i \in Counting' : b = kernel'[i].bits[1] \/ b = kernel'[i].bits[2]
  <2>6. /\ Looked' = All
        /\ \A b : b \in All <=> Old(b)
        /\ \A b : Old(b) <=> New(b)
    BY <2>3, <2>4, <2>5, Zenon
  <2> HIDE DEF Looked, All, Old, New
  <2>7. \A b : b \in Looked' <=> New(b)
    BY <2>6
  <2> QED
    BY <2>7, Zenon DEF New
<1>7. InBodies \subseteq InBodies'
  <2> SUFFICES ASSUME NEW b \in InBodies
               PROVE  b \in InBodies'
    BY Zenon
  <2>1. PICK i \in 1..n : \E k \in DOMAIN kernel[i].body : \E x \in 1..2 :
          b = kernel[i].body[k].bits[x]
    BY <1>1, Zenon DEF InBodies
  <2>2. i \in DOMAIN kernel' /\ kernel'[i] = kernel[i] /\ b \in Nat
    BY <1>1, <1>2, <2>1, Zenon DEF InBodies
  <2>3. \E k \in DOMAIN kernel'[i].body : \E x \in 1..2 : b = kernel'[i].body[k].bits[x]
    BY <2>1, <2>2, Zenon
  <2> QED
    BY <2>2, <2>3, Zenon DEF InBodies
<1>8. Looked \subseteq Looked'
  <2> SUFFICES ASSUME NEW b \in Looked
               PROVE  b \in Looked'
    BY Zenon
  <2>1. PICK i \in Counting : b = kernel[i].bits[1] \/ b = kernel[i].bits[2]
    BY <1>5, Zenon
  <2>2. i \in Counting' /\ kernel'[i] = kernel[i]
    BY <1>3, <1>4, <2>1
  <2> QED
    BY <1>6, <2>1, <2>2, Zenon
<1>9. \A b : (\E i \in Counting : b = kernel'[i].bits[1] \/ b = kernel'[i].bits[2]) <=> b \in Looked
  <2> DEFINE New(b) == \E i \in Counting : b = kernel'[i].bits[1] \/ b = kernel'[i].bits[2]
             Old(b) == \E i \in Counting : b = kernel[i].bits[1] \/ b = kernel[i].bits[2]
  <2> HIDE DEF Looked
  <2>1. ASSUME NEW b
        PROVE  New(b) <=> Old(b)
    <3>1. ASSUME NEW i \in Counting
          PROVE  kernel'[i] = kernel[i]
      BY <1>4
    <3> QED
      BY <3>1
  <2>2. \A b : b \in Looked <=> Old(b)
    BY <1>5, Zenon
  <2>3. \A b : New(b) <=> b \in Looked
    <3> HIDE DEF New, Old
    <3> QED
      BY <2>1, <2>2
  <2> QED
    BY <2>3, Zenon
<1>10. ASSUME inst.enabled, inst.op \notin Composites
       PROVE  Looked' = Looked \union {inst.bits[1], inst.bits[2]}
  <2>1. \A i : i \in Counting' <=> i \in Counting \/ i = n + 1
    BY <1>3, <1>10
  <2>2. \A b : b \in Looked' <=> b \in Looked \/ b = inst.bits[1] \/ b = inst.bits[2]
    <3> HIDE DEF Looked
    <3>1. \A b : (\E i \in Counting' : b = kernel'[i].bits[1] \/ b = kernel'[i].bits[2]) <=>
                   \/ \E i \in Counting : b = kernel'[i].bits[1] \/ b = kernel'[i].bits[2]
                   \/ b = kernel'[n + 1].bits[1] \/ b = kernel'[n + 1].bits[2]
      BY <2>1, Zenon
    <3>2. \A b : (b = kernel'[n + 1].bits[1] <=> b = inst.bits[1]) /\
                  (b = kernel'[n + 1].bits[2] <=> b = inst.bits[2])
      BY <1>1, Zenon
    <3> QED
      BY ONLY <1>6, <1>9, <3>1, <3>2, ZenonT(40)
  <2> HIDE DEF Looked
  <2> QED
    BY <2>2
<1>12. ASSUME ~(inst.enabled /\ inst.op \notin Composites)
       PROVE  Looked' = Looked
  <2>1. \A i : i \in Counting' <=> i \in Counting
    BY <1>3, <1>12
  <2>2. \A b : b \in Looked' <=> b \in Looked
    BY <1>6, <1>9, <2>1, ZenonT(40)
  <2> HIDE DEF Looked
  <2> QED
    BY <2>2
<1>11. ASSUME inst.op = "if", NEW k \in DOMAIN inst.body, NEW x \in 1..2
       PROVE  inst.body[k].bits[x] \in InBodies'
  <2>1. inst.body[k] \in Elementary
    BY <1>11, InstructionFacts
  <2>2. inst.body[k].bits[x] \in Nat
    BY <1>11, <2>1, BitsAreNaturals
  <2> QED
    BY <1>1, <1>2, <2>2, Zenon DEF InBodies
<1> QED
  BY <1>7, <1>8, <1>10, <1>11, <1>12

LEMMA WithinConcat ==
  ASSUME NEW s \in Seq(Tokens), NEW t \in Seq(Tokens), NEW B, Within(s, B), Within(t, B)
  PROVE  Within(s \o t, B)
<1>1. ASSUME NEW i \in DOMAIN (s \o t)
      PROVE  (\E j \in DOMAIN s : (s \o t)[i] = s[j]) \/ (\E j \in DOMAIN t : (s \o t)[i] = t[j])
  <2>1. CASE i =< Len(s)
    <3>1. i \in DOMAIN s /\ (s \o t)[i] = s[i]
      BY <2>1
    <3> QED
      BY <3>1
  <2>2. CASE i > Len(s)
    <3>1. i - Len(s) \in DOMAIN t /\ (s \o t)[i] = t[i - Len(s)]
      BY <2>2
    <3> QED
      BY <3>1
  <2> QED
    BY <2>1, <2>2
<1> DEFINE both == s \o t
<1>2. \A i \in DOMAIN both : (\E j \in DOMAIN s : both[i] = s[j]) \/ (\E j \in DOMAIN t : both[i] = t[j])
  BY <1>1
<1> HIDE DEF both
<1>3. Within(both, B)
  BY <1>2, Zenon DEF Within
<1> QED
  BY <1>3 DEF both

LEMMA MeasureWithin ==
  ASSUME NEW v \in Visitors, NEW q \in Qubits, NEW B, q \in B, Within(v.native, B)
  PROVE  Within(visitMeasure(v, q).native, B)
<1> DEFINE c == v.classicalBitCounter
           d == Creg(c)
           m == Measured(q, c)
           once == v.native \o <<d>>
<1>1. c \in Nat /\ v.native \in Seq(Tokens)
  BY DEF Visitors
<1>2. /\ d \in Tokens /\ m \in Tokens
      /\ \A b \in DOMAIN d.bits : d.bits[b] \in B
      /\ \A b \in DOMAIN m.bits : m.bits[b] \in B
  BY <1>1 DEF Creg, Measured, Token, Tokens
<1>3. visitMeasure(v, q).native = Append(once, m)
  BY MeasureVisit
<1> HIDE DEF c, d, m
<1>4. once = Append(v.native, d)
  BY <1>1, <1>2
<1> HIDE DEF once
<1>5. once \in Seq(Tokens) /\ Within(once, B)
  BY <1>1, <1>2, <1>4, TokenWritten, WithinAppend
<1>6. Within(Append(once, m), B)
  BY <1>2, <1>5, WithinAppend
<1> QED
  BY <1>3, <1>6, Zenon

LEMMA NestedWithin ==
  ASSUME NEW body \in Seq(Elementary), NEW B,
         \A k \in DOMAIN body : \A x \in 1..2 : body[k].bits[x] \in B
  PROVE  Within(Nested(body).native, B)
<1>1. Within(<<>>, B) /\ NewVisitor.native = <<>> /\ NewVisitor \in Visitors
  BY NewVisitorType DEF Within
<1>2. CASE body = <<>>
  BY <1>1, <1>2 DEF Nested
<1>3. CASE body # <<>>
  <2> DEFINE g == body[1]
  <2>1. g \in Elementary /\ 1 \in DOMAIN body /\ Nested(body) = visitElementary(NewVisitor, g)
    BY <1>3 DEF Nested
  <2>2. g.bits[1] \in B /\ g.bits[2] \in B
    BY <2>1
  <2> HIDE DEF g
  <2>3. CASE g.op = "Measure"
    <3>1. visitElementary(NewVisitor, g) = visitMeasure(NewVisitor, g.bits[1])
      BY <2>3 DEF visitElementary
    <3>2. g.bits[1] \in Qubits
      BY <2>1, ElementaryFacts
    <3>3. Within(visitMeasure(NewVisitor, g.bits[1]).native, B)
      BY <1>1, <2>2, <3>2, MeasureWithin
    <3> QED
      BY <2>1, <3>1, <3>3, Zenon
  <2>4. CASE g.op # "Measure"
    <3>1. Quiet(NewVisitor, Nested(body), {g.bits[1], g.bits[2]})
      BY <1>1, <2>1, <2>4, ElementaryQuiet
    <3>2. {g.bits[1], g.bits[2]} \subseteq B
      BY <2>2
    <3> QED
      BY <1>1, <3>1, <3>2, Zenon DEF Quiet
  <2> QED
    BY <2>3, <2>4
<1> QED
  BY <1>2, <1>3

LEMMA ConditionalWithin ==
  ASSUME NEW v \in Visitors, NEW inst \in Instructions, inst.op = "if", NEW B,
         Within(v.native, B), \A k \in DOMAIN inst.body : \A x \in 1..2 : inst.body[k].bits[x] \in B
  PROVE  Within(visitConditional(v, inst).native, B)
<1> DEFINE c == ClassicalBitIdx(v, inst.bits[1])
           f == If(c)
           nested == Nested(inst.body).native
<1>1. inst.body \in Seq(Elementary)
  BY InstructionFacts
<1>2. nested \in Seq(Tokens) /\ Within(nested, B)
  BY <1>1, NestedText, NestedWithin
<1>3. c \in Nat
  <2>1. PICK D \in SUBSET Qubits : v.qubitToClassicalBitIndex \in [D -> Nat]
    BY DEF Visitors
  <2> QED
    BY <2>1 DEF ClassicalBitIdx
<1>4. f \in Tokens /\ f.bits = <<>>
  BY <1>3 DEF If, Token, Tokens
<1>5. visitConditional(v, inst).native = v.native \o (<<f>> \o nested)
  BY ConditionalVisit
<1>6. v.native \in Seq(Tokens)
  BY DEF Visitors
<1> HIDE DEF c, f, nested
<1>7. <<f>> \in Seq(Tokens) /\ Within(<<f>>, B)
  BY <1>4 DEF Within
<1>8. Within(<<f>> \o nested, B) /\ <<f>> \o nested \in Seq(Tokens)
  <2>1. Within(<<f>> \o nested, B)
    BY <1>2, <1>7, WithinConcat
  <2>2. \A s, t \in Seq(Tokens) : s \o t \in Seq(Tokens)
    BY SMT
  <2> QED
    BY <1>2, <1>7, <2>1, <2>2, Zenon
<1>9. Within(v.native \o (<<f>> \o nested), B)
  BY <1>6, <1>8, WithinConcat
<1> QED
  BY <1>5, <1>9, Zenon

LEMMA FitsNext ==
  ASSUME VisitorInv, FitsInv, Step
  PROVE  FitsInv'
<1>1. CASE UNCHANGED <<kernel, visitor>>
  <2>1. kernel' = kernel /\ visitor' = visitor
    BY <1>1
  <2>2. Looked' = Looked /\ InBodies' = InBodies
    BY <2>1, Zenon DEF Looked, Counting, InBodies
  <2> QED
    BY <2>1, <2>2, Zenon DEF FitsInv, Within
<1>2. kernel \in Seq(Instructions) /\ visitor \in Visitors
  BY DEF VisitorInv
<1>3. ASSUME NEW inst \in Instructions, kernel' = Append(kernel, inst),
             \/ visitor' = visitor
             \/ inst.enabled /\ visitor' = accept(visitor, inst)
      PROVE  FitsInv'
  <2>1. Looked' \subseteq Nat /\ \E m \in Nat : \A y \in Looked' : y =< m
    <3>1. CASE inst.enabled /\ inst.op \notin Composites
      <4>1. Looked' = Looked \union {inst.bits[1], inst.bits[2]}
        BY <1>2, <1>3, <3>1, LookedGrows
      <4>2. PICK m \in Nat : \A y \in Looked : y =< m
        BY DEF FitsInv
      <4>3. inst.bits[1] \in Nat /\ inst.bits[2] \in Nat /\ Looked \subseteq Nat
        BY <3>1, InstructionBits DEF FitsInv
      <4>4. /\ m + inst.bits[1] + inst.bits[2] \in Nat
            /\ \A y \in Looked' : y =< m + inst.bits[1] + inst.bits[2]
        BY <4>1, <4>2, <4>3
      <4>5. Looked' \subseteq Nat
        BY <4>1, <4>3
      <4> QED
        BY <4>4, <4>5, Zenon
    <3>2. CASE ~(inst.enabled /\ inst.op \notin Composites)
      <4>1. Looked' = Looked
        BY <1>2, <1>3, <3>2, LookedGrows
      <4> QED
        BY <4>1, Zenon DEF FitsInv
    <3> QED
      BY <3>1, <3>2
  <2> PICK B : B = Looked' \union InBodies'
    OBVIOUS
  <2>2. Within(visitor.native, B)
    <3>1. Looked \subseteq Looked' /\ InBodies \subseteq InBodies'
      BY <1>2, <1>3, LookedGrows
    <3>2. \A y \in Looked \union InBodies : y \in B
      BY <3>1
    <3> QED
      BY <3>2, Zenon DEF FitsInv, Within
  <2>3. Within(visitor'.native, B)
    <3>1. CASE visitor' = visitor
      BY <2>2, <3>1, Zenon
    <3>2. CASE inst.enabled /\ visitor' = accept(visitor, inst)
      <4>1. CASE inst.op = "GateFunction"
        <5>1. visitor' = visitor
          BY <3>2, <4>1 DEF accept
        <5> QED
          BY <3>1, <5>1
      <4>2. CASE inst.op = "if"
        <5>1. visitor' = visitConditional(visitor, inst)
          BY <3>2, <4>2 DEF accept
        <5>2. \A k \in DOMAIN inst.body : \A x \in 1..2 : inst.body[k].bits[x] \in B
          <6>1. \A k \in DOMAIN inst.body : \A x \in 1..2 : inst.body[k].bits[x] \in InBodies'
            BY <1>2, <1>3, <4>2, LookedGrows
          <6> QED
            BY <6>1
        <5> QED
          BY <1>2, <2>2, <4>2, <5>1, <5>2, ConditionalWithin
      <4>3. CASE inst.op \notin Composites
        <5>1. inst.bits[1] \in B /\ inst.bits[2] \in B
          <6>1. Looked' = Looked \union {inst.bits[1], inst.bits[2]}
            BY <1>2, <1>3, <3>2, <4>3, LookedGrows
          <6> QED
            BY <6>1
        <5>2. inst \in Elementary /\ visitor' = visitElementary(visitor, inst)
          BY <3>2, <4>3, InstructionFacts DEF accept, Composites
        <5>3. CASE inst.op = "Measure"
          <6>1. visitor' = visitMeasure(visitor, inst.bits[1]) /\ inst.bits[1] \in Qubits
            BY <5>2, <5>3, InstructionFacts DEF visitElementary
          <6> QED
            BY <1>2, <2>2, <5>1, <6>1, MeasureWithin
        <5>4. CASE inst.op # "Measure"
          <6>1. Quiet(visitor, visitor', {inst.bits[1], inst.bits[2]})
            BY <1>2, <5>2, <5>4, ElementaryQuiet
          <6>2. {inst.bits[1], inst.bits[2]} \subseteq B
            BY <5>1
          <6> QED
            BY <2>2, <6>1, <6>2, Zenon DEF Quiet
        <5> QED
          BY <5>3, <5>4
      <4> QED
        BY <4>1, <4>2, <4>3 DEF Composites
    <3> QED
      BY <1>3, <3>1, <3>2
  <2>4. Within(visitor.native, Looked \union InBodies)'
    BY <2>3, Zenon DEF Within
  <2> HIDE DEF Looked, InBodies
  <2> QED
    BY <2>1, <2>4, Zenon DEF FitsInv
<1>4. ASSUME NEW inst \in Instructions, Visit(inst)
      PROVE  visitor' = accept(visitor, inst)
  BY <1>4, Zenon DEF Visit
<1> QED
  BY <1>1, <1>3, <1>4, StepCases

-----------------------------------------------------------------------------
(* A support for each measurement of operationsJsonStr.                    *)
MeasuresIn(text) == {i \in DOMAIN text : text[i].name = "Measure"}
CountInv == Len(supports) = Cardinality(MeasuresIn(visitor.operations))

LEMMA MeasuredAppend ==
  ASSUME NEW s \in Seq(Tokens), NEW m \in Tokens, m.name = "Measure"
  PROVE  Cardinality(MeasuresIn(Append(s, m))) = Cardinality(MeasuresIn(s)) + 1
<1>n. PICK n \in Nat : n = Len(s)
  OBVIOUS
<1>1. /\ DOMAIN s = 1..n /\ DOMAIN Append(s, m) = 1..(n + 1) /\ Append(s, m)[n + 1] = m
      /\ \A i \in 1..n : Append(s, m)[i] = s[i]
  BY <1>n
<1>2. PICK text : text = Append(s, m)
  OBVIOUS
<1>3. /\ n + 1 \in 1..(n + 1) /\ n + 1 \notin 1..n
      /\ \A i : i \in 1..(n + 1) <=> i \in 1..n \/ i = n + 1
  OBVIOUS
<1>4. MeasuresIn(text) = MeasuresIn(s) \union {n + 1}
  BY ONLY <1>1, <1>2, <1>3, m.name = "Measure", SMT DEF MeasuresIn
<1>5. n + 1 \notin MeasuresIn(s)
  BY <1>1, <1>3 DEF MeasuresIn
<1>6. IsFiniteSet(MeasuresIn(s))
  <2>1. IsFiniteSet(1..n) /\ MeasuresIn(s) \subseteq 1..n
    BY <1>1, FS_Interval DEF MeasuresIn
  <2> QED
    BY <2>1, FS_Subset
<1> QED
  BY <1>2, <1>4, <1>5, <1>6, FS_AddElement

LEMMA MeasuredKept ==
  ASSUME NEW s \in Seq(Tokens), NEW t \in Seq(Tokens), Unmeasured(t)
  PROVE  MeasuresIn(s \o t) = MeasuresIn(s)
<1>1. ASSUME NEW i \in DOMAIN (s \o t), (s \o t)[i].name = "Measure"
      PROVE  i \in DOMAIN s /\ (s \o t)[i] = s[i]
  <2>1. CASE i =< Len(s)
    BY <2>1
  <2>2. CASE i > Len(s)
    <3>1. i - Len(s) \in DOMAIN t /\ (s \o t)[i] = t[i - Len(s)]
      BY <2>2
    <3> QED
      BY <1>1, <3>1 DEF Unmeasured
  <2> QED
    BY <2>1, <2>2
<1>2. \A i \in DOMAIN s : i \in DOMAIN (s \o t) /\ (s \o t)[i] = s[i]
  OBVIOUS
<1>3. PICK text : text = s \o t
  OBVIOUS
<1> QED
  BY <1>1, <1>2, <1>3, Zenon DEF MeasuresIn

LEMMA CountInit == Init => CountInv
<1> SUFFICES ASSUME Init
             PROVE  CountInv
  OBVIOUS
<1>1. supports = <<>> /\ visitor.operations = <<>>
  BY DEF Init, NewVisitor
<1>2. MeasuresIn(<<>>) = {}
  BY DEF MeasuresIn
<1> QED
  BY <1>1, <1>2, FS_EmptySet DEF CountInv

LEMMA CountNext ==
  ASSUME VisitorInv, CountInv, Step
  PROVE  CountInv'
<1>1. CASE UNCHANGED <<visitor, supports>>
  BY <1>1 DEF CountInv
<1>2. visitor \in Visitors /\ visitor.operations \in Seq(Tokens) /\ supports \in Seq(Qubits)
      /\ visitor.classicalBitCounter \in Nat
  BY DEF VisitorInv, Visitors
<1>3. ASSUME NEW inst \in Instructions, Visit(inst), inst.enabled
      PROVE  CountInv'
  <2>1. /\ visitor' = accept(visitor, inst)
        /\ supports' = IF inst.op = "Measure" THEN Append(supports, inst.bits[1]) ELSE supports
    BY <1>3, Zenon DEF Visit
  <2>2. CASE inst.op = "Measure"
    <3> DEFINE m == Measured(inst.bits[1], visitor.classicalBitCounter)
    <3>1. visitor' = visitMeasure(visitor, inst.bits[1]) /\ inst.bits[1] \in Qubits
      BY <2>1, <2>2, InstructionFacts DEF accept, visitElementary
    <3>2. visitor'.operations = Append(visitor.operations, m)
      BY <1>2, <3>1, MeasureVisit
    <3>3. m \in Tokens /\ m.name = "Measure"
      BY <1>2, <3>1 DEF Measured, Token, Tokens
    <3> HIDE DEF m
    <3>4. Cardinality(MeasuresIn(visitor'.operations)) =
            Cardinality(MeasuresIn(visitor.operations)) + 1
      BY <1>2, <3>2, <3>3, MeasuredAppend
    <3>5. Len(supports') = Len(supports) + 1
      BY <1>2, <2>1, <2>2, <3>1
    <3> QED
      BY <3>4, <3>5 DEF CountInv, MeasuresIn
  <2>3. CASE inst.op = "if"
    <3>1. visitor' = visitConditional(visitor, inst) /\ supports' = supports
      BY <2>1, <2>3 DEF accept
    <3>2. visitor'.operations = visitor.operations
      BY <1>2, <2>3, <3>1, ConditionalVisit
    <3> QED
      BY <3>1, <3>2, Zenon DEF CountInv, MeasuresIn
  <2>4. CASE inst.op = "GateFunction"
    <3>1. visitor' = visitor /\ supports' = supports
      BY <2>1, <2>4 DEF accept
    <3> QED
      BY <1>1, <3>1
  <2>5. CASE inst.op \notin Composites /\ inst.op # "Measure"
    <3>1. inst \in Elementary /\ visitor' = visitElementary(visitor, inst) /\ supports' = supports
      BY <2>1, <2>5, InstructionFacts DEF accept, Composites
    <3>2. Extended(visitor, visitor')
      BY <1>2, <2>5, <3>1, ElementaryExtends
    <3>3. PICK text \in Seq(Tokens) :
            Unmeasured(text) /\ visitor'.operations = visitor.operations \o text
      BY <3>2 DEF Extended
    <3>4. MeasuresIn(visitor'.operations) = MeasuresIn(visitor.operations)
      BY <1>2, <3>3, MeasuredKept
    <3> QED
      BY <3>1, <3>4, Zenon DEF CountInv, MeasuresIn
  <2> QED
    BY <2>2, <2>3, <2>4, <2>5 DEF Composites
<1> QED
  BY <1>1, <1>3, StepCases

-----------------------------------------------------------------------------
(* Everything above, kept by the loop over a kernel of either kind.        *)
WalkInv == VisitorInv /\ IndexInv /\ TextInv /\ AgreeInv /\ FitsInv /\ CountInv

LEMMA WalkSteps == VisitorInv /\ [Walk]_walkVars => Step
<1> SUFFICES ASSUME VisitorInv, [Walk]_walkVars
             PROVE  Step
  OBVIOUS
<1>1. CASE UNCHANGED walkVars
  BY <1>1 DEF walkVars, Step
<1>2. CASE Next
  BY <1>2 DEF Step
<1>3. ASSUME NEW inst \in Analogs, SkipAnalog(inst) \/ RejectAnalog(inst) \/ VisitAnalog(inst)
      PROVE  Step
  <2>1. inst.op = "Measure" => NotAnalog(inst)
    BY DEF NotAnalog
  <2>2. UNCHANGED <<kernel, visitor, supports>> /\ (failed' = failed \/ failed' = TRUE)
    BY <1>3, <2>1, Zenon DEF SkipAnalog, RejectAnalog, VisitAnalog, AnalogTurn
  <2> QED
    BY <2>2 DEF Step, vars
<1> QED
  BY <1>1, <1>2, <1>3, Zenon DEF Walk

LEMMA WalkInvInit == Init => WalkInv
BY VisitorInit, IndexInit, TextInit, AgreeInit, FitsInit, CountInit DEF WalkInv

LEMMA WalkInvStep == WalkInv /\ Step => WalkInv'
<1> SUFFICES ASSUME VisitorInv, IndexInv, TextInv, AgreeInv, FitsInv, CountInv, Step
             PROVE  WalkInv'
  BY DEF WalkInv
<1>1. VisitorInv' /\ IndexInv' /\ TextInv'
  BY VisitorStep, IndexNext, TextNext
<1>2. AgreeInv' /\ FitsInv' /\ CountInv'
  BY AgreeNext, FitsNext, CountNext
<1> QED
  BY <1>1, <1>2, Zenon DEF WalkInv

LEMMA WalkInvariant == Spec \/ WalkSpec => []WalkInv
<1>1. WalkInv /\ [Next]_vars => WalkInv'
  BY WalkInvStep DEF Step
<1>2. WalkInv /\ [Walk]_walkVars => WalkInv'
  BY WalkInvStep, WalkSteps DEF WalkInv
<1>3. WalkInit => WalkInv
  BY WalkInvInit DEF WalkInit
<1> QED
  BY <1>1, <1>2, <1>3, WalkInvInit, PTL DEF Spec, WalkSpec

(* The members of the visitor keep their types over every kernel.          *)
THEOREM VisitorTypeCorrect == Spec \/ WalkSpec => []TypeOK
<1>1. WalkInv => TypeOK
  BY VisitorTypeOK DEF WalkInv
<1> QED
  BY <1>1, WalkInvariant, PTL

(* Whatever a kernel holds, disabled, rejected and dropped instructions    *)
(* and conditionals included, the k-th register declared is the register   *)
(* of the k-th qubit in measurementSupports, which is what lets processInput *)
(* and processResponse address results by position.                        *)
THEOREM RegistersInOrder == Spec \/ WalkSpec => []RegistersFollowSupports
<1>1. WalkInv => RegistersFollowSupports
  BY DEF WalkInv, VisitorInv
<1> QED
  BY <1>1, WalkInvariant, PTL

(* The text OpenQasmVisitor writes for a kernel it translates performs     *)
(* every instruction of the kernel in order, each on its own qubits; a     *)
(* measurement fills the register its count names, and the body of a       *)
(* conditional is guarded by the register its qubit was measured into,     *)
(* however many other qubits were measured before, between and after.      *)
THEOREM TextPerformsKernel == Spec \/ WalkSpec => []TextMeansKernel
<1>1. WalkInv => TextMeansKernel
  <2> SUFFICES ASSUME WalkInv
               PROVE  TextMeansKernel
    OBVIOUS
  <2>1. DOMAIN kernel = 1..Len(kernel)
    BY DEF WalkInv, VisitorInv
  <2>2. TextInv
    BY DEF WalkInv
  <2> QED
    BY <2>1, <2>2, Zenon DEF TextInv, Meant, Intents, TextMeansKernel, Equivalent
<1> QED
  BY <1>1, WalkInvariant, PTL

(* operationsJsonStr and the OpenQASM text, which LocalIBMAccelerator      *)
(* sends side by side, are the same circuit for any kernel without         *)
(* conditionals: though every visit writes them apart, each gate has the   *)
(* same operation, angles and qubits in both (GateToken compares the two   *)
(* tables of statements), and registers are counted as they are declared.  *)
THEOREM BothTextsAgree == Spec \/ WalkSpec => []TextsAgree
<1>1. WalkInv => TextsAgree
  <2> SUFFICES ASSUME WalkInv
               PROVE  TextsAgree
    OBVIOUS
  <2>1. DOMAIN kernel = 1..Len(kernel)
    BY DEF WalkInv, VisitorInv
  <2>2. AgreeInv
    BY DEF WalkInv
  <2> QED
    BY <2>1, <2>2, Zenon DEF AgreeInv, Agree, TextsAgree
<1> QED
  BY <1>1, WalkInvariant, PTL

(* The register OQASMCompiler::translate declares, one more than the       *)
(* largest qubit of the enabled instructions, holds every qubit the text   *)
(* names, if the bodies of conditionals, which nobody looks into, stay on  *)
(* the qubits used elsewhere.                                              *)
THEOREM TranslationFits == Spec \/ WalkSpec => []TranslatedFits
<1>1. WalkInv => TranslatedFits
  BY FitsImplies DEF WalkInv
<1> QED
  BY <1>1, WalkInvariant, PTL

(* processInput notes a support for each measurement the visitor writes to *)
(* operationsJsonStr and for nothing else: disabled measurements, those in *)
(* conditionals and those of analog kernels leave neither.                 *)
THEOREM SupportsCountMeasures == Spec \/ WalkSpec => []SupportsAreMeasures
<1>1. WalkInv => SupportsAreMeasures
  BY DEF WalkInv, CountInv, MeasuresIn, SupportsAreMeasures
<1> QED
  BY <1>1, WalkInvariant, PTL
=============================================================================
