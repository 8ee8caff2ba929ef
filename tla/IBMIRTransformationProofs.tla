---------------------- MODULE IBMIRTransformationProofs ----------------------
(***************************************************************************)
(* What holds of transform for every program, coupling map and number of   *)
(* calls: types, the index of flat programs, and what the transformed      *)
(* kernels perform.                                                        *)
(***************************************************************************)
EXTENDS IBMIRTransformation, FlattenLemmas, TLAPS

Pointers(heap, pointers) == pointers \in Seq(Nat) /\ WellFormed(heap, pointers)

Functions(heap, pointers) ==
  /\ Pointers(heap, pointers)
  /\ \A k \in DOMAIN pointers : heap[pointers[k]].op = "Function"

HeapOK(heap) ==
  /\ heap \in Seq(Instruction)
  /\ \A i \in DOMAIN heap : WellFormed(heap, heap[i].body)

(* TypeOK, and that the kernels to come are functions *)
TypeInv ==
  /\ given \in Program
  /\ HeapOK(instructions)
  /\ transforms \in 0..MaxTransforms
  /\ Functions(instructions, ir)
  /\ Functions(instructions, newir)
  /\ kernel \in {0} \union DOMAIN instructions
  /\ Pointers(instructions, iterator)
  /\ currentKernelInstructionIdx \in Nat
  /\ pc \in {"idle", "loop", "walk", "failed"}
  /\ pc = "walk" => kernel # 0 /\ instructions[kernel].op = "Function"

-----------------------------------------------------------------------------
(* Instructions *)

LEMMA Ops == "Function" \notin Gates /\ "CNOT" \notin Gates /\ "H" \in Gates
BY GatesAssumption, Zenon

LEMMA Members ==
  ASSUME NEW A, NEW B, NEW C, NEW D, NEW i \in [op : A, bits : B, enabled : C, body : D]
  PROVE  /\ i.op \in A /\ i.bits \in B /\ i.enabled \in C /\ i.body \in D
         /\ \A e \in C : LET o == [i EXCEPT !.enabled = e] IN
              /\ o \in [op : A, bits : B, enabled : C, body : D]
              /\ o.op = i.op /\ o.bits = i.bits /\ o.body = i.body /\ o.enabled = e
         /\ \A e \in D : LET o == [i EXCEPT !.body = e] IN
              /\ o \in [op : A, bits : B, enabled : C, body : D]
              /\ o.op = i.op /\ o.bits = i.bits /\ o.enabled = i.enabled /\ o.body = e
BY SMT

LEMMA ConcatFacts ==
  ASSUME NEW S, NEW s \in Seq(S), NEW t \in Seq(S), NEW both, both = s \o t
  PROVE  /\ both \in Seq(S) /\ Len(both) = Len(s) + Len(t)
         /\ \A i \in 1..Len(s) : both[i] = s[i]
         /\ \A i \in 1..Len(t) : both[Len(s) + i] = t[i]
BY SMT

LEMMA InstructionFacts ==
  ASSUME NEW inst \in Instruction
  PROVE  /\ inst.body \in Seq(Nat) /\ inst.enabled \in BOOLEAN
         /\ inst.op # "Function" => inst.body = <<>>
         /\ inst.op = "Function" => inst \in Function
         /\ inst.op = "CNOT" => inst \in TwoQubitGate /\ inst.bits \in Qubits \X Qubits
<1>0. <<>> \in Seq(Nat) /\ "CNOT" # "Function"
  BY SMT
<1>1. CASE inst \in Gate
  <2>1. inst.op \in Gates /\ inst.enabled \in BOOLEAN /\ inst.body \in {<<>>}
    BY <1>1, Members, Zenon DEF Gate
  <2>2. inst.op # "CNOT" /\ inst.op # "Function" /\ inst.body = <<>>
    BY <2>1, Ops, Zenon
  <2> QED
    BY <1>0, <2>1, <2>2, Zenon
<1>2. CASE inst \in TwoQubitGate
  BY <1>0, <1>2, Members, ZenonT(40) DEF TwoQubitGate
<1>3. CASE inst \in Function
  BY <1>0, <1>3, Members, Zenon DEF Function
<1> QED
  BY <1>1, <1>2, <1>3, Zenon DEF Instruction

(* Disabling a CNOT and giving a function another body *)
LEMMA Disabled ==
  ASSUME NEW inst \in Instruction, inst.op = "CNOT"
  PROVE  LET off == [inst EXCEPT !.enabled = FALSE]
         IN  /\ off \in Instruction /\ off.op = "CNOT" /\ off.body = <<>>
             /\ off.bits = inst.bits /\ off.enabled = FALSE
<1>1. inst \in TwoQubitGate
  BY InstructionFacts, Zenon
<1>2. LET off == [inst EXCEPT !.enabled = FALSE]
      IN  /\ off \in TwoQubitGate /\ off.op = "CNOT" /\ off.body = <<>>
          /\ off.bits = inst.bits /\ off.enabled = FALSE
  BY <1>1, Members, Zenon DEF TwoQubitGate
<1> QED
  BY <1>2, Zenon DEF Instruction

LEMMA Rebodied ==
  ASSUME NEW inst \in Instruction, inst.op = "Function", NEW body \in Seq(Nat)
  PROVE  LET other == [inst EXCEPT !.body = body]
         IN  /\ other \in Instruction /\ other.op = "Function" /\ other.body = body
             /\ other.bits = inst.bits
<1>1. inst \in Function
  BY InstructionFacts, Zenon
<1>2. LET other == [inst EXCEPT !.body = body]
      IN  /\ other \in Function /\ other.op = "Function" /\ other.body = body
          /\ other.bits = inst.bits
  BY <1>1, Members, Zenon DEF Function
<1> QED
  BY <1>2, Zenon DEF Instruction

LEMMA CreatedFacts ==
  ASSUME NEW bits \in Qubits \X Qubits
  PROVE  /\ Created(bits) \in Seq(Instruction) /\ Len(Created(bits)) = 3
         /\ \A i \in 1..3 : Created(bits)[i].body = <<>> /\ Created(bits)[i].enabled = TRUE
                            /\ Created(bits)[i].op = IF i = 3 THEN "CNOT" ELSE "H"
         /\ Created(bits)[1].bits = <<bits[1]>> /\ Created(bits)[2].bits = <<bits[2]>>
         /\ Created(bits)[3].bits = <<bits[2], bits[1]>>
<1> DEFINE a == bits[1]
           b == bits[2]
           h0 == Enabled("H", <<a>>)
           h1 == Enabled("H", <<b>>)
           revCnot == Enabled("CNOT", <<b, a>>)
<1>1. a \in Qubits /\ b \in Qubits
  BY SMT
<1>2. Created(bits) = <<h0, h1, revCnot>>
  BY Zenon DEF Created
<1> HIDE DEF a, b
<1>3. h0 \in Instruction /\ h1 \in Instruction
  <2>1. ASSUME NEW q \in Qubits PROVE Enabled("H", <<q>>) \in Gate
    BY <2>1, Ops, SMT DEF Enabled, Gate
  <2> QED
    BY <1>1, <2>1, Zenon DEF Instruction
<1>4. revCnot \in Instruction
  <2>1. revCnot \in TwoQubitGate
    BY <1>1, SMT DEF Enabled, TwoQubitGate
  <2> QED
    BY <2>1, Zenon DEF Instruction
<1>5. /\ h0.body = <<>> /\ h1.body = <<>> /\ revCnot.body = <<>>
      /\ h0.enabled = TRUE /\ h1.enabled = TRUE /\ revCnot.enabled = TRUE
      /\ h0.op = "H" /\ h1.op = "H" /\ revCnot.op = "CNOT"
      /\ h0.bits = <<a>> /\ h1.bits = <<b>> /\ revCnot.bits = <<b, a>>
  BY SMT DEF Enabled
<1> HIDE DEF h0, h1, revCnot
<1>6. /\ Created(bits) \in Seq(Instruction) /\ Len(Created(bits)) = 3
      /\ Created(bits)[1] = h0 /\ Created(bits)[2] = h1 /\ Created(bits)[3] = revCnot
  BY <1>2, <1>3, <1>4, SMT
<1>7. \A i \in 1..3 : i = 1 \/ i = 2 \/ i = 3
  BY SMT
<1>8. 1 # 3 /\ 2 # 3
  BY SMT
<1> QED
  BY <1>5, <1>6, <1>7, <1>8, ZenonT(30) DEF a, b

LEMMA ReplacedFacts ==
  ASSUME NEW body \in Seq(Nat), NEW i \in Nat, i < Len(body), NEW n \in Nat
  PROVE  LET other == Replaced(body, i, <<n + 1, n + 2, n + 3, n + 1, n + 2>>)
         IN  /\ other \in Seq(Nat) /\ Len(other) = Len(body) + 4
             /\ \A j \in 1..i : other[j] = body[j]
             /\ other[i + 1] = n + 1 /\ other[i + 2] = n + 2 /\ other[i + 3] = n + 3
             /\ other[i + 4] = n + 1 /\ other[i + 5] = n + 2
             /\ \A j \in (i + 6)..Len(other) : other[j] = body[j - 4]
<1> DEFINE first == SubSeq(body, 1, i)
           middle == <<n + 1, n + 2, n + 3, n + 1, n + 2>>
           last == SubSeq(body, i + 2, Len(body))
           other == Replaced(body, i, middle)
<1>1. /\ first \in Seq(Nat) /\ Len(first) = i /\ \A j \in 1..i : first[j] = body[j]
  BY SMT
<1>2. /\ last \in Seq(Nat) /\ Len(last) = Len(body) - (i + 1)
      /\ \A j \in 1..Len(last) : last[j] = body[j + i + 1]
  BY SMT
<1>3. /\ middle \in Seq(Nat) /\ Len(middle) = 5
      /\ middle[1] = n + 1 /\ middle[2] = n + 2 /\ middle[3] = n + 3
      /\ middle[4] = n + 1 /\ middle[5] = n + 2
  BY SMT
<1>4. other = (first \o middle) \o last
  BY Zenon DEF Replaced
<1> HIDE DEF first, middle, last, other
<1>5. Len(body) \in Nat
  BY SMT
<1> DEFINE front == first \o middle
<1>a. front = first \o middle
  OBVIOUS
<1>b. other = front \o last
  BY <1>4, Zenon
<1> HIDE DEF front
<1>6. /\ front \in Seq(Nat) /\ Len(front) = Len(first) + Len(middle)
      /\ \A j \in 1..Len(first) : front[j] = first[j]
      /\ \A j \in 1..Len(middle) : front[Len(first) + j] = middle[j]
  <2>1. first \in Seq(Nat) /\ middle \in Seq(Nat)
    BY <1>1, <1>3
  <2> QED
    BY ONLY <2>1, <1>a, ConcatFacts, SMT
<1>8. /\ other \in Seq(Nat) /\ Len(other) = Len(front) + Len(last)
      /\ \A j \in 1..Len(front) : other[j] = front[j]
      /\ \A j \in 1..Len(last) : other[Len(front) + j] = last[j]
  <2>1. front \in Seq(Nat) /\ last \in Seq(Nat)
    BY <1>2, <1>6
  <2> QED
    BY ONLY <2>1, <1>b, ConcatFacts, SMT
<1>9. Len(front) = i + 5 /\ Len(other) = Len(body) + 4
  BY <1>1, <1>2, <1>3, <1>5, <1>6, <1>8, SMT
<1>10. ASSUME NEW j \in (i + 6)..Len(other) PROVE other[j] = body[j - 4]
  <2>1. /\ j - (i + 5) \in 1..Len(last) /\ Len(front) + (j - (i + 5)) = j
        /\ (j - (i + 5)) + i + 1 = j - 4
    BY <1>2, <1>5, <1>9, SMT
  <2>2. other[Len(front) + (j - (i + 5))] = last[j - (i + 5)]
    BY <1>8, <2>1, Zenon
  <2>3. last[j - (i + 5)] = body[(j - (i + 5)) + i + 1]
    BY <1>2, <2>1, Zenon
  <2> QED
    BY <2>1, <2>2, <2>3, Zenon
<1>11. ASSUME NEW j \in 1..i PROVE other[j] = body[j]
  <2>1. j \in 1..Len(first) /\ j \in 1..Len(front)
    BY <1>1, <1>9, SMT
  <2> QED
    BY <1>1, <1>6, <1>8, <2>1, Zenon
<1>12. ASSUME NEW j \in 1..5 PROVE other[i + j] = middle[j]
  <2>1. j \in 1..Len(middle) /\ i + j \in 1..Len(front) /\ Len(first) = i
    BY <1>1, <1>3, <1>9, SMT
  <2> QED
    BY <1>6, <1>8, <2>1, Zenon
<1>13. 1 \in 1..5 /\ 2 \in 1..5 /\ 3 \in 1..5 /\ 4 \in 1..5 /\ 5 \in 1..5
  BY SMT
<1> QED
  BY <1>3, <1>8, <1>9, <1>10, <1>11, <1>12, <1>13, Zenon DEF other, middle

-----------------------------------------------------------------------------
(* Heaps *)

(* The heap after visit(CNOT) at c and the rewriting of k *)
Reversed(heap, c, k, i) ==
  LET n == Len(heap)
      newInstructions == <<n + 1, n + 2, n + 3, n + 1, n + 2>>
  IN  [heap EXCEPT
         ![c].enabled = FALSE,
         ![k].body = Replaced(@, i, newInstructions)]
        \o Created(heap[c].bits)

BitsReversed(heap, c, u) ==
  LET n == Len(heap)
      bits == heap[c].bits
  IN  /\ \A j \in DOMAIN heap : u[j].bits = heap[j].bits
      /\ u[c].enabled = FALSE
      /\ u[n + 1].bits = <<bits[1]>> /\ u[n + 2].bits = <<bits[2]>>
      /\ u[n + 3].bits = <<bits[2], bits[1]>>

(* That u is a heap again, and where it differs from the old one *)
WellReversed(heap, c, k, i, u) ==
  LET n == Len(heap)
      body == Replaced(heap[k].body, i, <<n + 1, n + 2, n + 3, n + 1, n + 2>>)
  IN  /\ HeapOK(u) /\ DOMAIN heap \subseteq DOMAIN u
      /\ n \in Nat /\ DOMAIN heap = 1..n /\ DOMAIN u = 1..(n + 3)
      /\ \A j \in DOMAIN heap : u[j].op = heap[j].op
      /\ \A j \in DOMAIN heap \ {c} : u[j].enabled = heap[j].enabled
      /\ \A j \in DOMAIN heap \ {k} : u[j].body = heap[j].body
      /\ u[k].body = body
      /\ BitsReversed(heap, c, u)
      /\ \A j \in {n + 1, n + 2, n + 3} :
           /\ u[j].enabled = TRUE /\ u[j].body = <<>>
           /\ u[j].op = IF j = n + 3 THEN "CNOT" ELSE "H"

LEMMA HeapReversed ==
  ASSUME NEW heap, HeapOK(heap),
         NEW c \in DOMAIN heap, heap[c].op = "CNOT",
         NEW k \in DOMAIN heap, heap[k].op = "Function",
         NEW i \in Nat, i < Len(heap[k].body),
         NEW u, u = Reversed(heap, c, k, i)
  PROVE  WellReversed(heap, c, k, i, u)
<1> DEFINE n == Len(heap)
           newInstructions == <<n + 1, n + 2, n + 3, n + 1, n + 2>>
           body == Replaced(heap[k].body, i, newInstructions)
           off == [heap[c] EXCEPT !.enabled = FALSE]
           other == [heap[k] EXCEPT !.body = body]
           created == Created(heap[c].bits)
<1>1. /\ heap \in Seq(Instruction) /\ c # k
      /\ heap[c] \in Instruction /\ heap[k] \in Instruction /\ n \in Nat
  <2>1. heap \in Seq(Instruction)
    BY Zenon DEF HeapOK
  <2>2. "CNOT" # "Function"
    BY SMT
  <2>3. heap[c] \in Instruction /\ heap[k] \in Instruction /\ n \in Nat
    BY <2>1, SMT
  <2> QED
    BY <2>1, <2>2, <2>3, Zenon
<1>2. heap[k].body \in Seq(Nat) /\ heap[c].bits \in Qubits \X Qubits /\ heap[c].body = <<>>
  <2>1. "CNOT" # "Function"
    BY SMT
  <2> QED
    BY <1>1, <2>1, InstructionFacts, Zenon
<1>3. body \in Seq(Nat)
  BY <1>1, <1>2, ReplacedFacts, Zenon
<1>4. /\ off \in Instruction /\ off.op = "CNOT" /\ off.body = <<>>
      /\ off.bits = heap[c].bits /\ off.enabled = FALSE
  BY <1>1, Disabled, Zenon
<1>5. /\ other \in Instruction /\ other.op = "Function" /\ other.body = body
      /\ other.enabled = heap[k].enabled /\ other.bits = heap[k].bits
  <2> HIDE DEF body
  <2>1. /\ other \in Instruction /\ other.op = "Function" /\ other.body = body
        /\ other.bits = heap[k].bits
    BY <1>1, <1>3, Rebodied, Zenon
  <2>2. heap[k] \in Function
    BY <1>1, InstructionFacts, Zenon
  <2>3. other.enabled = heap[k].enabled
    BY <1>3, <2>2, Members, Zenon DEF Function
  <2> QED
    BY <2>1, <2>3, Zenon
<1>6. created \in Seq(Instruction) /\ Len(created) = 3
      /\ \A j \in 1..3 : created[j].body = <<>> /\ created[j].enabled = TRUE
                         /\ created[j].op = IF j = 3 THEN "CNOT" ELSE "H"
  BY <1>2, CreatedFacts, Zenon
<1>b. /\ created[1].bits = <<heap[c].bits[1]>> /\ created[2].bits = <<heap[c].bits[2]>>
      /\ created[3].bits = <<heap[c].bits[2], heap[c].bits[1]>>
  BY <1>2, CreatedFacts, Zenon
<1>7. u = [heap EXCEPT ![c] = off, ![k] = other] \o created
  <2>1. [heap EXCEPT ![c].enabled = FALSE, ![k].body = Replaced(@, i, newInstructions)]
          = [heap EXCEPT ![c] = off, ![k] = other]
    <3> HIDE DEF newInstructions
    <3> QED
      BY <1>1, Zenon
  <2> QED
    BY <2>1, Zenon DEF Reversed
<1> HIDE DEF off, other, created
<1>8. /\ u \in Seq(Instruction) /\ Len(u) = n + 3
      /\ DOMAIN heap = 1..n /\ DOMAIN u = 1..(n + 3)
      /\ u[c] = off /\ u[k] = other
      /\ \A j \in DOMAIN heap \ {c, k} : u[j] = heap[j]
      /\ u[n + 1] = created[1] /\ u[n + 2] = created[2] /\ u[n + 3] = created[3]
  <2> DEFINE S == Instruction
  <2>1. /\ heap \in Seq(S) /\ created \in Seq(S) /\ off \in S /\ other \in S
    BY <1>1, <1>4, <1>5, <1>6, Zenon
  <2> HIDE DEF S
  <2>2. /\ u \in Seq(S) /\ Len(u) = Len(heap) + 3
        /\ DOMAIN heap = 1..Len(heap) /\ DOMAIN u = 1..(Len(heap) + 3)
        /\ u[c] = off /\ u[k] = other
        /\ \A j \in DOMAIN heap \ {c, k} : u[j] = heap[j]
        /\ u[Len(heap) + 1] = created[1] /\ u[Len(heap) + 2] = created[2]
        /\ u[Len(heap) + 3] = created[3]
    <3> DEFINE m == [heap EXCEPT ![c] = off, ![k] = other]
    <3>1. c # k /\ Len(created) = 3
      BY <1>1, <1>6, Zenon
    <3>2. /\ m \in Seq(S) /\ Len(m) = Len(heap)
          /\ m[c] = off /\ m[k] = other
          /\ \A j \in DOMAIN heap \ {c, k} : m[j] = heap[j]
      BY <2>1, <3>1, SMT
    <3>3. u = m \o created
      BY <1>7, Zenon
    <3> HIDE DEF m
    <3>4. m \in Seq(S) /\ created \in Seq(S)
      BY <2>1, <3>2, Zenon
    <3>5. u \in Seq(S) /\ Len(u) = Len(m) + Len(created)
      BY ONLY <3>3, <3>4, SMT
    <3>6. \A j \in 1..Len(m) : u[j] = m[j]
      BY ONLY <3>3, <3>4, SMT
    <3>7. \A j \in 1..Len(created) : u[Len(m) + j] = created[j]
      BY ONLY <3>3, <3>4, SMT
    <3>8. DOMAIN heap = 1..Len(heap) /\ DOMAIN u = 1..Len(u)
      BY <2>1, <3>5, SMT
    <3>9. 1 \in 1..3 /\ 2 \in 1..3 /\ 3 \in 1..3
      BY SMT
    <3> QED
      BY <3>1, <3>2, <3>5, <3>6, <3>7, <3>8, <3>9, Zenon
  <2> QED
    BY <2>2, Zenon DEF S
<1>c. BitsReversed(heap, c, u)
  <2>1. \A j \in DOMAIN heap : u[j].bits = heap[j].bits
    BY <1>1, <1>4, <1>5, <1>8, Zenon
  <2>2. u[c].enabled = FALSE
    BY <1>4, <1>8, Zenon
  <2> QED
    BY <1>8, <1>b, <2>1, <2>2, Zenon DEF BitsReversed
<1>9. /\ \A j \in DOMAIN heap : u[j].op = heap[j].op
      /\ \A j \in DOMAIN heap \ {c} : u[j].enabled = heap[j].enabled
      /\ \A j \in DOMAIN heap \ {k} : u[j].body = heap[j].body
      /\ u[k].body = body
  <2> HIDE DEF body
  <2> QED
    BY <1>1, <1>2, <1>4, <1>5, <1>8, Zenon
<1>10. ASSUME NEW j \in {n + 1, n + 2, n + 3}
       PROVE  /\ u[j].enabled = TRUE /\ u[j].body = <<>>
              /\ u[j].op = IF j = n + 3 THEN "CNOT" ELSE "H"
  <2>1. 1 \in 1..3 /\ 2 \in 1..3 /\ 3 \in 1..3 /\ 1 # 3 /\ 2 # 3 /\ n + 1 # n + 3 /\ n + 2 # n + 3
    BY <1>1, SMT
  <2>2. /\ created[1].body = <<>> /\ created[1].enabled = TRUE /\ created[1].op = "H"
        /\ created[2].body = <<>> /\ created[2].enabled = TRUE /\ created[2].op = "H"
        /\ created[3].body = <<>> /\ created[3].enabled = TRUE /\ created[3].op = "CNOT"
    BY <1>6, <2>1, Zenon
  <2> QED
    BY <1>8, <2>1, <2>2, ZenonT(40)
<1>11. DOMAIN heap \subseteq DOMAIN u /\ \A j \in {n + 1, n + 2, n + 3} : j \in DOMAIN u
  BY <1>1, <1>8, SMT
<1>12. ASSUME NEW j \in DOMAIN u PROVE WellFormed(u, u[j].body)
  <2>1. j \in DOMAIN heap \/ j \in {n + 1, n + 2, n + 3}
    BY <1>1, <1>8, SMT
  <2>2. CASE j \in {n + 1, n + 2, n + 3}
    <3>1. DOMAIN <<>> = {}
      BY SMT
    <3> QED
      BY <1>10, <2>2, <3>1, Zenon DEF WellFormed
  <2>3. CASE j \in DOMAIN heap \ {k}
    BY <1>9, <1>11, <2>3, Zenon DEF HeapOK, WellFormed
  <2>4. CASE j = k
    <3>1. ASSUME NEW m \in DOMAIN body PROVE body[m] \in DOMAIN u
      <4> HIDE DEF newInstructions, body
      <4>1. /\ Len(body) = Len(heap[k].body) + 4
            /\ \A q \in 1..i : body[q] = heap[k].body[q]
            /\ body[i + 1] = n + 1 /\ body[i + 2] = n + 2 /\ body[i + 3] = n + 3
            /\ body[i + 4] = n + 1 /\ body[i + 5] = n + 2
            /\ \A q \in (i + 6)..Len(body) : body[q] = heap[k].body[q - 4]
        BY <1>1, <1>2, ReplacedFacts, ZenonT(40) DEF body, newInstructions
      <4>2. m \in 1..i \/ m \in {i + 1, i + 2, i + 3, i + 4, i + 5} \/ m \in (i + 6)..Len(body)
        <5>1. Len(body) \in Nat /\ m \in 1..Len(body)
          <6>1. body \in Seq(Nat) /\ m \in DOMAIN body
            BY <1>3, Zenon DEF body, newInstructions
          <6> QED
            BY ONLY <6>1, SMT
        <5> QED
          BY ONLY <5>1, i \in Nat, SMT
      <4>3. \A q \in DOMAIN heap[k].body : heap[k].body[q] \in DOMAIN heap
        BY Zenon DEF HeapOK, WellFormed
      <4>4. CASE m \in 1..i
        <5>1. m \in DOMAIN heap[k].body
          BY <1>2, <4>4, SMT
        <5> QED
          BY <1>11, <4>1, <4>3, <4>4, <5>1, Zenon
      <4>5. CASE m \in {i + 1, i + 2, i + 3, i + 4, i + 5}
        BY <1>11, <4>1, <4>5, Zenon
      <4>6. CASE m \in (i + 6)..Len(body)
        <5>1. m - 4 \in DOMAIN heap[k].body
          BY <1>2, <4>1, <4>6, SMTT(40)
        <5> QED
          BY <1>11, <4>1, <4>3, <4>6, <5>1, Zenon
      <4> QED
        BY <4>2, <4>4, <4>5, <4>6, Zenon
    <3> QED
      BY <1>9, <2>4, <3>1, Zenon DEF WellFormed
  <2> QED
    BY <2>1, <2>2, <2>3, <2>4, Zenon
<1>13. HeapOK(u)
  BY <1>8, <1>12, Zenon DEF HeapOK
<1> QED
  BY <1>1, <1>8, <1>9, <1>10, <1>11, <1>13, <1>c, ZenonT(40) DEF WellReversed

-----------------------------------------------------------------------------
(* Type correctness *)

LEMMA TypeInvInit == Init => TypeInv
<1> SUFFICES ASSUME Init PROVE TypeInv
  OBVIOUS
<1>1. given \in Program
  BY ProgramsAssumption, Zenon DEF Init
<1>2. /\ given.instructions \in Seq(Instruction) /\ given.kernels \in Seq(Nat)
      /\ WellFormed(given.instructions, given.kernels)
      /\ \A k \in DOMAIN given.kernels : given.instructions[given.kernels[k]].op = "Function"
      /\ \A i \in DOMAIN given.instructions : \A j \in DOMAIN given.instructions[i].body :
           given.instructions[i].body[j] \in 1..(i - 1)
  <2>1. \A P, Q : \A p \in [instructions : P, kernels : Q] : p.instructions \in P /\ p.kernels \in Q
    BY SMT
  <2> QED
    BY <1>1, <2>1, Zenon DEF Program
<1>3. HeapOK(instructions)
  <2>1. instructions = given.instructions
    BY Zenon DEF Init
  <2>2. ASSUME NEW i \in DOMAIN given.instructions, NEW x \in 1..(i - 1)
        PROVE  x \in DOMAIN given.instructions
    BY <1>2, SMT
  <2> QED
    BY <1>2, <2>1, <2>2, Zenon DEF HeapOK, WellFormed
<1>4. Functions(instructions, newir)
  BY <1>2, Zenon DEF Init, Functions, Pointers
<1>5. Functions(instructions, <<>>) /\ Pointers(instructions, <<>>)
  <2>1. <<>> \in Seq(Nat) /\ DOMAIN <<>> = {}
    BY SMT
  <2> QED
    BY <2>1, Zenon DEF Functions, Pointers, WellFormed
<1>6. 0 \in Nat /\ 0 \in 0..MaxTransforms /\ "idle" # "walk"
  BY BoundAssumption, SMT
<1> QED
  BY <1>1, <1>3, <1>4, <1>5, <1>6, Zenon DEF Init, TypeInv

(* Lists of pointers that the loops take apart and build *)
LEMMA ListFacts ==
  ASSUME NEW heap, NEW pointers, Pointers(heap, pointers), pointers # <<>>
  PROVE  /\ Head(pointers) \in DOMAIN heap /\ Pointers(heap, Tail(pointers))
         /\ Functions(heap, pointers) =>
              heap[Head(pointers)].op = "Function" /\ Functions(heap, Tail(pointers))
<1>1. /\ Tail(pointers) \in Seq(Nat) /\ 1 \in DOMAIN pointers /\ Head(pointers) = pointers[1]
      /\ \A i \in DOMAIN Tail(pointers) :
           i + 1 \in DOMAIN pointers /\ Tail(pointers)[i] = pointers[i + 1]
  <2>1. pointers \in Seq(Nat)
    BY Zenon DEF Pointers
  <2> QED
    BY <2>1, SMT
<1> QED
  BY <1>1, Zenon DEF Pointers, Functions, WellFormed

LEMMA JoinedFacts ==
  ASSUME NEW heap, NEW s, NEW t, Pointers(heap, s), Pointers(heap, t)
  PROVE  Pointers(heap, s \o t)
<1>1. s \in Seq(Nat) /\ t \in Seq(Nat)
  BY Zenon DEF Pointers
<1>2. /\ s \o t \in Seq(Nat)
      /\ \A i \in DOMAIN (s \o t) : \/ i \in DOMAIN s /\ (s \o t)[i] = s[i]
                                    \/ i - Len(s) \in DOMAIN t /\ (s \o t)[i] = t[i - Len(s)]
  BY <1>1, SMT
<1> QED
  BY <1>2, Zenon DEF Pointers, WellFormed

LEMMA AppendedFacts ==
  ASSUME NEW heap, NEW pointers, Functions(heap, pointers),
         NEW k \in DOMAIN heap \cap Nat, heap[k].op = "Function"
  PROVE  Functions(heap, Append(pointers, k))
<1>1. pointers \in Seq(Nat)
  BY Zenon DEF Functions, Pointers
<1>2. /\ Append(pointers, k) \in Seq(Nat)
      /\ \A i \in DOMAIN Append(pointers, k) :
           \/ i \in DOMAIN pointers /\ Append(pointers, k)[i] = pointers[i]
           \/ Append(pointers, k)[i] = k
  BY <1>1, SMT
<1> QED
  BY <1>2, Zenon DEF Functions, Pointers, WellFormed

(* Pointers stay good in a heap that grows *)
LEMMA GrownFacts ==
  ASSUME NEW heap, NEW u, DOMAIN heap \subseteq DOMAIN u,
         \A j \in DOMAIN heap : u[j].op = heap[j].op
  PROVE  /\ \A pointers : Pointers(heap, pointers) => Pointers(u, pointers)
         /\ \A pointers : Functions(heap, pointers) => Functions(u, pointers)
BY Zenon DEF Pointers, Functions, WellFormed

(* What an instruction is handed out of *)
LEMMA HandOutFacts ==
  ASSUME TypeInv, HandOut
  PROVE  /\ kernel \in DOMAIN instructions /\ instructions[kernel].op = "Function"
         /\ Head(iterator) \in DOMAIN instructions
         /\ Pointers(instructions, iterator')
<1>1. HeapOK(instructions) /\ Pointers(instructions, iterator) /\ iterator # <<>> /\ pc = "walk"
  BY Zenon DEF TypeInv, HandOut
<1>2. Head(iterator) \in DOMAIN instructions /\ Pointers(instructions, Tail(iterator))
  BY <1>1, ListFacts, Zenon
<1>3. Pointers(instructions, nextInst.body)
  <2>1. \A j \in DOMAIN instructions : instructions[j] \in Instruction
    BY <1>1, SMT DEF HeapOK
  <2> QED
    BY <1>1, <1>2, <2>1, InstructionFacts, Zenon DEF nextInst, HeapOK, Pointers
<1>4. Pointers(instructions, nextInst.body \o Tail(iterator))
  BY <1>2, <1>3, JoinedFacts, Zenon
<1>5. kernel \in DOMAIN instructions /\ instructions[kernel].op = "Function"
  BY <1>1, Zenon DEF TypeInv
<1> QED
  BY <1>2, <1>4, <1>5, Zenon DEF HandOut

(* What a CNOT is turned round in *)
LEMMA ReverseFacts ==
  ASSUME TypeInv, ReverseCNOT
  PROVE  /\ instructions' = Reversed(instructions, Head(iterator), kernel,
                                     currentKernelInstructionIdx)
         /\ HeapOK(instructions)
         /\ Head(iterator) \in DOMAIN instructions /\ nextInst.op = "CNOT"
         /\ kernel \in DOMAIN instructions /\ instructions[kernel].op = "Function"
         /\ currentKernelInstructionIdx \in Nat
         /\ currentKernelInstructionIdx < Len(instructions[kernel].body)
<1>1. HandOut
  BY Zenon DEF ReverseCNOT
<1>2. /\ kernel \in DOMAIN instructions /\ instructions[kernel].op = "Function"
      /\ Head(iterator) \in DOMAIN instructions
  BY <1>1, HandOutFacts, Zenon
<1> QED
  BY <1>2, Zenon DEF ReverseCNOT, TypeInv, Uncoupled, Reversed, nextInst

LEMMA ReverseHeap ==
  ASSUME TypeInv, ReverseCNOT
  PROVE  WellReversed(instructions, Head(iterator), kernel,
                      currentKernelInstructionIdx, instructions')
<1> DEFINE c == Head(iterator)
           i == currentKernelInstructionIdx
           u == instructions'
<1>1. /\ u = Reversed(instructions, c, kernel, i)
      /\ HeapOK(instructions)
      /\ c \in DOMAIN instructions /\ instructions[c].op = "CNOT"
      /\ kernel \in DOMAIN instructions /\ instructions[kernel].op = "Function"
      /\ i \in Nat /\ i < Len(instructions[kernel].body)
  BY ReverseFacts, Zenon DEF nextInst
<1> HIDE DEF c, i, u
<1>2. WellReversed(instructions, c, kernel, i, u)
  BY <1>1, HeapReversed, SMT
<1> QED
  BY <1>2, Zenon DEF c, i, u

LEMMA TypeInvNext == TypeInv /\ [Next]_vars => TypeInv'
<1> SUFFICES ASSUME TypeInv, [Next]_vars PROVE TypeInv'
  OBVIOUS
<1>1. /\ given \in Program /\ HeapOK(instructions) /\ transforms \in 0..MaxTransforms
      /\ Functions(instructions, ir) /\ Functions(instructions, newir)
      /\ kernel \in {0} \union DOMAIN instructions /\ Pointers(instructions, iterator)
      /\ currentKernelInstructionIdx \in Nat /\ pc \in {"idle", "loop", "walk", "failed"}
      /\ pc = "walk" => kernel # 0 /\ instructions[kernel].op = "Function"
  BY Zenon DEF TypeInv
<1>2. CASE UNCHANGED vars
  <2>1. /\ given' = given /\ instructions' = instructions /\ transforms' = transforms
        /\ ir' = ir /\ newir' = newir /\ kernel' = kernel /\ iterator' = iterator
        /\ currentKernelInstructionIdx' = currentKernelInstructionIdx /\ pc' = pc
    BY <1>2, Zenon DEF vars
  <2> QED
    BY <1>1, <2>1, Zenon DEF TypeInv
<1>3. CASE transform
  <2>1. /\ given' = given /\ instructions' = instructions /\ ir' = newir /\ newir' = <<>>
        /\ kernel' = kernel /\ iterator' = iterator /\ pc' = "loop"
        /\ currentKernelInstructionIdx' = currentKernelInstructionIdx
    BY <1>3, Zenon DEF transform
  <2>2. transforms' \in 0..MaxTransforms
    BY <1>1, <1>3, BoundAssumption, SMT DEF transform
  <2>3. Functions(instructions, <<>>)
    <3>1. <<>> \in Seq(Nat) /\ DOMAIN <<>> = {}
      BY SMT
    <3> QED
      BY <3>1, Zenon DEF Functions, Pointers, WellFormed
  <2>4. "loop" # "walk"
    BY SMT
  <2> QED
    BY <1>1, <2>1, <2>2, <2>3, <2>4, Zenon DEF TypeInv
<1>4. CASE TakeKernel
  <2>1. /\ given' = given /\ instructions' = instructions /\ transforms' = transforms
        /\ ir # <<>> /\ ir' = Tail(ir) /\ newir' = newir /\ kernel' = Head(ir)
        /\ iterator' = instructions[Head(ir)].body
        /\ currentKernelInstructionIdx' = 0 /\ pc' = "walk"
    BY <1>4, Zenon DEF TakeKernel
  <2>2. /\ Head(ir) \in DOMAIN instructions /\ instructions[Head(ir)].op = "Function"
        /\ Functions(instructions, Tail(ir))
    BY <1>1, <2>1, ListFacts, Zenon DEF Functions
  <2>3. Pointers(instructions, instructions[Head(ir)].body)
    <3>1. \A j \in DOMAIN instructions : instructions[j] \in Instruction
      BY <1>1, SMT DEF HeapOK
    <3> QED
      BY <1>1, <2>2, <3>1, InstructionFacts, Zenon DEF HeapOK, Pointers
  <2>4. Head(ir) # 0 /\ 0 \in Nat
    <3>1. instructions \in Seq(Instruction)
      BY <1>1, Zenon DEF HeapOK
    <3> QED
      BY <2>2, <3>1, SMT
  <2> QED
    BY <1>1, <2>1, <2>2, <2>3, <2>4, Zenon DEF TypeInv
<1>5. CASE AddKernel
  <2>1. /\ given' = given /\ instructions' = instructions /\ transforms' = transforms
        /\ ir' = ir /\ newir' = Append(newir, kernel) /\ kernel' = kernel /\ iterator' = iterator
        /\ currentKernelInstructionIdx' = currentKernelInstructionIdx /\ pc' = "loop" /\ pc = "walk"
    BY <1>5, Zenon DEF AddKernel
  <2>2. Functions(instructions, Append(newir, kernel))
    <3>1. kernel \in DOMAIN instructions /\ instructions[kernel].op = "Function"
      BY <1>1, <2>1, Zenon
    <3>2. kernel \in Nat
      <4>1. instructions \in Seq(Instruction)
        BY <1>1, Zenon DEF HeapOK
      <4> QED
        BY <3>1, <4>1, SMT
    <3> QED
      BY <1>1, <3>1, <3>2, AppendedFacts, Zenon
  <2>3. "loop" # "walk"
    BY SMT
  <2> QED
    BY <1>1, <2>1, <2>2, <2>3, Zenon DEF TypeInv
<1>6. CASE Return
  <2>1. /\ given' = given /\ instructions' = instructions /\ transforms' = transforms
        /\ ir' = ir /\ newir' = newir /\ kernel' = kernel /\ iterator' = iterator
        /\ currentKernelInstructionIdx' = currentKernelInstructionIdx /\ pc' = "idle"
    BY <1>6, Zenon DEF Return
  <2>2. "idle" # "walk"
    BY SMT
  <2> QED
    BY <1>1, <2>1, <2>2, Zenon DEF TypeInv
<1>7. CASE PassOver \/ Keep \/ ReverseOutside
  <2>1. /\ HandOut /\ instructions' = instructions
        /\ pc' \in {pc, "failed"}
        /\ currentKernelInstructionIdx' \in {currentKernelInstructionIdx, currentKernelInstructionIdx + 1}
    BY <1>7, Zenon DEF PassOver, Keep, ReverseOutside
  <2>2. /\ given' = given /\ transforms' = transforms /\ ir' = ir /\ newir' = newir /\ kernel' = kernel
    BY <2>1, Zenon DEF HandOut
  <2>3. Pointers(instructions, iterator')
    BY <2>1, HandOutFacts, Zenon
  <2>4. currentKernelInstructionIdx' \in Nat /\ "failed" # "walk"
    BY <1>1, <2>1, SMT
  <2> QED
    BY <1>1, <2>1, <2>2, <2>3, <2>4, Zenon DEF TypeInv
<1>8. CASE ReverseCNOT
  <2>1. /\ HandOut /\ pc' = pc
        /\ currentKernelInstructionIdx' = currentKernelInstructionIdx + 5
    BY <1>8, Zenon DEF ReverseCNOT
  <2>2. /\ given' = given /\ transforms' = transforms /\ ir' = ir /\ newir' = newir /\ kernel' = kernel
    BY <2>1, Zenon DEF HandOut
  <2>3. Pointers(instructions, iterator')
    BY <2>1, HandOutFacts, Zenon
  <2> DEFINE u == instructions'
  <2>4. /\ HeapOK(u) /\ DOMAIN instructions \subseteq DOMAIN u
        /\ \A j \in DOMAIN instructions : u[j].op = instructions[j].op
    BY <1>8, ReverseHeap, Zenon DEF WellReversed
  <2>5. /\ Pointers(u, iterator') /\ Functions(u, ir') /\ Functions(u, newir')
    <3> HIDE DEF u
    <3>1. /\ \A pointers : Pointers(instructions, pointers) => Pointers(u, pointers)
          /\ \A pointers : Functions(instructions, pointers) => Functions(u, pointers)
      BY <2>4, GrownFacts, Zenon
    <3> QED
      BY <1>1, <2>2, <2>3, <3>1, Zenon
  <2>6. currentKernelInstructionIdx' \in Nat
    BY <1>1, <2>1, SMT
  <2>7. kernel' \in {0} \union DOMAIN u
    BY <1>1, <2>2, <2>4, Zenon
  <2>8. pc' = "walk" => kernel' # 0 /\ u[kernel'].op = "Function"
    BY <1>1, <2>1, <2>2, <2>4, Zenon
  <2> QED
    BY <1>1, <2>1, <2>2, <2>4, <2>5, <2>6, <2>7, <2>8, Zenon DEF TypeInv
<1> QED
  BY <1>2, <1>3, <1>4, <1>5, <1>6, <1>7, <1>8, Zenon DEF Next

LEMMA TypeInvType == TypeInv => TypeOK
BY Zenon DEF TypeInv, HeapOK, Functions, Pointers, TypeOK

(* Pointers lead into the heap and gates have their qubits, whatever programs *)
(* share and however often they are transformed.  (transform, :14-61.)        *)
THEOREM TransformTypeCorrect == Spec => []TypeOK
<1> QED
  BY TypeInvInit, TypeInvNext, TypeInvType, PTL DEF Spec

-----------------------------------------------------------------------------
(* Flat programs: bodies of enabled gates alone, no two of them sharing a  *)
(* CNOT.  Without a call or a disabled gate the index is right.            *)
Flat(heap) ==
  \A k \in DOMAIN heap : \A i \in DOMAIN heap[k].body :
    LET p == heap[k].body[i]
    IN  /\ Visited(heap[p])
        /\ heap[p].op = "CNOT" =>
             \A l \in DOMAIN heap : \A j \in DOMAIN heap[l].body :
               heap[l].body[j] = p => l = k /\ j = i

(* What is still to come is the rest of the body from the index on *)
Walked ==
  LET body == instructions[kernel].body
  IN  /\ currentKernelInstructionIdx + Len(iterator) = Len(body)
      /\ \A j \in DOMAIN iterator : iterator[j] = body[currentKernelInstructionIdx + j]

FlatInv ==
  /\ TypeInv
  /\ Flat(instructions)
  /\ pc # "failed"
  /\ pc = "walk" => Walked

(* Where the new heap's pointers come from: one of the three new gates, or *)
(* an old pointer other than the CNOT, found before at Before(k, i, l, j). *)
Before(k, i, l, j) == IF l # k \/ j <= i THEN j ELSE j - 4

FromNew(heap, k, i, u, l, j) ==
  LET n == Len(heap)
      p == u[l].body[j]
  IN  /\ p \in {n + 1, n + 2, n + 3} /\ p \notin DOMAIN heap /\ l = k
      /\ p = n + 3 => j = i + 3

FromOld(heap, c, k, i, u, l, j) ==
  LET p == u[l].body[j]
  IN  /\ l \in DOMAIN heap /\ p \in DOMAIN heap /\ p # c
      /\ Before(k, i, l, j) \in DOMAIN heap[l].body
      /\ heap[l].body[Before(k, i, l, j)] = p
      /\ l = k => j \in Nat /\ (j <= i \/ j >= i + 6)

LEMMA Origins ==
  ASSUME NEW heap, HeapOK(heap), Flat(heap),
         NEW c \in DOMAIN heap, heap[c].op = "CNOT",
         NEW k \in DOMAIN heap, heap[k].op = "Function",
         NEW i \in Nat, i < Len(heap[k].body), heap[k].body[i + 1] = c,
         NEW u, WellReversed(heap, c, k, i, u),
         NEW l \in DOMAIN u, NEW j \in DOMAIN u[l].body
  PROVE  FromNew(heap, k, i, u, l, j) \/ FromOld(heap, c, k, i, u, l, j)
<1> DEFINE n == Len(heap)
           p == u[l].body[j]
           body == heap[k].body
           new == Replaced(body, i, <<n + 1, n + 2, n + 3, n + 1, n + 2>>)
<1>1. /\ n \in Nat /\ DOMAIN heap = 1..n /\ DOMAIN u = 1..(n + 3) /\ u[k].body = new
      /\ \A m \in DOMAIN heap \ {k} : u[m].body = heap[m].body
      /\ \A m \in {n + 1, n + 2, n + 3} : u[m].body = <<>>
  BY Zenon DEF WellReversed
<1>2. body \in Seq(Nat)
  <2>1. heap[k] \in Instruction
    BY SMT DEF HeapOK
  <2> QED
    BY <2>1, InstructionFacts, Zenon
<1>3. /\ Len(new) = Len(body) + 4
      /\ \A m \in 1..i : new[m] = body[m]
      /\ new[i + 1] = n + 1 /\ new[i + 2] = n + 2 /\ new[i + 3] = n + 3
      /\ new[i + 4] = n + 1 /\ new[i + 5] = n + 2
      /\ \A m \in (i + 6)..Len(new) : new[m] = body[m - 4]
      /\ new \in Seq(Nat)
  BY <1>1, <1>2, ReplacedFacts, ZenonT(40)
<1>4. ASSUME NEW m \in DOMAIN heap, NEW q \in DOMAIN heap[m].body, ~(m = k /\ q = i + 1)
      PROVE  heap[m].body[q] \in DOMAIN heap /\ heap[m].body[q] # c
  <2>1. i + 1 \in DOMAIN body
    BY <1>2, SMT
  <2> QED
    BY <1>4, <2>1, Zenon DEF HeapOK, WellFormed, Flat
<1>5. l \in DOMAIN heap
  <2>1. l \in DOMAIN heap \/ l \in {n + 1, n + 2, n + 3}
    BY <1>1, SMTT(40)
  <2>2. DOMAIN <<>> = {}
    BY SMT
  <2> QED
    BY <1>1, <2>1, <2>2, Zenon
<1>6. CASE l # k
  BY <1>1, <1>4, <1>5, <1>6, Zenon DEF FromOld, Before
<1>7. CASE l = k
  <2>1. j \in DOMAIN new /\ p = new[j]
    BY <1>1, <1>7, Zenon
  <2> HIDE DEF new, p, body
  <2>2. j \in Nat /\ \/ j \in 1..i
                     \/ j \in {i + 1, i + 2, i + 3, i + 4, i + 5}
                     \/ j \in (i + 6)..Len(new)
    <3>1. j \in DOMAIN new /\ new \in Seq(Nat)
      BY <1>3, <2>1, Zenon
    <3>2. Len(new) \in Nat /\ j \in 1..Len(new)
      BY ONLY <3>1, SMT
    <3> QED
      BY ONLY <3>2, i \in Nat, SMT
  <2>3. CASE j \in 1..i
    <3>1. j \in DOMAIN body /\ j <= i /\ j # i + 1
      BY <1>2, <2>3, SMT DEF body
    <3>2. p = body[j]
      BY <1>3, <2>1, <2>3, Zenon
    <3> QED
      BY <1>4, <1>5, <1>7, <2>2, <3>1, <3>2, Zenon DEF FromOld, Before, body, p
  <2>4. CASE j \in {i + 1, i + 2, i + 3, i + 4, i + 5}
    <3>0. n + 1 # n + 3 /\ n + 2 # n + 3
      BY <1>1, SMT
    <3>1. p \in {n + 1, n + 2, n + 3} /\ (p = n + 3 => j = i + 3)
      BY <1>3, <2>1, <2>4, <3>0, Zenon
    <3>2. p \notin DOMAIN heap
      BY <1>1, <3>1, SMT
    <3> QED
      BY <1>7, <3>1, <3>2, Zenon DEF FromNew, p
  <2>5. CASE j \in (i + 6)..Len(new)
    <3>0. body \in Seq(Nat) /\ Len(new) = Len(body) + 4
      BY <1>2, <1>3, Zenon DEF body
    <3>1. j - 4 \in DOMAIN body /\ ~(j <= i) /\ j >= i + 6 /\ j - 4 # i + 1
      BY ONLY <3>0, <2>5, i \in Nat, SMT
    <3>2. p = body[j - 4]
      BY <1>3, <2>1, <2>5, Zenon
    <3> QED
      BY <1>4, <1>5, <1>7, <2>2, <3>1, <3>2, Zenon DEF FromOld, Before, body, p
  <2> QED
    BY <2>2, <2>3, <2>4, <2>5, Zenon
<1> QED
  BY <1>6, <1>7, Zenon

LEMMA FlatReversed ==
  ASSUME NEW heap, HeapOK(heap), Flat(heap),
         NEW c \in DOMAIN heap, heap[c].op = "CNOT",
         NEW k \in DOMAIN heap, heap[k].op = "Function",
         NEW i \in Nat, i < Len(heap[k].body), heap[k].body[i + 1] = c,
         NEW u, WellReversed(heap, c, k, i, u)
  PROVE  Flat(u)
<1> DEFINE n == Len(heap)
           Fresh(l, j) == FromNew(heap, k, i, u, l, j)
           Old(l, j) == FromOld(heap, c, k, i, u, l, j)
<1>1. \A l \in DOMAIN u : \A j \in DOMAIN u[l].body : Fresh(l, j) \/ Old(l, j)
  BY Origins, SMT
<1>2. /\ \A m \in DOMAIN heap : u[m].op = heap[m].op
      /\ \A m \in DOMAIN heap \ {c} : u[m].enabled = heap[m].enabled
      /\ \A m \in {n + 1, n + 2, n + 3} :
           u[m].enabled = TRUE /\ u[m].op = IF m = n + 3 THEN "CNOT" ELSE "H"
  BY Zenon DEF WellReversed
<1>3. "CNOT" # "H" /\ "CNOT" # "Function" /\ "H" # "Function"
  BY SMT
<1> SUFFICES ASSUME NEW l \in DOMAIN u, NEW j \in DOMAIN u[l].body
             PROVE  LET p == u[l].body[j]
                    IN  /\ Visited(u[p])
                        /\ u[p].op = "CNOT" =>
                             \A m \in DOMAIN u : \A q \in DOMAIN u[m].body :
                               u[m].body[q] = p => m = l /\ q = j
  BY Zenon DEF Flat
<1> DEFINE p == u[l].body[j]
<1>4. CASE Fresh(l, j)
  <2>1. Visited(u[p]) /\ (u[p].op = "CNOT" => p = n + 3)
    BY <1>2, <1>3, <1>4, Zenon DEF Visited, FromNew
  <2>2. ASSUME NEW m \in DOMAIN u, NEW q \in DOMAIN u[m].body, u[m].body[q] = p
        PROVE  Fresh(m, q)
    BY <1>1, <1>4, <2>2, Zenon DEF FromNew, FromOld
  <2> QED
    BY <1>4, <2>1, <2>2, ZenonT(40) DEF FromNew
<1>5. CASE Old(l, j)
  <2>1. Visited(heap[p])
    BY <1>5, Zenon DEF Flat, FromOld
  <2>2. Visited(u[p]) /\ u[p].op = heap[p].op
    BY <1>2, <1>5, <2>1, Zenon DEF Visited, FromOld
  <2>3. ASSUME NEW m \in DOMAIN u, NEW q \in DOMAIN u[m].body, u[m].body[q] = p,
               u[p].op = "CNOT"
        PROVE  m = l /\ q = j
    <3>1. Old(m, q)
      BY <1>1, <1>5, <2>3, Zenon DEF FromNew, FromOld
    <3>2. m = l /\ Before(k, i, m, q) = Before(k, i, l, j)
      <4> DEFINE b == Before(k, i, l, j)
                 d == Before(k, i, m, q)
      <4>1. /\ l \in DOMAIN heap /\ b \in DOMAIN heap[l].body /\ heap[l].body[b] = p
            /\ m \in DOMAIN heap /\ d \in DOMAIN heap[m].body /\ heap[m].body[d] = p
        BY <1>5, <2>3, <3>1, Zenon DEF FromOld
      <4>2. heap[heap[l].body[b]].op = "CNOT"
        BY <2>2, <2>3, <4>1, Zenon
      <4> HIDE DEF b, d, p
      <4>3. \A g \in DOMAIN heap : \A h \in DOMAIN heap[g].body :
              heap[g].body[h] = heap[l].body[b] => g = l /\ h = b
        BY <4>1, <4>2, Zenon DEF Flat
      <4>4. m = l /\ d = b
        BY <4>1, <4>3, Zenon
      <4> QED
        BY <4>4, Zenon DEF b, d
    <3>3. CASE l # k
      BY <3>2, <3>3, Zenon DEF Before
    <3>4. CASE l = k
      <4>1. /\ j \in Nat /\ (j <= i \/ j >= i + 6) /\ q \in Nat /\ (q <= i \/ q >= i + 6)
            /\ (IF q <= i THEN q ELSE q - 4) = (IF j <= i THEN j ELSE j - 4)
        BY <1>5, <3>1, <3>2, <3>4, Zenon DEF FromOld, Before
      <4>2. q = j
        BY ONLY <4>1, i \in Nat, SMT
      <4> QED
        BY <3>2, <4>2, Zenon
    <3> QED
      BY <3>3, <3>4, Zenon
  <2> QED
    BY <2>2, <2>3, Zenon
<1> QED
  BY <1>1, <1>4, <1>5, Zenon

LEMMA TailFacts ==
  ASSUME NEW s \in Seq(Nat), s # <<>>
  PROVE  /\ Len(s) \in Nat /\ Len(Tail(s)) = Len(s) - 1
         /\ \A j \in DOMAIN Tail(s) : /\ j \in Nat /\ 1 <= j /\ j <= Len(s) - 1
                                      /\ j + 1 \in DOMAIN s /\ Tail(s)[j] = s[j + 1]
BY SMT

(* The index leads to the instruction at hand *)
LEMMA WalkedFacts ==
  ASSUME FlatInv, HandOut
  PROVE  LET k == kernel
             idx == currentKernelInstructionIdx
             body == instructions[kernel].body
         IN  /\ TypeInv /\ idx \in Nat /\ idx < Len(body) /\ body[idx + 1] = Head(iterator)
             /\ Visited(nextInst)
             /\ iterator' = Tail(iterator) /\ iterator \in Seq(Nat) /\ iterator # <<>>
             /\ body \in Seq(Nat)
<1> DEFINE idx == currentKernelInstructionIdx
           body == instructions[kernel].body
<1>1. /\ TypeInv /\ Flat(instructions) /\ HeapOK(instructions) /\ idx \in Nat
      /\ iterator # <<>> /\ iterator \in Seq(Nat)
      /\ idx + Len(iterator) = Len(body)
      /\ \A j \in DOMAIN iterator : iterator[j] = body[idx + j]
      /\ iterator' = nextInst.body \o Tail(iterator)
  BY Zenon DEF FlatInv, TypeInv, Walked, HandOut, Pointers
<1>2. kernel \in DOMAIN instructions /\ Head(iterator) \in DOMAIN instructions
  BY <1>1, HandOutFacts, Zenon
<1>3. /\ instructions[kernel] \in Instruction /\ instructions[Head(iterator)] \in Instruction
  <2>1. instructions \in Seq(Instruction)
    BY <1>1, Zenon DEF HeapOK
  <2> QED
    BY <1>2, <2>1, SMT
<1>4. body \in Seq(Nat)
  BY <1>3, InstructionFacts, Zenon
<1> HIDE DEF body, idx
<1>5. /\ idx < Len(body) /\ idx + 1 \in DOMAIN body
      /\ Head(iterator) = iterator[1] /\ 1 \in DOMAIN iterator
  BY ONLY <1>1, <1>4, SMT
<1>6. body[idx + 1] = Head(iterator)
  BY <1>1, <1>5, Zenon
<1>7. Visited(nextInst)
  BY <1>1, <1>2, <1>5, <1>6, Zenon DEF Flat, body, nextInst
<1>8. nextInst.body = <<>>
  BY <1>3, <1>7, InstructionFacts, Zenon DEF Visited, nextInst
<1>9. <<>> \o Tail(iterator) = Tail(iterator)
  BY ONLY <1>1, SMT
<1> QED
  BY <1>1, <1>4, <1>5, <1>6, <1>7, <1>8, <1>9, Zenon DEF idx, body

LEMMA FlatInit ==
  ASSUME \A p \in Programs : Flat(p.instructions)
  PROVE  Init => FlatInv
<1> SUFFICES ASSUME Init PROVE FlatInv
  OBVIOUS
<1>1. "idle" # "failed" /\ "idle" # "walk"
  BY SMT
<1> QED
  BY <1>1, TypeInvInit, Zenon DEF FlatInv, Init

LEMMA FlatNext == FlatInv /\ [Next]_vars => FlatInv'
<1> SUFFICES ASSUME FlatInv, [Next]_vars PROVE FlatInv'
  OBVIOUS
<1>1. TypeInv'
  BY TypeInvNext, Zenon DEF FlatInv
<1>2. Flat(instructions) /\ pc # "failed" /\ (pc = "walk" => Walked) /\ TypeInv
  BY Zenon DEF FlatInv
<1>3. CASE UNCHANGED vars
  <2>1. /\ instructions' = instructions /\ kernel' = kernel /\ iterator' = iterator
        /\ currentKernelInstructionIdx' = currentKernelInstructionIdx /\ pc' = pc
    BY <1>3, Zenon DEF vars
  <2> QED
    BY <1>1, <1>2, <2>1, Zenon DEF FlatInv, Walked
<1>4. CASE transform \/ AddKernel \/ Return
  <2>1. instructions' = instructions /\ pc' \in {"loop", "idle"}
    BY <1>4, Zenon DEF transform, AddKernel, Return
  <2>2. pc' # "failed" /\ pc' # "walk"
    BY <2>1, SMT
  <2> QED
    BY <1>1, <1>2, <2>1, <2>2, Zenon DEF FlatInv
<1>5. CASE TakeKernel
  <2>1. /\ instructions' = instructions /\ kernel' = Head(ir) /\ pc' = "walk"
        /\ iterator' = instructions[Head(ir)].body
        /\ currentKernelInstructionIdx' = 0
    BY <1>5, Zenon DEF TakeKernel
  <2>2. iterator' \in Seq(Nat) /\ "walk" # "failed"
    <3>1. "walk" # "failed"
      BY SMT
    <3> QED
      BY <1>1, <3>1, Zenon DEF TypeInv, Pointers
  <2>3. /\ 0 + Len(iterator') = Len(iterator')
        /\ \A j \in DOMAIN iterator' : 0 + j = j
    BY <2>2, SMT
  <2>4. Walked'
    BY <2>1, <2>3, Zenon DEF Walked
  <2> QED
    BY <1>1, <1>2, <2>1, <2>2, <2>4, Zenon DEF FlatInv
<1>6. CASE PassOver
  BY <1>6, WalkedFacts, Zenon DEF PassOver
<1>7. CASE Keep
  <2>1. /\ HandOut /\ instructions' = instructions /\ pc' = pc /\ kernel' = kernel /\ pc = "walk"
        /\ currentKernelInstructionIdx' = currentKernelInstructionIdx + 1
    BY <1>7, Zenon DEF Keep, HandOut
  <2> DEFINE idx == currentKernelInstructionIdx
             body == instructions[kernel].body
  <2>2. /\ iterator' = Tail(iterator) /\ iterator \in Seq(Nat) /\ iterator # <<>> /\ idx \in Nat
        /\ idx + Len(iterator) = Len(body)
        /\ \A j \in DOMAIN iterator : iterator[j] = body[idx + j]
    BY <1>2, <2>1, WalkedFacts, Zenon DEF Walked
  <2> HIDE DEF idx, body
  <2>3. /\ (idx + 1) + Len(Tail(iterator)) = Len(body)
        /\ \A j \in DOMAIN Tail(iterator) : Tail(iterator)[j] = body[(idx + 1) + j]
    <3>1. /\ Len(iterator) \in Nat /\ Len(Tail(iterator)) = Len(iterator) - 1
          /\ \A j \in DOMAIN Tail(iterator) :
               j \in Nat /\ j + 1 \in DOMAIN iterator /\ Tail(iterator)[j] = iterator[j + 1]
      BY <2>2, TailFacts, Zenon
    <3>2. (idx + 1) + Len(Tail(iterator)) = idx + Len(iterator)
      BY ONLY <2>2, <3>1, SMT
    <3>3. \A j \in Nat : (idx + 1) + j = idx + (j + 1)
      BY ONLY <2>2, SMT
    <3> QED
      BY <2>2, <3>1, <3>2, <3>3, Zenon
  <2>4. Walked'
    BY <2>1, <2>2, <2>3, Zenon DEF Walked, idx, body
  <2> QED
    BY <1>1, <1>2, <2>1, <2>4, Zenon DEF FlatInv
<1>8. CASE ReverseCNOT
  <2>1. /\ HandOut /\ pc' = pc /\ kernel' = kernel /\ pc = "walk"
        /\ currentKernelInstructionIdx' = currentKernelInstructionIdx + 5
    BY <1>8, Zenon DEF ReverseCNOT, HandOut
  <2> DEFINE idx == currentKernelInstructionIdx
             body == instructions[kernel].body
             n == Len(instructions)
             u == instructions'
             new == Replaced(body, idx, <<n + 1, n + 2, n + 3, n + 1, n + 2>>)
  <2>2. /\ iterator' = Tail(iterator) /\ iterator \in Seq(Nat) /\ iterator # <<>> /\ idx \in Nat
        /\ idx + Len(iterator) = Len(body) /\ body \in Seq(Nat) /\ idx < Len(body)
        /\ \A j \in DOMAIN iterator : iterator[j] = body[idx + j]
    BY <1>2, <2>1, WalkedFacts, Zenon DEF Walked
  <2>3. WellReversed(instructions, Head(iterator), kernel, idx, u)
    BY <1>2, <1>8, ReverseHeap, Zenon
  <2>4. u[kernel].body = new /\ n \in Nat
    BY <2>3, Zenon DEF WellReversed
  <2>5. Flat(u)
    <3>1. /\ HeapOK(instructions) /\ Head(iterator) \in DOMAIN instructions
          /\ instructions[Head(iterator)].op = "CNOT"
          /\ kernel \in DOMAIN instructions /\ instructions[kernel].op = "Function"
          /\ body[idx + 1] = Head(iterator)
      BY <1>2, <1>8, <2>1, ReverseFacts, WalkedFacts, Zenon DEF nextInst
    <3> DEFINE c == Head(iterator)
    <3> HIDE DEF c, u, idx
    <3>2. /\ c \in DOMAIN instructions /\ instructions[c].op = "CNOT"
          /\ body[idx + 1] = c /\ WellReversed(instructions, c, kernel, idx, u)
      BY <2>3, <3>1, Zenon DEF c
    <3> QED
      BY <1>2, <2>2, <3>1, <3>2, FlatReversed, SMTT(40)
  <2>6. /\ Len(new) = Len(body) + 4
        /\ \A m \in (idx + 6)..Len(new) : new[m] = body[m - 4]
    <3> HIDE DEF idx, body
    <3> QED
      BY <2>2, <2>4, ReplacedFacts, Zenon
  <2> HIDE DEF idx, body, new, u, n
  <2>7. /\ (idx + 5) + Len(Tail(iterator)) = Len(new)
        /\ \A j \in DOMAIN Tail(iterator) : Tail(iterator)[j] = new[(idx + 5) + j]
    <3>1. /\ Len(iterator) \in Nat /\ Len(Tail(iterator)) = Len(iterator) - 1
          /\ \A j \in DOMAIN Tail(iterator) :
               /\ j \in Nat /\ 1 <= j /\ j <= Len(iterator) - 1
               /\ j + 1 \in DOMAIN iterator /\ Tail(iterator)[j] = iterator[j + 1]
      BY <2>2, TailFacts, Zenon
    <3>2. idx \in Nat /\ Len(new) = idx + Len(iterator) + 4
      BY <2>2, <2>6, Zenon
    <3>3. (idx + 5) + Len(Tail(iterator)) = Len(new)
      BY ONLY <3>1, <3>2, iterator # <<>>, <2>2, SMT
    <3>4. \A j \in Nat : 1 <= j /\ j <= Len(iterator) - 1 =>
            (idx + 5) + j \in (idx + 6)..Len(new) /\ ((idx + 5) + j) - 4 = idx + (j + 1)
      BY ONLY Len(iterator) \in Nat, <3>1, <3>2, SMT
    <3> QED
      BY <2>2, <2>6, <3>1, <3>3, <3>4, ZenonT(40)
  <2>8. Walked'
    BY <2>1, <2>2, <2>4, <2>7, Zenon DEF Walked, idx, u
  <2> QED
    BY <1>1, <1>2, <2>1, <2>5, <2>8, Zenon DEF FlatInv, u
<1>9. CASE ReverseOutside
  <2>1. HandOut /\ currentKernelInstructionIdx >= Len(instructions[kernel].body)
    BY <1>9, Zenon DEF ReverseOutside
  <2>2. /\ currentKernelInstructionIdx \in Nat /\ instructions[kernel].body \in Seq(Nat)
        /\ currentKernelInstructionIdx < Len(instructions[kernel].body)
    BY <2>1, WalkedFacts, Zenon
  <2> QED
    BY ONLY <2>1, <2>2, SMT
<1> QED
  BY <1>3, <1>4, <1>5, <1>6, <1>7, <1>8, <1>9, Zenon DEF Next

LEMMA FlatAtIndex == FlatInv => CnotIsAtIndex /\ pc # "failed"
<1> SUFFICES ASSUME FlatInv PROVE CnotIsAtIndex
  BY Zenon DEF FlatInv
<1> SUFFICES ASSUME pc = "walk", iterator # <<>>
             PROVE  /\ currentKernelInstructionIdx < Len(instructions[kernel].body)
                    /\ instructions[kernel].body[currentKernelInstructionIdx + 1] = Head(iterator)
  BY Zenon DEF CnotIsAtIndex
<1> DEFINE idx == currentKernelInstructionIdx
           body == instructions[kernel].body
<1>1. /\ idx \in Nat /\ iterator \in Seq(Nat) /\ iterator # <<>>
      /\ idx + Len(iterator) = Len(body)
      /\ \A j \in DOMAIN iterator : iterator[j] = body[idx + j]
  BY Zenon DEF FlatInv, TypeInv, Walked, Pointers
<1> HIDE DEF idx, body
<1>2. idx < Len(body) /\ body[idx + 1] = Head(iterator)
  BY ONLY <1>1, SMT
<1> QED
  BY <1>2, Zenon DEF idx, body

(* Of programs without calls and disabled instructions, whose kernels      *)
(* share no CNOT, the comment is right: every CNOT about to be replaced is *)
(* at currentKernelInstructionIdx, and no instruction past the end of a    *)
(* kernel is asked for, however often transform is called.                 *)
(* (IBMIRTransformation.cpp:24-52 and its comment at :65.)                 *)
THEOREM FlatCnotIsAtIndex ==
  ASSUME \A p \in Programs : Flat(p.instructions)
  PROVE  Spec => [](CnotIsAtIndex /\ pc # "failed")
<1> QED
  BY FlatInit, FlatNext, FlatAtIndex, PTL DEF Spec
-----------------------------------------------------------------------------
(* What kernels perform.  Performed is a recursion over the heap; on a     *)
(* heap whose functions call functions before them it has one solution, so *)
(* any other description that solves its equation is it (OneSolution).     *)

Act(inst) == [op |-> inst.op, bits |-> inst.bits]

Acts == [op: Gates, bits: {<<q>> : q \in Qubits}] \union [op: {"CNOT"}, bits: Qubits \X Qubits]

Alone(inst) == IF inst.enabled THEN <<Act(inst)>> ELSE <<>>

Device == [gate \in Acts |-> OnDevice(gate)]

LEMMA Pairs ==
  ASSUME NEW A, NEW B
  PROVE  /\ \A a \in A, b \in B : [op |-> a, bits |-> b] \in [op: A, bits: B]
         /\ \A r \in [op: A, bits: B] : r.op \in A /\ r.bits \in B
BY SMT

LEMMA ActFacts ==
  ASSUME NEW inst \in Instruction, inst.op # "Function"
  PROVE  /\ Act(inst) \in Acts /\ Alone(inst) \in Seq(Acts)
         /\ Act(inst).op = inst.op /\ Act(inst).bits = inst.bits
<1>1. Act(inst) \in Acts
  <2>1. CASE inst \in Gate
    <3>1. inst.op \in Gates /\ inst.bits \in {<<q>> : q \in Qubits}
      BY <2>1, Members, Zenon DEF Gate
    <3> QED
      BY <3>1, Pairs, Zenon DEF Act, Acts
  <2>2. CASE inst \in TwoQubitGate
    <3>1. inst.op \in {"CNOT"} /\ inst.bits \in Qubits \X Qubits
      BY <2>2, Members, Zenon DEF TwoQubitGate
    <3> QED
      BY <3>1, Pairs, Zenon DEF Act, Acts
  <2>3. CASE inst \in Function
    <3>1. inst.op \in {"Function"}
      BY <2>3, Members, Zenon DEF Function
    <3> QED
      BY <3>1, Zenon
  <2> QED
    BY <2>1, <2>2, <2>3, Zenon DEF Instruction
<1>2. \A a \in Acts : <<a>> \in Seq(Acts)
  <2> DEFINE S == Acts
  <2>1. \A a \in S : <<a>> \in Seq(S)
    <3> HIDE DEF S
    <3> QED
      BY SMT
  <2> QED
    BY <2>1
<1>3. <<>> \in Seq(Acts)
  BY EmptySeq, Zenon
<1>4. Act(inst).op = inst.op /\ Act(inst).bits = inst.bits
  BY SMT DEF Act
<1> QED
  BY <1>1, <1>2, <1>3, <1>4, Zenon DEF Alone

(* The five gates of a CNOT turned round *)
Five(bits) ==
  LET Hadamard(q) == [op |-> "H", bits |-> <<q>>]
      a == bits[1]
      b == bits[2]
  IN  <<Hadamard(a), Hadamard(b), [op |-> "CNOT", bits |-> <<b, a>>], Hadamard(a), Hadamard(b)>>

LEMMA FiveType == ASSUME NEW bits \in Qubits \X Qubits PROVE Five(bits) \in Seq(Acts)
<1> DEFINE a == bits[1]
           b == bits[2]
           h0 == [op |-> "H", bits |-> <<a>>]
           h1 == [op |-> "H", bits |-> <<b>>]
           r == [op |-> "CNOT", bits |-> <<b, a>>]
<1>1. a \in Qubits /\ b \in Qubits /\ <<b, a>> \in Qubits \X Qubits
  BY SMT
<1>2. h0 \in Acts /\ h1 \in Acts /\ r \in Acts
  <2> HIDE DEF a, b
  <2> QED
    BY <1>1, Ops, Pairs, Zenon DEF Acts
<1>3. Five(bits) = <<h0, h1, r, h0, h1>>
  BY Zenon DEF Five
<1> DEFINE S == Acts
<1>4. h0 \in S /\ h1 \in S /\ r \in S
  BY <1>2
<1> HIDE DEF h0, h1, r, S
<1>5. <<h0, h1, r, h0, h1>> \in Seq(S)
  BY <1>4, SMT
<1> QED
  BY <1>3, <1>5, Zenon DEF S

LEMMA OnDeviceFacts ==
  ASSUME NEW gate
  PROVE  OnDevice(gate) =
           IF gate.op = "CNOT" /\ <<gate.bits[1], gate.bits[2]>> \notin Couplers
           THEN Five(gate.bits) ELSE <<gate>>
BY Zenon DEF OnDevice, Five

LEMMA DeviceType == Device \in [Acts -> Seq(Acts)]
<1> SUFFICES ASSUME NEW gate \in Acts PROVE OnDevice(gate) \in Seq(Acts)
  BY Zenon DEF Device
<1>1. <<gate>> \in Seq(Acts)
  <2> DEFINE S == Acts
  <2>1. gate \in S
    OBVIOUS
  <2> HIDE DEF S
  <2>2. <<gate>> \in Seq(S)
    BY <2>1, SMT
  <2> QED
    BY <2>2 DEF S
<1>2. ASSUME gate.op = "CNOT" PROVE gate.bits \in Qubits \X Qubits
  <2>1. CASE gate \in [op: {"CNOT"}, bits: Qubits \X Qubits]
    BY <2>1, Pairs, Zenon
  <2>2. CASE gate \in [op: Gates, bits: {<<q>> : q \in Qubits}]
    BY <1>2, <2>2, Ops, Pairs, Zenon
  <2> QED
    BY <2>1, <2>2, Zenon DEF Acts
<1> QED
  BY <1>1, <1>2, FiveType, OnDeviceFacts, Zenon

LEMMA RewrittenFlat ==
  ASSUME NEW gates \in Seq(Acts)
  PROVE  Rewritten(gates) = MapFlat(Device, gates)
<1>1. \A i \in DOMAIN gates : gates[i] \in Acts
  <2> DEFINE S == Acts
  <2>1. gates \in Seq(S)
    OBVIOUS
  <2> HIDE DEF S
  <2>2. \A i \in DOMAIN gates : gates[i] \in S
    BY <2>1, SMT
  <2> QED
    BY <2>2 DEF S
<1>2. [i \in DOMAIN gates |-> OnDevice(gates[i])] = [i \in DOMAIN gates |-> Device[gates[i]]]
  BY <1>1, Zenon DEF Device
<1> QED
  BY <1>2, Zenon DEF Rewritten, MapFlat

(* What an instruction that is no function performs on the device *)
LEMMA AloneOnDevice ==
  ASSUME NEW inst \in Instruction, inst.op # "Function"
  PROVE  MapFlat(Device, Alone(inst)) =
           IF NeedsReversal(inst) THEN Five(inst.bits) ELSE Alone(inst)
<1>1. Act(inst) \in Acts /\ Act(inst).op = inst.op /\ Act(inst).bits = inst.bits
  BY ActFacts, Zenon
<1>2. CASE ~inst.enabled
  BY <1>2, MapFlatEmpty, Zenon DEF Alone, NeedsReversal
<1>3. CASE inst.enabled
  <2>1. MapFlat(Device, Alone(inst)) = Device[Act(inst)]
    <3>1. MapFlat(Device, <<Act(inst)>>) = Device[Act(inst)]
      BY <1>1, DeviceType, MapFlatOne, Zenon
    <3> QED
      BY <1>3, <3>1, Zenon DEF Alone
  <2>2. Device[Act(inst)] = OnDevice(Act(inst))
    BY <1>1, Zenon DEF Device
  <2> QED
    BY <1>1, <1>3, <2>1, <2>2, OnDeviceFacts, Zenon DEF NeedsReversal, Alone
<1> QED
  BY <1>2, <1>3, Zenon

-----------------------------------------------------------------------------
(* What the instructions of a heap perform solves the equation Performed   *)
(* is defined by.                                                          *)
Solves(g, heap) ==
  g = [i \in DOMAIN heap |-> IF heap[i].op = "Function" THEN MapFlat(g, heap[i].body)
                             ELSE Alone(heap[i])]

LEMMA PerformedSolved ==
  ASSUME NEW heap, NEW g, Solves(g, heap), \A h : Solves(h, heap) => h = g
  PROVE  \A k : Performed(heap, k) = g[k]
<1> DEFINE Equation(f) ==
             f = [i \in DOMAIN heap |->
                    CASE heap[i].op = "Function" ->
                           FlattenSeq([j \in DOMAIN heap[i].body |-> f[heap[i].body[j]]])
                      [] heap[i].op # "Function" /\ heap[i].enabled ->
                           <<[op |-> heap[i].op, bits |-> heap[i].bits]>>
                      [] OTHER -> <<>>]
           c == CHOOSE f : Equation(f)
<1>1. \A f : Equation(f) <=> Solves(f, heap)
  <2> SUFFICES ASSUME NEW f PROVE Equation(f) <=> Solves(f, heap)
    OBVIOUS
  <2>1. ASSUME NEW i \in DOMAIN heap
        PROVE  (IF heap[i].op = "Function" THEN MapFlat(f, heap[i].body) ELSE Alone(heap[i]))
                 = CASE heap[i].op = "Function" ->
                           FlattenSeq([j \in DOMAIN heap[i].body |-> f[heap[i].body[j]]])
                      [] heap[i].op # "Function" /\ heap[i].enabled ->
                           <<[op |-> heap[i].op, bits |-> heap[i].bits]>>
                      [] OTHER -> <<>>
    <3>1. CASE heap[i].op = "Function"
      BY <3>1, Zenon DEF MapFlat
    <3>2. CASE heap[i].op # "Function" /\ heap[i].enabled
      BY <3>2, Zenon DEF Alone, Act
    <3>3. CASE heap[i].op # "Function" /\ ~heap[i].enabled
      BY <3>3, Zenon DEF Alone
    <3> QED
      BY <3>1, <3>2, <3>3, Zenon
  <2> QED
    BY <2>1, Zenon DEF Solves
<1>2. c = g
  <2>1. Equation(g)
    BY <1>1, Zenon
  <2>2. Equation(c)
    BY <2>1, Zenon
  <2> QED
    BY <1>1, <2>2, Zenon
<1> SUFFICES ASSUME NEW k PROVE Performed(heap, k) = c[k]
  BY <1>2, Zenon
<1> QED
  BY Zenon DEF Performed

(* A function points to functions before it only *)
Ranked(heap) ==
  \A i \in DOMAIN heap : heap[i].op = "Function" =>
    \A j \in DOMAIN heap[i].body :
      /\ heap[i].body[j] \in DOMAIN heap
      /\ heap[heap[i].body[j]].op = "Function" => heap[i].body[j] < i

LEMMA OneSolution ==
  ASSUME NEW heap \in Seq(Instruction), Ranked(heap), NEW g, NEW h, Solves(g, heap), Solves(h, heap)
  PROVE  g = h
<1> DEFINE Differ == {i \in DOMAIN heap : g[i] # h[i]}
           V(f, i) == IF heap[i].op = "Function" THEN MapFlat(f, heap[i].body) ELSE Alone(heap[i])
<1>1. \A i \in DOMAIN heap : g[i] = V(g, i) /\ h[i] = V(h, i)
  BY Zenon DEF Solves
<1>2. DOMAIN heap \subseteq Nat
  BY SMT
<1>3. ASSUME Differ # {} PROVE FALSE
  <2>1. PICK i \in Differ : \A m \in Differ : i =< m
    <3>1. Differ \subseteq Nat
      BY <1>2, Zenon
    <3> HIDE DEF Differ
    <3> QED
      BY <1>3, <3>1, LeastOfNaturals, Zenon
  <2>2. i \in DOMAIN heap /\ g[i] # h[i] /\ i \in Nat
    BY <1>2, <2>1, Zenon
  <2>3. heap[i].op = "Function"
    BY <1>1, <2>2, Zenon
  <2>4. ASSUME NEW j \in DOMAIN heap[i].body PROVE g[heap[i].body[j]] = h[heap[i].body[j]]
    <3> DEFINE q == heap[i].body[j]
    <3>1. q \in DOMAIN heap /\ (heap[q].op = "Function" => q < i) /\ q \in Nat
      BY <1>2, <2>2, <2>3, Zenon DEF Ranked
    <3>2. CASE heap[q].op # "Function"
      BY <1>1, <3>1, <3>2, Zenon
    <3>3. CASE heap[q].op = "Function"
      <4>1. ~(i =< q)
        BY ONLY <2>2, <3>1, <3>3, SMT
      <4>2. q \notin Differ
        BY <2>1, <4>1, Zenon
      <4> QED
        BY <3>1, <4>2, Zenon
    <3> QED
      BY <3>2, <3>3, Zenon
  <2>5. MapFlat(g, heap[i].body) = MapFlat(h, heap[i].body)
    BY <2>4, MapFlatSame, SMT
  <2> QED
    BY <1>1, <2>2, <2>3, <2>5, Zenon
<1>4. \A i \in DOMAIN heap : V(g, i) = V(h, i)
  BY <1>1, <1>3, Zenon
<1>5. [i \in DOMAIN heap |-> V(g, i)] = [i \in DOMAIN heap |-> V(h, i)]
  BY <1>4, Zenon
<1> QED
  BY <1>5, Zenon DEF Solves

-----------------------------------------------------------------------------
(* Programs *)
LEMMA ProgramFacts ==
  ASSUME NEW p \in Program
  PROVE  LET G == p.instructions
             K == p.kernels
         IN  /\ G \in Seq(Instruction) /\ K \in Seq(Nat)
             /\ \A k \in DOMAIN K : K[k] \in DOMAIN G /\ G[K[k]].op = "Function"
             /\ \A k, l \in DOMAIN K : k < l => K[k] < K[l]
             /\ \A i \in DOMAIN G : \A j \in DOMAIN G[i].body : G[i].body[j] \in 1..(i - 1)
             /\ Unshared(G)
<1>1. \A P, Q : \A r \in [instructions : P, kernels : Q] : r.instructions \in P /\ r.kernels \in Q
  BY SMT
<1>2. p \in [instructions: Seq(Instruction), kernels: Seq(Nat)]
  BY Zenon DEF Program
<1> QED
  BY <1>1, <1>2, Zenon DEF Program, WellFormed

LEMMA ProgramSolved ==
  ASSUME NEW heap \in Seq(Instruction),
         \A i \in DOMAIN heap : \A j \in DOMAIN heap[i].body : heap[i].body[j] \in 1..(i - 1)
  PROVE  \E g \in [DOMAIN heap -> Seq(Acts)] : Solves(g, heap)
<1> DEFINE V(f, i) == IF heap[i].op = "Function" THEN MapFlat(f, heap[i].body) ELSE Alone(heap[i])
           Upto(n, g) == g \in [1..n -> Seq(Acts)] /\ \A i \in 1..n : g[i] = V(g, i)
           Bad == {n \in 0..Len(heap) : ~ \E g : Upto(n, g)}
<1>0. Len(heap) \in Nat /\ DOMAIN heap = 1..Len(heap)
  BY SMT
<1>1. ASSUME Bad # {} PROVE FALSE
  <2>1. PICK n \in Bad : \A m \in Bad : n =< m
    <3>1. Bad \subseteq Nat
      BY <1>0, SMT
    <3> HIDE DEF Bad
    <3> QED
      BY <1>1, <3>1, LeastOfNaturals, Zenon
  <2>2. n \in Nat /\ n \in 0..Len(heap) /\ ~ \E g : Upto(n, g)
    <3>1. n \in 0..Len(heap) /\ ~ \E g : Upto(n, g)
      BY <2>1, Zenon
    <3> QED
      BY <1>0, <3>1, SMT
  <2>3. n # 0
    <3> SUFFICES ASSUME n = 0 PROVE FALSE
      OBVIOUS
    <3>1. 1..0 = {}
      BY SMT
    <3>2. [i \in {} |-> <<>>] \in [{} -> Seq(Acts)]
      BY Zenon
    <3>3. Upto(0, [i \in {} |-> <<>>])
      BY <3>1, <3>2, Zenon
    <3> QED
      BY <2>2, <3>3, Zenon
  <2>4. n - 1 \in 0..Len(heap) /\ ~(n =< n - 1) /\ n - 1 \in Nat
    BY <1>0, <2>2, <2>3, SMT
  <2>5. n - 1 \notin Bad
    BY <2>1, <2>4, Zenon
  <2>6. PICK g : Upto(n - 1, g)
    BY <2>4, <2>5, Zenon
  <2> DEFINE h == [i \in 1..n |-> IF i = n THEN V(g, n) ELSE g[i]]
  <2>7. /\ n \in DOMAIN heap /\ n \in 1..n
        /\ \A i \in 1..n : i = n \/ i \in 1..(n - 1)
        /\ \A i \in 1..(n - 1) : i \in 1..n /\ i # n /\ i \in DOMAIN heap
        /\ \A i \in 1..n : \A q \in 1..(i - 1) : q \in 1..(n - 1)
    BY <1>0, <2>2, <2>3, SMT
  <2>8. \A q \in 1..(n - 1) : h[q] = g[q]
    BY <2>7, Zenon
  <2>9. ASSUME NEW i \in 1..n PROVE V(h, i) = V(g, i)
    <3>1. i \in DOMAIN heap
      BY <2>7, Zenon
    <3>2. \A j \in DOMAIN heap[i].body : heap[i].body[j] \in 1..(n - 1)
      BY <2>7, <3>1, Zenon
    <3>3. \A j \in DOMAIN heap[i].body : h[heap[i].body[j]] = g[heap[i].body[j]]
      BY <2>8, <3>2, Zenon
    <3> HIDE DEF h
    <3>4. MapFlat(h, heap[i].body) = MapFlat(g, heap[i].body)
      BY <3>3, MapFlatSame, SMT
    <3> QED
      BY <3>4, Zenon
  <2>10. V(g, n) \in Seq(Acts)
    <3>1. heap[n] \in Instruction /\ heap[n].body \in Seq(Nat)
      BY <2>7, InstructionFacts, SMT
    <3>2. CASE heap[n].op # "Function"
      BY <3>1, <3>2, ActFacts, Zenon
    <3>3. CASE heap[n].op = "Function"
      <4>1. heap[n].body \in Seq(1..(n - 1))
        <5>1. \A j \in DOMAIN heap[n].body : heap[n].body[j] \in 1..(n - 1)
          BY <2>7, Zenon
        <5> DEFINE S == 1..(n - 1)
                   b == heap[n].body
        <5>2. b \in Seq(Nat) /\ \A j \in DOMAIN b : b[j] \in S
          BY <3>1, <5>1
        <5> HIDE DEF S, b
        <5>3. b \in Seq(S)
          BY <5>2, SMT
        <5> QED
          BY <5>3 DEF S, b
      <4>2. MapFlat(g, heap[n].body) \in Seq(Acts)
        BY <2>6, <4>1, MapFlatType, Zenon
      <4> QED
        BY <3>3, <4>2, Zenon
    <3> QED
      BY <3>2, <3>3, Zenon
  <2>11. h \in [1..n -> Seq(Acts)]
    <3>1. \A i \in 1..(n - 1) : g[i] \in Seq(Acts)
      BY <2>6, Zenon
    <3> HIDE DEF V
    <3> QED
      BY <2>7, <2>10, <3>1, Zenon
  <2>12. \A i \in 1..n : h[i] = V(g, i)
    <3>1. \A i \in 1..(n - 1) : g[i] = V(g, i)
      BY <2>6, Zenon
    <3> HIDE DEF V
    <3> QED
      BY <2>7, <3>1, Zenon
  <2>13. \A i \in 1..n : h[i] = V(h, i)
    <3> HIDE DEF h, V
    <3> QED
      BY <2>9, <2>12, Zenon
  <2>14. Upto(n, h)
    <3> HIDE DEF h, V
    <3> QED
      BY <2>11, <2>13, Zenon
  <2> QED
    BY <2>2, <2>14, Zenon
<1>2. PICK g : Upto(Len(heap), g)
  <2>1. Len(heap) \in 0..Len(heap)
    BY <1>0, SMT
  <2> QED
    BY <1>1, <2>1, Zenon
<1>3. g \in [DOMAIN heap -> Seq(Acts)] /\ \A i \in DOMAIN heap : g[i] = V(g, i)
  BY <1>0, <1>2, Zenon
<1>4. g = [i \in DOMAIN heap |-> V(g, i)]
  <2> HIDE DEF V
  <2> QED
    BY <1>3, Zenon
<1> QED
  BY <1>3, <1>4, Zenon DEF Solves

Means(heap) == [k \in DOMAIN heap |-> Performed(heap, k)]

(* What a program means, as a function *)
LEMMA MeansGiven ==
  ASSUME NEW p \in Program
  PROVE  LET G == p.instructions
         IN  /\ Means(G) \in [DOMAIN G -> Seq(Acts)]
             /\ \A k \in DOMAIN G :
                  Means(G)[k] = IF G[k].op = "Function" THEN MapFlat(Means(G), G[k].body)
                                ELSE Alone(G[k])
<1> DEFINE G == p.instructions
<1>1. /\ G \in Seq(Instruction)
      /\ \A i \in DOMAIN G : \A j \in DOMAIN G[i].body : G[i].body[j] \in 1..(i - 1)
  BY ProgramFacts, Zenon
<1> HIDE DEF G
<1>2. PICK g \in [DOMAIN G -> Seq(Acts)] : Solves(g, G)
  BY <1>1, ProgramSolved, Zenon
<1>3. Ranked(G)
  <2>1. \A i \in DOMAIN G : i \in Nat /\ \A q \in 1..(i - 1) : q \in DOMAIN G /\ q < i
    BY <1>1, SMT
  <2> QED
    BY <1>1, <2>1, Zenon DEF Ranked
<1>4. \A h : Solves(h, G) => h = g
  BY <1>1, <1>2, <1>3, OneSolution, Zenon
<1>5. \A k : Performed(G, k) = g[k]
  BY <1>2, <1>4, PerformedSolved, Zenon
<1>6. Means(G) = g
  <2>1. Means(G) = [k \in DOMAIN G |-> g[k]]
    BY <1>5, Zenon DEF Means
  <2>2. g = [k \in DOMAIN G |-> g[k]]
    BY <1>2, Zenon
  <2> QED
    BY <2>1, <2>2, Zenon
<1>7. \A k \in DOMAIN G : g[k] = IF G[k].op = "Function" THEN MapFlat(g, G[k].body)
                                 ELSE Alone(G[k])
  BY <1>2, Zenon DEF Solves
<1> QED
  BY <1>2, <1>6, <1>7, Zenon DEF G
-----------------------------------------------------------------------------
(* A program that transform can rewrite; G is its heap, K are its kernels *)
StraightBody(G, k) ==
  \A i \in DOMAIN G[k].body : NeedsReversal(G[G[k].body[i]]) =>
    \A j \in 1..i : G[G[k].body[j]].enabled /\ G[G[k].body[j]].op # "Function"

Compiled(G, K) ==
  /\ G \in Seq(Instruction) /\ K \in Seq(Nat)
  /\ \A k \in DOMAIN K : K[k] \in DOMAIN G /\ G[K[k]].op = "Function"
  /\ \A k, l \in DOMAIN K : k < l => K[k] < K[l]
  /\ \A i \in DOMAIN G : \A j \in DOMAIN G[i].body : G[i].body[j] \in 1..(i - 1)
  /\ Unshared(G)
  /\ Couplable(G)
  /\ \A i \in DOMAIN G : G[i].op = "Function" => \E k \in DOMAIN K : K[k] = i
  /\ \A k \in DOMAIN K : StraightBody(G, K[k])
  /\ Means(G) \in [DOMAIN G -> Seq(Acts)]
  /\ \A k \in DOMAIN G : Means(G)[k] = IF G[k].op = "Function" THEN MapFlat(Means(G), G[k].body)
                                        ELSE Alone(G[k])

LEMMA CompiledGiven ==
  ASSUME NEW p \in Program, Rewritable(p)
  PROVE  Compiled(p.instructions, p.kernels)
<1>1. \A i \in DOMAIN p.instructions : p.instructions[i].op = "Function" =>
        \E k \in DOMAIN p.kernels : p.kernels[k] = i
  BY Zenon DEF Rewritable, CallsKernels, Range
<1>2. \A k \in DOMAIN p.kernels : StraightBody(p.instructions, p.kernels[k])
  BY Zenon DEF Rewritable, Straight, StraightBody
<1>3. Couplable(p.instructions)
  BY Zenon DEF Rewritable
<1> QED
  BY <1>1, <1>2, <1>3, ProgramFacts, MeansGiven, Zenon DEF Compiled

(* What every pointer of a transformed heap is to perform *)
Want(G, I) ==
  [p \in DOMAIN I |-> IF I[p].op = "Function" THEN MapFlat(Device, Means(G)[p]) ELSE Alone(I[p])]

(* transform leaves what was compiled its names and qubits, and makes no functions *)
Kept(G, I) ==
  /\ HeapOK(I)
  /\ DOMAIN G \subseteq DOMAIN I
  /\ \A p \in DOMAIN G : I[p].op = G[p].op /\ I[p].bits = G[p].bits
  /\ \A p \in DOMAIN I : I[p].op = "Function" => p \in DOMAIN G

LEMMA WantFacts ==
  ASSUME NEW G, NEW K, Compiled(G, K), NEW I, Kept(G, I)
  PROVE  /\ Want(G, I) \in [DOMAIN I -> Seq(Acts)]
         /\ \A p \in DOMAIN I : I[p] \in Instruction /\ p \in Nat
         /\ \A p \in DOMAIN G : G[p] \in Instruction /\ p \in Nat
<1>1. /\ I \in Seq(Instruction) /\ G \in Seq(Instruction)
      /\ Means(G) \in [DOMAIN G -> Seq(Acts)]
      /\ \A p \in DOMAIN I : I[p].op = "Function" => p \in DOMAIN G
  BY Zenon DEF Compiled, Kept, HeapOK
<1>2. \A p \in DOMAIN I : I[p] \in Instruction /\ p \in Nat
  BY <1>1, SMT
<1>3. \A p \in DOMAIN G : G[p] \in Instruction /\ p \in Nat
  BY <1>1, SMT
<1>4. ASSUME NEW p \in DOMAIN I
      PROVE  (IF I[p].op = "Function" THEN MapFlat(Device, Means(G)[p]) ELSE Alone(I[p])) \in Seq(Acts)
  <2>1. CASE I[p].op # "Function"
    BY <1>2, <2>1, ActFacts, Zenon
  <2>2. CASE I[p].op = "Function"
    <3>1. Means(G)[p] \in Seq(Acts)
      BY <1>1, <2>2, Zenon
    <3>2. MapFlat(Device, Means(G)[p]) \in Seq(Acts)
      BY <3>1, DeviceType, MapFlatType, Zenon
    <3> QED
      BY <2>2, <3>2, Zenon
  <2> QED
    BY <2>1, <2>2, Zenon
<1>5. Want(G, I) \in [DOMAIN I -> Seq(Acts)]
  BY <1>4, Zenon DEF Want
<1> QED
  BY <1>2, <1>3, <1>5, Zenon

(* Pointers that transform leaves alone *)
LEMMA CalmMeans ==
  ASSUME NEW G, NEW K, Compiled(G, K), NEW I, Kept(G, I),
         NEW s \in Seq(DOMAIN G),
         \A j \in DOMAIN s : /\ I[s[j]].enabled = G[s[j]].enabled
                            /\ ~NeedsReversal(I[s[j]])
  PROVE  MapFlat(Want(G, I), s) = MapFlat(Device, MapFlat(Means(G), s))
<1> DEFINE h == [p \in DOMAIN G |-> Want(G, I)[p]]
<1>1. /\ DOMAIN G \subseteq DOMAIN I /\ Means(G) \in [DOMAIN G -> Seq(Acts)]
      /\ \A p \in DOMAIN G : I[p].op = G[p].op /\ I[p].bits = G[p].bits
      /\ \A p \in DOMAIN G : G[p].op # "Function" => Means(G)[p] = Alone(G[p])
  BY Zenon DEF Kept, Compiled
<1>2. h \in [DOMAIN G -> Seq(Acts)]
  <2>1. \A p \in DOMAIN G : Want(G, I)[p] \in Seq(Acts)
    BY <1>1, WantFacts, Zenon
  <2> QED
    BY <2>1, Zenon
<1>3. \A j \in DOMAIN s : s[j] \in DOMAIN G
  BY SMT
<1>4. ASSUME NEW j \in DOMAIN s
      PROVE  h[s[j]] = MapFlat(Device, Means(G)[s[j]])
  <2> DEFINE p == s[j]
  <2>1. /\ p \in DOMAIN G /\ p \in DOMAIN I /\ G[p] \in Instruction
        /\ I[p].enabled = G[p].enabled /\ ~NeedsReversal(I[p])
    BY <1>1, <1>3, WantFacts, Zenon
  <2> HIDE DEF p
  <2>2. h[p] = IF I[p].op = "Function" THEN MapFlat(Device, Means(G)[p]) ELSE Alone(I[p])
    BY <2>1, Zenon DEF Want
  <2>3. ASSUME I[p].op # "Function" PROVE Alone(I[p]) = MapFlat(Device, Means(G)[p])
    <3>1. Alone(I[p]) = Alone(G[p])
      BY <1>1, <2>1, Zenon DEF Alone, Act
    <3>2. ~NeedsReversal(G[p])
      BY <1>1, <2>1, Zenon DEF NeedsReversal
    <3>3. MapFlat(Device, Alone(G[p])) = Alone(G[p])
      BY <1>1, <2>1, <2>3, <3>2, AloneOnDevice, Zenon
    <3> QED
      BY <1>1, <2>1, <2>3, <3>1, <3>3, Zenon
  <2> QED
    BY <2>2, <2>3, Zenon DEF p
<1>5. MapFlat(Device, MapFlat(Means(G), s)) = MapFlat(h, s)
  <2> DEFINE M == Means(G)
  <2>1. M \in [DOMAIN G -> Seq(Acts)] /\ Device \in [Acts -> Seq(Acts)]
    BY <1>1, DeviceType, Zenon
  <2>2. \A j \in DOMAIN s : h[s[j]] = MapFlat(Device, M[s[j]])
    BY <1>4, Zenon
  <2> HIDE DEF h, M
  <2>3. Compose(M, Device, h, s)
    BY <1>2, <2>1, <2>2, MapFlatCompose, Zenon
  <2> QED
    BY <2>3, Zenon DEF M, Compose
<1>6. MapFlat(h, s) = MapFlat(Want(G, I), s)
  <2>1. \A j \in DOMAIN s : h[s[j]] = Want(G, I)[s[j]]
    BY <1>3, Zenon
  <2> DEFINE W == Want(G, I)
  <2> HIDE DEF h, W
  <2>2. \A j \in DOMAIN s : h[s[j]] = W[s[j]]
    BY <2>1, Zenon DEF W
  <2>3. MapFlat(h, s) = MapFlat(W, s)
    BY <2>2, MapFlatSame, SMT
  <2> QED
    BY <2>3, Zenon DEF W
<1> QED
  BY <1>5, <1>6, Zenon
-----------------------------------------------------------------------------
(* Sequences taken apart and put together *)
LEMMA SeqWider ==
  ASSUME NEW A, NEW B, A \subseteq B, NEW s \in Seq(A)
  PROVE  s \in Seq(B) /\ \A j \in DOMAIN s : s[j] \in A
BY SMT

(* The head of s moved to the end of a *)
MovesHead(S, a, s) ==
  /\ Head(s) \in S /\ Tail(s) \in Seq(S) /\ Append(a, Head(s)) \in Seq(S)
  /\ Len(Append(a, Head(s))) = Len(a) + 1
  /\ 1 \in DOMAIN s /\ s[1] = Head(s)
  /\ \A j \in DOMAIN Tail(s) : j + 1 \in DOMAIN s /\ Tail(s)[j] = s[j + 1]
  /\ \A j \in DOMAIN Append(a, Head(s)) :
       \/ j \in DOMAIN a /\ Append(a, Head(s))[j] = a[j]
       \/ Append(a, Head(s))[j] = Head(s)

LEMMA MovedFacts ==
  ASSUME NEW S, NEW a \in Seq(S), NEW s \in Seq(S), s # <<>>
  PROVE  MovesHead(S, a, s)
BY SMT DEF MovesHead

SameConcat(a, b, c, d) == a \o b = c \o d

LEMMA Moved ==
  ASSUME NEW S, NEW a \in Seq(S), NEW s \in Seq(S), s # <<>>
  PROVE  SameConcat(Append(a, Head(s)), Tail(s), a, s)
<1> DEFINE l == Append(a, Head(s)) \o Tail(s)
           r == a \o s
<1>1. PICK m \in Nat : m = Len(a)
  OBVIOUS
<1>2. PICK n \in Nat : n = Len(s)
  OBVIOUS
<1>3. n >= 1 /\ Len(Tail(s)) = n - 1 /\ Tail(s) \in Seq(S) /\ Head(s) = s[1] /\ Head(s) \in S
      /\ \A j \in 1..(n - 1) : Tail(s)[j] = s[j + 1]
  BY <1>2, SMT
<1>4. /\ Append(a, Head(s)) \in Seq(S) /\ Len(Append(a, Head(s))) = m + 1
      /\ Append(a, Head(s))[m + 1] = Head(s) /\ \A j \in 1..m : Append(a, Head(s))[j] = a[j]
  BY <1>1, <1>3, SMT
<1>5. /\ l \in Seq(S) /\ Len(l) = m + n /\ \A j \in 1..(m + 1) : l[j] = Append(a, Head(s))[j]
      /\ \A j \in (m + 2)..(m + n) : l[j] = Tail(s)[j - (m + 1)]
  BY <1>3, <1>4, SMT
<1>6. /\ r \in Seq(S) /\ Len(r) = m + n /\ \A j \in 1..m : r[j] = a[j]
      /\ \A j \in (m + 1)..(m + n) : r[j] = s[j - m]
  BY <1>1, <1>2, SMT
<1> HIDE DEF l, r
<1>7. ASSUME NEW j \in 1..(m + n) PROVE l[j] = r[j]
  <2>1. j \in 1..m \/ j = m + 1 \/ j \in (m + 2)..(m + n)
    BY SMT
  <2>2. CASE j \in 1..m
    <3>1. j \in 1..(m + 1)
      BY <2>2, SMT
    <3> QED
      BY <1>4, <1>5, <1>6, <2>2, <3>1, Zenon
  <2>3. CASE j = m + 1
    <3>1. j \in 1..(m + 1) /\ j \in (m + 1)..(m + n) /\ j - m = 1
      BY <1>3, <2>3, SMT
    <3> QED
      BY <1>3, <1>4, <1>5, <1>6, <2>3, <3>1, Zenon
  <2>4. CASE j \in (m + 2)..(m + n)
    <3>1. j \in (m + 1)..(m + n) /\ j - (m + 1) \in 1..(n - 1) /\ (j - (m + 1)) + 1 = j - m
      BY <2>4, SMT
    <3>2. l[j] = Tail(s)[j - (m + 1)] /\ r[j] = s[j - m]
      BY <1>5, <1>6, <2>4, <3>1, Zenon
    <3>3. Tail(s)[j - (m + 1)] = s[(j - (m + 1)) + 1]
      BY <1>3, <3>1, Zenon
    <3> QED
      BY <3>1, <3>2, <3>3, Zenon
  <2> QED
    BY <2>1, <2>2, <2>3, <2>4, Zenon
<1>8. l = r
  BY <1>5, <1>6, <1>7, SeqEqual, SMT
<1> QED
  BY <1>8 DEF l, r, SameConcat

(* Where the elements of a concatenation come from *)
Places(S, a, b) ==
  /\ a \o b \in Seq(S) /\ Len(a) \in Nat /\ Len(a \o b) = Len(a) + Len(b)
  /\ \A j \in DOMAIN (a \o b) :
       \/ j \in DOMAIN a /\ (a \o b)[j] = a[j]
       \/ j - Len(a) \in DOMAIN b /\ (a \o b)[j] = b[j - Len(a)]
  /\ \A i \in DOMAIN b : /\ Len(a) + i \in DOMAIN (a \o b) /\ (a \o b)[Len(a) + i] = b[i]
                          /\ i \in Nat /\ i >= 1
  /\ \A i \in DOMAIN a : /\ i \in DOMAIN (a \o b) /\ (a \o b)[i] = a[i]
                          /\ i \in Nat /\ i =< Len(a)

LEMMA ConcatPlaces ==
  ASSUME NEW S, NEW a \in Seq(S), NEW b \in Seq(S)
  PROVE  Places(S, a, b)
BY SMT DEF Places

LEMMA ReplacedAt ==
  ASSUME NEW pre \in Seq(Nat), NEW s \in Seq(Nat), s # <<>>, NEW pointers \in Seq(Nat)
  PROVE  Replaced(pre \o s, Len(pre), pointers) = (pre \o pointers) \o Tail(s)
<1> DEFINE body == pre \o s
<1>1. PICK m \in Nat : m = Len(pre)
  OBVIOUS
<1>2. PICK n \in Nat : n = Len(s)
  OBVIOUS
<1>3. /\ body \in Seq(Nat) /\ Len(body) = m + n /\ \A j \in 1..m : body[j] = pre[j]
      /\ \A j \in (m + 1)..(m + n) : body[j] = s[j - m]
  BY <1>1, <1>2, SMT
<1> HIDE DEF body
<1>4. SubSeq(body, 1, m) = pre
  <2>1. SubSeq(body, 1, m) \in Seq(Nat) /\ Len(SubSeq(body, 1, m)) = m
        /\ \A j \in 1..m : SubSeq(body, 1, m)[j] = body[j]
    BY <1>3, SMT
  <2> DEFINE l == SubSeq(body, 1, m)
  <2> HIDE DEF l
  <2>2. l \in Seq(Nat) /\ Len(l) = Len(pre) /\ \A j \in 1..Len(l) : l[j] = pre[j]
    BY <1>1, <1>3, <2>1, Zenon DEF l
  <2>3. l = pre
    BY ONLY <2>2, pre \in Seq(Nat), SeqEqual, SMT
  <2> QED
    BY <2>3 DEF l
<1>5. SubSeq(body, m + 2, Len(body)) = Tail(s)
  <2> DEFINE l == SubSeq(body, m + 2, m + n)
             t == Tail(s)
  <2>1. n >= 1 /\ t \in Seq(Nat) /\ Len(t) = n - 1 /\ \A j \in 1..(n - 1) : t[j] = s[j + 1]
    BY <1>2, SMT
  <2>2. l \in Seq(Nat) /\ Len(l) = n - 1 /\ \A j \in 1..(n - 1) : l[j] = body[j + m + 1]
    BY <1>3, <2>1, SMT
  <2> HIDE DEF l, t
  <2>3. ASSUME NEW j \in 1..(n - 1) PROVE l[j] = t[j]
    <3>1. j + m + 1 \in (m + 1)..(m + n) /\ (j + m + 1) - m = j + 1
      BY SMT
    <3> QED
      BY <1>3, <2>1, <2>2, <3>1, Zenon
  <2>4. l = t
    BY ONLY <2>1, <2>2, <2>3, SeqEqual, SMT
  <2> QED
    BY <1>3, <2>4, Zenon DEF l, t
<1> QED
  BY <1>1, <1>4, <1>5, Zenon DEF Replaced, body

(* Five elements *)
FlatFive(D, f, a, b, c, x, y, z) ==
  /\ <<a, b, c, a, b>> \in Seq(D)
  /\ MapFlat(f, <<a, b, c, a, b>>) = <<x, y, z, x, y>>

LEMMA MapFlatFive ==
  ASSUME NEW D, NEW T, NEW f \in [D -> Seq(T)], NEW a \in D, NEW b \in D, NEW c \in D,
         NEW x \in T, NEW y \in T, NEW z \in T,
         f[a] = <<x>>, f[b] = <<y>>, f[c] = <<z>>
  PROVE  FlatFive(D, f, a, b, c, x, y, z)
<1>1. /\ <<a>> \in Seq(D) /\ <<a, b>> \in Seq(D) /\ <<a, b, c>> \in Seq(D) /\ <<a, b, c, a>> \in Seq(D)
      /\ <<a, b, c, a, b>> \in Seq(D)
      /\ <<a, b>> = Append(<<a>>, b) /\ <<a, b, c>> = Append(<<a, b>>, c)
      /\ <<a, b, c, a>> = Append(<<a, b, c>>, a) /\ <<a, b, c, a, b>> = Append(<<a, b, c, a>>, b)
  BY SMT
<1>2. /\ <<x>> \o <<y>> = <<x, y>> /\ <<x, y>> \o <<z>> = <<x, y, z>>
      /\ <<x, y, z>> \o <<x>> = <<x, y, z, x>> /\ <<x, y, z, x>> \o <<y>> = <<x, y, z, x, y>>
  <2>1. /\ <<x>> \in Seq(T) /\ <<x, y>> \in Seq(T) /\ <<x, y, z>> \in Seq(T)
        /\ <<x, y, z, x>> \in Seq(T)
        /\ <<x, y>> = Append(<<x>>, y) /\ <<x, y, z>> = Append(<<x, y>>, z)
        /\ <<x, y, z, x>> = Append(<<x, y, z>>, x)
        /\ <<x, y, z, x, y>> = Append(<<x, y, z, x>>, y)
    BY SMT
  <2> QED
    BY <2>1, AppendIsConcat, Zenon
<1>3. MapFlat(f, <<a>>) = <<x>>
  BY MapFlatOne, Zenon
<1>4. MapFlat(f, <<a, b>>) = <<x, y>>
  <2>1. MapFlat(f, Append(<<a>>, b)) = MapFlat(f, <<a>>) \o f[b]
    BY <1>1, MapFlatAppend, Zenon
  <2> QED
    BY <1>1, <1>2, <1>3, <2>1, Zenon
<1>5. MapFlat(f, <<a, b, c>>) = <<x, y, z>>
  <2>1. MapFlat(f, Append(<<a, b>>, c)) = MapFlat(f, <<a, b>>) \o f[c]
    BY <1>1, MapFlatAppend, Zenon
  <2> QED
    BY <1>1, <1>2, <1>4, <2>1, Zenon
<1>6. MapFlat(f, <<a, b, c, a>>) = <<x, y, z, x>>
  <2>1. MapFlat(f, Append(<<a, b, c>>, a)) = MapFlat(f, <<a, b, c>>) \o f[a]
    BY <1>1, MapFlatAppend, Zenon
  <2> QED
    BY <1>1, <1>2, <1>5, <2>1, Zenon
<1>7. MapFlat(f, <<a, b, c, a, b>>) = <<x, y, z, x, y>>
  <2>1. MapFlat(f, Append(<<a, b, c, a>>, b)) = MapFlat(f, <<a, b, c, a>>) \o f[b]
    BY <1>1, MapFlatAppend, Zenon
  <2> QED
    BY <1>1, <1>2, <1>6, <2>1, Zenon
<1> QED
  BY <1>1, <1>7, Zenon DEF FlatFive
-----------------------------------------------------------------------------
(* A kernel still to be transformed *)
AsCompiled(G, I, f) ==
  /\ I[f].body = G[f].body
  /\ \A j \in DOMAIN G[f].body : I[G[f].body[j]].enabled = G[G[f].body[j]].enabled

(* Pointers of which there is nothing to reverse; D are the kernels done *)
Calm(I, D, s) ==
  \A j \in DOMAIN s : /\ ~NeedsReversal(I[s[j]])
                      /\ I[s[j]].op = "Function" => s[j] \in D

Done(G, I, D, f) ==
  /\ Calm(I, D, I[f].body)
  /\ \A j \in DOMAIN I[f].body : I[I[f].body[j]].op = "Function" => I[f].body[j] < f
  /\ MapFlat(Want(G, I), I[f].body) = MapFlat(Device, Means(G)[f])

(* A kernel in transformation: `done`, of its compiled body, is `pre` now, *)
(* and s is to come of both.                                               *)
Half(G, I, k, idx, s, done, pre) ==
  /\ done \in Seq(DOMAIN G) /\ s \in Seq(DOMAIN G) /\ pre \in Seq(DOMAIN I)
  /\ G[k].body = done \o s /\ I[k].body = pre \o s /\ Len(pre) = idx
  /\ \A j \in DOMAIN pre : I[pre[j]].op # "Function" /\ ~NeedsReversal(I[pre[j]])
  /\ \A j \in DOMAIN s : I[s[j]].enabled = G[s[j]].enabled
  /\ MapFlat(Want(G, I), pre) = MapFlat(Device, MapFlat(Means(G), done))

LEMMA Wider ==
  ASSUME NEW I, NEW D, NEW E, D \subseteq E
  PROVE  /\ \A s : Calm(I, D, s) => Calm(I, E, s)
         /\ \A G, f : Done(G, I, D, f) => Done(G, I, E, f)
BY Zenon DEF Calm, Done

LEMMA HalfDone ==
  ASSUME NEW G, NEW K, Compiled(G, K), NEW I, Kept(G, I),
         NEW k \in DOMAIN G, G[k].op = "Function",
         NEW idx, NEW s, NEW done, NEW pre, Half(G, I, k, idx, s, done, pre),
         NEW D, Calm(I, D, s)
  PROVE  Done(G, I, D, k)
<1> DEFINE W == Want(G, I)
           M == Means(G)
<1>1. /\ done \in Seq(DOMAIN G) /\ s \in Seq(DOMAIN G) /\ pre \in Seq(DOMAIN I)
      /\ G[k].body = done \o s /\ I[k].body = pre \o s
      /\ \A j \in DOMAIN pre : I[pre[j]].op # "Function" /\ ~NeedsReversal(I[pre[j]])
      /\ \A j \in DOMAIN s : I[s[j]].enabled = G[s[j]].enabled
      /\ MapFlat(W, pre) = MapFlat(Device, MapFlat(M, done))
  BY Zenon DEF Half
<1>2. DOMAIN G \subseteq DOMAIN I /\ s \in Seq(DOMAIN I)
  <2>1. DOMAIN G \subseteq DOMAIN I
    BY Zenon DEF Kept
  <2> QED
    BY <1>1, <2>1, SeqWider, Zenon
<1>3. \A j \in DOMAIN (pre \o s) :
        \/ j \in DOMAIN pre /\ (pre \o s)[j] = pre[j]
        \/ \E i \in DOMAIN s : (pre \o s)[j] = s[i]
  <2>1. Places(DOMAIN I, pre, s)
    BY <1>1, <1>2, ConcatPlaces, Zenon
  <2> QED
    BY <2>1, Zenon DEF Places
<1>4. Calm(I, D, pre \o s)
  BY <1>1, <1>3, Zenon DEF Calm
<1>5. \A j \in DOMAIN (pre \o s) : I[(pre \o s)[j]].op = "Function" => (pre \o s)[j] < k
  <2>1. ASSUME NEW i \in DOMAIN s PROVE s[i] < k
    <3>1. \E j \in DOMAIN (done \o s) : (done \o s)[j] = s[i]
      <4>1. Places(DOMAIN G, done, s)
        BY <1>1, ConcatPlaces, Zenon
      <4> QED
        BY <4>1, Zenon DEF Places
    <3>2. s[i] \in 1..(k - 1)
      BY <1>1, <3>1, Zenon DEF Compiled
    <3>3. k \in Nat
      BY WantFacts, Zenon
    <3> QED
      BY <3>2, <3>3, SMT
  <2> QED
    BY <1>1, <1>3, <2>1, Zenon
<1>6. /\ W \in [DOMAIN I -> Seq(Acts)] /\ M \in [DOMAIN G -> Seq(Acts)]
      /\ M[k] = MapFlat(M, G[k].body) /\ Device \in [Acts -> Seq(Acts)]
  <2>1. W \in [DOMAIN I -> Seq(Acts)]
    BY WantFacts, Zenon
  <2> QED
    BY <2>1, DeviceType, Zenon DEF Compiled
<1>7. MapFlat(W, s) = MapFlat(Device, MapFlat(M, s))
  BY <1>1, CalmMeans, Zenon DEF Calm
<1> HIDE DEF W, M
<1>8. MapFlat(M, done) \in Seq(Acts) /\ MapFlat(M, s) \in Seq(Acts)
  BY <1>1, <1>6, MapFlatType, Zenon
<1>9. Distributes(W, pre, s)
  BY <1>1, <1>2, <1>6, MapFlatConcat, Zenon
<1>10. Distributes(M, done, s)
  BY <1>1, <1>6, MapFlatConcat, Zenon
<1>11. Distributes(Device, MapFlat(M, done), MapFlat(M, s))
  BY <1>6, <1>8, MapFlatConcat, Zenon
<1>12. MapFlat(W, pre \o s) = MapFlat(Device, M[k])
  BY <1>1, <1>6, <1>7, <1>9, <1>10, <1>11, Zenon DEF Distributes
<1> QED
  BY <1>1, <1>4, <1>5, <1>12, Zenon DEF Done, W, M

(* Once something is passed over there is nothing left to reverse *)
LEMMA HalfPassed ==
  ASSUME NEW G, NEW K, Compiled(G, K), NEW I, Kept(G, I),
         NEW k \in DOMAIN G, StraightBody(G, k),
         NEW idx, NEW s, NEW done, NEW pre, Half(G, I, k, idx, s, done, pre),
         s # <<>>, ~Visited(I[Head(s)])
  PROVE  \A j \in DOMAIN s : ~NeedsReversal(I[s[j]])
<1> SUFFICES ASSUME NEW j \in DOMAIN s, NeedsReversal(I[s[j]]) PROVE FALSE
  OBVIOUS
<1>1. /\ done \in Seq(DOMAIN G) /\ s \in Seq(DOMAIN G) /\ G[k].body = done \o s
      /\ \A i \in DOMAIN s : I[s[i]].enabled = G[s[i]].enabled
  BY Zenon DEF Half
<1>2. 1 \in DOMAIN s /\ s[1] = Head(s) /\ \A i \in DOMAIN s : s[i] \in DOMAIN G
  BY <1>1, SMT
<1>3. \A i \in DOMAIN s : /\ Len(done) + i \in DOMAIN G[k].body /\ G[k].body[Len(done) + i] = s[i]
                          /\ i \in Nat /\ i >= 1 /\ Len(done) \in Nat
  <2>1. Places(DOMAIN G, done, s)
    BY <1>1, ConcatPlaces, Zenon
  <2> QED
    BY <1>1, <2>1, Zenon DEF Places
<1>4. \A p \in DOMAIN G : I[p].op = G[p].op /\ I[p].bits = G[p].bits
  BY Zenon DEF Kept
<1>5. NeedsReversal(G[s[j]])
  BY <1>1, <1>2, <1>4, Zenon DEF NeedsReversal
<1>6. \A i \in 1..(Len(done) + j) : G[G[k].body[i]].enabled /\ G[G[k].body[i]].op # "Function"
  BY <1>3, <1>5, Zenon DEF StraightBody
<1>7. Len(done) + 1 \in 1..(Len(done) + j)
  BY <1>3, SMT
<1>8. G[s[1]].enabled /\ G[s[1]].op # "Function"
  BY <1>2, <1>3, <1>6, <1>7, Zenon
<1>9. Visited(I[s[1]])
  BY <1>1, <1>2, <1>4, <1>8, Zenon DEF Visited
<1> QED
  BY <1>2, <1>9, Zenon

(* An instruction that is kept *)
LEMMA HalfKeep ==
  ASSUME NEW G, NEW K, Compiled(G, K), NEW I, Kept(G, I),
         NEW k \in DOMAIN G,
         NEW idx, NEW s, NEW done, NEW pre, Half(G, I, k, idx, s, done, pre),
         s # <<>>, Visited(I[Head(s)]), ~Uncoupled(I[Head(s)])
  PROVE  Half(G, I, k, idx + 1, Tail(s), Append(done, Head(s)), Append(pre, Head(s)))
<1> DEFINE W == Want(G, I)
           M == Means(G)
           p == Head(s)
           next == Append(done, p)
           more == Append(pre, p)
<1>1. /\ done \in Seq(DOMAIN G) /\ s \in Seq(DOMAIN G) /\ pre \in Seq(DOMAIN I)
      /\ G[k].body = done \o s /\ I[k].body = pre \o s /\ Len(pre) = idx
      /\ \A j \in DOMAIN pre : I[pre[j]].op # "Function" /\ ~NeedsReversal(I[pre[j]])
      /\ \A j \in DOMAIN s : I[s[j]].enabled = G[s[j]].enabled
      /\ MapFlat(W, pre) = MapFlat(Device, MapFlat(M, done))
  BY Zenon DEF Half
<1>2. DOMAIN G \subseteq DOMAIN I /\ s \in Seq(DOMAIN I)
  <2>1. DOMAIN G \subseteq DOMAIN I
    BY Zenon DEF Kept
  <2> QED
    BY <1>1, <2>1, SeqWider, Zenon
<1>3. /\ p \in DOMAIN G /\ Tail(s) \in Seq(DOMAIN G) /\ next \in Seq(DOMAIN G)
      /\ 1 \in DOMAIN s /\ s[1] = p
      /\ \A j \in DOMAIN Tail(s) : j + 1 \in DOMAIN s /\ Tail(s)[j] = s[j + 1]
      /\ next \o Tail(s) = done \o s
  <2>1. MovesHead(DOMAIN G, done, s) /\ SameConcat(Append(done, Head(s)), Tail(s), done, s)
    BY <1>1, MovedFacts, Moved, Zenon
  <2> QED
    BY <2>1, Zenon DEF MovesHead, SameConcat
<1>4. /\ more \in Seq(DOMAIN I) /\ Len(more) = Len(pre) + 1
      /\ \A j \in DOMAIN more : (j \in DOMAIN pre /\ more[j] = pre[j]) \/ more[j] = p
      /\ more \o Tail(s) = pre \o s
  <2>1. MovesHead(DOMAIN I, pre, s) /\ SameConcat(Append(pre, Head(s)), Tail(s), pre, s)
    BY <1>1, <1>2, MovedFacts, Moved, Zenon
  <2> QED
    BY <2>1, Zenon DEF MovesHead, SameConcat
<1>5. /\ I[p].op = G[p].op /\ I[p].bits = G[p].bits /\ I[p].enabled = G[p].enabled
      /\ G[p] \in Instruction /\ I[p].op # "Function" /\ I[p].enabled /\ p \in DOMAIN I
      /\ ~NeedsReversal(I[p]) /\ ~NeedsReversal(G[p])
  <2>1. /\ I[p].op = G[p].op /\ I[p].bits = G[p].bits /\ I[p].enabled = G[p].enabled
        /\ p \in DOMAIN I
    BY <1>1, <1>2, <1>3, Zenon DEF Kept
  <2>2. G[p] \in Instruction
    BY <1>3, WantFacts, Zenon
  <2>3. ~NeedsReversal(I[p])
    BY Zenon DEF NeedsReversal, Uncoupled, isCouplingAvailable
  <2> QED
    BY <2>1, <2>2, <2>3, Zenon DEF Visited, NeedsReversal
<1>6. W[p] = MapFlat(Device, M[p])
  <2>1. W[p] = Alone(I[p])
    BY <1>5, Zenon DEF Want
  <2>2. Alone(I[p]) = Alone(G[p])
    BY <1>5, Zenon DEF Alone, Act
  <2>3. M[p] = Alone(G[p])
    BY <1>3, <1>5, Zenon DEF Compiled
  <2>4. MapFlat(Device, Alone(G[p])) = Alone(G[p])
    BY <1>5, AloneOnDevice, Zenon
  <2> QED
    BY <2>1, <2>2, <2>3, <2>4, Zenon
<1>7. /\ W \in [DOMAIN I -> Seq(Acts)] /\ M \in [DOMAIN G -> Seq(Acts)]
      /\ Device \in [Acts -> Seq(Acts)]
  <2>1. W \in [DOMAIN I -> Seq(Acts)]
    BY WantFacts, Zenon
  <2> QED
    BY <2>1, DeviceType, Zenon DEF Compiled
<1> HIDE DEF W, M, p
<1>8. MapFlat(W, more) = MapFlat(W, pre) \o W[p]
  <2>1. Extends(W, pre, p)
    BY <1>1, <1>5, <1>7, MapFlatExtends, Zenon
  <2> QED
    BY <2>1, Zenon DEF Extends
<1>9. MapFlat(M, next) = MapFlat(M, done) \o M[p]
  <2>1. Extends(M, done, p)
    BY <1>1, <1>3, <1>7, MapFlatExtends, Zenon
  <2> QED
    BY <2>1, Zenon DEF Extends
<1>10. Distributes(Device, MapFlat(M, done), M[p])
  <2>1. MapFlat(M, done) \in Seq(Acts) /\ M[p] \in Seq(Acts)
    BY <1>1, <1>3, <1>7, MapFlatType, Zenon
  <2> QED
    BY <1>7, <2>1, MapFlatConcat, Zenon
<1>11. MapFlat(W, more) = MapFlat(Device, MapFlat(M, next))
  BY <1>1, <1>6, <1>8, <1>9, <1>10, Zenon DEF Distributes
<1> HIDE DEF next, more
<1>12. \A j \in DOMAIN more : I[more[j]].op # "Function" /\ ~NeedsReversal(I[more[j]])
  BY <1>1, <1>4, <1>5, Zenon
<1>13. \A j \in DOMAIN Tail(s) : I[Tail(s)[j]].enabled = G[Tail(s)[j]].enabled
  BY <1>1, <1>3, Zenon
<1>14. Half(G, I, k, idx + 1, Tail(s), next, more)
  BY <1>1, <1>3, <1>4, <1>11, <1>12, <1>13, Zenon DEF Half, W, M
<1> QED
  BY <1>14, Zenon DEF next, more, p
-----------------------------------------------------------------------------
(* What a reversal leaves as it was *)
SameBut(G, I, c, u) ==
  \A p \in DOMAIN I : p # c =>
    /\ u[p].op = I[p].op
    /\ NeedsReversal(u[p]) <=> NeedsReversal(I[p])
    /\ Want(G, u)[p] = Want(G, I)[p]
    /\ u[p].enabled = I[p].enabled

LEMMA KeptReversed ==
  ASSUME NEW G, NEW I, Kept(G, I), NEW c, NEW k, NEW i, NEW u, WellReversed(I, c, k, i, u)
  PROVE  Kept(G, u) /\ SameBut(G, I, c, u)
<1> DEFINE n == Len(I)
<1>1. /\ HeapOK(u) /\ DOMAIN I \subseteq DOMAIN u
      /\ n \in Nat /\ DOMAIN I = 1..n /\ DOMAIN u = 1..(n + 3)
      /\ \A j \in DOMAIN I : u[j].op = I[j].op
      /\ \A j \in DOMAIN I \ {c} : u[j].enabled = I[j].enabled
      /\ BitsReversed(I, c, u)
      /\ \A j \in {n + 1, n + 2, n + 3} : u[j].op = IF j = n + 3 THEN "CNOT" ELSE "H"
  BY Zenon DEF WellReversed
<1>2. \A j \in DOMAIN I : u[j].bits = I[j].bits
  BY <1>1, Zenon DEF BitsReversed
<1>3. /\ DOMAIN G \subseteq DOMAIN I
      /\ \A p \in DOMAIN G : I[p].op = G[p].op /\ I[p].bits = G[p].bits
      /\ \A p \in DOMAIN I : I[p].op = "Function" => p \in DOMAIN G
  BY Zenon DEF Kept
<1> HIDE DEF n
<1>4. ASSUME NEW p \in DOMAIN u, u[p].op = "Function" PROVE p \in DOMAIN G
  <2>1. p \in DOMAIN I \/ p \in {n + 1, n + 2, n + 3}
    BY <1>1, SMT
  <2>2. "CNOT" # "Function" /\ "H" # "Function"
    BY SMT
  <2>3. p \in DOMAIN I
    BY <1>1, <1>4, <2>1, <2>2, Zenon
  <2> QED
    BY <1>1, <1>3, <1>4, <2>3, Zenon
<1>5. Kept(G, u)
  <2>1. DOMAIN G \subseteq DOMAIN u
    BY <1>1, <1>3, Zenon
  <2>2. \A p \in DOMAIN G : u[p].op = G[p].op /\ u[p].bits = G[p].bits
    BY <1>1, <1>2, <1>3, Zenon
  <2> QED
    BY <1>1, <1>4, <2>1, <2>2, Zenon DEF Kept
<1>6. ASSUME NEW p \in DOMAIN I, p # c
      PROVE  /\ u[p].op = I[p].op
             /\ NeedsReversal(u[p]) <=> NeedsReversal(I[p])
             /\ Want(G, u)[p] = Want(G, I)[p]
             /\ u[p].enabled = I[p].enabled
  <2>1. /\ u[p].op = I[p].op /\ u[p].enabled = I[p].enabled /\ u[p].bits = I[p].bits
        /\ p \in DOMAIN u
    BY <1>1, <1>2, <1>6, Zenon
  <2>2. Alone(u[p]) = Alone(I[p])
    BY <2>1, Zenon DEF Alone, Act
  <2>3. Want(G, u)[p] = IF u[p].op = "Function" THEN MapFlat(Device, Means(G)[p]) ELSE Alone(u[p])
    BY <2>1, Zenon DEF Want
  <2>4. Want(G, I)[p] = IF I[p].op = "Function" THEN MapFlat(Device, Means(G)[p]) ELSE Alone(I[p])
    BY Zenon DEF Want
  <2>5. NeedsReversal(u[p]) <=> NeedsReversal(I[p])
    BY <2>1, Zenon DEF NeedsReversal
  <2> QED
    BY <2>1, <2>2, <2>3, <2>4, <2>5, Zenon
<1> QED
  BY <1>5, <1>6, Zenon DEF SameBut

LEMMA DoneReversed ==
  ASSUME NEW G, NEW I, Kept(G, I), NEW c, NeedsReversal(I[c]), NEW k, NEW i, NEW u,
         WellReversed(I, c, k, i, u),
         NEW D, NEW f \in DOMAIN G, f # k, Done(G, I, D, f)
  PROVE  Done(G, u, D, f)
<1> DEFINE b == I[f].body
<1>1. /\ Calm(I, D, b)
      /\ \A j \in DOMAIN b : I[b[j]].op = "Function" => b[j] < f
      /\ MapFlat(Want(G, I), b) = MapFlat(Device, Means(G)[f])
  BY Zenon DEF Done
<1>2. f \in DOMAIN I /\ HeapOK(I)
  BY Zenon DEF Kept
<1>3. u[f].body = b
  BY <1>2, Zenon DEF WellReversed
<1>4. SameBut(G, I, c, u)
  BY KeptReversed, Zenon
<1>5. \A j \in DOMAIN b : b[j] \in DOMAIN I /\ b[j] # c
  BY <1>1, <1>2, Zenon DEF HeapOK, WellFormed, Calm
<1> HIDE DEF b
<1>6. Calm(u, D, b)
  BY <1>1, <1>4, <1>5, Zenon DEF Calm, SameBut
<1>7. \A j \in DOMAIN b : u[b[j]].op = "Function" => b[j] < f
  BY <1>1, <1>4, <1>5, Zenon DEF SameBut
<1>8. MapFlat(Want(G, u), b) = MapFlat(Want(G, I), b)
  <2> DEFINE V == Want(G, u)
             W == Want(G, I)
  <2>1. \A j \in DOMAIN b : V[b[j]] = W[b[j]]
    BY <1>4, <1>5, Zenon DEF SameBut
  <2> HIDE DEF V, W
  <2>2. MapFlat(V, b) = MapFlat(W, b)
    BY <2>1, MapFlatSame, SMT
  <2> QED
    BY <2>2, Zenon DEF V, W
<1> QED
  BY <1>1, <1>3, <1>6, <1>7, <1>8, Zenon DEF Done

(* The CNOT at hand is in no other place *)
LEMMA OnlyPlace ==
  ASSUME NEW G, NEW K, Compiled(G, K), NEW k \in DOMAIN G,
         NEW done \in Seq(DOMAIN G), NEW s \in Seq(DOMAIN G), s # <<>>,
         G[k].body = done \o s, G[Head(s)].op # "Function"
  PROVE  /\ \A f \in DOMAIN G : f # k => \A j \in DOMAIN G[f].body : G[f].body[j] # Head(s)
         /\ \A j \in DOMAIN Tail(s) : Tail(s)[j] # Head(s)
<1> DEFINE c == Head(s)
<1>1. Places(DOMAIN G, done, s)
  BY ConcatPlaces, Zenon
<1>2. MovesHead(DOMAIN G, done, s)
  BY MovedFacts, Zenon
<1>3. /\ 1 \in DOMAIN s /\ s[1] = c
      /\ \A j \in DOMAIN Tail(s) : j + 1 \in DOMAIN s /\ Tail(s)[j] = s[j + 1]
  BY <1>2, Zenon DEF MovesHead
<1>4. /\ Len(done) \in Nat
      /\ \A i \in DOMAIN s : /\ Len(done) + i \in DOMAIN G[k].body
                             /\ G[k].body[Len(done) + i] = s[i]
  BY <1>1, Zenon DEF Places
<1>5. Unshared(G)
  BY Zenon DEF Compiled
<1>6. ASSUME NEW f \in DOMAIN G, NEW j \in DOMAIN G[f].body, G[f].body[j] = c
      PROVE  f = k /\ j = Len(done) + 1
  <2> DEFINE m == Len(done) + 1
  <2>1. /\ m \in DOMAIN G[k].body /\ G[f].body[j] = G[k].body[m]
        /\ G[G[f].body[j]].op # "Function"
        /\ f \in DOMAIN G /\ k \in DOMAIN G /\ j \in DOMAIN G[f].body
    BY <1>3, <1>4, <1>6, Zenon
  <2> HIDE DEF c, m
  <2>2. \A g, h \in DOMAIN G : \A i \in DOMAIN G[g].body : \A l \in DOMAIN G[h].body :
          G[g].body[i] = G[h].body[l] /\ G[G[g].body[i]].op # "Function" => g = h /\ i = l
    BY <1>5, Zenon DEF Unshared
  <2>3. f = k /\ j = m
    BY ONLY <2>1, <2>2, SMT
  <2> QED
    BY <2>3, Zenon DEF m
<1>7. ASSUME NEW j \in DOMAIN Tail(s), Tail(s)[j] = c PROVE FALSE
  <2>1. Len(done) + (j + 1) = Len(done) + 1
    BY <1>3, <1>4, <1>6, <1>7, Zenon
  <2>2. j \in Nat /\ j >= 1
    <3>1. Tail(s) \in Seq(DOMAIN G)
      BY SMT
    <3> QED
      BY <1>7, <3>1, SMT
  <2> QED
    BY <1>4, <2>1, <2>2, SMT
<1> QED
  BY <1>6, <1>7, Zenon

LEMMA AsCompiledReversed ==
  ASSUME NEW G, NEW K, Compiled(G, K), NEW I, Kept(G, I),
         NEW c, NEW k, NEW i, NEW u, WellReversed(I, c, k, i, u),
         NEW f \in DOMAIN G, f # k, AsCompiled(G, I, f),
         \A j \in DOMAIN G[f].body : G[f].body[j] # c
  PROVE  AsCompiled(G, u, f)
<1>1. SameBut(G, I, c, u)
  BY KeptReversed, Zenon
<1>2. f \in DOMAIN I /\ HeapOK(I) /\ I[f].body = G[f].body
  BY Zenon DEF Kept, AsCompiled
<1>3. u[f].body = I[f].body
  BY <1>2, Zenon DEF WellReversed
<1>4. \A j \in DOMAIN G[f].body : G[f].body[j] \in DOMAIN I
  BY <1>2, Zenon DEF HeapOK, WellFormed
<1> QED
  BY <1>1, <1>2, <1>3, <1>4, Zenon DEF AsCompiled, SameBut

(* A CNOT that is turned round *)
LEMMA HalfReverse ==
  ASSUME NEW G, NEW K, Compiled(G, K), NEW I, Kept(G, I),
         NEW k \in DOMAIN G,
         NEW idx, NEW s, NEW done, NEW pre, Half(G, I, k, idx, s, done, pre),
         s # <<>>, NeedsReversal(I[Head(s)]),
         NEW u, WellReversed(I, Head(s), k, idx, u)
  PROVE  \E more : Half(G, u, k, idx + 5, Tail(s), Append(done, Head(s)), more)
<1> DEFINE V == Want(G, u)
           W == Want(G, I)
           M == Means(G)
           c == Head(s)
           n == Len(I)
           five == <<n + 1, n + 2, n + 3, n + 1, n + 2>>
           next == Append(done, c)
           more == pre \o five
<1>1. /\ done \in Seq(DOMAIN G) /\ s \in Seq(DOMAIN G) /\ pre \in Seq(DOMAIN I)
      /\ G[k].body = done \o s /\ I[k].body = pre \o s /\ Len(pre) = idx
      /\ \A j \in DOMAIN pre : I[pre[j]].op # "Function" /\ ~NeedsReversal(I[pre[j]])
      /\ \A j \in DOMAIN s : I[s[j]].enabled = G[s[j]].enabled
      /\ MapFlat(W, pre) = MapFlat(Device, MapFlat(M, done))
  BY Zenon DEF Half
<1>2. /\ HeapOK(u) /\ DOMAIN I \subseteq DOMAIN u
      /\ n \in Nat /\ DOMAIN I = 1..n /\ DOMAIN u = 1..(n + 3)
      /\ u[k].body = Replaced(I[k].body, idx, five)
      /\ BitsReversed(I, c, u)
      /\ \A j \in {n + 1, n + 2, n + 3} :
           u[j].enabled = TRUE /\ u[j].op = IF j = n + 3 THEN "CNOT" ELSE "H"
  BY Zenon DEF WellReversed
<1>3. Kept(G, u) /\ SameBut(G, I, c, u)
  BY KeptReversed, Zenon
<1>4. /\ c \in DOMAIN G /\ Tail(s) \in Seq(DOMAIN G) /\ next \in Seq(DOMAIN G)
      /\ 1 \in DOMAIN s /\ s[1] = c
      /\ \A j \in DOMAIN Tail(s) : j + 1 \in DOMAIN s /\ Tail(s)[j] = s[j + 1]
      /\ next \o Tail(s) = done \o s
  <2>1. MovesHead(DOMAIN G, done, s) /\ SameConcat(Append(done, Head(s)), Tail(s), done, s)
    BY <1>1, MovedFacts, Moved, Zenon
  <2> QED
    BY <2>1, Zenon DEF MovesHead, SameConcat
<1>5. /\ I[c].op = G[c].op /\ I[c].bits = G[c].bits /\ I[c].enabled = G[c].enabled
      /\ G[c] \in Instruction /\ G[c].op = "CNOT" /\ G[c].op # "Function"
      /\ c \in DOMAIN I /\ NeedsReversal(G[c])
  <2>1. /\ I[c].op = G[c].op /\ I[c].bits = G[c].bits /\ I[c].enabled = G[c].enabled
        /\ c \in DOMAIN I
    BY <1>1, <1>4, Zenon DEF Kept
  <2>2. G[c] \in Instruction
    BY <1>4, WantFacts, Zenon
  <2>3. I[c].op = "CNOT" /\ "CNOT" # "Function"
    BY SMT DEF NeedsReversal
  <2> QED
    BY <2>1, <2>2, <2>3, Zenon DEF NeedsReversal
<1> DEFINE a == G[c].bits[1]
           b == G[c].bits[2]
<1>6. /\ a \in Qubits /\ b \in Qubits
      /\ <<a, b>> \notin Couplers /\ <<b, a>> \in Couplers
  <2>1. G[c].bits \in Qubits \X Qubits
    BY <1>5, InstructionFacts, Zenon
  <2>2. a \in Qubits /\ b \in Qubits
    BY <2>1, SMT
  <2>3. <<a, b>> \notin Couplers
    BY <1>5, Zenon DEF NeedsReversal
  <2>4. Couplable(G)
    BY Zenon DEF Compiled
  <2> QED
    BY <1>4, <1>5, <2>2, <2>3, <2>4, Zenon DEF Couplable
<1>7. /\ u[n + 1].bits = <<a>> /\ u[n + 2].bits = <<b>> /\ u[n + 3].bits = <<b, a>>
      /\ u[n + 1].op = "H" /\ u[n + 2].op = "H" /\ u[n + 3].op = "CNOT"
      /\ u[n + 1].enabled /\ u[n + 2].enabled /\ u[n + 3].enabled
  <2>1. n + 1 # n + 3 /\ n + 2 # n + 3
    BY <1>2, SMT
  <2>2. u[n + 1].bits = <<a>> /\ u[n + 2].bits = <<b>> /\ u[n + 3].bits = <<b, a>>
    BY <1>2, <1>5, Zenon DEF BitsReversed
  <2>3. u[n + 1].op = "H" /\ u[n + 2].op = "H" /\ u[n + 3].op = "CNOT"
    BY <1>2, <2>1, Zenon
  <2> QED
    BY <1>2, <2>2, <2>3, Zenon
<1>8. n + 1 \in DOMAIN u /\ n + 2 \in DOMAIN u /\ n + 3 \in DOMAIN u
  BY <1>2, SMT
<1> DEFINE x == [op |-> "H", bits |-> <<a>>]
           y == [op |-> "H", bits |-> <<b>>]
           z == [op |-> "CNOT", bits |-> <<b, a>>]
<1>9. V[n + 1] = <<x>> /\ V[n + 2] = <<y>> /\ V[n + 3] = <<z>>
  <2>1. "CNOT" # "Function" /\ "H" # "Function"
    BY SMT
  <2>2. \A p \in DOMAIN u : u[p].op # "Function" => V[p] = Alone(u[p])
    BY Zenon DEF Want
  <2> HIDE DEF V, a, b, n
  <2>3. /\ V[n + 1] = Alone(u[n + 1]) /\ V[n + 2] = Alone(u[n + 2])
        /\ V[n + 3] = Alone(u[n + 3])
    BY <1>7, <1>8, <2>1, <2>2, Zenon
  <2> QED
    BY <1>7, <2>3, Zenon DEF Alone, Act
<1>10. /\ \A j \in DOMAIN five : five[j] \in {n + 1, n + 2, n + 3}
       /\ five \in Seq(Nat) /\ Len(five) = 5
  BY <1>2, SMT
<1>11. ASSUME NEW q \in {n + 1, n + 2, n + 3} PROVE u[q].op # "Function" /\ ~NeedsReversal(u[q])
  <2>1. "CNOT" # "Function" /\ "H" # "Function" /\ "H" # "CNOT"
    BY SMT
  <2>2. <<b, a>>[1] = b /\ <<b, a>>[2] = a
    BY SMT
  <2> HIDE DEF a, b, n
  <2>3. ~NeedsReversal(u[n + 3])
    BY <1>6, <1>7, <2>2, Zenon DEF NeedsReversal
  <2>4. ~NeedsReversal(u[n + 1]) /\ ~NeedsReversal(u[n + 2])
    BY <1>7, <2>1, Zenon DEF NeedsReversal
  <2> QED
    BY <1>7, <2>1, <2>3, <2>4, Zenon
<1>12. /\ V \in [DOMAIN u -> Seq(Acts)] /\ W \in [DOMAIN I -> Seq(Acts)]
       /\ M \in [DOMAIN G -> Seq(Acts)] /\ Device \in [Acts -> Seq(Acts)]
  <2>1. V \in [DOMAIN u -> Seq(Acts)]
    BY <1>3, WantFacts, Zenon
  <2>2. W \in [DOMAIN I -> Seq(Acts)]
    BY WantFacts, Zenon
  <2> QED
    BY <2>1, <2>2, DeviceType, Zenon DEF Compiled
<1>13. /\ x \in Acts /\ y \in Acts /\ z \in Acts
  <2>1. <<b, a>> \in Qubits \X Qubits
    BY <1>6, SMT
  <2> HIDE DEF a, b
  <2> QED
    BY <1>6, <2>1, Ops, Pairs, Zenon DEF Acts
<1>14. MapFlat(Device, M[c]) = <<x, y, z, x, y>>
  <2>1. M[c] = Alone(G[c])
    BY <1>4, <1>5, Zenon DEF Compiled
  <2>2. MapFlat(Device, Alone(G[c])) = Five(G[c].bits)
    BY <1>5, AloneOnDevice, Zenon
  <2>3. Five(G[c].bits) = <<x, y, z, x, y>>
    BY Zenon DEF Five
  <2> QED
    BY <2>1, <2>2, <2>3, Zenon
<1>15. pre \in Seq(DOMAIN u) /\ pre \in Seq(Nat) /\ s \in Seq(Nat)
       /\ \A j \in DOMAIN pre : pre[j] \in DOMAIN I
  <2>1. DOMAIN G \subseteq Nat /\ DOMAIN I \subseteq Nat
    BY WantFacts, Zenon
  <2> QED
    BY <1>1, <1>2, <2>1, SeqWider, Zenon
<1>16. u[k].body = more \o Tail(s)
  <2> HIDE DEF five
  <2>1. Replaced(pre \o s, Len(pre), five) = (pre \o five) \o Tail(s)
    BY <1>10, <1>15, ReplacedAt, Zenon
  <2> QED
    BY <1>1, <1>2, <2>1, Zenon
<1> HIDE DEF V, W, M, c, n, x, y, z
<1>17. five \in Seq(DOMAIN u) /\ MapFlat(V, five) = <<x, y, z, x, y>>
  <2>1. FlatFive(DOMAIN u, V, n + 1, n + 2, n + 3, x, y, z)
    BY <1>8, <1>9, <1>12, <1>13, MapFlatFive, Zenon
  <2> QED
    BY <2>1, Zenon DEF FlatFive
<1>18. \A j \in DOMAIN pre : V[pre[j]] = W[pre[j]] /\ pre[j] # c
                             /\ u[pre[j]].op # "Function" /\ ~NeedsReversal(u[pre[j]])
  <2>1. NeedsReversal(I[c])
    BY Zenon DEF c
  <2> QED
    BY <1>1, <1>3, <1>15, <2>1, Zenon DEF SameBut, V, W
<1>19. MapFlat(V, pre) = MapFlat(W, pre)
  <2>1. \A j \in DOMAIN pre : V[pre[j]] = W[pre[j]]
    BY <1>18, Zenon
  <2> QED
    BY <2>1, MapFlatSame, SMT
<1> HIDE DEF five
<1>20. Distributes(V, pre, five)
  BY <1>12, <1>15, <1>17, MapFlatConcat, Zenon
<1>21. Extends(M, done, c)
  BY <1>1, <1>4, <1>12, MapFlatExtends, Zenon
<1>22. Distributes(Device, MapFlat(M, done), M[c])
  <2>1. MapFlat(M, done) \in Seq(Acts) /\ M[c] \in Seq(Acts)
    BY <1>1, <1>4, <1>12, MapFlatType, Zenon
  <2> QED
    BY <1>12, <2>1, MapFlatConcat, Zenon
<1>23. MapFlat(V, more) = MapFlat(Device, MapFlat(M, next))
  BY <1>1, <1>14, <1>17, <1>19, <1>20, <1>21, <1>22, Zenon DEF Distributes, Extends
<1>24. /\ more \in Seq(DOMAIN u) /\ Len(more) = idx + 5
       /\ \A j \in DOMAIN more : u[more[j]].op # "Function" /\ ~NeedsReversal(u[more[j]])
  <2>1. Places(DOMAIN u, pre, five)
    BY <1>15, <1>17, ConcatPlaces, Zenon
  <2>2. Len(pre \o five) = idx + 5
    <3>1. five \in Seq(Nat) /\ Len(five) = 5 /\ pre \in Seq(Nat) /\ Len(pre) = idx
      BY <1>1, <1>10, <1>15, Zenon
    <3> QED
      BY <2>1, <3>1, Zenon DEF Places
  <2>3. \A j \in DOMAIN more : \/ \E i \in DOMAIN pre : more[j] = pre[i]
                               \/ \E i \in DOMAIN five : more[j] = five[i]
    BY <2>1, Zenon DEF Places
  <2>4. \A j \in DOMAIN five : u[five[j]].op # "Function" /\ ~NeedsReversal(u[five[j]])
    BY <1>10, <1>11, Zenon
  <2>5. more \in Seq(DOMAIN u)
    BY <2>1, Zenon DEF Places
  <2> HIDE DEF more
  <2>6. \A j \in DOMAIN more : u[more[j]].op # "Function" /\ ~NeedsReversal(u[more[j]])
    BY <1>18, <2>3, <2>4, Zenon
  <2> QED
    BY <2>2, <2>5, <2>6, Zenon DEF more
<1>25. \A j \in DOMAIN Tail(s) : u[Tail(s)[j]].enabled = G[Tail(s)[j]].enabled
  <2>1. \A j \in DOMAIN Tail(s) : Tail(s)[j] # c
    BY <1>1, <1>5, OnlyPlace, Zenon DEF c
  <2>2. \A j \in DOMAIN Tail(s) : Tail(s)[j] \in DOMAIN I
    <3>1. DOMAIN G \subseteq DOMAIN I
      BY Zenon DEF Kept
    <3>2. \A j \in DOMAIN Tail(s) : Tail(s)[j] \in DOMAIN G
      BY <1>4, SeqWider, Zenon
    <3> QED
      BY <3>1, <3>2, Zenon
  <2> SUFFICES ASSUME NEW j \in DOMAIN Tail(s)
               PROVE  u[Tail(s)[j]].enabled = G[Tail(s)[j]].enabled
    OBVIOUS
  <2>3. j + 1 \in DOMAIN s /\ Tail(s)[j] = s[j + 1]
    BY <1>4, Zenon
  <2>4. I[Tail(s)[j]].enabled = G[Tail(s)[j]].enabled
    BY <1>1, <2>3, Zenon
  <2>5. u[Tail(s)[j]].enabled = I[Tail(s)[j]].enabled
    BY <1>3, <2>1, <2>2, Zenon DEF SameBut
  <2> QED
    BY <2>4, <2>5, Zenon
<1> HIDE DEF next, more
<1>26. Half(G, u, k, idx + 5, Tail(s), next, more)
  BY <1>1, <1>4, <1>16, <1>23, <1>24, <1>25, Zenon DEF Half, V, M
<1> QED
  BY <1>26, Zenon DEF next, c
-----------------------------------------------------------------------------
(* When every function is done, each performs what it was compiled to *)
LEMMA AllDone ==
  ASSUME NEW G, NEW K, Compiled(G, K), NEW I, Kept(G, I), NEW D,
         \A f \in DOMAIN G : G[f].op = "Function" => Done(G, I, D, f),
         NEW k \in DOMAIN G, G[k].op = "Function"
  PROVE  Performed(I, k) = Rewritten(Performed(G, k))
<1> DEFINE W == Want(G, I)
<1>1. /\ HeapOK(I) /\ I \in Seq(Instruction) /\ DOMAIN G \subseteq DOMAIN I
      /\ \A p \in DOMAIN G : I[p].op = G[p].op
      /\ \A p \in DOMAIN I : I[p].op = "Function" => p \in DOMAIN G
  BY Zenon DEF Kept, HeapOK
<1>2. \A i \in DOMAIN I : I[i].op = "Function" => Done(G, I, D, i)
  BY <1>1, Zenon
<1>3. Solves(W, I)
  <2>1. ASSUME NEW i \in DOMAIN I
        PROVE  W[i] = IF I[i].op = "Function" THEN MapFlat(W, I[i].body) ELSE Alone(I[i])
    <3>1. W[i] = IF I[i].op = "Function" THEN MapFlat(Device, Means(G)[i]) ELSE Alone(I[i])
      BY Zenon DEF Want
    <3>2. I[i].op = "Function" => MapFlat(W, I[i].body) = MapFlat(Device, Means(G)[i])
      BY <1>2, Zenon DEF Done
    <3> QED
      BY <3>1, <3>2, Zenon
  <2>2. W \in [DOMAIN I -> Seq(Acts)]
    BY WantFacts, Zenon
  <2> HIDE DEF W
  <2> DEFINE V == [i \in DOMAIN I |-> IF I[i].op = "Function" THEN MapFlat(W, I[i].body)
                                      ELSE Alone(I[i])]
  <2>3. W = V
    BY <2>1, <2>2, Zenon
  <2> QED
    BY <2>3, Zenon DEF Solves
<1>4. Ranked(I)
  BY <1>1, <1>2, Zenon DEF Ranked, HeapOK, WellFormed, Done
<1> HIDE DEF W
<1>5. \A h : Solves(h, I) => h = W
  BY <1>1, <1>3, <1>4, OneSolution, Zenon
<1>6. Performed(I, k) = W[k]
  BY <1>3, <1>5, PerformedSolved, Zenon
<1>7. W[k] = MapFlat(Device, Means(G)[k])
  BY <1>1, Zenon DEF W, Want
<1>8. Means(G)[k] \in Seq(Acts)
  BY Zenon DEF Compiled
<1>9. Performed(G, k) = Means(G)[k]
  BY Zenon DEF Means
<1> QED
  BY <1>6, <1>7, <1>8, <1>9, RewrittenFlat, Zenon

-----------------------------------------------------------------------------
(* The functions of D are done, the others still as they were compiled,    *)
(* but for the one at hand.                                                *)
Settled(G, I, D, k) ==
  /\ Kept(G, I)
  /\ \A f \in D : f \in DOMAIN G /\ G[f].op = "Function" /\ Done(G, I, D, f)
  /\ \A f \in DOMAIN G : G[f].op = "Function" /\ f \notin D /\ f # k => AsCompiled(G, I, f)

Walking(G, I, D, k, idx, s) ==
  IF k \in D THEN Calm(I, D, s) ELSE \E done, pre : Half(G, I, k, idx, s, done, pre)

(* One function more is done *)
LEMMA SettledOne ==
  ASSUME NEW G, NEW K, Compiled(G, K), NEW I, NEW D, NEW k \in DOMAIN G, G[k].op = "Function",
         Settled(G, I, D, k),
         NEW idx, NEW s, NEW done, NEW pre, Half(G, I, k, idx, s, done, pre), Calm(I, D, s)
  PROVE  \E E : D \subseteq E /\ k \in E /\ \A x : Settled(G, I, E, x)
<1> DEFINE E == D \union {k}
<1>1. Kept(G, I)
  BY Zenon DEF Settled
<1>2. Done(G, I, D, k)
  BY <1>1, HalfDone, Zenon
<1>3. \A f \in E : f \in DOMAIN G /\ G[f].op = "Function" /\ Done(G, I, D, f)
  BY <1>2, Zenon DEF Settled
<1>4. D \subseteq E /\ k \in E
  BY Zenon
<1>5. \A f \in DOMAIN G : G[f].op = "Function" /\ f \notin E => AsCompiled(G, I, f)
  BY <1>4, Zenon DEF Settled
<1> HIDE DEF E
<1>6. \A f \in E : Done(G, I, E, f)
  BY <1>3, <1>4, Wider, Zenon
<1>7. \A x : Settled(G, I, E, x)
  BY <1>1, <1>3, <1>5, <1>6, Zenon DEF Settled
<1> QED
  BY <1>4, <1>7, Zenon

AllIn(pointers, D) == \A j \in DOMAIN pointers : pointers[j] \in D
Calling(I, s, D) == \A j \in DOMAIN s : I[s[j]].op = "Function" => s[j] \in D

(* The functions a kernel calls come before it *)
LEMMA CalleesBefore ==
  ASSUME NEW G, NEW K, Compiled(G, K), NEW I, Kept(G, I), NEW k \in DOMAIN G,
         NEW idx, NEW s, NEW done, NEW pre, Half(G, I, k, idx, s, done, pre),
         NEW new \in Seq(Nat), NEW todo \in Seq(Nat), SameConcat(Append(new, k), todo, K, <<>>),
         NEW D, AllIn(new, D)
  PROVE  Calling(I, s, D)
<1> SUFFICES ASSUME NEW j \in DOMAIN s, I[s[j]].op = "Function"
             PROVE  s[j] \in D
  BY Zenon DEF Calling
<1> DEFINE q == s[j]
           m == Len(new) + 1
<1>1. /\ done \in Seq(DOMAIN G) /\ s \in Seq(DOMAIN G) /\ G[k].body = done \o s
  BY Zenon DEF Half
<1>2. q \in DOMAIN G
  BY <1>1, SeqWider, Zenon
<1>3. G[q].op = "Function"
  BY <1>2, Zenon DEF Kept
<1>4. q \in 1..(k - 1)
  <2>1. Places(DOMAIN G, done, s)
    BY <1>1, ConcatPlaces, Zenon
  <2>2. \E i \in DOMAIN (done \o s) : (done \o s)[i] = s[j]
    BY <2>1, Zenon DEF Places
  <2>3. s[j] \in 1..(k - 1)
    BY <1>1, <2>2, Zenon DEF Compiled
  <2> QED
    BY <2>3
<1>5. k \in Nat /\ q \in Nat
  BY <1>2, WantFacts, Zenon
<1>6. K \in Seq(Nat) /\ \A i, l \in DOMAIN K : i < l => K[i] < K[l]
  BY Zenon DEF Compiled
<1>7. PICK l \in DOMAIN K : K[l] = q
  BY <1>2, <1>3, Zenon DEF Compiled
<1>8. Append(new, k) \o todo = K
  <2>1. K \o <<>> = K
    BY <1>6, SMT
  <2> QED
    BY <2>1, Zenon DEF SameConcat
<1> HIDE DEF q
<1>9. /\ m \in DOMAIN K /\ K[m] = k /\ Len(new) \in Nat
      /\ \A i \in DOMAIN new : K[i] = new[i]
      /\ DOMAIN K \subseteq Nat
  <2> DEFINE front == Append(new, k)
  <2>1. /\ front \in Seq(Nat) /\ Len(front) = Len(new) + 1 /\ front[m] = k
        /\ \A i \in 1..Len(new) : front[i] = new[i]
        /\ Len(new) \in Nat /\ DOMAIN new = 1..Len(new)
    BY <1>5, SMT
  <2>a. K = front \o todo
    BY <1>8
  <2> HIDE DEF front
  <2>2. /\ K \in Seq(Nat) /\ Len(K) = Len(front) + Len(todo)
        /\ \A i \in 1..Len(front) : K[i] = front[i]
    <3>1. front \in Seq(Nat) /\ todo \in Seq(Nat)
      BY <2>1, Zenon
    <3> QED
      BY ONLY <3>1, <2>a, ConcatFacts, SMT
  <2>3. Len(todo) \in Nat /\ DOMAIN K = 1..Len(K)
    BY <2>2, SMT
  <2>4. m \in 1..Len(front) /\ m \in 1..Len(K) /\ \A i \in 1..Len(new) : i \in 1..Len(front)
    BY <2>1, <2>2, <2>3, SMT
  <2>5. DOMAIN K \subseteq Nat
    BY <2>3, SMT
  <2> QED
    BY <2>1, <2>2, <2>3, <2>4, <2>5, Zenon
<1>10. l \in DOMAIN new
  <2>1. l \in Nat /\ l \in DOMAIN K
    BY <1>7, <1>9, Zenon
  <2>2. ~(m < l)
    <3> SUFFICES ASSUME m < l PROVE FALSE
      OBVIOUS
    <3>1. k < q
      BY <1>6, <1>7, <1>9, Zenon
    <3> QED
      BY ONLY <1>4, <1>5, <3>1, SMT
  <2>3. m # l
    <3> SUFFICES ASSUME m = l PROVE FALSE
      OBVIOUS
    <3>1. k = q
      BY <1>7, <1>9, Zenon
    <3> QED
      BY ONLY <1>4, <1>5, <3>1, SMT
  <2>4. l >= 1 /\ DOMAIN new = 1..Len(new)
    BY <1>6, <2>1, SMT
  <2> QED
    BY <1>9, <2>1, <2>2, <2>3, <2>4, SMT
<1> QED
  BY <1>7, <1>9, <1>10, Zenon DEF q, AllIn

(* An instruction handed out and its children leave nothing to reverse *)
LEMMA CalmHandOut ==
  ASSUME NEW G, NEW I, NEW D, NEW x, Settled(G, I, D, x), HeapOK(I),
         NEW s \in Seq(Nat), s # <<>>, WellFormed(I, s), Calm(I, D, Tail(s)),
         I[Head(s)].op = "Function" => Head(s) \in D
  PROVE  Calm(I, D, I[Head(s)].body \o Tail(s))
<1> DEFINE p == Head(s)
           b == I[p].body
<1>1. Tail(s) \in Seq(Nat) /\ p \in DOMAIN I
  <2>1. Tail(s) \in Seq(Nat) /\ 1 \in DOMAIN s /\ s[1] = p
    BY SMT
  <2> QED
    BY <2>1, Zenon DEF WellFormed
<1>2. I[p] \in Instruction
  BY <1>1, SMT DEF HeapOK
<1>3. b \in Seq(Nat)
  BY <1>2, InstructionFacts, Zenon
<1>4. Calm(I, D, b)
  <2>1. CASE I[p].op = "Function"
    <3>1. Done(G, I, D, p)
      BY <2>1, Zenon DEF Settled
    <3> QED
      BY <3>1, Zenon DEF Done
  <2>2. CASE I[p].op # "Function"
    <3>1. b = <<>> /\ DOMAIN <<>> = {}
      BY <1>2, <2>2, InstructionFacts, SMT
    <3> QED
      BY <3>1, Zenon DEF Calm
  <2> QED
    BY <2>1, <2>2, Zenon
<1> HIDE DEF b
<1>5. Places(Nat, b, Tail(s))
  BY <1>1, <1>3, ConcatPlaces, Zenon
<1>6. Calm(I, D, b \o Tail(s))
  BY <1>4, <1>5, Zenon DEF Calm, Places
<1> QED
  BY <1>6, Zenon DEF b

LEMMA SettledReversed ==
  ASSUME NEW G, NEW K, Compiled(G, K), NEW I, NEW D, NEW k \in DOMAIN G, k \notin D,
         Settled(G, I, D, k),
         NEW idx, NEW s, NEW done, NEW pre, Half(G, I, k, idx, s, done, pre),
         s # <<>>, NeedsReversal(I[Head(s)]),
         NEW u, WellReversed(I, Head(s), k, idx, u)
  PROVE  Settled(G, u, D, k)
<1> DEFINE c == Head(s)
<1>1. /\ done \in Seq(DOMAIN G) /\ s \in Seq(DOMAIN G) /\ G[k].body = done \o s
  BY Zenon DEF Half
<1>2. Kept(G, I) /\ Kept(G, u)
  BY KeptReversed, Zenon DEF Settled
<1>3. G[c].op # "Function"
  <2>1. c \in DOMAIN G
    BY <1>1, MovedFacts, Zenon DEF MovesHead
  <2>2. I[c].op = "CNOT" /\ "CNOT" # "Function"
    BY SMT DEF NeedsReversal
  <2> QED
    BY <1>2, <2>1, <2>2, Zenon DEF Kept
<1>4. \A f \in DOMAIN G : f # k => \A j \in DOMAIN G[f].body : G[f].body[j] # c
  BY <1>1, <1>3, OnlyPlace, Zenon
<1> HIDE DEF c
<1>5. NeedsReversal(I[c]) /\ WellReversed(I, c, k, idx, u)
  BY Zenon DEF c
<1>6. ASSUME NEW f \in D PROVE f \in DOMAIN G /\ G[f].op = "Function" /\ Done(G, u, D, f)
  <2>1. f \in DOMAIN G /\ G[f].op = "Function" /\ Done(G, I, D, f) /\ f # k
    BY Zenon DEF Settled
  <2> QED
    BY <1>2, <1>5, <2>1, DoneReversed, Zenon
<1>7. ASSUME NEW f \in DOMAIN G, G[f].op = "Function", f \notin D, f # k
      PROVE  AsCompiled(G, u, f)
  <2>1. AsCompiled(G, I, f)
    BY <1>7, Zenon DEF Settled
  <2>2. \A j \in DOMAIN G[f].body : G[f].body[j] # c
    BY <1>4, <1>7, Zenon
  <2> QED
    BY <1>2, <1>5, <1>7, <2>1, <2>2, AsCompiledReversed, Zenon
<1> QED
  BY <1>2, <1>6, <1>7, Zenon DEF Settled
-----------------------------------------------------------------------------
(* The walk over kernel k, as far as the loop has come *)
AtWalk(G, K, I, D, k, idx, s, new, todo) ==
  /\ Compiled(G, K) /\ Settled(G, I, D, k) /\ Walking(G, I, D, k, idx, s)
  /\ k \in DOMAIN G /\ G[k].op = "Function"
  /\ Pointers(I, s)
  /\ new \in Seq(Nat) /\ todo \in Seq(Nat) /\ Append(new, k) \o todo = K
  /\ AllIn(new, D)

LEMMA WalkFacts ==
  ASSUME NEW G, NEW K, NEW I, NEW D, NEW k, NEW idx, NEW s, NEW new, NEW todo,
         AtWalk(G, K, I, D, k, idx, s, new, todo), s # <<>>
  PROVE  /\ Compiled(G, K) /\ Settled(G, I, D, k) /\ Kept(G, I) /\ HeapOK(I)
         /\ k \in DOMAIN G /\ StraightBody(G, k)
         /\ s \in Seq(Nat) /\ WellFormed(I, s) /\ I[Head(s)] \in Instruction
         /\ \A E : Calm(I, E, s) => /\ Calm(I, E, Tail(s)) /\ ~NeedsReversal(I[Head(s)])
                                    /\ I[Head(s)].op = "Function" => Head(s) \in E
<1>1. /\ Compiled(G, K) /\ Settled(G, I, D, k) /\ Kept(G, I) /\ HeapOK(I)
      /\ k \in DOMAIN G /\ G[k].op = "Function" /\ s \in Seq(Nat) /\ WellFormed(I, s)
  BY Zenon DEF AtWalk, Settled, Kept, Pointers
<1>2. StraightBody(G, k)
  BY <1>1, Zenon DEF Compiled
<1>3. /\ 1 \in DOMAIN s /\ s[1] = Head(s)
      /\ \A j \in DOMAIN Tail(s) : j + 1 \in DOMAIN s /\ Tail(s)[j] = s[j + 1]
  BY <1>1, SMT
<1>4. I[Head(s)] \in Instruction
  <2>1. Head(s) \in DOMAIN I
    BY <1>1, <1>3, Zenon DEF WellFormed
  <2> QED
    BY <1>1, <2>1, SMT DEF HeapOK
<1>5. ASSUME NEW E, Calm(I, E, s)
      PROVE  /\ Calm(I, E, Tail(s)) /\ ~NeedsReversal(I[Head(s)])
             /\ I[Head(s)].op = "Function" => Head(s) \in E
  BY <1>3, <1>5, Zenon DEF Calm
<1> QED
  BY <1>1, <1>2, <1>4, <1>5, Zenon

LEMMA NothingPushed ==
  ASSUME NEW inst \in Instruction, inst.op # "Function", NEW s \in Seq(Nat), s # <<>>
  PROVE  inst.body \o Tail(s) = Tail(s)
<1>1. inst.body = <<>>
  BY InstructionFacts, Zenon
<1>2. <<>> \o Tail(s) = Tail(s)
  BY SMT
<1> QED
  BY <1>1, <1>2, Zenon

LEMMA WalkOver ==
  ASSUME NEW G, NEW K, NEW I, NEW D, NEW k, NEW idx, NEW s, NEW new, NEW todo,
         AtWalk(G, K, I, D, k, idx, s, new, todo), s # <<>>, ~Visited(I[Head(s)])
  PROVE  \E E : D \subseteq E /\ Settled(G, I, E, k)
                /\ Walking(G, I, E, k, idx, I[Head(s)].body \o Tail(s))
<1>1. /\ Compiled(G, K) /\ Settled(G, I, D, k) /\ Kept(G, I) /\ HeapOK(I)
      /\ k \in DOMAIN G /\ StraightBody(G, k)
      /\ s \in Seq(Nat) /\ WellFormed(I, s)
      /\ \A E : Calm(I, E, s) => /\ Calm(I, E, Tail(s))
                                 /\ I[Head(s)].op = "Function" => Head(s) \in E
  BY WalkFacts, Zenon
<1>2. PICK E : D \subseteq E /\ k \in E /\ Settled(G, I, E, k) /\ Calm(I, E, s)
  <2>1. CASE k \in D
    <3>1. Calm(I, D, s)
      BY <2>1, Zenon DEF AtWalk, Walking
    <3> QED
      BY <1>1, <2>1, <3>1, Zenon
  <2>2. CASE k \notin D
    <3>1. PICK done, pre : Half(G, I, k, idx, s, done, pre)
      BY <2>2, Zenon DEF AtWalk, Walking
    <3>2. \A j \in DOMAIN s : ~NeedsReversal(I[s[j]])
      BY <1>1, <3>1, HalfPassed, Zenon
    <3>3. /\ new \in Seq(Nat) /\ todo \in Seq(Nat) /\ AllIn(new, D)
          /\ G[k].op = "Function" /\ Append(new, k) \o todo = K
      BY Zenon DEF AtWalk
    <3>4. SameConcat(Append(new, k), todo, K, <<>>)
      <4>1. K \in Seq(Nat)
        BY <1>1, Zenon DEF Compiled
      <4>2. K \o <<>> = K
        BY <4>1, SMT
      <4> QED
        BY <3>3, <4>2, Zenon DEF SameConcat
    <3>5. Calling(I, s, D)
      BY <1>1, <3>1, <3>3, <3>4, CalleesBefore, Zenon
    <3>6. Calm(I, D, s)
      BY <3>2, <3>5, Zenon DEF Calm, Calling
    <3>7. PICK E : D \subseteq E /\ k \in E /\ \A x : Settled(G, I, E, x)
      BY <1>1, <3>1, <3>3, <3>6, SettledOne, Zenon
    <3>8. Calm(I, E, s)
      BY <3>6, <3>7, Wider, Zenon
    <3> QED
      BY <3>7, <3>8, Zenon
  <2> QED
    BY <2>1, <2>2, Zenon
<1>3. Calm(I, E, I[Head(s)].body \o Tail(s))
  BY <1>1, <1>2, CalmHandOut, Zenon
<1> QED
  BY <1>2, <1>3, Zenon DEF Walking

LEMMA WalkKeep ==
  ASSUME NEW G, NEW K, NEW I, NEW D, NEW k, NEW idx, NEW s, NEW new, NEW todo,
         AtWalk(G, K, I, D, k, idx, s, new, todo), s # <<>>,
         Visited(I[Head(s)]), ~Uncoupled(I[Head(s)])
  PROVE  Walking(G, I, D, k, idx + 1, I[Head(s)].body \o Tail(s))
<1>1. /\ Compiled(G, K) /\ Kept(G, I) /\ k \in DOMAIN G
      /\ s \in Seq(Nat) /\ I[Head(s)] \in Instruction
      /\ \A E : Calm(I, E, s) => Calm(I, E, Tail(s))
  BY WalkFacts, Zenon
<1>2. I[Head(s)].body \o Tail(s) = Tail(s)
  BY <1>1, NothingPushed, Zenon DEF Visited
<1>3. CASE k \in D
  <2>1. Calm(I, D, s)
    BY <1>3, Zenon DEF AtWalk, Walking
  <2> QED
    BY <1>1, <1>2, <1>3, <2>1, Zenon DEF Walking
<1>4. CASE k \notin D
  <2>1. PICK done, pre : Half(G, I, k, idx, s, done, pre)
    BY <1>4, Zenon DEF AtWalk, Walking
  <2>2. Half(G, I, k, idx + 1, Tail(s), Append(done, Head(s)), Append(pre, Head(s)))
    BY <1>1, <2>1, HalfKeep, Zenon
  <2> QED
    BY <1>2, <1>4, <2>2, Zenon DEF Walking
<1> QED
  BY <1>3, <1>4, Zenon

LEMMA WalkIndex ==
  ASSUME NEW G, NEW K, NEW I, NEW D, NEW k, NEW idx, NEW s, NEW new, NEW todo,
         AtWalk(G, K, I, D, k, idx, s, new, todo), s # <<>>,
         Visited(I[Head(s)]), Uncoupled(I[Head(s)])
  PROVE  /\ NeedsReversal(I[Head(s)]) /\ k \notin D
         /\ idx < Len(I[k].body)
<1>1. NeedsReversal(I[Head(s)])
  BY Zenon DEF Visited, Uncoupled, isCouplingAvailable, NeedsReversal
<1>2. k \notin D
  <2> SUFFICES ASSUME k \in D PROVE FALSE
    OBVIOUS
  <2>1. Calm(I, D, s)
    BY Zenon DEF AtWalk, Walking
  <2> QED
    BY <1>1, <2>1, WalkFacts, Zenon
<1>3. PICK done, pre : Half(G, I, k, idx, s, done, pre)
  BY <1>2, Zenon DEF AtWalk, Walking
<1>4. /\ s \in Seq(Nat) /\ I[k].body = pre \o s /\ Len(pre) = idx /\ pre \in Seq(Nat)
  <2>1. DOMAIN I \subseteq Nat
    BY WalkFacts, WantFacts, Zenon
  <2>2. pre \in Seq(DOMAIN I) /\ I[k].body = pre \o s /\ Len(pre) = idx
    BY <1>3, Zenon DEF Half
  <2>3. pre \in Seq(Nat)
    BY <2>1, <2>2, SeqWider, Zenon
  <2> QED
    BY <2>2, <2>3, WalkFacts, Zenon
<1>5. Places(Nat, pre, s)
  BY <1>4, ConcatPlaces, Zenon
<1>6. Len(I[k].body) = idx + Len(s) /\ idx \in Nat
  BY <1>4, <1>5, Zenon DEF Places
<1>7. Len(s) \in Nat /\ Len(s) >= 1
  BY <1>4, SMT
<1>8. idx < Len(I[k].body)
  BY ONLY <1>6, <1>7, SMT
<1> QED
  BY <1>1, <1>2, <1>8, Zenon

LEMMA WalkReverse ==
  ASSUME NEW G, NEW K, NEW I, NEW D, NEW k, NEW idx, NEW s, NEW new, NEW todo,
         AtWalk(G, K, I, D, k, idx, s, new, todo), s # <<>>,
         Visited(I[Head(s)]), Uncoupled(I[Head(s)]),
         NEW u, WellReversed(I, Head(s), k, idx, u)
  PROVE  /\ Settled(G, u, D, k)
         /\ Walking(G, u, D, k, idx + 5, I[Head(s)].body \o Tail(s))
<1>1. /\ Compiled(G, K) /\ Kept(G, I) /\ k \in DOMAIN G /\ Settled(G, I, D, k)
      /\ s \in Seq(Nat) /\ I[Head(s)] \in Instruction
  BY WalkFacts, Zenon
<1>2. I[Head(s)].body \o Tail(s) = Tail(s)
  BY <1>1, NothingPushed, Zenon DEF Visited
<1>3. NeedsReversal(I[Head(s)]) /\ k \notin D
  BY WalkIndex, Zenon
<1>4. PICK done, pre : Half(G, I, k, idx, s, done, pre)
  BY <1>3, Zenon DEF AtWalk, Walking
<1>5. \E more : Half(G, u, k, idx + 5, Tail(s), Append(done, Head(s)), more)
  BY <1>1, <1>3, <1>4, HalfReverse, Zenon
<1>6. Settled(G, u, D, k)
  BY <1>1, <1>3, <1>4, SettledReversed, Zenon
<1> QED
  BY <1>2, <1>3, <1>5, <1>6, Zenon DEF Walking

LEMMA WalkEnd ==
  ASSUME NEW G, NEW K, NEW I, NEW D, NEW k, NEW idx, NEW s, NEW new, NEW todo,
         AtWalk(G, K, I, D, k, idx, s, new, todo), s = <<>>
  PROVE  \E E : D \subseteq E /\ k \in E /\ \A x : Settled(G, I, E, x)
<1>1. /\ Compiled(G, K) /\ Settled(G, I, D, k) /\ k \in DOMAIN G /\ G[k].op = "Function"
  BY Zenon DEF AtWalk
<1>2. CASE k \in D
  <2>1. \A x : Settled(G, I, D, x)
    BY <1>1, <1>2, Zenon DEF Settled
  <2> QED
    BY <1>2, <2>1, Zenon
<1>3. CASE k \notin D
  <2>1. PICK done, pre : Half(G, I, k, idx, s, done, pre)
    BY <1>3, Zenon DEF AtWalk, Walking
  <2>2. Calm(I, D, s)
    <3>1. DOMAIN <<>> = {}
      BY SMT
    <3> QED
      BY <3>1, Zenon DEF Calm
  <2> QED
    BY <1>1, <2>1, <2>2, SettledOne, Zenon
<1> QED
  BY <1>2, <1>3, Zenon

(* A kernel taken is done or as it was compiled *)
LEMMA WalkTaken ==
  ASSUME NEW G, NEW K, Compiled(G, K), NEW I, NEW D, Settled(G, I, D, 0),
         NEW k \in DOMAIN G, G[k].op = "Function"
  PROVE  Settled(G, I, D, k) /\ Walking(G, I, D, k, 0, I[k].body)
<1>0. k # 0 /\ 0 \notin DOMAIN G
  BY SMT DEF Compiled
<1>1. Settled(G, I, D, k)
  BY <1>0, Zenon DEF Settled
<1>2. CASE k \in D
  <2>1. Done(G, I, D, k)
    BY <1>2, Zenon DEF Settled
  <2> QED
    BY <1>1, <1>2, <2>1, Zenon DEF Done, Walking
<1>3. CASE k \notin D
  <2>1. /\ I[k].body = G[k].body
        /\ \A j \in DOMAIN G[k].body : I[G[k].body[j]].enabled = G[G[k].body[j]].enabled
    BY <1>0, <1>3, Zenon DEF Settled, AsCompiled
  <2> DEFINE s == G[k].body
  <2>2. s \in Seq(DOMAIN G)
    <3>1. \A j \in DOMAIN s : s[j] \in 1..(k - 1)
      BY Zenon DEF Compiled
    <3>2. G \in Seq(Instruction) /\ G[k] \in Instruction
      BY SMT DEF Compiled
    <3>3. s \in Seq(Nat)
      BY <3>2, InstructionFacts, Zenon
    <3>4. 1..(k - 1) \subseteq DOMAIN G
      BY <3>2, SMT
    <3> HIDE DEF s
    <3> QED
      BY <3>1, <3>3, <3>4, SMT
  <2> HIDE DEF s
  <2>3. /\ <<>> \in Seq(DOMAIN G) /\ <<>> \in Seq(DOMAIN I) /\ Len(<<>>) = 0 /\ DOMAIN <<>> = {}
        /\ <<>> \o s = s
    BY <2>2, SMT
  <2>4. MapFlat(Want(G, I), <<>>) = MapFlat(Device, MapFlat(Means(G), <<>>))
    <3>1. \A f : MapFlat(f, <<>>) = <<>>
      BY MapFlatEmpty, SMT
    <3> QED
      BY <3>1, SMT
  <2>5. Half(G, I, k, 0, s, <<>>, <<>>)
    BY <2>1, <2>2, <2>3, <2>4, Zenon DEF Half, s
  <2> QED
    BY <1>1, <1>3, <2>1, <2>5, Zenon DEF Walking, s
<1> QED
  BY <1>1, <1>2, <1>3, Zenon
-----------------------------------------------------------------------------
AtHand == IF pc = "walk" THEN kernel ELSE 0

Ordered ==
  /\ pc = "idle" => newir = given.kernels
  /\ pc = "loop" => newir \o ir = given.kernels
  /\ pc = "walk" => Append(newir, kernel) \o ir = given.kernels

(* D are the functions done; the kernels in the new IR are among them *)
Progress(D) ==
  /\ Settled(given.instructions, instructions, D, AtHand)
  /\ pc # "idle" \/ transforms # 0 => AllIn(newir, D)
  /\ pc = "walk" => Walking(given.instructions, instructions, D, kernel,
                            currentKernelInstructionIdx, iterator)

MeansInv ==
  /\ TypeInv
  /\ Rewritable(given) => pc # "failed" /\ Ordered /\ \E D : Progress(D)

LEMMA MeansInvInit == Init => MeansInv
<1> SUFFICES ASSUME Init PROVE MeansInv
  OBVIOUS
<1>1. TypeInv
  BY TypeInvInit, Zenon
<1>2. /\ given \in Program /\ instructions = given.instructions
      /\ newir = given.kernels /\ pc = "idle" /\ transforms = 0
      /\ HeapOK(instructions)
  BY <1>1, Zenon DEF TypeInv, Init
<1>3. "idle" # "failed" /\ "idle" # "loop" /\ "idle" # "walk"
  BY SMT
<1> SUFFICES ASSUME Rewritable(given) PROVE Progress({})
  BY <1>1, <1>2, <1>3, Zenon DEF MeansInv, Ordered
<1>4. Compiled(given.instructions, given.kernels)
  BY <1>2, CompiledGiven, Zenon
<1>5. Kept(given.instructions, instructions)
  BY <1>2, Zenon DEF Kept
<1>6. Settled(given.instructions, instructions, {}, AtHand)
  BY <1>2, <1>5, Zenon DEF Settled, AsCompiled
<1> QED
  BY <1>2, <1>3, <1>6, Zenon DEF Progress

(* What the invariant says of the walk *)
LEMMA AtWalkFacts ==
  ASSUME MeansInv, Rewritable(given), pc = "walk", NEW D, Progress(D)
  PROVE  AtWalk(given.instructions, given.kernels, instructions, D, kernel,
                currentKernelInstructionIdx, iterator, newir, ir)
<1> DEFINE G == given.instructions
<1>1. /\ given \in Program /\ HeapOK(instructions) /\ Pointers(instructions, iterator)
      /\ ir \in Seq(Nat) /\ newir \in Seq(Nat)
      /\ kernel \in DOMAIN instructions /\ instructions[kernel].op = "Function"
  BY Zenon DEF MeansInv, TypeInv, Functions, Pointers
<1>2. Compiled(G, given.kernels)
  BY <1>1, CompiledGiven, Zenon
<1>3. "walk" # "idle"
  BY SMT
<1>4. /\ Settled(G, instructions, D, kernel) /\ AllIn(newir, D)
      /\ Walking(G, instructions, D, kernel, currentKernelInstructionIdx, iterator)
  BY <1>3, Zenon DEF Progress, AtHand
<1>5. Append(newir, kernel) \o ir = given.kernels
  BY Zenon DEF MeansInv, Ordered
<1>6. kernel \in DOMAIN G /\ G[kernel].op = "Function"
  BY <1>1, <1>4, Zenon DEF Settled, Kept
<1> QED
  BY <1>1, <1>2, <1>4, <1>5, <1>6, Zenon DEF AtWalk

LEMMA MeansTake ==
  ASSUME MeansInv, TypeInv', Rewritable(given), TakeKernel, NEW D, Progress(D)
  PROVE  Ordered' /\ Progress(D)'
<1> DEFINE G == given.instructions
<1>1. /\ given \in Program /\ HeapOK(instructions)
      /\ ir \in Seq(Nat) /\ newir \in Seq(Nat) /\ Functions(instructions, ir)
      /\ ir # <<>> /\ pc = "loop"
  BY Zenon DEF MeansInv, TypeInv, Functions, Pointers, TakeKernel
<1>2. /\ given' = given /\ instructions' = instructions /\ transforms' = transforms
      /\ newir' = newir /\ ir' = Tail(ir) /\ pc' = "walk"
      /\ kernel' = Head(ir) /\ iterator' = instructions[Head(ir)].body
      /\ currentKernelInstructionIdx' = 0
  BY Zenon DEF TakeKernel
<1>3. "walk" # "idle" /\ "walk" # "loop" /\ "loop" # "walk" /\ "loop" # "idle"
  BY SMT
<1>4. newir \o ir = given.kernels
  BY <1>1, Zenon DEF MeansInv, Ordered
<1>5. Append(newir, Head(ir)) \o Tail(ir) = given.kernels
  BY <1>1, <1>4, Moved, Zenon DEF SameConcat
<1>6. Ordered'
  BY <1>2, <1>3, <1>5, Zenon DEF Ordered
<1>7. Settled(G, instructions, D, 0) /\ AllIn(newir, D)
  BY <1>1, <1>3, Zenon DEF Progress, AtHand
<1>8. Head(ir) \in DOMAIN G /\ G[Head(ir)].op = "Function"
  <2>1. 1 \in DOMAIN ir /\ ir[1] = Head(ir)
    BY <1>1, SMT
  <2>2. Head(ir) \in DOMAIN instructions /\ instructions[Head(ir)].op = "Function"
    BY <1>1, <2>1, Zenon DEF Functions, Pointers, WellFormed
  <2> QED
    BY <1>7, <2>2, Zenon DEF Settled, Kept
<1>9. Compiled(G, given.kernels)
  BY <1>1, CompiledGiven, Zenon
<1>10. /\ Settled(G, instructions, D, Head(ir))
       /\ Walking(G, instructions, D, Head(ir), 0, instructions[Head(ir)].body)
  BY <1>7, <1>8, <1>9, WalkTaken, Zenon
<1>11. AtHand' = Head(ir)
  BY <1>2, Zenon DEF AtHand
<1>12. Progress(D)'
  BY <1>2, <1>7, <1>10, <1>11, Zenon DEF Progress
<1> QED
  BY <1>6, <1>12, Zenon

LEMMA MeansAdd ==
  ASSUME MeansInv, Rewritable(given), AddKernel, NEW D, Progress(D)
  PROVE  Ordered' /\ \E E : Progress(E)'
<1> DEFINE G == given.instructions
<1>1. /\ given' = given /\ instructions' = instructions /\ transforms' = transforms
      /\ newir' = Append(newir, kernel) /\ ir' = ir /\ pc' = "loop"
      /\ pc = "walk" /\ iterator = <<>>
  BY Zenon DEF AddKernel
<1>2. "loop" # "walk" /\ "loop" # "idle" /\ "walk" # "idle"
  BY SMT
<1>3. AtWalk(G, given.kernels, instructions, D, kernel,
             currentKernelInstructionIdx, iterator, newir, ir)
  BY <1>1, AtWalkFacts, Zenon
<1>4. Ordered'
  BY <1>1, <1>2, <1>3, Zenon DEF Ordered, AtWalk
<1>5. PICK E : D \subseteq E /\ kernel \in E /\ \A x : Settled(G, instructions, E, x)
  BY <1>1, <1>3, WalkEnd, Zenon
<1>6. AllIn(Append(newir, kernel), E)
  <2>1. newir \in Seq(Nat) /\ \A j \in DOMAIN newir : newir[j] \in E
    BY <1>3, <1>5, Zenon DEF AtWalk, AllIn
  <2>2. \A j \in DOMAIN Append(newir, kernel) :
          \/ j \in DOMAIN newir /\ Append(newir, kernel)[j] = newir[j]
          \/ Append(newir, kernel)[j] = kernel
    BY <2>1, SMT
  <2> QED
    BY <1>5, <2>1, <2>2, Zenon DEF AllIn
<1>7. Progress(E)'
  BY <1>1, <1>2, <1>5, <1>6, Zenon DEF Progress
<1> QED
  BY <1>4, <1>7, Zenon

(* What an instruction handed out leaves of the order *)
LEMMA OrderedHandOut ==
  ASSUME MeansInv, Rewritable(given), HandOut, pc' = pc
  PROVE  Ordered'
<1>1. /\ given' = given /\ newir' = newir /\ ir' = ir /\ kernel' = kernel
  BY Zenon DEF HandOut
<1> QED
  BY <1>1, Zenon DEF Ordered, MeansInv

LEMMA MeansHandOut ==
  ASSUME MeansInv, Rewritable(given), PassOver \/ Keep \/ ReverseCNOT, NEW D, Progress(D)
  PROVE  Ordered' /\ \E E : Progress(E)'
<1> DEFINE G == given.instructions
           i == currentKernelInstructionIdx
<1>1. HandOut /\ pc' = pc
  BY Zenon DEF PassOver, Keep, ReverseCNOT
<1>2. /\ given' = given /\ transforms' = transforms /\ newir' = newir /\ ir' = ir
      /\ kernel' = kernel /\ pc = "walk" /\ iterator # <<>>
      /\ iterator' = instructions[Head(iterator)].body \o Tail(iterator)
      /\ pc' = "walk"
  BY <1>1, Zenon DEF HandOut, nextInst
<1>3. AtWalk(G, given.kernels, instructions, D, kernel, i, iterator, newir, ir)
  BY <1>2, AtWalkFacts, Zenon
<1>4. Ordered'
  BY <1>1, OrderedHandOut, Zenon
<1>5. AllIn(newir, D) /\ Settled(G, instructions, D, kernel)
  BY <1>3, Zenon DEF AtWalk
<1>6. AtHand' = kernel
  BY <1>2, Zenon DEF AtHand
<1>7. CASE PassOver
  <2>1. instructions' = instructions /\ currentKernelInstructionIdx' = i
        /\ ~Visited(instructions[Head(iterator)])
    BY <1>7, Zenon DEF PassOver, nextInst
  <2>2. PICK E : /\ D \subseteq E /\ Settled(G, instructions, E, kernel)
                 /\ Walking(G, instructions, E, kernel, i,
                            instructions[Head(iterator)].body \o Tail(iterator))
    BY <1>2, <1>3, <2>1, WalkOver, Zenon
  <2>3. AllIn(newir, E)
    BY <1>5, <2>2, Zenon DEF AllIn
  <2>4. Progress(E)'
    BY <1>2, <1>6, <2>1, <2>2, <2>3, Zenon DEF Progress
  <2> QED
    BY <1>4, <2>4, Zenon
<1>8. CASE Keep
  <2>1. instructions' = instructions /\ currentKernelInstructionIdx' = i + 1
        /\ Visited(instructions[Head(iterator)]) /\ ~Uncoupled(instructions[Head(iterator)])
    BY <1>8, Zenon DEF Keep, nextInst
  <2>2. Walking(G, instructions, D, kernel, i + 1,
                instructions[Head(iterator)].body \o Tail(iterator))
    BY <1>2, <1>3, <2>1, WalkKeep, Zenon
  <2>3. Progress(D)'
    BY <1>2, <1>5, <1>6, <2>1, <2>2, Zenon DEF Progress
  <2> QED
    BY <1>4, <2>3, Zenon
<1>9. CASE ReverseCNOT
  <2>1. currentKernelInstructionIdx' = i + 5
        /\ Visited(instructions[Head(iterator)]) /\ Uncoupled(instructions[Head(iterator)])
    BY <1>9, Zenon DEF ReverseCNOT, nextInst
  <2>2. WellReversed(instructions, Head(iterator), kernel, i, instructions')
    BY <1>9, ReverseHeap, Zenon DEF MeansInv
  <2>3. PICK u : u = instructions'
    BY Zenon
  <2>4. WellReversed(instructions, Head(iterator), kernel, i, u)
    BY <2>2, <2>3, Zenon
  <2>5. /\ Settled(G, u, D, kernel)
        /\ Walking(G, u, D, kernel, i + 5, instructions[Head(iterator)].body \o Tail(iterator))
    BY <1>2, <1>3, <2>1, <2>4, WalkReverse, Zenon
  <2>6. Progress(D)'
    BY <1>2, <1>5, <1>6, <2>1, <2>3, <2>5, Zenon DEF Progress
  <2> QED
    BY <1>4, <2>6, Zenon
<1> QED
  BY <1>7, <1>8, <1>9, Zenon

LEMMA MeansInvNext == MeansInv /\ [Next]_vars => MeansInv'
<1> SUFFICES ASSUME MeansInv, [Next]_vars PROVE MeansInv'
  OBVIOUS
<1>1. TypeInv /\ TypeInv'
  BY TypeInvNext, Zenon DEF MeansInv
<1>2. given' = given
  BY Zenon DEF Next, vars, transform, TakeKernel, AddKernel, Return, PassOver, Keep,
               ReverseCNOT, ReverseOutside, HandOut
<1> SUFFICES ASSUME Rewritable(given)
             PROVE  pc' # "failed" /\ Ordered' /\ \E D : Progress(D)'
  BY <1>1, <1>2, Zenon DEF MeansInv
<1>3. pc # "failed" /\ Ordered
  BY Zenon DEF MeansInv
<1>4. PICK D : Progress(D)
  BY Zenon DEF MeansInv
<1>5. /\ "idle" # "failed" /\ "loop" # "failed" /\ "walk" # "failed" /\ "idle" # "loop"
      /\ "idle" # "walk" /\ "loop" # "walk"
  BY SMT
<1>6. CASE UNCHANGED vars
  <2>1. /\ instructions' = instructions /\ transforms' = transforms
        /\ ir' = ir /\ newir' = newir /\ kernel' = kernel /\ iterator' = iterator
        /\ currentKernelInstructionIdx' = currentKernelInstructionIdx /\ pc' = pc
    BY <1>6, Zenon DEF vars
  <2>2. Ordered'
    BY <1>2, <1>3, <2>1, Zenon DEF Ordered
  <2>3. AtHand' = AtHand
    BY <2>1, Zenon DEF AtHand
  <2>4. Progress(D)'
    BY <1>2, <1>4, <2>1, <2>3, Zenon DEF Progress
  <2> QED
    BY <1>3, <2>1, <2>2, <2>4, Zenon
<1>7. CASE transform
  <2>1. /\ instructions' = instructions /\ ir' = newir /\ newir' = <<>> /\ pc = "idle" /\ pc' = "loop"
    BY <1>7, Zenon DEF transform
  <2>2. <<>> \o newir = given.kernels /\ DOMAIN <<>> = {}
    <3>1. newir \in Seq(Nat) /\ newir = given.kernels
      BY <1>1, <1>3, <2>1, Zenon DEF TypeInv, Functions, Pointers, Ordered
    <3> QED
      BY <3>1, SMT
  <2>3. Ordered'
    BY <1>2, <1>5, <2>1, <2>2, Zenon DEF Ordered
  <2>4. AllIn(<<>>, D)
    BY <2>2, Zenon DEF AllIn
  <2>5. Progress(D)'
    BY <1>2, <1>4, <1>5, <2>1, <2>4, Zenon DEF Progress, AtHand
  <2> QED
    BY <1>5, <2>1, <2>3, <2>5, Zenon
<1>8. CASE TakeKernel
  <2>1. pc' = "walk"
    BY <1>8, Zenon DEF TakeKernel
  <2> QED
    BY <1>1, <1>4, <1>5, <1>8, <2>1, MeansTake, Zenon
<1>9. CASE AddKernel
  <2>1. pc' = "loop"
    BY <1>9, Zenon DEF AddKernel
  <2> QED
    BY <1>4, <1>5, <1>9, <2>1, MeansAdd, Zenon
<1>10. CASE Return
  <2>1. /\ instructions' = instructions /\ transforms' = transforms
        /\ ir = <<>> /\ newir' = newir /\ pc = "loop" /\ pc' = "idle"
    BY <1>10, Zenon DEF Return
  <2>2. newir = given.kernels
    <3>1. newir \in Seq(Nat) /\ newir \o <<>> = given.kernels
      BY <1>1, <1>3, <2>1, Zenon DEF TypeInv, Functions, Pointers, Ordered
    <3>2. newir \o <<>> = newir
      BY <3>1, SMT
    <3> QED
      BY <3>1, <3>2, Zenon
  <2>3. Ordered'
    BY <1>2, <1>5, <2>1, <2>2, Zenon DEF Ordered
  <2>4. AllIn(newir, D)
    BY <1>4, <1>5, <2>1, Zenon DEF Progress
  <2>5. Progress(D)'
    BY <1>2, <1>4, <1>5, <2>1, <2>4, Zenon DEF Progress, AtHand
  <2> QED
    BY <1>5, <2>1, <2>3, <2>5, Zenon
<1>11. CASE PassOver \/ Keep \/ ReverseCNOT
  <2>1. pc' = pc
    BY <1>11, Zenon DEF PassOver, Keep, ReverseCNOT
  <2> QED
    BY <1>3, <1>4, <1>11, <2>1, MeansHandOut, Zenon
<1>12. CASE ReverseOutside
  <2>1. /\ pc = "walk" /\ iterator # <<>>
        /\ Visited(instructions[Head(iterator)]) /\ Uncoupled(instructions[Head(iterator)])
        /\ currentKernelInstructionIdx >= Len(instructions[kernel].body)
    BY <1>12, Zenon DEF ReverseOutside, HandOut, nextInst
  <2>2. AtWalk(given.instructions, given.kernels, instructions, D, kernel,
               currentKernelInstructionIdx, iterator, newir, ir)
    BY <1>4, <2>1, AtWalkFacts, Zenon
  <2>3. currentKernelInstructionIdx < Len(instructions[kernel].body)
    BY <2>1, <2>2, WalkIndex, Zenon
  <2>4. currentKernelInstructionIdx \in Nat /\ Len(instructions[kernel].body) \in Nat
    <3>1. instructions[kernel].body \in Seq(Nat)
      <4>1. kernel \in DOMAIN instructions /\ instructions \in Seq(Instruction)
        BY <1>1, <2>1, Zenon DEF TypeInv, HeapOK
      <4>2. instructions[kernel] \in Instruction
        BY <4>1, SMT
      <4> QED
        BY <4>2, InstructionFacts, Zenon
    <3> QED
      BY <1>1, <3>1, SMT DEF TypeInv
  <2> QED
    BY ONLY <2>1, <2>3, <2>4, SMT
<1> QED
  BY <1>6, <1>7, <1>8, <1>9, <1>10, <1>11, <1>12, Zenon DEF Next

LEMMA MeansInvImplies == MeansInv => TransformedMeansGiven
<1> SUFFICES ASSUME MeansInv, Rewritable(given)
             PROVE  /\ pc # "failed"
                    /\ pc = "idle" /\ transforms > 0 =>
                         /\ newir = given.kernels
                         /\ \A k \in DOMAIN newir :
                              Performed(instructions, newir[k]) =
                                Rewritten(Performed(given.instructions, given.kernels[k]))
  BY Zenon DEF TransformedMeansGiven
<1> DEFINE G == given.instructions
           K == given.kernels
<1>1. pc # "failed"
  BY Zenon DEF MeansInv
<1> SUFFICES ASSUME pc = "idle", transforms > 0
             PROVE  /\ newir = K
                    /\ \A k \in DOMAIN newir :
                         Performed(instructions, newir[k]) = Rewritten(Performed(G, K[k]))
  BY <1>1, Zenon
<1>2. newir = K
  BY Zenon DEF MeansInv, Ordered
<1>3. PICK D : Progress(D)
  BY Zenon DEF MeansInv
<1>4. transforms # 0
  BY SMT
<1>5. Settled(G, instructions, D, AtHand) /\ AllIn(K, D)
  BY <1>2, <1>3, <1>4, Zenon DEF Progress
<1>6. given \in Program
  BY Zenon DEF MeansInv, TypeInv
<1>7. Compiled(G, K)
  BY <1>6, CompiledGiven, Zenon
<1>8. Kept(G, instructions)
  BY <1>5, Zenon DEF Settled
<1>9. \A f \in DOMAIN G : G[f].op = "Function" => Done(G, instructions, D, f)
  <2>1. \A f \in DOMAIN G : G[f].op = "Function" => f \in D
    <3>1. \A f \in DOMAIN G : G[f].op = "Function" => \E k \in DOMAIN K : K[k] = f
      BY <1>7, Zenon DEF Compiled
    <3>2. \A k \in DOMAIN K : K[k] \in D
      BY <1>5, Zenon DEF AllIn
    <3> HIDE DEF G, K
    <3> QED
      BY <3>1, <3>2, Zenon
  <2> QED
    BY <1>5, <2>1, Zenon DEF Settled
<1>10. \A k \in DOMAIN K : K[k] \in DOMAIN G /\ G[K[k]].op = "Function"
  BY <1>7, Zenon DEF Compiled
<1> HIDE DEF G, K
<1>11. ASSUME NEW k \in DOMAIN K
       PROVE  Performed(instructions, K[k]) = Rewritten(Performed(G, K[k]))
  <2>1. K[k] \in DOMAIN G /\ G[K[k]].op = "Function"
    BY <1>10, Zenon
  <2> QED
    BY <1>7, <1>8, <1>9, <2>1, AllDone, Zenon
<1> QED
  BY <1>2, <1>11, Zenon

(* The transformed IR performs the gates of the given one, the CNOTs turned *)
(* round where the device needs it, whatever kernels call each other and    *)
(* however often transform is called.  (transform, :14-61.)                 *)
THEOREM TransformKeepsMeaning == Spec => []TransformedMeansGiven
<1> QED
  BY MeansInvInit, MeansInvNext, MeansInvImplies, PTL DEF Spec
=============================================================================
