--------------------------- MODULE ResultDecoding ---------------------------
(***************************************************************************)
(* How the counts of a finished circuit become the bit strings stored on   *)
(* an AcceleratorBuffer: the body of IBMAccelerator::processResponse, and   *)
(* of the same loop in LocalIBMAccelerator::execute.                        *)
(*                                                                         *)
(* A bit string of length L is a function on 0..L-1 indexed FROM THE RIGHT, *)
(* the index the code itself keeps in `counter`: position 0 is the          *)
(* rightmost character, which the code's comments give to qubit 0.          *)
(***************************************************************************)
EXTENDS Integers, Sequences, FiniteSets, FiniteSetsExt, Functions


Bit == {0, 1}
BitStrings(n) == [0..(n - 1) -> Bit]
Blank == 2
Strings(n) == [0..(n - 1) -> Bit \union {Blank}]
Width(bits) == Cardinality(DOMAIN bits)

(* The measured qubits of a circuit, in program order, as the loop over    *)
(* the instructions pushes them.                                           *)
Ascending(supports) ==
  \A i, j \in DOMAIN supports : i < j => supports[i] < supports[j]

-----------------------------------------------------------------------------
(* What the service reports for an outcome (one bit for every qubit).      *)

(* A simulator returns one bit per classical register, the first declared  *)
(* rightmost; the visitor declares one register per measurement, in        *)
(* program order.                                                          *)
ReportByRegister(outcome, supports) ==
  [c \in 0..(Len(supports) - 1) |-> outcome[supports[c + 1]]]

(* As it comes, there is a blank between two registers.                    *)
Spaced(bits) ==
  [p \in 0..(2 * Width(bits) - 2) |-> IF p % 2 = 0 THEN bits[p \div 2] ELSE Blank]

(* A physical device returns one bit per qubit of the device.              *)
ReportByQubit(outcome, deviceSize) ==
  [q \in 0..(deviceSize - 1) |-> outcome[q]]

-----------------------------------------------------------------------------
(* std::sort(supports.begin(), supports.end()), stated by ranks            *)
Rank(s, j) ==
  Cardinality({i \in DOMAIN s : s[i] < s[j] \/ (s[i] = s[j] /\ i < j)})

Sorted(s) ==
  [k \in DOMAIN s |-> s[CHOOSE j \in DOMAIN s : Rank(s, j) = k - 1]]

\* Variant: the reported bits are moved to the low qubits.
PadOnly(bits, supports, n) ==
  [q \in 0..(n - 1) |-> IF q \in DOMAIN bits THEN bits[q] ELSE 0]

(* The loop that writes reported bit `counter` to the place of the         *)
(* counter-th sorted support in a string of '0's; a later write to the     *)
(* same place wins.                                                        *)
Scatter(bits, supports, n) ==
  LET writers(q) == {c \in DOMAIN bits : Sorted(supports)[c + 1] = q}
  IN  [q \in 0..(n - 1) |-> IF writers(q) = {} THEN 0
                                               ELSE bits[Max(writers(q))]]

(* Batch results of a simulator: scattered only when shorter than the      *)
(* buffer.                                                                 *)
DecodeSimulator(bits, supports, n) ==
  IF Width(bits) < n THEN Scatter(bits, supports, n) ELSE bits

(* Batch results of a device: the n rightmost characters, and '0' wherever *)
(* no measurement was requested.                                           *)
DecodeDevice(bits, supports, n) ==
  LET kept == IF n < Width(bits) THEN Restrict(bits, 0..(n - 1)) ELSE bits
  IN  [q \in DOMAIN kept |-> IF q \in Range(supports) THEN kept[q] ELSE 0]

-----------------------------------------------------------------------------
(* What the comments of processResponse promise of the stored string:      *)
(* character q from the right is qubit q, and qubits without a requested   *)
(* measurement are off.                                                    *)
Expected(outcome, supports, n) ==
  [q \in 0..(n - 1) |-> IF q \in Range(supports) THEN outcome[q] ELSE 0]
=============================================================================
