------------------------ MODULE ResultDecodingProofs -------------------------
(***************************************************************************)
(* What the decoding of a report computes, for every width, every outcome  *)
(* and every sequence of measured qubits.                                  *)
(***************************************************************************)
EXTENDS ResultDecoding, FiniteSetTheorems, WellFoundedInduction, TLAPS

(* A non-empty set of naturals below a bound has a greatest element.       *)
LEMMA MaxBelow ==
  ASSUME NEW n \in Nat, NEW W \in SUBSET (0..n), W # {}
  PROVE  Max(W) \in W
<1> DEFINE Above(w) == (w + 1)..n
           T == {Above(w) : w \in W}
<1>1. T \subseteq SUBSET (0..n) /\ T # {}
  <2>1. \A w \in W : Above(w) \subseteq 0..n
    OBVIOUS
  <2> QED
    BY <2>1
<1>2. PICK t \in T : \A y \in T : ~(y \subseteq t /\ y # t)
  <2>1. IsWellFoundedOn(StrictSubsetOrdering(0..n), SUBSET (0..n))
    <3>1. IsFiniteSet(0..n)
      BY FS_Interval
    <3>2. FiniteSubsetsOf(0..n) = SUBSET (0..n)
      BY <3>1, FS_FiniteSubsetsOfFinite
    <3> QED
      BY <3>2, FS_StrictSubsetOrderingWellFounded
  <2>2. PICK t \in T : \A y \in T : <<y, t>> \notin StrictSubsetOrdering(0..n)
    BY <1>1, <2>1, WFMin
  <2> QED
    BY <1>1, <2>2 DEF StrictSubsetOrdering
<1>3. PICK m \in W : t = Above(m)
  BY <1>2
<1>4. ASSUME NEW w \in W, w > m
      PROVE  FALSE
  <2>1. Above(w) \subseteq t /\ w \in t /\ w \notin Above(w)
    BY <1>3, <1>4
  <2> QED
    BY <1>2, <2>1
<1>5. \A w \in W : m >= w
  BY <1>4
<1> QED
  BY <1>5 DEF Max

-----------------------------------------------------------------------------
(* A report of a simulator has a character for every measurement.          *)
LEMMA WidthOfInterval ==
  ASSUME NEW n \in Nat, NEW bits, DOMAIN bits = 0..(n - 1)
  PROVE  Width(bits) = n
<1>1. Cardinality(0..(n - 1)) = n
  BY FS_Interval
<1> QED
  BY <1>1 DEF Width

(* Sorting leaves an ascending sequence as it is.                          *)
LEMMA AscendingIsSorted ==
  ASSUME NEW s \in Seq(Nat), Ascending(s)
  PROVE  Sorted(s) = s
<1>1. ASSUME NEW j \in DOMAIN s
      PROVE  Rank(s, j) = j - 1
  <2>1. {i \in DOMAIN s : s[i] < s[j] \/ (s[i] = s[j] /\ i < j)} = 1..(j - 1)
    <3>1. \A i \in DOMAIN s : i < j => s[i] < s[j]
      BY DEF Ascending
    <3>2. \A i \in DOMAIN s : j < i => s[j] < s[i]
      BY DEF Ascending
    <3>3. \A i \in DOMAIN s : s[i] \in Nat
      OBVIOUS
    <3>4. DOMAIN s = 1..Len(s)
      OBVIOUS
    <3> QED
      BY <3>1, <3>2, <3>3, <3>4
  <2>2. Cardinality(1..(j - 1)) = j - 1
    BY FS_Interval
  <2> QED
    BY <2>1, <2>2 DEF Rank
<1> DEFINE place(k) == CHOOSE j \in DOMAIN s : Rank(s, j) = k - 1
<1>2. \A k \in DOMAIN s : place(k) = k
  BY <1>1
<1>3. Sorted(s) = [k \in DOMAIN s |-> s[place(k)]]
  BY Zenon DEF Sorted
<1>4. s = [k \in DOMAIN s |-> s[k]]
  OBVIOUS
<1> HIDE DEF place
<1> QED
  BY <1>2, <1>3, <1>4

(* The number of integers from a to b.                                     *)
LEMMA IntervalSize ==
  ASSUME NEW a \in Int, NEW b \in Int, a =< b + 1
  PROVE  IsFiniteSet(a..b) /\ Cardinality(a..b) = b - a + 1
<1>1. CASE a > b
  BY <1>1, FS_Interval
<1>2. CASE a =< b
  BY <1>2, FS_Interval
<1> QED
  BY <1>1, <1>2

(* Distinct elements of c..d, one for each integer from a to b.            *)
LEMMA DistinctFit ==
  ASSUME NEW a \in Int, NEW b \in Int, NEW c \in Int, NEW d \in Int,
         a =< b + 1, c =< d + 1, NEW s,
         \A i \in a..b : s[i] \in c..d,
         \A i, j \in a..b : i # j => s[i] # s[j]
  PROVE  b - a =< d - c
<1> DEFINE f == [i \in a..b |-> s[i]]
<1>1. f \in [a..b -> c..d]
  OBVIOUS
<1>2. IsInjective(f)
  BY DEF IsInjective
<1>3. f \in Injection(a..b, c..d)
  BY <1>1, <1>2 DEF Injection
<1>4. IsFiniteSet(c..d) /\ Cardinality(c..d) = d - c + 1
  BY IntervalSize
<1>5. Cardinality(a..b) = b - a + 1
  BY IntervalSize
<1> HIDE DEF f
<1>6. Cardinality(a..b) =< Cardinality(c..d)
  BY <1>3, <1>4, FS_Injection
<1> QED
  BY <1>4, <1>5, <1>6

(* At least k - 1 elements lie below the k-th, and at least l - k above.   *)
LEMMA AscendingFill ==
  ASSUME NEW n \in Nat, NEW l \in Nat, l >= n, NEW s,
         \A k \in 1..l : s[k] \in 0..(n - 1),
         \A i, j \in 1..l : i < j => s[i] < s[j]
  PROVE  l = n /\ \A k \in 1..n : s[k] = k - 1
<1>1. \A i, j \in 1..l : i # j => s[i] # s[j]
  OBVIOUS
<1>2. l = n
  <2>1. l - 1 =< (n - 1) - 0
    <3>1. /\ 1 \in Int /\ l \in Int /\ 0 \in Int /\ n - 1 \in Int
          /\ 1 =< l + 1 /\ 0 =< (n - 1) + 1
      OBVIOUS
    <3> QED
      BY <1>1, <3>1, DistinctFit, Zenon
  <2> QED
    BY <2>1
<1>3. ASSUME NEW k \in 1..n
      PROVE  s[k] = k - 1
  <2>1. PICK m \in 0..(n - 1) : m = s[k]
    BY <1>2
  <2>2. \A i \in 1..(k - 1) : s[i] \in 0..(m - 1)
    BY <1>2, <2>1
  <2>3. (k - 1) - 1 =< (m - 1) - 0
    <3>1. /\ 1 \in Int /\ k - 1 \in Int /\ 0 \in Int /\ m - 1 \in Int
          /\ 1 =< (k - 1) + 1 /\ 0 =< (m - 1) + 1
      OBVIOUS
    <3>2. \A i, j \in 1..(k - 1) : i # j => s[i] # s[j]
      BY <1>1, <1>2
    <3> QED
      BY <2>2, <3>1, <3>2, DistinctFit, Zenon
  <2>4. \A i \in (k + 1)..n : s[i] \in (m + 1)..(n - 1)
    BY <1>2, <2>1
  <2>5. n - (k + 1) =< (n - 1) - (m + 1)
    <3>1. /\ k + 1 \in Int /\ n \in Int /\ m + 1 \in Int /\ n - 1 \in Int
          /\ k + 1 =< n + 1 /\ m + 1 =< (n - 1) + 1
      OBVIOUS
    <3>2. \A i, j \in (k + 1)..n : i # j => s[i] # s[j]
      BY <1>1, <1>2
    <3> QED
      BY <2>4, <3>1, <3>2, DistinctFit, Zenon
  <2>6. m = k - 1
    BY <2>3, <2>5
  <2> QED
    BY <2>1, <2>6
<1> QED
  BY <1>2, <1>3

(* A buffer's worth of ascending qubits is all of them, in order.          *)
LEMMA AscendingFull ==
  ASSUME NEW n \in Nat, NEW s \in Seq(0..(n - 1)), Ascending(s), Len(s) >= n
  PROVE  Len(s) = n /\ \A k \in 1..n : s[k] = k - 1
<1>1. DOMAIN s = 1..Len(s) /\ Len(s) \in Nat
  OBVIOUS
<1>2. \A k \in 1..Len(s) : s[k] \in 0..(n - 1)
  OBVIOUS
<1>3. \A i, j \in 1..Len(s) : i < j => s[i] < s[j]
  BY <1>1, Zenon DEF Ascending
<1> QED
  BY <1>1, <1>2, <1>3, AscendingFill

-----------------------------------------------------------------------------
(* Where a qubit stands among the measured ones.                           *)
IndexOf(s, q) == CHOOSE k \in DOMAIN s : s[k] = q

(* What Scatter does with the bits of an ascending sequence of qubits.     *)
LEMMA ScatterAscending ==
  ASSUME NEW n \in Nat, NEW s \in Seq(0..(n - 1)), Ascending(s), NEW bits,
         DOMAIN bits = 0..(Len(s) - 1)
  PROVE  Scatter(bits, s, n) =
           [q \in 0..(n - 1) |-> IF q \in Range(s) THEN bits[IndexOf(s, q) - 1] ELSE 0]
<1> DEFINE writers(q) == {c \in DOMAIN bits : Sorted(s)[c + 1] = q}
<1>1. Sorted(s) = s
  <2>1. s \in Seq(Nat)
    OBVIOUS
  <2> QED
    BY <2>1, AscendingIsSorted
<1>2. DOMAIN s = 1..Len(s) /\ Len(s) \in Nat
  OBVIOUS
<1>3. \A i, j \in DOMAIN s : s[i] = s[j] => i = j
  <2>1. \A i \in DOMAIN s : s[i] \in 0..(n - 1)
    OBVIOUS
  <2>2. \A i, j \in DOMAIN s : i < j => s[i] < s[j]
    BY Zenon DEF Ascending
  <2> QED
    BY <1>2, <2>1, <2>2
<1>4. ASSUME NEW q \in 0..(n - 1), q \notin Range(s)
      PROVE  writers(q) = {}
  <2>1. \A k \in DOMAIN s : s[k] # q
    BY <1>4 DEF Range
  <2> QED
    BY <1>1, <1>2, <2>1
<1>5. ASSUME NEW q \in 0..(n - 1), q \in Range(s)
      PROVE  writers(q) # {} /\ Max(writers(q)) = IndexOf(s, q) - 1
  <2>1. IndexOf(s, q) \in DOMAIN s /\ s[IndexOf(s, q)] = q
    BY <1>5 DEF Range, IndexOf
  <2>2. PICK k \in 1..Len(s) : k = IndexOf(s, q) /\ s[k] = q
    BY <1>2, <2>1
  <2>3. ASSUME NEW c \in 0..(Len(s) - 1)
        PROVE  s[c + 1] = q <=> c = k - 1
    <3>1. c + 1 \in DOMAIN s /\ k \in DOMAIN s
      BY <1>2
    <3>2. s[c + 1] = s[k] => c + 1 = k
      BY <1>3, <3>1, Zenon
    <3>3. c + 1 = k <=> c = k - 1
      BY <1>2
    <3> QED
      BY <2>2, <3>2, <3>3, Zenon
  <2>4. writers(q) = {k - 1}
    <3>1. writers(q) = {c \in 0..(Len(s) - 1) : s[c + 1] = q}
      BY <1>1, Zenon
    <3>2. k - 1 \in 0..(Len(s) - 1)
      BY <1>2
    <3> HIDE DEF writers
    <3> QED
      BY <2>3, <3>1, <3>2
  <2>5. Max({k - 1}) = k - 1
    BY DEF Max
  <2> QED
    BY <2>2, <2>4, <2>5
<1>6. Scatter(bits, s, n) =
        [q \in 0..(n - 1) |-> IF writers(q) = {} THEN 0 ELSE bits[Max(writers(q))]]
  BY DEF Scatter
<1> HIDE DEF writers
<1> QED
  BY <1>4, <1>5, <1>6

(* A batch circuit that ran on the simulator and measures its qubits in    *)
(* ascending order: the stored string shows every measured qubit at its    *)
(* own place and '0' everywhere else, scattered or not.                    *)
THEOREM SimulatorDecodingFaithful ==
  ASSUME NEW n \in Nat, NEW d \in Nat, n =< d, NEW outcome \in BitStrings(d),
         NEW s \in Seq(0..(n - 1)), Ascending(s)
  PROVE  DecodeSimulator(ReportByRegister(outcome, s), s, n) = Expected(outcome, s, n)
<1> DEFINE bits == ReportByRegister(outcome, s)
<1>1. DOMAIN s = 1..Len(s) /\ Len(s) \in Nat
  OBVIOUS
<1>2. bits = [c \in 0..(Len(s) - 1) |-> outcome[s[c + 1]]]
  BY DEF ReportByRegister
<1> HIDE DEF bits
<1>3. Width(bits) = Len(s)
  BY <1>1, <1>2, WidthOfInterval
<1>4. CASE Len(s) < n
  <2>1. Scatter(bits, s, n) =
          [q \in 0..(n - 1) |-> IF q \in Range(s) THEN bits[IndexOf(s, q) - 1] ELSE 0]
    <3>1. DOMAIN bits = 0..(Len(s) - 1)
      BY <1>2
    <3> QED
      BY <3>1, ScatterAscending
  <2>2. ASSUME NEW q \in Range(s)
        PROVE  bits[IndexOf(s, q) - 1] = outcome[q]
    <3>1. IndexOf(s, q) \in DOMAIN s /\ s[IndexOf(s, q)] = q
      BY <2>2 DEF Range, IndexOf
    <3>2. PICK k \in 1..Len(s) : k = IndexOf(s, q) /\ s[k] = q
      BY <1>1, <3>1
    <3>3. k - 1 \in 0..(Len(s) - 1) /\ (k - 1) + 1 = k
      BY <1>1
    <3>4. bits[k - 1] = outcome[s[(k - 1) + 1]]
      BY <1>2, <3>3, Zenon
    <3> QED
      BY <3>2, <3>3, <3>4
  <2>3. DecodeSimulator(bits, s, n) = Scatter(bits, s, n)
    BY <1>3, <1>4 DEF DecodeSimulator
  <2>4. Scatter(bits, s, n) =
          [q \in 0..(n - 1) |-> IF q \in Range(s) THEN outcome[q] ELSE 0]
    BY <2>1, <2>2
  <2> QED
    BY <2>3, <2>4 DEF Expected, bits
<1>5. CASE Len(s) >= n
  <2>1. Len(s) = n /\ \A k \in 1..n : s[k] = k - 1
    BY <1>5, AscendingFull
  <2>2. DecodeSimulator(bits, s, n) = bits
    BY <1>3, <1>5, <2>1 DEF DecodeSimulator
  <2>3. ASSUME NEW q \in 0..(n - 1)
        PROVE  q \in Range(s) /\ s[q + 1] = q
    <3>1. q + 1 \in 1..n /\ (q + 1) - 1 = q
      OBVIOUS
    <3>2. s[q + 1] = q
      BY <2>1, <3>1
    <3> QED
      BY <1>1, <2>1, <3>1, <3>2 DEF Range
  <2>4. bits = [q \in 0..(n - 1) |-> IF q \in Range(s) THEN outcome[q] ELSE 0]
    BY <1>2, <2>1, <2>3
  <2> QED
    BY <2>2, <2>4 DEF Expected, bits
<1> QED
  BY <1>1, <1>4, <1>5

(* A batch circuit that ran on a device no smaller than the buffer: the    *)
(* same, in whatever order it measures its qubits and however often.       *)
THEOREM DeviceDecodingFaithful ==
  ASSUME NEW n \in Nat, NEW d \in Nat, n =< d, NEW outcome \in BitStrings(d),
         NEW s \in Seq(0..(n - 1))
  PROVE  DecodeDevice(ReportByQubit(outcome, d), s, n) = Expected(outcome, s, n)
<1> DEFINE bits == ReportByQubit(outcome, d)
           kept == IF n < Width(bits) THEN Restrict(bits, 0..(n - 1)) ELSE bits
<1>1. bits = [q \in 0..(d - 1) |-> outcome[q]]
  BY DEF ReportByQubit
<1> HIDE DEF bits
<1>2. Width(bits) = d
  BY <1>1, WidthOfInterval
<1>3. kept = [q \in 0..(n - 1) |-> outcome[q]]
  <2>1. CASE n < d
    <3>1. kept = [q \in 0..(n - 1) |-> bits[q]]
      BY <1>2, <2>1 DEF Restrict
    <3>2. \A q \in 0..(n - 1) : bits[q] = outcome[q]
      BY <1>1, <2>1
    <3> QED
      BY <3>1, <3>2
  <2>2. CASE n = d
    BY <1>1, <1>2, <2>2
  <2> QED
    BY <2>1, <2>2
<1>4. DecodeDevice(bits, s, n) =
        [q \in DOMAIN kept |-> IF q \in Range(s) THEN kept[q] ELSE 0]
  BY DEF DecodeDevice
<1> HIDE DEF kept
<1>5. DecodeDevice(bits, s, n) =
        [q \in 0..(n - 1) |-> IF q \in Range(s) THEN outcome[q] ELSE 0]
  BY <1>3, <1>4
<1> QED
  BY <1>5 DEF Expected, bits

-----------------------------------------------------------------------------
(* Whatever the supports, a decoded string is made of bits and keeps its   *)
(* place for every qubit of the buffer.                                    *)
LEMMA ScatterType ==
  ASSUME NEW n \in Nat, NEW l \in Nat, NEW bits \in BitStrings(l), NEW s
  PROVE  Scatter(bits, s, n) \in BitStrings(n)
<1> DEFINE writers(q) == {c \in DOMAIN bits : Sorted(s)[c + 1] = q}
<1>1. DOMAIN bits = 0..(l - 1) /\ \A c \in 0..(l - 1) : bits[c] \in Bit
  BY DEF BitStrings
<1>2. ASSUME NEW q, writers(q) # {}
      PROVE  bits[Max(writers(q))] \in Bit
  <2>1. writers(q) \in SUBSET (0..l)
    BY <1>1
  <2>2. Max(writers(q)) \in writers(q)
    BY <1>2, <2>1, MaxBelow
  <2> QED
    BY <1>1, <2>2
<1>3. Scatter(bits, s, n) =
        [q \in 0..(n - 1) |-> IF writers(q) = {} THEN 0 ELSE bits[Max(writers(q))]]
  BY DEF Scatter
<1> HIDE DEF writers
<1> QED
  BY <1>2, <1>3 DEF BitStrings, Bit

LEMMA DecodeDeviceType ==
  ASSUME NEW n \in Nat, NEW l \in Nat, n =< l, NEW bits \in BitStrings(l), NEW s
  PROVE  DecodeDevice(bits, s, n) \in BitStrings(n)
<1> DEFINE kept == IF n < Width(bits) THEN Restrict(bits, 0..(n - 1)) ELSE bits
<1>1. DOMAIN bits = 0..(l - 1) /\ \A c \in 0..(l - 1) : bits[c] \in Bit
  BY DEF BitStrings
<1>2. Width(bits) = l
  BY <1>1, WidthOfInterval
<1>3. DOMAIN kept = 0..(n - 1) /\ \A c \in 0..(n - 1) : kept[c] \in Bit
  BY <1>1, <1>2 DEF Restrict
<1>4. DecodeDevice(bits, s, n) =
        [q \in DOMAIN kept |-> IF q \in Range(s) THEN kept[q] ELSE 0]
  BY DEF DecodeDevice
<1> HIDE DEF kept
<1> QED
  BY <1>3, <1>4 DEF BitStrings, Bit

LEMMA ReportType ==
  ASSUME NEW n \in Nat, NEW d \in Nat, n =< d, NEW outcome \in BitStrings(d),
         NEW s \in Seq(0..(n - 1))
  PROVE  /\ ReportByRegister(outcome, s) \in BitStrings(Len(s))
         /\ ReportByQubit(outcome, d) \in BitStrings(d)
<1>1. \A c \in 0..(Len(s) - 1) : s[c + 1] \in 0..(d - 1)
  OBVIOUS
<1> QED
  BY <1>1 DEF ReportByRegister, ReportByQubit, BitStrings

-----------------------------------------------------------------------------
(* Strings with blanks: what a simulator's report is before the blanks are *)
(* erased, and what is made of it when they are not.                       *)
LEMMA BitStringsAreStrings ==
  ASSUME NEW n \in Int
  PROVE  BitStrings(n) \subseteq Strings(n)
BY DEF BitStrings, Strings

LEMMA SpacedType ==
  ASSUME NEW l \in Nat, NEW bits \in BitStrings(l)
  PROVE  Spaced(bits) \in Strings(2 * l - 1)
<1>1. DOMAIN bits = 0..(l - 1) /\ \A c \in 0..(l - 1) : bits[c] \in Bit
  BY DEF BitStrings
<1>2. Width(bits) = l
  BY <1>1, WidthOfInterval
<1>3. Spaced(bits) =
        [p \in 0..(2 * l - 2) |-> IF p % 2 = 0 THEN bits[p \div 2] ELSE Blank]
  BY <1>2 DEF Spaced
<1>4. ASSUME NEW p \in 0..(2 * l - 2)
      PROVE  (IF p % 2 = 0 THEN bits[p \div 2] ELSE Blank) \in Bit \union {Blank}
  <2>1. p \div 2 \in 0..(l - 1)
    OBVIOUS
  <2> QED
    BY <1>1, <2>1
<1>5. (2 * l - 1) - 1 = 2 * l - 2
  OBVIOUS
<1> QED
  BY <1>3, <1>4, <1>5 DEF Strings

(* A string taken for a device's is cut to the buffer or kept whole.       *)
LEMMA DecodeDeviceString ==
  ASSUME NEW n \in Nat, NEW l \in Int, l >= -1, NEW bits \in Strings(l), NEW s
  PROVE  DecodeDevice(bits, s, n) \in Strings(n) \union Strings(l)
<1> DEFINE kept == IF n < Width(bits) THEN Restrict(bits, 0..(n - 1)) ELSE bits
<1>1. DOMAIN bits = 0..(l - 1) /\ \A c \in 0..(l - 1) : bits[c] \in Bit \union {Blank}
  BY DEF Strings
<1>2. n < Width(bits) => n < l
  <2>1. CASE l = -1
    <3>1. DOMAIN bits = 0..(0 - 1)
      BY <1>1, <2>1
    <3>2. Width(bits) = 0
      BY <3>1, WidthOfInterval
    <3> QED
      BY <3>2
  <2>2. CASE l \in Nat
    <3>1. Width(bits) = l
      BY <1>1, <2>2, WidthOfInterval
    <3> QED
      BY <3>1
  <2> QED
    BY <2>1, <2>2
<1>3. PICK m \in {n, l} :
        DOMAIN kept = 0..(m - 1) /\ \A c \in 0..(m - 1) : kept[c] \in Bit \union {Blank}
  BY <1>1, <1>2 DEF Restrict
<1>4. DecodeDevice(bits, s, n) =
        [q \in DOMAIN kept |-> IF q \in Range(s) THEN kept[q] ELSE 0]
  BY DEF DecodeDevice
<1> HIDE DEF kept
<1>5. DecodeDevice(bits, s, n) \in Strings(m)
  BY <1>3, <1>4 DEF Strings, Bit
<1> QED
  BY <1>5

=============================================================================
