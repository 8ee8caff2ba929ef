----------------------------- MODULE FlattenLemmas ---------------------------
(***************************************************************************)
(* FlattenSeq, by which texts and kernels are read: how it grows, and how  *)
(* a function is applied to the elements of a sequence and the results     *)
(* joined.  Induction over a sequence is by a shortest counterexample.     *)
(***************************************************************************)
EXTENDS SequencesExt, SequenceTheorems, WellFoundedInduction, TLAPS

(* FlattenSeq joins by a recursive function, whose existence is proved for *)
(* every sequence first: one that cannot be joined would have a least      *)
(* prefix that cannot.  f joins the sequences of ss from the left.         *)
Joins(f, ss) ==
  f = [i \in 1..Len(ss) |-> IF i = 1 THEN ss[i] ELSE f[i - 1] \o ss[i]]
Joined(ss) == \E f : Joins(f, ss) /\ \A g : Joins(g, ss) => g = f

LEMMA FlattenJoined ==
  ASSUME NEW ss, NEW f, Joins(f, ss), \A g : Joins(g, ss) => g = f
  PROVE  FlattenSeq(ss) = IF Len(ss) = 0 THEN ss ELSE f[Len(ss)]
<1> DEFINE h == CHOOSE h : Joins(h, ss)
<1>1. h = f
  <2>1. Joins(h, ss)
    OBVIOUS
  <2> QED BY <2>1
<1>2. FlattenSeq(ss) = IF Len(ss) = 0 THEN ss ELSE h[Len(ss)]
  BY DEF FlattenSeq, Joins
<1> QED BY <1>1, <1>2

LEMMA EmptyJoined == Joined(<<>>) /\ FlattenSeq(<<>>) = <<>>
<1>1. FlattenSeq(<<>>) = <<>>
  BY DEF FlattenSeq
<1>2. Joined(<<>>)
  <2> DEFINE f == [i \in 1..0 |-> <<>>]
  <2>1. ASSUME NEW g
        PROVE  [i \in 1..0 |-> IF i = 1 THEN <<>>[i] ELSE g[i - 1] \o <<>>[i]] = f
    <3> DEFINE r == [i \in 1..0 |-> IF i = 1 THEN <<>>[i] ELSE g[i - 1] \o <<>>[i]]
    <3>1. \A i \in 1..0 : r[i] = f[i]
      OBVIOUS
    <3> QED BY <3>1
  <2>2. ASSUME NEW g
        PROVE  Joins(g, <<>>) <=> g = f
    <3>1. Len(<<>>) = 0
      OBVIOUS
    <3>2. Joins(g, <<>>) <=>
            g = [i \in 1..0 |-> IF i = 1 THEN <<>>[i] ELSE g[i - 1] \o <<>>[i]]
      BY ONLY <3>1, Zenon DEF Joins
    <3> QED BY <2>1, <3>2
  <2> QED BY <2>2 DEF Joined
<1> QED BY <1>1, <1>2

LEMMA JoinedAppend ==
  ASSUME NEW T, NEW ss \in Seq(Seq(T)), NEW s \in Seq(T), Joined(ss)
  PROVE  /\ Joined(Append(ss, s))
         /\ FlattenSeq(Append(ss, s)) = FlattenSeq(ss) \o s
<1> DEFINE n == Len(ss)
           more == Append(ss, s)
<1>1. PICK f : Joins(f, ss) /\ \A g : Joins(g, ss) => g = f
  BY DEF Joined
<1>2. /\ n \in Nat /\ Len(more) = n + 1 /\ more[n + 1] = s
      /\ \A i \in 1..n : more[i] = ss[i]
  OBVIOUS
<1> HIDE DEF n, more
<1> DEFINE last == IF n = 0 THEN s ELSE f[n] \o s
           h == [i \in 1..(n + 1) |-> IF i = n + 1 THEN last ELSE f[i]]
<1>3. f = [i \in 1..n |-> IF i = 1 THEN ss[i] ELSE f[i - 1] \o ss[i]]
  BY <1>1 DEF Joins, n
<1>4. Joins(h, more)
  <2> DEFINE r == [i \in 1..(n + 1) |-> IF i = 1 THEN more[i] ELSE h[i - 1] \o more[i]]
  <2>1. ASSUME NEW i \in 1..(n + 1)
        PROVE  h[i] = r[i]
    <3>1. CASE i = n + 1
      <4>1. CASE n = 0
        BY <1>2, <3>1, <4>1
      <4>2. CASE n # 0
        <5>1. h[i] = f[n] \o s
          BY <3>1, <4>2
        <5>2. i # 1 /\ i - 1 = n /\ n \in 1..(n + 1) /\ n # n + 1
          BY <1>2, <3>1, <4>2
        <5>3. h[n] = f[n]
          BY <5>2
        <5>4. r[i] = h[i - 1] \o more[i]
          BY <5>2
        <5> QED
          BY <1>2, <3>1, <5>1, <5>2, <5>3, <5>4
      <4> QED BY <4>1, <4>2
    <3>2. CASE i # n + 1
      <4>1. i \in 1..n /\ h[i] = f[i]
        BY <1>2, <3>2
      <4>2. CASE i = 1
        BY <1>2, <1>3, <4>1, <4>2
      <4>3. CASE i # 1
        <5>1. i - 1 \in 1..(n + 1) /\ i - 1 # n + 1
          BY <1>2, <4>1, <4>3
        <5>2. h[i - 1] = f[i - 1]
          BY <5>1
        <5>3. f[i] = f[i - 1] \o ss[i]
          BY <1>3, <4>1, <4>3
        <5>4. r[i] = h[i - 1] \o more[i]
          BY <4>3
        <5> QED
          BY <1>2, <4>1, <5>2, <5>3, <5>4
      <4> QED BY <4>2, <4>3
    <3> QED BY <3>1, <3>2
  <2> HIDE DEF last
  <2>2. h = r
    BY <2>1
  <2> QED
    BY <1>2, <2>2 DEF Joins
<1>5. ASSUME NEW g, Joins(g, more)
      PROVE  g = h
  <2> DEFINE k == [i \in 1..n |-> g[i]]
  <2>1. g = [i \in 1..(n + 1) |-> IF i = 1 THEN more[i] ELSE g[i - 1] \o more[i]]
    BY <1>2, <1>5 DEF Joins
  <2>2. ASSUME NEW i \in 1..n
        PROVE  k[i] = IF i = 1 THEN ss[i] ELSE k[i - 1] \o ss[i]
    <3>1. i \in 1..(n + 1) /\ k[i] = g[i] /\ more[i] = ss[i]
      BY <1>2
    <3>2. CASE i = 1
      BY <2>1, <3>1, <3>2
    <3>3. CASE i # 1
      <4>1. i - 1 \in 1..n
        BY <1>2, <3>3
      <4>2. k[i - 1] = g[i - 1]
        BY <4>1
      <4>3. g[i] = g[i - 1] \o more[i]
        BY <2>1, <3>1, <3>3
      <4> QED BY <3>1, <3>3, <4>2, <4>3
    <3> QED BY <3>2, <3>3
  <2>3. Joins(k, ss)
    <3>1. k = [i \in 1..n |-> IF i = 1 THEN ss[i] ELSE k[i - 1] \o ss[i]]
      BY <2>2
    <3> QED BY <3>1 DEF Joins, n
  <2>4. k = f
    BY <1>1, <2>3
  <2>5. ASSUME NEW i \in 1..n
        PROVE  g[i] = f[i]
    BY <2>4
  <2>6. g[n + 1] = last
    <3>1. n + 1 \in 1..(n + 1)
      BY <1>2
    <3>2. CASE n = 0
      BY <1>2, <2>1, <3>1, <3>2
    <3>3. CASE n # 0
      <4>1. n \in 1..n /\ n + 1 # 1 /\ (n + 1) - 1 = n
        BY <1>2, <3>3
      <4>2. g[n + 1] = g[n] \o more[n + 1]
        BY <2>1, <3>1, <4>1
      <4> QED BY <1>2, <2>5, <3>3, <4>1, <4>2
    <3> QED BY <3>2, <3>3
  <2> HIDE DEF last, k
  <2>7. ASSUME NEW i \in 1..(n + 1)
        PROVE  g[i] = h[i]
    <3>1. CASE i = n + 1
      BY <2>6, <3>1
    <3>2. CASE i # n + 1
      <4>1. i \in 1..n
        BY <1>2, <3>2
      <4> QED BY <2>5, <3>2, <4>1
    <3> QED BY <3>1, <3>2
  <2>8. g = [i \in 1..(n + 1) |-> g[i]]
    BY <2>1
  <2> QED
    BY <2>7, <2>8
<1> HIDE DEF h
<1>6. Joined(more)
  BY <1>4, <1>5 DEF Joined
<1>7. FlattenSeq(more) = h[n + 1]
  BY <1>2, <1>4, <1>5, FlattenJoined
<1>8. h[n + 1] = FlattenSeq(ss) \o s
  <2>1. h[n + 1] = last
    BY <1>2 DEF h
  <2>2. CASE n = 0
    <3>1. ss = <<>>
      BY <2>2 DEF n
    <3>2. FlattenSeq(ss) = <<>>
      BY <3>1, EmptyJoined
    <3> QED BY <2>1, <2>2, <3>2
  <2>3. CASE n # 0
    <3>1. FlattenSeq(ss) = f[n]
      BY <1>1, <2>3, FlattenJoined DEF n
    <3> QED BY <2>1, <2>3, <3>1
  <2> QED BY <2>2, <2>3
<1> QED BY <1>6, <1>7, <1>8 DEF more

LEMMA LeastOfNaturals ==
  ASSUME NEW S, S \subseteq Nat, S # {}
  PROVE  \E x \in S : \A y \in S : x =< y
<1> DEFINE R == OpToRel(<, Nat)
<1>1. IsWellFoundedOn(R, Nat)
  BY NatLessThanWellFounded, Zenon
<1>2. \A a, b \in Nat : <<a, b>> \in R <=> a < b
  <2>1. \A a, b \in Nat : <<a, b>> \in {p \in Nat \X Nat : p[1] < p[2]} <=> a < b
    <3> SUFFICES ASSUME NEW a \in Nat, NEW b \in Nat
                 PROVE  <<a, b>> \in {p \in Nat \X Nat : p[1] < p[2]} <=> a < b
      OBVIOUS
    <3>1. <<a, b>>[1] = a /\ <<a, b>>[2] = b
      BY ONLY SMT
    <3>2. <<a, b>> \in Nat \X Nat
      BY SMT
    <3> QED
      BY ONLY <3>1, <3>2, Zenon
  <2> QED
    BY <2>1, Zenon DEF OpToRel
<1> HIDE DEF R
<1>3. PICK x \in S : \A y \in S : ~ (<<y, x>> \in R)
  BY <1>1, WFMin, Zenon
<1>4. \A y \in S : ~ (y < x)
  BY <1>2, <1>3, Zenon
<1> QED
  BY <1>4, SMT

LEMMA EveryJoined ==
  ASSUME NEW T, NEW ss \in Seq(Seq(T))
  PROVE  Joined(ss)
<1> DEFINE Bad == {n \in Nat : \E s \in Seq(Seq(T)) : Len(s) = n /\ ~Joined(s)}
<1> SUFFICES ASSUME Bad # {}
             PROVE  FALSE
  <2>1. Len(ss) \in Nat
    OBVIOUS
  <2> QED
    BY <2>1, Zenon
<1>1. PICK n \in Bad : \A m \in Bad : n =< m
  <2>1. Bad \subseteq Nat
    BY Zenon
  <2> HIDE DEF Bad
  <2> QED
    BY <2>1, LeastOfNaturals
<1>2. n \in Nat
  BY <1>1, Zenon
<1>3. PICK s \in Seq(Seq(T)) : Len(s) = n /\ ~Joined(s)
  BY <1>1, Zenon
<1>4. s # <<>>
  BY <1>3, EmptyJoined, Zenon
<1> DEFINE front == SubSeq(s, 1, n - 1)
<1>5. /\ front \in Seq(Seq(T)) /\ Len(front) = n - 1 /\ n - 1 \in Nat
      /\ s[n] \in Seq(T) /\ s = Append(front, s[n])
  BY <1>2, <1>3, <1>4, SMTT(30)
<1>6. n - 1 \notin Bad
  <2> HIDE DEF Bad
  <2> QED
    BY <1>1, <1>2
<1> HIDE DEF front
<1>7. Joined(front)
  BY <1>5, <1>6, Zenon
<1>8. Joined(Append(front, s[n]))
  BY <1>5, <1>7, JoinedAppend
<1> QED
  BY <1>3, <1>5, <1>8, Zenon

LEMMA FlattenAppend ==
  ASSUME NEW T, NEW ss \in Seq(Seq(T)), NEW s \in Seq(T)
  PROVE  FlattenSeq(Append(ss, s)) = FlattenSeq(ss) \o s
BY EveryJoined, JoinedAppend

LEMMA FlattenType ==
  ASSUME NEW T, NEW ss \in Seq(Seq(T))
  PROVE  FlattenSeq(ss) \in Seq(T)
<1> DEFINE Bad == {n \in Nat : \E s \in Seq(Seq(T)) : Len(s) = n /\ FlattenSeq(s) \notin Seq(T)}
<1> SUFFICES ASSUME Bad # {}
             PROVE  FALSE
  <2>1. Len(ss) \in Nat
    OBVIOUS
  <2> QED
    BY <2>1, Zenon
<1>1. PICK n \in Bad : \A m \in Bad : n =< m
  <2>1. Bad \subseteq Nat
    BY Zenon
  <2> HIDE DEF Bad
  <2> QED
    BY <2>1, LeastOfNaturals
<1>2. n \in Nat
  BY <1>1, Zenon
<1>3. PICK s \in Seq(Seq(T)) : Len(s) = n /\ FlattenSeq(s) \notin Seq(T)
  BY <1>1, Zenon
<1>4. s # <<>>
  <2>1. <<>> \in Seq(T)
    OBVIOUS
  <2> QED
    BY <1>3, <2>1, EmptyJoined, Zenon
<1> DEFINE front == SubSeq(s, 1, n - 1)
<1>5. /\ front \in Seq(Seq(T)) /\ Len(front) = n - 1 /\ n - 1 \in Nat
      /\ s[n] \in Seq(T) /\ s = Append(front, s[n])
  BY <1>2, <1>3, <1>4
<1>6. n - 1 \notin Bad
  <2> HIDE DEF Bad
  <2> QED
    BY <1>1, <1>2
<1> HIDE DEF front
<1>7. FlattenSeq(front) \in Seq(T)
  BY <1>5, <1>6, Zenon
<1>8. FlattenSeq(s) = FlattenSeq(front) \o s[n]
  <2>1. FlattenSeq(Append(front, s[n])) = FlattenSeq(front) \o s[n]
    BY <1>5, FlattenAppend
  <2> QED
    BY <1>5, <2>1, Zenon
<1>9. FlattenSeq(front) \o s[n] \in Seq(T)
  <2> DEFINE flat == FlattenSeq(front)
  <2>1. flat \in Seq(T)
    BY <1>7
  <2> HIDE DEF flat
  <2>2. flat \o s[n] \in Seq(T)
    BY <1>5, <2>1
  <2> QED
    BY <2>2 DEF flat
<1> QED
  BY <1>3, <1>8, <1>9, Zenon

-----------------------------------------------------------------------------
Associate(r, s, t) == (r \o s) \o t = r \o (s \o t)

LEMMA Associates ==
  ASSUME NEW T, NEW r \in Seq(T), NEW s \in Seq(T), NEW t \in Seq(T)
  PROVE  Associate(r, s, t)
BY ConcatAssociative DEF Associate

(* The elements of s replaced by sequences, joined *)
MapFlat(f, s) == FlattenSeq([j \in DOMAIN s |-> f[s[j]]])

LEMMA MapFlatEmpty == ASSUME NEW f PROVE MapFlat(f, <<>>) = <<>>
<1>1. [j \in DOMAIN <<>> |-> f[<<>>[j]]] = <<>>
  BY SMT
<1> QED
  BY <1>1, EmptyJoined, Zenon DEF MapFlat

LEMMA MapFlatSame ==
  ASSUME NEW f, NEW g, NEW s, \A j \in DOMAIN s : f[s[j]] = g[s[j]]
  PROVE  MapFlat(f, s) = MapFlat(g, s)
<1>1. [j \in DOMAIN s |-> f[s[j]]] = [j \in DOMAIN s |-> g[s[j]]]
  BY Zenon
<1> QED
  BY <1>1, Zenon DEF MapFlat

Applied(f, s) == [j \in DOMAIN s |-> f[s[j]]]

LEMMA AppliedAppend ==
  ASSUME NEW D, NEW S, NEW f \in [D -> S], NEW s \in Seq(D), NEW p \in D
  PROVE  Applied(f, Append(s, p)) = Append(Applied(f, s), f[p])
<1> DEFINE m == [j \in DOMAIN s |-> f[s[j]]]
<1>1. m \in Seq(S) /\ Len(m) = Len(s) /\ Len(s) \in Nat /\ \A j \in 1..Len(s) : m[j] = f[s[j]]
  BY SMT
<1> DEFINE more == [j \in DOMAIN Append(s, p) |-> f[Append(s, p)[j]]]
           e == f[p]
<1>2. /\ more \in Seq(S) /\ Len(more) = Len(s) + 1 /\ more[Len(s) + 1] = f[p]
      /\ \A j \in 1..Len(s) : more[j] = f[s[j]]
  BY SMT
<1>3. e \in S
  OBVIOUS
<1> HIDE DEF m, more
<1>4. /\ Append(m, e) \in Seq(S) /\ Len(Append(m, e)) = Len(s) + 1
      /\ Append(m, e)[Len(s) + 1] = e
      /\ \A j \in 1..Len(s) : Append(m, e)[j] = m[j]
  <2> HIDE DEF e
  <2> QED
    BY <1>1, <1>3, SMT
<1>5. \A j \in 1..(Len(s) + 1) : j = Len(s) + 1 \/ j \in 1..Len(s)
  BY <1>1, SMT
<1> DEFINE last == Append(m, e)
<1>6. \A j \in 1..Len(more) : more[j] = last[j]
  BY <1>1, <1>2, <1>4, <1>5, Zenon
<1>7. last \in Seq(S) /\ Len(more) = Len(last)
  BY <1>2, <1>4, Zenon
<1> HIDE DEF last
<1>8. more = last
  BY ONLY <1>2, <1>6, <1>7, SeqEqual, SMT
<1> QED
  BY <1>1, <1>3, <1>8, Zenon DEF Applied, last, more, m

LEMMA AppliedType ==
  ASSUME NEW D, NEW S, NEW f \in [D -> S], NEW s \in Seq(D)
  PROVE  Applied(f, s) \in Seq(S)
BY SMT DEF Applied

LEMMA MapFlatType ==
  ASSUME NEW D, NEW T, NEW f \in [D -> Seq(T)], NEW s \in Seq(D)
  PROVE  MapFlat(f, s) \in Seq(T)
<1> DEFINE S == Seq(T)
<1>1. Applied(f, s) \in Seq(S)
  <2>1. f \in [D -> S]
    OBVIOUS
  <2> HIDE DEF S
  <2> QED
    BY <2>1, AppliedType, Zenon
<1> QED
  BY <1>1, FlattenType, Zenon DEF MapFlat, Applied

LEMMA MapFlatAppend ==
  ASSUME NEW D, NEW T, NEW f \in [D -> Seq(T)], NEW s \in Seq(D), NEW p \in D
  PROVE  MapFlat(f, Append(s, p)) = MapFlat(f, s) \o f[p]
<1> DEFINE S == Seq(T)
           m == Applied(f, s)
           e == f[p]
<1>1. m \in Seq(S) /\ e \in S /\ Applied(f, Append(s, p)) = Append(m, e)
  <2>1. f \in [D -> S]
    OBVIOUS
  <2> HIDE DEF S
  <2> QED
    BY <2>1, AppliedType, AppliedAppend, Zenon
<1> HIDE DEF m, e
<1>2. FlattenSeq(Append(m, e)) = FlattenSeq(m) \o e
  BY <1>1, FlattenAppend, Zenon
<1> QED
  BY <1>1, <1>2, Zenon DEF MapFlat, Applied, m, e

Extends(f, s, p) == MapFlat(f, Append(s, p)) = MapFlat(f, s) \o f[p]

LEMMA MapFlatExtends ==
  ASSUME NEW D, NEW T, NEW f \in [D -> Seq(T)], NEW s \in Seq(D), NEW p \in D
  PROVE  Extends(f, s, p)
BY MapFlatAppend, Zenon DEF Extends

LEMMA MapFlatOne ==
  ASSUME NEW D, NEW T, NEW f \in [D -> Seq(T)], NEW p \in D
  PROVE  MapFlat(f, <<p>>) = f[p]
<1>1. <<>> \in Seq(D) /\ Append(<<>>, p) = <<p>>
  BY SMT
<1>2. MapFlat(f, <<p>>) = MapFlat(f, <<>>) \o f[p]
  BY <1>1, MapFlatAppend, Zenon
<1>3. <<>> \o f[p] = f[p]
  <2>1. f[p] \in Seq(T)
    OBVIOUS
  <2> HIDE DEF MapFlat
  <2> QED
    BY <2>1, SMT
<1> QED
  BY <1>2, <1>3, MapFlatEmpty, Zenon

(* A sequence that is not empty is one shorter and its last element *)
LEMMA LastOff ==
  ASSUME NEW D, NEW s \in Seq(D), s # <<>>
  PROVE  \E front \in Seq(D) : \E p \in D :
           /\ s = Append(front, p) /\ Len(front) \in Nat /\ Len(s) = Len(front) + 1
<1>1. PICK n \in Nat : Len(s) = n
  OBVIOUS
<1> DEFINE front == SubSeq(s, 1, n - 1)
<1>2. /\ front \in Seq(D) /\ Len(front) = n - 1 /\ n - 1 \in Nat
      /\ s[n] \in D /\ s = Append(front, s[n])
  BY <1>1, SMTT(30)
<1>3. n = (n - 1) + 1
  OBVIOUS
<1> HIDE DEF front
<1> QED
  BY <1>1, <1>2, <1>3, Zenon

Distributes(f, s, t) == MapFlat(f, s \o t) = MapFlat(f, s) \o MapFlat(f, t)

LEMMA MapFlatConcat ==
  ASSUME NEW D, NEW T, NEW f \in [D -> Seq(T)], NEW s \in Seq(D), NEW t \in Seq(D)
  PROVE  Distributes(f, s, t)
<1> USE DEF Distributes
<1> DEFINE Good(r) == Distributes(f, s, r)
           Bad == {n \in Nat : \E r \in Seq(D) : Len(r) = n /\ ~Good(r)}
<1>1. MapFlat(f, s) \in Seq(T)
  BY MapFlatType, Zenon
<1>2. Good(<<>>)
  <2>1. s \o <<>> = s
    BY SMT
  <2>2. MapFlat(f, s) \o <<>> = MapFlat(f, s)
    BY ONLY <1>1, ConcatEmptySeq, Zenon
  <2> QED
    BY <2>1, <2>2, MapFlatEmpty, Zenon
<1>3. ASSUME NEW r \in Seq(D), NEW p \in D, Good(r)
      PROVE  Good(Append(r, p))
  <2> DEFINE a == MapFlat(f, s)
             b == MapFlat(f, r)
             c == f[p]
  <2>1. a \in Seq(T) /\ b \in Seq(T) /\ c \in Seq(T)
    BY MapFlatType, Zenon
  <2>2. s \o Append(r, p) = Append(s \o r, p) /\ s \o r \in Seq(D)
    BY SMTT(30)
  <2>3. MapFlat(f, Append(s \o r, p)) = MapFlat(f, s \o r) \o c
    BY <2>2, MapFlatAppend, Zenon
  <2>4. MapFlat(f, Append(r, p)) = b \o c
    BY MapFlatAppend, Zenon
  <2>5. MapFlat(f, s \o r) = a \o b
    BY <1>3
  <2> HIDE DEF a, b, c
  <2>6. (a \o b) \o c = a \o (b \o c)
    <3>1. Associate(a, b, c)
      BY ONLY <2>1, Associates, Zenon
    <3> QED
      BY <3>1, Zenon DEF Associate
  <2> QED
    BY <2>2, <2>3, <2>4, <2>5, <2>6, Zenon DEF a
<1> SUFFICES ASSUME Bad # {} PROVE FALSE
  <2>1. Len(t) \in Nat
    OBVIOUS
  <2> QED
    BY <2>1, Zenon
<1>4. PICK n \in Bad : \A m \in Bad : n =< m
  <2>1. Bad \subseteq Nat
    BY Zenon
  <2> HIDE DEF Bad
  <2> QED
    BY <2>1, LeastOfNaturals, Zenon
<1>5. PICK r \in Seq(D) : Len(r) = n /\ ~Good(r)
  BY <1>4, Zenon
<1>6. r # <<>>
  BY <1>2, <1>5, Zenon
<1>7. PICK front \in Seq(D) : \E p \in D :
        r = Append(front, p) /\ Len(front) \in Nat /\ Len(r) = Len(front) + 1
  BY <1>6, LastOff, Zenon
<1> HIDE DEF Good
<1>8. ~Good(front)
  BY <1>3, <1>5, <1>7, Zenon
<1>9. Len(front) \in Bad
  BY <1>7, <1>8, Zenon
<1> HIDE DEF Bad
<1>10. n =< Len(front)
  BY <1>4, <1>9, Zenon
<1> QED
  BY <1>5, <1>7, <1>10, SMT

(* One function after the other *)
Compose(f, g, h, s) == MapFlat(g, MapFlat(f, s)) = MapFlat(h, s)

LEMMA MapFlatCompose ==
  ASSUME NEW D, NEW E, NEW T, NEW f \in [D -> Seq(E)], NEW g \in [E -> Seq(T)],
         NEW h \in [D -> Seq(T)], NEW s \in Seq(D),
         \A j \in DOMAIN s : h[s[j]] = MapFlat(g, f[s[j]])
  PROVE  Compose(f, g, h, s)
<1> USE DEF Compose
<1> DEFINE k == [p \in D |-> MapFlat(g, f[p])]
           Good(r) == MapFlat(g, MapFlat(f, r)) = MapFlat(k, r)
           Bad == {n \in Nat : \E r \in Seq(D) : Len(r) = n /\ ~Good(r)}
<1>0. k \in [D -> Seq(T)]
  <2>1. \A p \in D : MapFlat(g, f[p]) \in Seq(T)
    BY MapFlatType, Zenon
  <2> QED
    BY <2>1, Zenon
<1>a. MapFlat(k, s) = MapFlat(h, s)
  <2>1. \A j \in DOMAIN s : s[j] \in D
    BY SMT
  <2>2. \A j \in DOMAIN s : k[s[j]] = h[s[j]]
    BY <2>1, Zenon
  <2> HIDE DEF k
  <2> QED
    BY <2>2, MapFlatSame, SMT
<1>1. Good(<<>>)
  BY MapFlatEmpty, SMT
<1>2. ASSUME NEW r \in Seq(D), NEW p \in D, Good(r)
      PROVE  Good(Append(r, p))
  <2> DEFINE a == MapFlat(f, r)
  <2>1. a \in Seq(E) /\ f[p] \in Seq(E)
    BY MapFlatType, Zenon
  <2>2. MapFlat(f, Append(r, p)) = a \o f[p]
    BY MapFlatAppend, Zenon
  <2>3. MapFlat(g, a) = MapFlat(k, r)
    BY <1>2
  <2>4. k[p] = MapFlat(g, f[p])
    BY Zenon
  <2> HIDE DEF a, k
  <2> DEFINE b == f[p]
  <2>5. MapFlat(g, a \o b) = MapFlat(g, a) \o MapFlat(g, b)
    <3>1. b \in Seq(E)
      BY <2>1
    <3> HIDE DEF b
    <3>2. Distributes(g, a, b)
      BY <2>1, <3>1, MapFlatConcat, Zenon
    <3> QED
      BY <3>2, Zenon DEF Distributes
  <2>6. MapFlat(k, Append(r, p)) = MapFlat(k, r) \o k[p]
    <3>1. k \in [D -> Seq(T)]
      BY <1>0, Zenon DEF k
    <3> QED
      BY <3>1, MapFlatAppend, Zenon
  <2> QED
    BY <2>2, <2>3, <2>4, <2>5, <2>6, Zenon
<1> SUFFICES ASSUME Bad # {} PROVE FALSE
  <2>1. Len(s) \in Nat
    OBVIOUS
  <2> QED
    BY <1>a, <2>1, Zenon
<1>4. PICK n \in Bad : \A m \in Bad : n =< m
  <2>1. Bad \subseteq Nat
    BY Zenon
  <2> HIDE DEF Bad
  <2> QED
    BY <2>1, LeastOfNaturals, Zenon
<1>5. PICK r \in Seq(D) : Len(r) = n /\ ~Good(r)
  BY <1>4, Zenon
<1>6. r # <<>>
  BY <1>1, <1>5, Zenon
<1>7. PICK front \in Seq(D) : \E p \in D :
        r = Append(front, p) /\ Len(front) \in Nat /\ Len(r) = Len(front) + 1
  BY <1>6, LastOff, Zenon
<1> HIDE DEF Good
<1>8. ~Good(front)
  BY <1>2, <1>5, <1>7, Zenon
<1>9. Len(front) \in Bad
  BY <1>7, <1>8, Zenon
<1> HIDE DEF Bad
<1>10. n =< Len(front)
  BY <1>4, <1>9, Zenon
<1> QED
  BY <1>5, <1>7, <1>10, SMT
=============================================================================
