---------------------------- MODULE WizardProofs ----------------------------
(***************************************************************************)
(* What the two conversions keep, for every form and every text.           *)
(***************************************************************************)
EXTENDS Wizard, FiniteSetTheorems, SequenceTheorems, TLAPS

-----------------------------------------------------------------------------
(* Sequences, whatever their elements are.                                 *)

LEMMA SeqFacts ==
  ASSUME NEW s, IsSeq(s)
  PROVE  /\ Len(s) \in Nat /\ DOMAIN s = 1 .. Len(s)
         /\ s \in Seq({s[i] : i \in DOMAIN s})
<1>1. Len(s) \in Nat /\ DOMAIN s = 1 .. Len(s)
  BY DEF IsSeq
<1>2. s \in [1 .. Len(s) -> {s[i] : i \in DOMAIN s}]
  BY <1>1 DEF IsSeq
<1> QED
  BY <1>1, <1>2, SeqDef

LEMMA SeqIsSeq ==
  ASSUME NEW S, NEW s \in Seq(S)
  PROVE  IsSeq(s)
  BY LenProperties DEF IsSeq

\* A function on 1 .. n is a sequence of length n.
LEMMA TupleIsSeq ==
  ASSUME NEW n \in Nat, NEW f, f = [i \in 1 .. n |-> f[i]]
  PROVE  IsSeq(f) /\ Len(f) = n /\ DOMAIN f = 1 .. n
<1>1. f \in [1 .. n -> {f[i] : i \in 1 .. n}]
  OBVIOUS
<1>2. f \in Seq({f[i] : i \in 1 .. n})
  BY <1>1, SeqDef
<1>3. DOMAIN f = 1 .. n
  OBVIOUS
<1>4. DOMAIN f = 1 .. Len(f) /\ Len(f) \in Nat
  BY <1>2, LenProperties
<1>5. Len(f) = n
  BY <1>3, <1>4
<1> QED
  BY <1>2, <1>3, <1>5, SeqIsSeq

LEMMA SeqsEqual ==
  ASSUME NEW a, NEW b, IsSeq(a), IsSeq(b), Len(a) = Len(b),
         \A i \in 1 .. Len(a) : a[i] = b[i]
  PROVE  a = b
  BY DEF IsSeq

LEMMA Concat ==
  ASSUME NEW a, NEW b, IsSeq(a), IsSeq(b)
  PROVE  /\ IsSeq(a \o b) /\ Len(a \o b) = Len(a) + Len(b)
         /\ \A i \in 1 .. Len(a) : (a \o b)[i] = a[i]
         /\ \A i \in 1 .. Len(b) : (a \o b)[Len(a) + i] = b[i]
<1> DEFINE S == {a[i] : i \in DOMAIN a} \cup {b[i] : i \in DOMAIN b}
<1>1. Len(a) \in Nat /\ Len(b) \in Nat
  BY SeqFacts
<1>2. a \in Seq(S)
  <2>1. a \in Seq({a[i] : i \in DOMAIN a})
    BY SeqFacts
  <2> QED
    BY <2>1, SeqMonotonic
<1>3. b \in Seq(S)
  <2>1. b \in Seq({b[i] : i \in DOMAIN b})
    BY SeqFacts
  <2> QED
    BY <2>1, SeqMonotonic
<1>4. /\ a \o b \in Seq(S)
      /\ Len(a \o b) = Len(a) + Len(b)
      /\ \A i \in 1 .. Len(a) + Len(b) : (a \o b)[i] = IF i <= Len(a) THEN a[i] ELSE b[i - Len(a)]
  BY <1>2, <1>3, ConcatProperties
<1>5. IsSeq(a \o b)
  BY <1>4, SeqIsSeq
<1> QED
  BY <1>1, <1>4, <1>5

-----------------------------------------------------------------------------
(* The greatest of some places, and the places in their order.             *)

LEMMA LastPlace ==
  ASSUME NEW n \in Nat, NEW at \in SUBSET (1 .. n), at # {}
  PROVE  Max(at) \in at /\ \A i \in at : i <= Max(at)
<1> DEFINE T == {n - i : i \in at}
<1>1. T \in SUBSET Nat /\ T # {}
  <2>1. \A i \in at : i \in 1 .. n
    OBVIOUS
  <2>2. \A i \in at : n - i \in Nat
    BY <2>1
  <2>3. T \in SUBSET Nat
    BY <2>2
  <2> QED
    BY <2>3
<1>2. IsWellFoundedOn(OpToRel(<, Nat), Nat)
  BY NatLessThanWellFounded
<1>3. PICK k \in T : \A m \in T : ~ (<<m, k>> \in OpToRel(<, Nat))
  BY <1>1, <1>2, WFMin
<1>4. \A m \in T : ~ (m < k)
  BY <1>1, <1>3 DEF OpToRel
<1>5. PICK x \in at : k = n - x
  BY <1>3
<1>6. \A i \in at : i <= x
  BY <1>4, <1>5
<1>7. \E y \in at : \A i \in at : y >= i
  BY <1>6
<1> QED
  BY <1>7 DEF Max

\* The place that is last is the greatest.
LEMMA LastIs ==
  ASSUME NEW n \in Nat, NEW at \in SUBSET (1 .. n), NEW x \in at, \A i \in at : i <= x
  PROVE  Max(at) = x
<1>1. Max(at) \in at /\ x <= Max(at) /\ Max(at) <= x
  BY LastPlace
<1>2. x \in 1 .. n /\ Max(at) \in 1 .. n
  BY <1>1
<1> QED
  BY <1>1, <1>2

\* How many places there are up to a place is one number for each of them.
LEMMA Ranks ==
  ASSUME NEW m \in Nat, NEW at \in SUBSET (1 .. m)
  PROVE  /\ IsFiniteSet(at) /\ Cardinality(at) \in Nat
         /\ \A i \in at : Cardinality({j \in at : j <= i}) \in 1 .. Cardinality(at)
         /\ \A n \in 1 .. Cardinality(at) : \E i \in at : Cardinality({j \in at : j <= i}) = n
         /\ \A h, i \in at :
              Cardinality({j \in at : j <= h}) = Cardinality({j \in at : j <= i}) => h = i
<1> DEFINE upTo(i) == {j \in at : j <= i}
           rank == [i \in at |-> Cardinality(upTo(i))]
<1>1. IsFiniteSet(1 .. m)
  BY FS_Interval
<1>2. IsFiniteSet(at) /\ Cardinality(at) \in Nat
  BY <1>1, FS_Subset, FS_CardinalityType
<1>3. ASSUME NEW i \in at
      PROVE  IsFiniteSet(upTo(i)) /\ Cardinality(upTo(i)) \in 1 .. Cardinality(at)
  <2>1. upTo(i) \in SUBSET at /\ i \in upTo(i)
    OBVIOUS
  <2>2. IsFiniteSet(upTo(i)) /\ Cardinality(upTo(i)) <= Cardinality(at)
    BY <1>2, <2>1, FS_Subset
  <2>3. Cardinality(upTo(i)) \in Nat /\ Cardinality(upTo(i)) # 0
    BY <2>1, <2>2, FS_EmptySet, FS_CardinalityType
  <2> QED
    BY <1>2, <2>2, <2>3
<1>4. ASSUME NEW i \in at, NEW j \in at, i < j
      PROVE  Cardinality(upTo(i)) < Cardinality(upTo(j))
  <2>1. upTo(i) \in SUBSET upTo(j)
    <3>1. \A k \in at : k \in 1 .. m
      OBVIOUS
    <3>2. \A k \in at : k <= i => k <= j
      BY <1>4, <3>1
    <3> QED
      BY <3>2
  <2>2. j \in upTo(j) /\ j \notin upTo(i)
    BY <1>4
  <2>3. upTo(i) # upTo(j)
    BY <2>2
  <2> QED
    BY <1>3, <2>1, <2>3, FS_Subset, FS_CardinalityType
<1>5. ASSUME NEW i \in at, NEW j \in at, i # j
      PROVE  rank[i] # rank[j]
  <2>1. CASE i < j
    BY <2>1, <1>3, <1>4
  <2>2. CASE j < i
    BY <2>2, <1>3, <1>4
  <2> QED
    BY <2>1, <2>2, <1>5
<1>6. rank \in [at -> 1 .. Cardinality(at)]
  BY <1>3
<1>7. rank \in Injection(at, 1 .. Cardinality(at))
  BY <1>5, <1>6, Zenon DEF Injection, IsInjective
<1>8. IsFiniteSet(1 .. Cardinality(at)) /\ Cardinality(1 .. Cardinality(at)) = Cardinality(at)
  BY <1>2, FS_Interval
<1>9. rank \in Surjection(at, 1 .. Cardinality(at))
  BY <1>7, <1>8, FS_Injection
<1>10. \A n \in 1 .. Cardinality(at) : \E i \in at : rank[i] = n
  BY <1>9 DEF Surjection
<1>11. \A h, i \in at : Cardinality(upTo(h)) = Cardinality(upTo(i)) => h = i
  BY <1>5
<1> QED
  BY <1>2, <1>3, <1>10, <1>11

\* Picking some lines of a text gives a sequence of just these.
LEMMA PickFacts ==
  ASSUME NEW text, IsSeq(text), NEW at \in SUBSET (DOMAIN text)
  PROVE  /\ IsSeq(Pick(text, at))
         /\ \A n \in DOMAIN Pick(text, at) : \E i \in at : Pick(text, at)[n] = text[i]
         /\ \A i \in at : \E n \in DOMAIN Pick(text, at) : Pick(text, at)[n] = text[i]
<1> DEFINE rank(i) == Cardinality({j \in at : j <= i})
           place(n) == CHOOSE i \in at : rank(i) = n
           p == Pick(text, at)
<1>1. Len(text) \in Nat /\ DOMAIN text = 1 .. Len(text)
  BY SeqFacts
<1>2. /\ Cardinality(at) \in Nat
      /\ \A i \in at : rank(i) \in 1 .. Cardinality(at)
      /\ \A n \in 1 .. Cardinality(at) : \E i \in at : rank(i) = n
      /\ \A h, i \in at : rank(h) = rank(i) => h = i
  BY <1>1, Ranks
<1> HIDE DEF rank
<1>3. p = [n \in 1 .. Cardinality(at) |-> text[place(n)]]
  BY DEF Pick, rank
<1>4. \A n \in 1 .. Cardinality(at) : place(n) \in at /\ rank(place(n)) = n
  BY <1>2
<1> HIDE DEF place, p
<1>5. IsSeq(p) /\ DOMAIN p = 1 .. Cardinality(at)
  <2>1. p = [n \in 1 .. Cardinality(at) |-> p[n]]
    BY <1>3
  <2> QED
    BY <2>1, <1>2, TupleIsSeq
<1>6. \A n \in DOMAIN p : \E i \in at : p[n] = text[i]
  BY <1>3, <1>4, <1>5
<1>7. ASSUME NEW i \in at
      PROVE  \E n \in DOMAIN p : p[n] = text[i]
  <2>1. place(rank(i)) = i
    BY <1>2, <1>4
  <2>2. rank(i) \in DOMAIN p /\ p[rank(i)] = text[place(rank(i))]
    BY <1>2, <1>3, <1>5
  <2> QED
    BY <2>1, <2>2
<1> QED
  BY <1>5, <1>6, <1>7 DEF p

\* Lines that stand one after the other are picked as they stand.
LEMMA PickRun ==
  ASSUME NEW text, IsSeq(text), NEW o \in Nat, NEW m \in Nat, o + m <= Len(text)
  PROVE  LET p == Pick(text, o + 1 .. o + m)
         IN  IsSeq(p) /\ Len(p) = m /\ DOMAIN p = 1 .. m /\ \A n \in 1 .. m : p[n] = text[o + n]
<1> DEFINE at == o + 1 .. o + m
           rank(i) == Cardinality({j \in at : j <= i})
           place(n) == CHOOSE i \in at : rank(i) = n
           p == Pick(text, at)
<1>1. Cardinality(at) = m
  BY FS_Interval
<1>2. ASSUME NEW i \in at
      PROVE  rank(i) = i - o
  <2>1. {j \in at : j <= i} = o + 1 .. i
    OBVIOUS
  <2>2. Cardinality(o + 1 .. i) = i - o
    BY FS_Interval
  <2> QED
    BY <2>1, <2>2
<1> HIDE DEF rank
<1>3. p = [n \in 1 .. m |-> text[place(n)]]
  BY <1>1 DEF Pick, rank
<1>4. ASSUME NEW n \in 1 .. m
      PROVE  place(n) = o + n
  <2>1. o + n \in at /\ rank(o + n) = n
    BY <1>2
  <2>2. place(n) \in at /\ rank(place(n)) = n
    BY <2>1
  <2>3. rank(place(n)) = place(n) - o
    BY <1>2, <2>2
  <2>4. place(n) \in Int
    BY <2>2
  <2> QED
    BY <2>2, <2>3, <2>4
<1> HIDE DEF place, p
<1>5. p = [n \in 1 .. m |-> p[n]]
  BY <1>3
<1>6. IsSeq(p) /\ Len(p) = m /\ DOMAIN p = 1 .. m
  BY <1>5, TupleIsSeq
<1>7. \A n \in 1 .. m : p[n] = text[o + n]
  BY <1>3, <1>4
<1> QED
  BY <1>6, <1>7 DEF p

-----------------------------------------------------------------------------
(* The lines of a text: which there are, and which stand together.         *)

Has(text, l) == \E i \in DOMAIN text : text[i] = l

\* The text sets a key of a section nowhere but in some lines that stand together.
Holds(text, sec, key, m) ==
  \E o \in Nat :
    /\ o + Len(m) <= Len(text)
    /\ \A i \in 1 .. Len(m) : text[o + i] = m[i]
    /\ Places(text, sec, key) = o + 1 .. o + Len(m)

Lacks(text, sec, key) == \A l : Has(text, l) => ~ (l.sec = sec /\ l.key = key)

LEMMA HasConcat ==
  ASSUME NEW a, NEW b, IsSeq(a), IsSeq(b), NEW l
  PROVE  Has(a \o b, l) <=> Has(a, l) \/ Has(b, l)
<1> DEFINE c == a \o b
<1>1. /\ IsSeq(c) /\ Len(c) = Len(a) + Len(b)
      /\ \A i \in 1 .. Len(a) : c[i] = a[i]
      /\ \A i \in 1 .. Len(b) : c[Len(a) + i] = b[i]
  BY Concat
<1>2. /\ Len(a) \in Nat /\ DOMAIN a = 1 .. Len(a)
      /\ Len(b) \in Nat /\ DOMAIN b = 1 .. Len(b)
      /\ DOMAIN c = 1 .. Len(c)
  BY <1>1, SeqFacts
<1> HIDE DEF c
<1>3. Has(a, l) => Has(c, l)
  BY <1>1, <1>2 DEF Has
<1>4. Has(b, l) => Has(c, l)
  BY <1>1, <1>2 DEF Has
<1>5. ASSUME NEW i \in DOMAIN c, c[i] = l
      PROVE  Has(a, l) \/ Has(b, l)
  <2>1. CASE i <= Len(a)
    BY <2>1, <1>1, <1>2, <1>5 DEF Has
  <2>2. CASE i > Len(a)
    <3>1. i - Len(a) \in 1 .. Len(b) /\ i = Len(a) + (i - Len(a))
      BY <2>2, <1>1, <1>2
    <3>2. c[Len(a) + (i - Len(a))] = b[i - Len(a)]
      BY <3>1, <1>1
    <3> QED
      BY <3>1, <3>2, <1>2, <1>5 DEF Has
  <2> QED
    BY <2>1, <2>2, <1>1, <1>2
<1> QED
  BY <1>3, <1>4, <1>5 DEF Has, c

LEMMA NoPlaces ==
  ASSUME NEW text, NEW sec, NEW key, Lacks(text, sec, key)
  PROVE  Places(text, sec, key) = {}
  BY DEF Lacks, Has, Places

\* Lines that do not set the key may stand before and behind.
LEMMA HoldsBehind ==
  ASSUME NEW a, NEW b, NEW m, NEW sec, NEW key, IsSeq(a), IsSeq(b), IsSeq(m),
         Lacks(a, sec, key), Holds(b, sec, key, m)
  PROVE  IsSeq(a \o b) /\ Holds(a \o b, sec, key, m)
<1> DEFINE c == a \o b
<1>1. /\ IsSeq(c) /\ Len(c) = Len(a) + Len(b)
      /\ \A i \in 1 .. Len(a) : c[i] = a[i]
      /\ \A i \in 1 .. Len(b) : c[Len(a) + i] = b[i]
  BY Concat
<1>2. /\ Len(a) \in Nat /\ DOMAIN a = 1 .. Len(a)
      /\ Len(b) \in Nat /\ DOMAIN b = 1 .. Len(b)
      /\ DOMAIN c = 1 .. Len(c) /\ Len(m) \in Nat
  BY <1>1, SeqFacts
<1> HIDE DEF c
<1>3. PICK o \in Nat : /\ o + Len(m) <= Len(b)
                       /\ \A i \in 1 .. Len(m) : b[o + i] = m[i]
                       /\ Places(b, sec, key) = o + 1 .. o + Len(m)
  BY DEF Holds
<1>4. Places(a, sec, key) = {}
  BY NoPlaces
<1>5. \A i \in 1 .. Len(a) : i \notin Places(c, sec, key)
  BY <1>1, <1>2, <1>4 DEF Places
<1>6. \A i \in 1 .. Len(b) : Len(a) + i \in Places(c, sec, key) <=> i \in Places(b, sec, key)
  BY <1>1, <1>2 DEF Places
<1>7. Places(c, sec, key) \subseteq 1 .. Len(c)
  BY <1>2 DEF Places
<1>8. ASSUME NEW j \in 1 .. Len(c)
      PROVE  j \in Places(c, sec, key) <=> j \in (Len(a) + o) + 1 .. (Len(a) + o) + Len(m)
  <2>1. CASE j <= Len(a)
    BY <2>1, <1>2, <1>5
  <2>2. CASE j > Len(a)
    <3> DEFINE i == j - Len(a)
    <3>1. i \in 1 .. Len(b) /\ j = Len(a) + i
      BY <2>2, <1>1, <1>2
    <3>2. j \in Places(c, sec, key) <=> i \in o + 1 .. o + Len(m)
      BY <3>1, <1>3, <1>6
    <3> QED
      BY <3>1, <3>2, <1>2
  <2> QED
    BY <2>1, <2>2, <1>1, <1>2
<1>9. (Len(a) + o) + 1 .. (Len(a) + o) + Len(m) \subseteq 1 .. Len(c)
  BY <1>1, <1>2, <1>3
<1>10. Places(c, sec, key) = (Len(a) + o) + 1 .. (Len(a) + o) + Len(m)
  BY <1>7, <1>8, <1>9
<1>11. ASSUME NEW i \in 1 .. Len(m)
       PROVE  c[(Len(a) + o) + i] = m[i]
  <2>1. o + i \in 1 .. Len(b) /\ (Len(a) + o) + i = Len(a) + (o + i)
    BY <1>2, <1>3
  <2> QED
    BY <2>1, <1>1, <1>3
<1>12. Len(a) + o \in Nat /\ (Len(a) + o) + Len(m) <= Len(c)
  BY <1>1, <1>2, <1>3
<1>13. Holds(c, sec, key, m)
  BY <1>10, <1>11, <1>12 DEF Holds
<1> QED
  BY <1>1, <1>13 DEF c

LEMMA HoldsBefore ==
  ASSUME NEW a, NEW b, NEW m, NEW sec, NEW key, IsSeq(a), IsSeq(b), IsSeq(m),
         Holds(a, sec, key, m), Lacks(b, sec, key)
  PROVE  IsSeq(a \o b) /\ Holds(a \o b, sec, key, m)
<1> DEFINE c == a \o b
<1>1. /\ IsSeq(c) /\ Len(c) = Len(a) + Len(b)
      /\ \A i \in 1 .. Len(a) : c[i] = a[i]
      /\ \A i \in 1 .. Len(b) : c[Len(a) + i] = b[i]
  BY Concat
<1>2. /\ Len(a) \in Nat /\ DOMAIN a = 1 .. Len(a)
      /\ Len(b) \in Nat /\ DOMAIN b = 1 .. Len(b)
      /\ DOMAIN c = 1 .. Len(c) /\ Len(m) \in Nat
  BY <1>1, SeqFacts
<1> HIDE DEF c
<1>3. PICK o \in Nat : /\ o + Len(m) <= Len(a)
                       /\ \A i \in 1 .. Len(m) : a[o + i] = m[i]
                       /\ Places(a, sec, key) = o + 1 .. o + Len(m)
  BY DEF Holds
<1>4. Places(b, sec, key) = {}
  BY NoPlaces
<1>5. \A i \in 1 .. Len(a) : i \in Places(c, sec, key) <=> i \in o + 1 .. o + Len(m)
  BY <1>1, <1>2, <1>3 DEF Places
<1>6. \A i \in 1 .. Len(b) : Len(a) + i \notin Places(c, sec, key)
  BY <1>1, <1>2, <1>4 DEF Places
<1>7. ASSUME NEW j \in 1 .. Len(c)
      PROVE  j \in Places(c, sec, key) <=> j \in o + 1 .. o + Len(m)
  <2>1. CASE j <= Len(a)
    BY <2>1, <1>2, <1>5
  <2>2. CASE j > Len(a)
    <3>1. j - Len(a) \in 1 .. Len(b) /\ j = Len(a) + (j - Len(a))
      BY <2>2, <1>1, <1>2
    <3>2. j \notin Places(c, sec, key)
      BY <3>1, <1>6
    <3> QED
      BY <2>2, <3>2, <1>2, <1>3
  <2> QED
    BY <2>1, <2>2, <1>1, <1>2
<1>8. Places(c, sec, key) \subseteq 1 .. Len(c)
  BY <1>2 DEF Places
<1>9. o + 1 .. o + Len(m) \subseteq 1 .. Len(c)
  BY <1>1, <1>2, <1>3
<1>10. Places(c, sec, key) = o + 1 .. o + Len(m)
  BY <1>7, <1>8, <1>9
<1>11. \A i \in 1 .. Len(m) : c[o + i] = m[i]
  BY <1>1, <1>2, <1>3
<1>12. o + Len(m) <= Len(c)
  BY <1>1, <1>2, <1>3
<1>13. Holds(c, sec, key, m)
  BY <1>10, <1>11, <1>12 DEF Holds
<1> QED
  BY <1>1, <1>13 DEF c

\* What is picked are the lines that stand together.
LEMMA HeldLines ==
  ASSUME NEW text, NEW m, NEW sec, NEW key, IsSeq(text), IsSeq(m), Holds(text, sec, key, m)
  PROVE  Pick(text, Places(text, sec, key)) = m
<1>1. Len(m) \in Nat
  BY SeqFacts
<1>2. PICK o \in Nat : /\ o + Len(m) <= Len(text)
                       /\ \A i \in 1 .. Len(m) : text[o + i] = m[i]
                       /\ Places(text, sec, key) = o + 1 .. o + Len(m)
  BY DEF Holds
<1> DEFINE p == Pick(text, o + 1 .. o + Len(m))
<1>3. IsSeq(p) /\ Len(p) = Len(m) /\ \A n \in 1 .. Len(m) : p[n] = text[o + n]
  BY <1>1, <1>2, PickRun
<1> HIDE DEF p
<1>4. p = m
  BY <1>2, <1>3, SeqsEqual
<1> QED
  BY <1>2, <1>4 DEF p

\* The value of a key: that of all its lines, or the default if there is none.
LEMMA ValueIs ==
  ASSUME NEW text, IsSeq(text), NEW sec, NEW key, NEW v, NEW default,
         \E l : Has(text, l) /\ l.sec = sec /\ l.key = key,
         \A l : Has(text, l) /\ l.sec = sec /\ l.key = key => l.val = v
  PROVE  Value(text, sec, key, default) = v /\ Places(text, sec, key) # {}
<1> DEFINE at == Places(text, sec, key)
<1>1. Len(text) \in Nat /\ DOMAIN text = 1 .. Len(text)
  BY SeqFacts
<1>2. at \in SUBSET (1 .. Len(text)) /\ at # {}
  BY <1>1 DEF Has, Places
<1>3. Max(at) \in at
  BY <1>1, <1>2, LastPlace
<1>4. Has(text, text[Max(at)]) /\ text[Max(at)].sec = sec /\ text[Max(at)].key = key
  BY <1>3 DEF Has, Places
<1>5. text[Max(at)].val = v
  BY <1>4
<1> QED
  BY <1>2, <1>5 DEF Value, Assigned

LEMMA ValueDefault ==
  ASSUME NEW text, NEW sec, NEW key, NEW default, Lacks(text, sec, key)
  PROVE  Value(text, sec, key, default) = default
  BY NoPlaces DEF Value, Assigned

\* A key that is left out when its value is the default is read as it was written.
LEMMA ValueUnless ==
  ASSUME NEW text, IsSeq(text), NEW sec, NEW key, NEW v, NEW default,
         \A l : Has(text, l) /\ l.sec = sec /\ l.key = key <=> v # default /\ l = Line(sec, key, v)
  PROVE  Value(text, sec, key, default) = v
<1>1. CASE v = default
  <2>1. Lacks(text, sec, key)
    BY <1>1 DEF Lacks
  <2> QED
    BY <1>1, <2>1, ValueDefault
<1>2. CASE v # default
  <2>1. Has(text, Line(sec, key, v)) /\ Line(sec, key, v).sec = sec /\ Line(sec, key, v).key = key
    BY <1>2
  <2>2. \A l : Has(text, l) /\ l.sec = sec /\ l.key = key => l.val = v
    BY DEF Line
  <2>3. \E l : Has(text, l) /\ l.sec = sec /\ l.key = key
    BY <2>1, Zenon
  <2> QED
    BY <2>2, <2>3, ValueIs
<1> QED
  BY <1>1, <1>2

LEMMA LineFields ==
  ASSUME NEW sec, NEW key, NEW val
  PROVE  /\ Line(sec, key, val).sec = sec /\ Line(sec, key, val).key = key
         /\ Line(sec, key, val).val = val
  BY DEF Line

\* A key that one line sets is read as it was written.
LEMMA ValueOne ==
  ASSUME NEW text, IsSeq(text), NEW sec, NEW key, NEW v, NEW default,
         \A l : Has(text, l) /\ l.sec = sec /\ l.key = key <=> l = Line(sec, key, v)
  PROVE  Value(text, sec, key, default) = v /\ Places(text, sec, key) # {}
<1>1. Has(text, Line(sec, key, v)) /\ Line(sec, key, v).sec = sec /\ Line(sec, key, v).key = key
  OBVIOUS
<1>2. \A l : Has(text, l) /\ l.sec = sec /\ l.key = key => l.val = v
  BY DEF Line
<1>3. \E l : Has(text, l) /\ l.sec = sec /\ l.key = key
  BY <1>1, Zenon
<1> QED
  BY <1>2, <1>3, ValueIs

-----------------------------------------------------------------------------
(* The lines that the form writes, part by part.                           *)

LEMMA NoLines == IsSeq(<<>>) /\ \A l : ~ Has(<<>>, l)
<1>1. IsSeq(<<>>)
  BY EmptySeq, SeqIsSeq
<1> QED
  BY <1>1 DEF Has

LEMMA OneLine ==
  ASSUME NEW k
  PROVE  IsSeq(<<k>>) /\ \A l : Has(<<k>>, l) <=> l = k
<1>1. <<k>> = [i \in 1 .. 1 |-> <<k>>[i]]
  OBVIOUS
<1>2. IsSeq(<<k>>) /\ DOMAIN <<k>> = 1 .. 1
  BY <1>1, TupleIsSeq
<1> QED
  BY <1>2 DEF Has

LEMMA UnlessFacts ==
  ASSUME NEW sec, NEW key, NEW val, NEW empty
  PROVE  /\ IsSeq(Unless(sec, key, val, empty))
         /\ \A l : Has(Unless(sec, key, val, empty), l) <=> val # empty /\ l = Line(sec, key, val)
  BY NoLines, OneLine DEF Unless

LEMMA LinesFacts ==
  ASSUME NEW sec, NEW key, NEW vals, IsSeq(vals)
  PROVE  LET text == Lines(sec, key, vals)
         IN  /\ IsSeq(text) /\ Len(text) = Len(vals) /\ DOMAIN text = DOMAIN vals
             /\ \A i \in DOMAIN vals : text[i] = Line(sec, key, vals[i])
             /\ \A l : Has(text, l) <=> \E i \in DOMAIN vals : l = Line(sec, key, vals[i])
             /\ Holds(text, sec, key, text)
<1> DEFINE text == Lines(sec, key, vals)
<1>1. Len(vals) \in Nat /\ DOMAIN vals = 1 .. Len(vals)
  BY SeqFacts
<1>2. text = [i \in 1 .. Len(vals) |-> Line(sec, key, vals[i])]
  BY <1>1 DEF Lines
<1> HIDE DEF text
<1>3. text = [i \in 1 .. Len(vals) |-> text[i]]
  BY <1>2
<1>4. IsSeq(text) /\ Len(text) = Len(vals) /\ DOMAIN text = 1 .. Len(vals)
  BY <1>1, <1>3, TupleIsSeq
<1>5. \A i \in 1 .. Len(vals) : text[i] = Line(sec, key, vals[i])
  BY <1>2
<1>6. \A l : Has(text, l) <=> \E i \in DOMAIN vals : l = Line(sec, key, vals[i])
  BY <1>1, <1>4, <1>5 DEF Has
<1>7. Places(text, sec, key) = 1 .. Len(vals)
  BY <1>4, <1>5 DEF Places, Line
<1>8. Holds(text, sec, key, text)
  <2>1. Places(text, sec, key) = 0 + 1 .. 0 + Len(text)
    BY <1>1, <1>4, <1>7
  <2>2. 0 + Len(text) <= Len(text) /\ \A i \in 1 .. Len(text) : text[0 + i] = text[i]
    BY <1>1, <1>4
  <2> QED
    BY <2>1, <2>2 DEF Holds
<1> QED
  BY <1>1, <1>4, <1>5, <1>6, <1>8 DEF text

LEMMA Joined ==
  ASSUME NEW a, NEW b, IsSeq(a), IsSeq(b)
  PROVE  IsSeq(a \o b) /\ \A l : Has(a \o b, l) <=> Has(a, l) \/ Has(b, l)
  BY Concat, HasConcat

LEMMA UnitFacts ==
  ASSUME NEW d
  PROVE  /\ IsSeq(UnitText(d))
         /\ \A l : Has(UnitText(d), l) <=>
              \/ l = Line("Unit", "Description", Description(d))
              \/ d.unit.after # <<>> /\ l = Line("Unit", "After", d.unit.after)
              \/ d.unit.requires # <<>> /\ l = Line("Unit", "Requires", d.unit.requires)
              \/ d.unit.wants # <<>> /\ l = Line("Unit", "Wants", d.unit.wants)
<1> DEFINE a == <<Line("Unit", "Description", Description(d))>>
           b == Unless("Unit", "After", d.unit.after, <<>>)
           c == Unless("Unit", "Requires", d.unit.requires, <<>>)
           e == Unless("Unit", "Wants", d.unit.wants, <<>>)
<1>1. IsSeq(a) /\ \A l : Has(a, l) <=> l = Line("Unit", "Description", Description(d))
  BY OneLine
<1>2. IsSeq(b) /\ \A l : Has(b, l) <=> d.unit.after # <<>> /\ l = Line("Unit", "After", d.unit.after)
  BY UnlessFacts
<1>3. IsSeq(c) /\ \A l : Has(c, l) <=>
                    d.unit.requires # <<>> /\ l = Line("Unit", "Requires", d.unit.requires)
  BY UnlessFacts
<1>4. IsSeq(e) /\ \A l : Has(e, l) <=> d.unit.wants # <<>> /\ l = Line("Unit", "Wants", d.unit.wants)
  BY UnlessFacts
<1>5. UnitText(d) = a \o b \o c \o e
  BY DEF UnitText
<1> HIDE DEF a, b, c, e
<1>6. IsSeq(a \o b) /\ \A l : Has(a \o b, l) <=> Has(a, l) \/ Has(b, l)
  BY <1>1, <1>2, Joined
<1>7. IsSeq(a \o b \o c) /\ \A l : Has(a \o b \o c, l) <=> Has(a \o b, l) \/ Has(c, l)
  BY <1>6, <1>3, Joined
<1>8. IsSeq(a \o b \o c \o e) /\ \A l : Has(a \o b \o c \o e, l) <=> Has(a \o b \o c, l) \/ Has(e, l)
  BY <1>7, <1>4, Joined
<1> QED
  BY <1>1, <1>2, <1>3, <1>4, <1>5, <1>6, <1>7, <1>8

LEMMA ImageFacts ==
  ASSUME NEW c
  PROVE  /\ IsSeq(ImageText(c))
         /\ \A l : Has(ImageText(c), l) <=> \/ c.image # "" /\ l = Line("Container", "Image", c.image)
                                            \/ c.exec # "" /\ l = Line("Container", "Exec", c.exec)
<1> DEFINE a == Unless("Container", "Image", c.image, "")
           b == Unless("Container", "Exec", c.exec, "")
<1>1. IsSeq(a) /\ \A l : Has(a, l) <=> c.image # "" /\ l = Line("Container", "Image", c.image)
  BY UnlessFacts
<1>2. IsSeq(b) /\ \A l : Has(b, l) <=> c.exec # "" /\ l = Line("Container", "Exec", c.exec)
  BY UnlessFacts
<1>3. ImageText(c) = a \o b
  BY DEF ImageText
<1> HIDE DEF a, b
<1>4. IsSeq(a \o b) /\ \A l : Has(a \o b, l) <=> Has(a, l) \/ Has(b, l)
  BY <1>1, <1>2, Joined
<1> QED
  BY <1>1, <1>2, <1>3, <1>4

LEMMA AutoUpdateFacts ==
  ASSUME NEW c
  PROVE  /\ IsSeq(AutoUpdateText(c))
         /\ \A l : Has(AutoUpdateText(c), l) <=>
              \/ c.autoUpdate # "" /\ l = Line("Container", "AutoUpdate", c.autoUpdate)
              \/ c.autoUpdate = "registry" /\ l = Line("Container", "Label", AutoUpdateLabel)
<1> DEFINE a == Unless("Container", "AutoUpdate", c.autoUpdate, "")
           b == IF c.autoUpdate = "registry" THEN <<Line("Container", "Label", AutoUpdateLabel)>>
                ELSE <<>>
<1>1. IsSeq(a) /\ \A l : Has(a, l) <=>
                    c.autoUpdate # "" /\ l = Line("Container", "AutoUpdate", c.autoUpdate)
  BY UnlessFacts
<1>2. IsSeq(b) /\ \A l : Has(b, l) <=>
                    c.autoUpdate = "registry" /\ l = Line("Container", "Label", AutoUpdateLabel)
  BY NoLines, OneLine
<1>3. AutoUpdateText(c) = a \o b
  BY DEF AutoUpdateText
<1> HIDE DEF a, b
<1>4. IsSeq(a \o b) /\ \A l : Has(a \o b, l) <=> Has(a, l) \/ Has(b, l)
  BY <1>1, <1>2, Joined
<1> QED
  BY <1>1, <1>2, <1>3, <1>4

LEMMA NetworkFacts ==
  ASSUME NEW c
  PROVE  /\ IsSeq(NetworkText(c))
         /\ \A l : Has(NetworkText(c), l) <=>
              \/ c.user # "" /\ l = Line("Container", "User", c.user)
              \/ c.group # "" /\ l = Line("Container", "Group", c.group)
              \/ c.hostName # "" /\ l = Line("Container", "HostName", c.hostName)
              \/ c.network # "" /\ l = Line("Container", "Network", c.network)
<1> DEFINE a == Unless("Container", "User", c.user, "")
           b == Unless("Container", "Group", c.group, "")
           e == Unless("Container", "HostName", c.hostName, "")
           f == Unless("Container", "Network", c.network, "")
<1>1. IsSeq(a) /\ \A l : Has(a, l) <=> c.user # "" /\ l = Line("Container", "User", c.user)
  BY UnlessFacts
<1>2. IsSeq(b) /\ \A l : Has(b, l) <=> c.group # "" /\ l = Line("Container", "Group", c.group)
  BY UnlessFacts
<1>3. IsSeq(e) /\ \A l : Has(e, l) <=> c.hostName # "" /\ l = Line("Container", "HostName", c.hostName)
  BY UnlessFacts
<1>4. IsSeq(f) /\ \A l : Has(f, l) <=> c.network # "" /\ l = Line("Container", "Network", c.network)
  BY UnlessFacts
<1>5. NetworkText(c) = a \o b \o e \o f
  BY DEF NetworkText
<1> HIDE DEF a, b, e, f
<1>6. IsSeq(a \o b) /\ \A l : Has(a \o b, l) <=> Has(a, l) \/ Has(b, l)
  BY <1>1, <1>2, Joined
<1>7. IsSeq(a \o b \o e) /\ \A l : Has(a \o b \o e, l) <=> Has(a \o b, l) \/ Has(e, l)
  BY <1>6, <1>3, Joined
<1>8. IsSeq(a \o b \o e \o f) /\ \A l : Has(a \o b \o e \o f, l) <=> Has(a \o b \o e, l) \/ Has(f, l)
  BY <1>7, <1>4, Joined
<1> QED
  BY <1>1, <1>2, <1>3, <1>4, <1>5, <1>6, <1>7, <1>8

LEMMA HealthFacts ==
  ASSUME NEW h
  PROVE  /\ IsSeq(HealthText(h))
         /\ \A l : Has(HealthText(h), l) <=>
              /\ h.enabled /\ h.cmd # ""
              /\ \/ l = Line("Container", "HealthCmd", h.cmd)
                 \/ h.interval # "" /\ l = Line("Container", "HealthInterval", h.interval)
                 \/ h.retries # 0 /\ l = Line("Container", "HealthRetries", h.retries)
                 \/ h.startPeriod # "" /\ l = Line("Container", "HealthStartPeriod", h.startPeriod)
                 \/ h.timeout # "" /\ l = Line("Container", "HealthTimeout", h.timeout)
<1>1. CASE ~h.enabled \/ h.cmd = ""
  <2>1. HealthText(h) = <<>>
    BY <1>1 DEF HealthText
  <2> QED
    BY <1>1, <2>1, NoLines
<1>2. CASE ~(~h.enabled \/ h.cmd = "")
  <2> DEFINE a == <<Line("Container", "HealthCmd", h.cmd)>>
             b == Unless("Container", "HealthInterval", h.interval, "")
             c == Unless("Container", "HealthRetries", h.retries, 0)
             e == Unless("Container", "HealthStartPeriod", h.startPeriod, "")
             f == Unless("Container", "HealthTimeout", h.timeout, "")
  <2>1. IsSeq(a) /\ \A l : Has(a, l) <=> l = Line("Container", "HealthCmd", h.cmd)
    BY OneLine
  <2>2. IsSeq(b) /\ \A l : Has(b, l) <=>
                      h.interval # "" /\ l = Line("Container", "HealthInterval", h.interval)
    BY UnlessFacts
  <2>3. IsSeq(c) /\ \A l : Has(c, l) <=>
                      h.retries # 0 /\ l = Line("Container", "HealthRetries", h.retries)
    BY UnlessFacts
  <2>4. IsSeq(e) /\ \A l : Has(e, l) <=>
                      h.startPeriod # "" /\ l = Line("Container", "HealthStartPeriod", h.startPeriod)
    BY UnlessFacts
  <2>5. IsSeq(f) /\ \A l : Has(f, l) <=>
                      h.timeout # "" /\ l = Line("Container", "HealthTimeout", h.timeout)
    BY UnlessFacts
  <2>6. HealthText(h) = a \o b \o c \o e \o f
    BY <1>2 DEF HealthText
  <2> HIDE DEF a, b, c, e, f
  <2>7. IsSeq(a \o b) /\ \A l : Has(a \o b, l) <=> Has(a, l) \/ Has(b, l)
    BY <2>1, <2>2, Joined
  <2>8. IsSeq(a \o b \o c) /\ \A l : Has(a \o b \o c, l) <=> Has(a \o b, l) \/ Has(c, l)
    BY <2>7, <2>3, Joined
  <2>9. /\ IsSeq(a \o b \o c \o e)
        /\ \A l : Has(a \o b \o c \o e, l) <=> Has(a \o b \o c, l) \/ Has(e, l)
    BY <2>8, <2>4, Joined
  <2>10. /\ IsSeq(a \o b \o c \o e \o f)
         /\ \A l : Has(a \o b \o c \o e \o f, l) <=> Has(a \o b \o c \o e, l) \/ Has(f, l)
    BY <2>9, <2>5, Joined
  <2> QED
    BY <1>2, <2>1, <2>2, <2>3, <2>4, <2>5, <2>6, <2>7, <2>8, <2>9, <2>10
<1> QED
  BY <1>1, <1>2

LEMMA PortFacts ==
  ASSUME NEW c, IsSeq(c.ports)
  PROVE  /\ IsSeq(PortText(c)) /\ DOMAIN PortText(c) = DOMAIN c.ports
         /\ \A i \in DOMAIN c.ports :
              PortText(c)[i] = Line("Container", "PublishPort",
                                    [parts |-> <<c.ports[i].hostPort, c.ports[i].containerPort>>,
                                     proto |-> c.ports[i].protocol])
         /\ \A l : Has(PortText(c), l) => l.sec = "Container" /\ l.key = "PublishPort"
         /\ Holds(PortText(c), "Container", "PublishPort", PortText(c))
<1> DEFINE vals == [i \in DOMAIN c.ports |->
                      [parts |-> <<c.ports[i].hostPort, c.ports[i].containerPort>>,
                       proto |-> c.ports[i].protocol]]
<1>1. IsSeq(vals) /\ DOMAIN vals = DOMAIN c.ports
  <2>1. Len(c.ports) \in Nat /\ DOMAIN c.ports = 1 .. Len(c.ports)
    BY SeqFacts
  <2>2. vals = [i \in 1 .. Len(c.ports) |-> vals[i]]
    BY <2>1
  <2> HIDE DEF vals
  <2> QED
    BY <2>1, <2>2, TupleIsSeq
<1>2. PortText(c) = Lines("Container", "PublishPort", vals)
  BY DEF PortText
<1>3. \A i \in DOMAIN c.ports : vals[i] = [parts |-> <<c.ports[i].hostPort, c.ports[i].containerPort>>,
                                           proto |-> c.ports[i].protocol]
  OBVIOUS
<1> HIDE DEF vals
<1>4. /\ IsSeq(PortText(c)) /\ DOMAIN PortText(c) = DOMAIN vals
      /\ \A i \in DOMAIN vals : PortText(c)[i] = Line("Container", "PublishPort", vals[i])
      /\ \A l : Has(PortText(c), l) <=>
                  \E i \in DOMAIN vals : l = Line("Container", "PublishPort", vals[i])
      /\ Holds(PortText(c), "Container", "PublishPort", PortText(c))
  BY <1>1, <1>2, LinesFacts
<1>5. \A l : Has(PortText(c), l) => l.sec = "Container" /\ l.key = "PublishPort"
  BY <1>4 DEF Line
<1> QED
  BY <1>1, <1>3, <1>4, <1>5

LEMMA VolumeFacts ==
  ASSUME NEW c, IsSeq(c.volumes)
  PROVE  /\ IsSeq(VolumeText(c)) /\ DOMAIN VolumeText(c) = DOMAIN c.volumes
         /\ \A i \in DOMAIN c.volumes :
              VolumeText(c)[i] = Line("Container", "Volume", <<c.volumes[i].hostPath,
                                      c.volumes[i].containerPath, c.volumes[i].mode>>)
         /\ \A l : Has(VolumeText(c), l) => l.sec = "Container" /\ l.key = "Volume"
         /\ Holds(VolumeText(c), "Container", "Volume", VolumeText(c))
<1> DEFINE vals == [i \in DOMAIN c.volumes |->
                      <<c.volumes[i].hostPath, c.volumes[i].containerPath, c.volumes[i].mode>>]
<1>1. IsSeq(vals) /\ DOMAIN vals = DOMAIN c.volumes
  <2>1. Len(c.volumes) \in Nat /\ DOMAIN c.volumes = 1 .. Len(c.volumes)
    BY SeqFacts
  <2>2. vals = [i \in 1 .. Len(c.volumes) |-> vals[i]]
    BY <2>1
  <2> HIDE DEF vals
  <2> QED
    BY <2>1, <2>2, TupleIsSeq
<1>2. VolumeText(c) = Lines("Container", "Volume", vals)
  BY DEF VolumeText
<1>3. \A i \in DOMAIN c.volumes :
        vals[i] = <<c.volumes[i].hostPath, c.volumes[i].containerPath, c.volumes[i].mode>>
  OBVIOUS
<1> HIDE DEF vals
<1>4. /\ IsSeq(VolumeText(c)) /\ DOMAIN VolumeText(c) = DOMAIN vals
      /\ \A i \in DOMAIN vals : VolumeText(c)[i] = Line("Container", "Volume", vals[i])
      /\ \A l : Has(VolumeText(c), l) <=>
                  \E i \in DOMAIN vals : l = Line("Container", "Volume", vals[i])
      /\ Holds(VolumeText(c), "Container", "Volume", VolumeText(c))
  BY <1>1, <1>2, LinesFacts
<1>5. \A l : Has(VolumeText(c), l) => l.sec = "Container" /\ l.key = "Volume"
  BY <1>4 DEF Line
<1> QED
  BY <1>1, <1>3, <1>4, <1>5

LEMMA EnvFacts ==
  ASSUME NEW c, IsSeq(c.env)
  PROVE  /\ IsSeq(EnvText(c)) /\ DOMAIN EnvText(c) = DOMAIN c.env
         /\ \A i \in DOMAIN c.env :
              EnvText(c)[i] = Line("Container", "Environment", <<c.env[i].key, c.env[i].value>>)
         /\ \A l : Has(EnvText(c), l) => l.sec = "Container" /\ l.key = "Environment"
         /\ Holds(EnvText(c), "Container", "Environment", EnvText(c))
<1> DEFINE vals == [i \in DOMAIN c.env |-> <<c.env[i].key, c.env[i].value>>]
<1>1. IsSeq(vals) /\ DOMAIN vals = DOMAIN c.env
  <2>1. Len(c.env) \in Nat /\ DOMAIN c.env = 1 .. Len(c.env)
    BY SeqFacts
  <2>2. vals = [i \in 1 .. Len(c.env) |-> vals[i]]
    BY <2>1
  <2> HIDE DEF vals
  <2> QED
    BY <2>1, <2>2, TupleIsSeq
<1>2. EnvText(c) = Lines("Container", "Environment", vals)
  BY DEF EnvText
<1>3. \A i \in DOMAIN c.env : vals[i] = <<c.env[i].key, c.env[i].value>>
  OBVIOUS
<1> HIDE DEF vals
<1>4. /\ IsSeq(EnvText(c)) /\ DOMAIN EnvText(c) = DOMAIN vals
      /\ \A i \in DOMAIN vals : EnvText(c)[i] = Line("Container", "Environment", vals[i])
      /\ \A l : Has(EnvText(c), l) <=>
                  \E i \in DOMAIN vals : l = Line("Container", "Environment", vals[i])
      /\ Holds(EnvText(c), "Container", "Environment", EnvText(c))
  BY <1>1, <1>2, LinesFacts
<1>5. \A l : Has(EnvText(c), l) => l.sec = "Container" /\ l.key = "Environment"
  BY <1>4 DEF Line
<1> QED
  BY <1>1, <1>3, <1>4, <1>5

\* The labels are written in some order, each once.
LEMMA KeysFacts ==
  ASSUME NEW S, IsFiniteSet(S)
  PROVE  /\ IsSeq(SetToSeq(S))
         /\ \A i \in DOMAIN SetToSeq(S) : SetToSeq(S)[i] \in S
         /\ \A x \in S : \E i \in DOMAIN SetToSeq(S) : SetToSeq(S)[i] = x
<1> DEFINE n == Cardinality(S)
           f == SetToSeq(S)
<1>1. n \in Nat /\ ExistsBijection(1 .. n, S)
  BY FS_CardinalityType
<1>2. PICK g : g \in Bijection(1 .. n, S)
  BY <1>1 DEF ExistsBijection
<1>3. g \in [1 .. n -> S] /\ IsInjective(g)
  BY <1>2 DEF Bijection, Injection, IsInjective
<1>4. f \in [1 .. n -> S] /\ IsInjective(f)
  BY <1>3 DEF SetToSeq
<1> HIDE DEF f
<1>5. f \in Injection(1 .. n, S)
  BY <1>4, Zenon DEF Injection, IsInjective
<1>6. IsFiniteSet(1 .. n) /\ Cardinality(1 .. n) = n
  BY <1>1, FS_Interval
<1>7. f \in Surjection(1 .. n, S)
  BY <1>5, <1>6, FS_Injection
<1>8. \A x \in S : \E i \in 1 .. n : f[i] = x
  BY <1>7 DEF Surjection
<1>9. f = [i \in 1 .. n |-> f[i]]
  BY <1>4
<1>10. IsSeq(f) /\ DOMAIN f = 1 .. n
  BY <1>1, <1>9, TupleIsSeq
<1> QED
  BY <1>4, <1>8, <1>10 DEF f

LEMMA LabelFacts ==
  ASSUME NEW c, IsFiniteSet(DOMAIN c.labels)
  PROVE  /\ IsSeq(LabelText(c))
         /\ \A l : Has(LabelText(c), l) <=>
              \E k \in DOMAIN c.labels : l = Line("Container", "Label", <<k, c.labels[k]>>)
<1> DEFINE keys == SetToSeq(DOMAIN c.labels)
           vals == [i \in DOMAIN keys |-> <<keys[i], c.labels[keys[i]]>>]
<1>1. LabelText(c) = Lines("Container", "Label", vals)
  BY DEF LabelText
<1>2. /\ IsSeq(keys)
      /\ \A i \in DOMAIN keys : keys[i] \in DOMAIN c.labels
      /\ \A k \in DOMAIN c.labels : \E i \in DOMAIN keys : keys[i] = k
  BY KeysFacts
<1> HIDE DEF keys
<1>3. Len(keys) \in Nat /\ DOMAIN keys = 1 .. Len(keys)
  BY <1>2, SeqFacts
<1>4. IsSeq(vals) /\ DOMAIN vals = DOMAIN keys
  <2>1. vals = [i \in 1 .. Len(keys) |-> vals[i]]
    BY <1>3
  <2> HIDE DEF vals
  <2> QED
    BY <1>3, <2>1, TupleIsSeq
<1>5. \A i \in DOMAIN keys : vals[i] = <<keys[i], c.labels[keys[i]]>>
  OBVIOUS
<1> HIDE DEF vals
<1>6. /\ IsSeq(LabelText(c))
      /\ \A l : Has(LabelText(c), l) <=>
                  \E i \in DOMAIN vals : l = Line("Container", "Label", vals[i])
  BY <1>1, <1>4, LinesFacts
<1>7. \A l : Has(LabelText(c), l) <=>
               \E i \in DOMAIN keys : l = Line("Container", "Label", <<keys[i], c.labels[keys[i]]>>)
  <2>1. \A i \in DOMAIN keys :
          Line("Container", "Label", vals[i])
            = Line("Container", "Label", <<keys[i], c.labels[keys[i]]>>)
    BY <1>5
  <2>2. DOMAIN vals = DOMAIN keys
    BY <1>4
  <2>3. \A l : Has(LabelText(c), l) <=>
                 \E i \in DOMAIN keys : l = Line("Container", "Label", vals[i])
    BY <1>6, <2>2, Zenon
  <2> QED
    BY <2>1, <2>3, Zenon
<1> QED
  BY <1>2, <1>6, <1>7

LEMMA RestartFacts ==
  ASSUME NEW s
  PROVE  /\ IsSeq(RestartText(s))
         /\ \A l : Has(RestartText(s), l) <=> \/ l = Line("Service", "Restart", s.restart)
                                              \/ l = Line("Service", "TimeoutStartSec", s.timeoutStartSec)
<1> DEFINE a == Line("Service", "Restart", s.restart)
           b == Line("Service", "TimeoutStartSec", s.timeoutStartSec)
<1>1. RestartText(s) = <<a, b>>
  BY DEF RestartText
<1> HIDE DEF a, b
<1>2. <<a, b>> = [i \in 1 .. 2 |-> <<a, b>>[i]]
  OBVIOUS
<1>3. IsSeq(<<a, b>>) /\ DOMAIN <<a, b>> = 1 .. 2
  BY <1>2, TupleIsSeq
<1>4. <<a, b>>[1] = a /\ <<a, b>>[2] = b
  OBVIOUS
<1>5. \A l : Has(<<a, b>>, l) <=> l = a \/ l = b
  BY <1>3, <1>4 DEF Has
<1> QED
  BY <1>1, <1>3, <1>5 DEF a, b

LEMMA WaitFacts ==
  ASSUME NEW s, IsSeq(s.waitForPaths)
  PROVE  /\ IsSeq(WaitText(s)) /\ DOMAIN WaitText(s) = DOMAIN s.waitForPaths
         /\ \A i \in DOMAIN s.waitForPaths :
              WaitText(s)[i] = Line("Service", "ExecStartPre",
                <<IF s.waitForPaths[i].strict THEN "mount" ELSE "dir", s.waitForPaths[i].path>>)
         /\ \A l : Has(WaitText(s), l) => l.sec = "Service" /\ l.key = "ExecStartPre"
<1> DEFINE vals == [i \in DOMAIN s.waitForPaths |->
                <<IF s.waitForPaths[i].strict THEN "mount" ELSE "dir", s.waitForPaths[i].path>>]
<1>1. IsSeq(vals) /\ DOMAIN vals = DOMAIN s.waitForPaths
  <2>1. Len(s.waitForPaths) \in Nat /\ DOMAIN s.waitForPaths = 1 .. Len(s.waitForPaths)
    BY SeqFacts
  <2>2. vals = [i \in 1 .. Len(s.waitForPaths) |-> vals[i]]
    BY <2>1
  <2> HIDE DEF vals
  <2> QED
    BY <2>1, <2>2, TupleIsSeq
<1>2. WaitText(s) = Lines("Service", "ExecStartPre", vals)
  BY DEF WaitText
<1>3. \A i \in DOMAIN s.waitForPaths :
        vals[i] = <<IF s.waitForPaths[i].strict THEN "mount" ELSE "dir", s.waitForPaths[i].path>>
  OBVIOUS
<1> HIDE DEF vals
<1>4. /\ IsSeq(WaitText(s)) /\ DOMAIN WaitText(s) = DOMAIN vals
      /\ \A i \in DOMAIN vals : WaitText(s)[i] = Line("Service", "ExecStartPre", vals[i])
      /\ \A l : Has(WaitText(s), l) <=>
                  \E i \in DOMAIN vals : l = Line("Service", "ExecStartPre", vals[i])
  BY <1>1, <1>2, LinesFacts
<1>5. \A l : Has(WaitText(s), l) => l.sec = "Service" /\ l.key = "ExecStartPre"
  BY <1>4 DEF Line
<1> QED
  BY <1>1, <1>3, <1>4, <1>5

LEMMA Associative ==
  ASSUME NEW a, NEW b, NEW c, IsSeq(a), IsSeq(b), IsSeq(c)
  PROVE  \A ab, bc : ab = a \o b /\ bc = b \o c => ab \o c = a \o bc
<1> DEFINE A == {a[i] : i \in DOMAIN a}
           B == {b[i] : i \in DOMAIN b}
           C == {c[i] : i \in DOMAIN c}
           S == A \cup B \cup C
<1>1. a \in Seq(A) /\ b \in Seq(B) /\ c \in Seq(C)
  BY SeqFacts
<1>2. A \subseteq S /\ B \subseteq S /\ C \subseteq S
  OBVIOUS
<1> HIDE DEF A, B, C, S
<1>3. a \in Seq(S)
  BY <1>1, <1>2, SeqMonotonic
<1>4. b \in Seq(S)
  BY <1>1, <1>2, SeqMonotonic
<1>5. c \in Seq(S)
  BY <1>1, <1>2, SeqMonotonic
<1> QED
  BY <1>3, <1>4, <1>5, ConcatAssociative

LEMMA HoldsAll ==
  ASSUME NEW m, IsSeq(m), NEW sec, NEW key, \A l : Has(m, l) => l.sec = sec /\ l.key = key
  PROVE  Holds(m, sec, key, m)
<1>1. Len(m) \in Nat /\ DOMAIN m = 1 .. Len(m)
  BY SeqFacts
<1>2. \A i \in DOMAIN m : Has(m, m[i])
  BY DEF Has
<1>3. Places(m, sec, key) = 1 .. Len(m)
  BY <1>1, <1>2 DEF Places
<1>4. Places(m, sec, key) = 0 + 1 .. 0 + Len(m)
  BY <1>1, <1>3
<1>5. 0 + Len(m) <= Len(m) /\ \A i \in 1 .. Len(m) : m[0 + i] = m[i]
  BY <1>1
<1> QED
  BY <1>4, <1>5 DEF Holds

\* All parts of the container's section, and where its lists are.
LEMMA ContainerFacts ==
  ASSUME NEW c, IsSeq(c.ports), IsSeq(c.volumes), IsSeq(c.env), IsFiniteSet(DOMAIN c.labels)
  PROVE  /\ IsSeq(ContainerText(c))
         /\ \A l : Has(ContainerText(c), l) <=>
              \/ Has(ImageText(c), l) \/ Has(PortText(c), l) \/ Has(VolumeText(c), l)
              \/ Has(EnvText(c), l) \/ Has(LabelText(c), l) \/ Has(AutoUpdateText(c), l)
              \/ Has(NetworkText(c), l) \/ Has(HealthText(c.healthCheck), l)
         /\ \A l : Has(ContainerText(c), l) => l.sec = "Container"
         /\ Holds(ContainerText(c), "Container", "PublishPort", PortText(c))
         /\ Holds(ContainerText(c), "Container", "Volume", VolumeText(c))
         /\ Holds(ContainerText(c), "Container", "Environment", EnvText(c))
<1> DEFINE p1 == ImageText(c)
           p2 == PortText(c)
           p3 == VolumeText(c)
           p4 == EnvText(c)
           p5 == LabelText(c)
           p6 == AutoUpdateText(c)
           p7 == NetworkText(c)
           p8 == HealthText(c.healthCheck)
<1>1. IsSeq(p1) /\ \A l : Has(p1, l) => l.sec = "Container" /\ l.key \in {"Image", "Exec"}
  <2>1. \A l : Has(p1, l) => \/ l = Line("Container", "Image", c.image)
                             \/ l = Line("Container", "Exec", c.exec)
    BY ImageFacts
  <2>2. IsSeq(p1)
    BY ImageFacts
  <2> HIDE DEF p1
  <2> QED
    BY <2>1, <2>2 DEF Line
<1>2. /\ IsSeq(p2) /\ \A l : Has(p2, l) => l.sec = "Container" /\ l.key = "PublishPort"
      /\ Holds(p2, "Container", "PublishPort", p2)
  BY PortFacts
<1>3. /\ IsSeq(p3) /\ \A l : Has(p3, l) => l.sec = "Container" /\ l.key = "Volume"
      /\ Holds(p3, "Container", "Volume", p3)
  BY VolumeFacts
<1>4. /\ IsSeq(p4) /\ \A l : Has(p4, l) => l.sec = "Container" /\ l.key = "Environment"
      /\ Holds(p4, "Container", "Environment", p4)
  BY EnvFacts
<1>5. IsSeq(p5) /\ \A l : Has(p5, l) => l.sec = "Container" /\ l.key = "Label"
  BY LabelFacts DEF Line
<1>6. IsSeq(p6) /\ \A l : Has(p6, l) => l.sec = "Container" /\ l.key \in {"AutoUpdate", "Label"}
  <2>1. \A l : Has(p6, l) => \/ l = Line("Container", "AutoUpdate", c.autoUpdate)
                             \/ l = Line("Container", "Label", AutoUpdateLabel)
    BY AutoUpdateFacts
  <2>2. IsSeq(p6)
    BY AutoUpdateFacts
  <2> HIDE DEF p6
  <2> QED
    BY <2>1, <2>2 DEF Line
<1>7. /\ IsSeq(p7)
      /\ \A l : Has(p7, l) => l.sec = "Container" /\ l.key \in {"User", "Group", "HostName", "Network"}
  <2>1. \A l : Has(p7, l) => \/ l = Line("Container", "User", c.user)
                             \/ l = Line("Container", "Group", c.group)
                             \/ l = Line("Container", "HostName", c.hostName)
                             \/ l = Line("Container", "Network", c.network)
    BY NetworkFacts
  <2>2. IsSeq(p7)
    BY NetworkFacts
  <2> HIDE DEF p7
  <2> QED
    BY <2>1, <2>2 DEF Line
<1>8. /\ IsSeq(p8)
      /\ \A l : Has(p8, l) =>
           /\ l.sec = "Container"
           /\ l.key \in {"HealthCmd", "HealthInterval", "HealthRetries", "HealthStartPeriod",
                         "HealthTimeout"}
  <2> DEFINE h == c.healthCheck
  <2>1. \A l : Has(p8, l) =>
          \/ l = Line("Container", "HealthCmd", h.cmd)
          \/ l = Line("Container", "HealthInterval", h.interval)
          \/ l = Line("Container", "HealthRetries", h.retries)
          \/ l = Line("Container", "HealthStartPeriod", h.startPeriod)
          \/ l = Line("Container", "HealthTimeout", h.timeout)
    BY HealthFacts
  <2> HIDE DEF p8
  <2>2. \A l : Has(p8, l) =>
           /\ l.sec = "Container"
           /\ l.key \in {"HealthCmd", "HealthInterval", "HealthRetries", "HealthStartPeriod",
                         "HealthTimeout"}
    BY <2>1 DEF Line
  <2> QED
    BY <2>2, HealthFacts DEF p8
<1>9. ContainerText(c) = p1 \o p2 \o p3 \o p4 \o p5 \o p6 \o p7 \o p8
  BY DEF ContainerText
<1> HIDE DEF p1, p2, p3, p4, p5, p6, p7, p8
<1> DEFINE q2 == p1 \o p2
           q3 == q2 \o p3
           q4 == q3 \o p4
           q5 == q4 \o p5
           q6 == q5 \o p6
           q7 == q6 \o p7
           q8 == q7 \o p8
<1>10. ContainerText(c) = q8
  BY <1>9
<1>11. IsSeq(q2) /\ \A l : Has(q2, l) <=> Has(p1, l) \/ Has(p2, l)
  BY <1>1, <1>2, Joined
<1>12. IsSeq(q3) /\ \A l : Has(q3, l) <=> Has(q2, l) \/ Has(p3, l)
  <2> HIDE DEF q2
  <2> QED
    BY <1>11, <1>3, Joined
<1>13. IsSeq(q4) /\ \A l : Has(q4, l) <=> Has(q3, l) \/ Has(p4, l)
  <2> HIDE DEF q3
  <2> QED
    BY <1>12, <1>4, Joined
<1>14. IsSeq(q5) /\ \A l : Has(q5, l) <=> Has(q4, l) \/ Has(p5, l)
  <2> HIDE DEF q4
  <2> QED
    BY <1>13, <1>5, Joined
<1>15. IsSeq(q6) /\ \A l : Has(q6, l) <=> Has(q5, l) \/ Has(p6, l)
  <2> HIDE DEF q5
  <2> QED
    BY <1>14, <1>6, Joined
<1>16. IsSeq(q7) /\ \A l : Has(q7, l) <=> Has(q6, l) \/ Has(p7, l)
  <2> HIDE DEF q6
  <2> QED
    BY <1>15, <1>7, Joined
<1>17. IsSeq(q8) /\ \A l : Has(q8, l) <=> Has(q7, l) \/ Has(p8, l)
  <2> HIDE DEF q7
  <2> QED
    BY <1>16, <1>8, Joined
<1>18. Holds(q2, "Container", "PublishPort", p2)
  <2>1. Lacks(p1, "Container", "PublishPort")
    BY <1>1 DEF Lacks
  <2> QED
    BY <2>1, <1>1, <1>2, HoldsBehind
<1>19. Holds(q3, "Container", "Volume", p3)
  <2>1. Lacks(q2, "Container", "Volume")
    BY <1>1, <1>2, <1>11 DEF Lacks
  <2> HIDE DEF q2
  <2> QED
    BY <2>1, <1>3, <1>11, HoldsBehind
<1>20. Holds(q4, "Container", "Environment", p4)
  <2>1. Lacks(q3, "Container", "Environment")
    BY <1>1, <1>2, <1>3, <1>11, <1>12 DEF Lacks
  <2> HIDE DEF q3
  <2> QED
    BY <2>1, <1>4, <1>12, HoldsBehind
<1>21. Holds(q3, "Container", "PublishPort", p2)
  <2>1. Lacks(p3, "Container", "PublishPort")
    BY <1>3 DEF Lacks
  <2> HIDE DEF q2
  <2> QED
    BY <2>1, <1>2, <1>3, <1>11, <1>18, HoldsBefore
<1>22. Holds(q4, "Container", "PublishPort", p2) /\ Holds(q4, "Container", "Volume", p3)
  <2>1. Lacks(p4, "Container", "PublishPort") /\ Lacks(p4, "Container", "Volume")
    BY <1>4 DEF Lacks
  <2> HIDE DEF q3
  <2>2. Holds(q4, "Container", "PublishPort", p2)
    BY <2>1, <1>2, <1>4, <1>12, <1>21, HoldsBefore
  <2>3. Holds(q4, "Container", "Volume", p3)
    BY <2>1, <1>3, <1>4, <1>12, <1>19, HoldsBefore
  <2> QED
    BY <2>2, <2>3
<1> HIDE DEF q2, q3, q4
<1> DEFINE Lists(q) == /\ Holds(q, "Container", "PublishPort", p2)
                       /\ Holds(q, "Container", "Volume", p3)
                       /\ Holds(q, "Container", "Environment", p4)
<1>23. ASSUME NEW q, NEW p, IsSeq(q), IsSeq(p), Lists(q),
              \A l : Has(p, l) => l.key \notin {"PublishPort", "Volume", "Environment"}
       PROVE  Lists(q \o p)
  <2>1. /\ Lacks(p, "Container", "PublishPort") /\ Lacks(p, "Container", "Volume")
        /\ Lacks(p, "Container", "Environment")
    BY <1>23 DEF Lacks
  <2>2. Holds(q \o p, "Container", "PublishPort", p2)
    BY <2>1, <1>2, <1>23, HoldsBefore
  <2>3. Holds(q \o p, "Container", "Volume", p3)
    BY <2>1, <1>3, <1>23, HoldsBefore
  <2>4. Holds(q \o p, "Container", "Environment", p4)
    BY <2>1, <1>4, <1>23, HoldsBefore
  <2> QED
    BY <2>2, <2>3, <2>4
<1>24. Lists(q4)
  BY <1>20, <1>22
<1> HIDE DEF Lists
<1>25. Lists(q5)
  BY <1>5, <1>13, <1>23, <1>24
<1>26. Lists(q6)
  <2> HIDE DEF q5
  <2> QED
    BY <1>6, <1>14, <1>23, <1>25
<1>27. Lists(q7)
  <2> HIDE DEF q6
  <2> QED
    BY <1>7, <1>15, <1>23, <1>26
<1>28. Lists(q8)
  <2> HIDE DEF q7
  <2> QED
    BY <1>8, <1>16, <1>23, <1>27
<1> HIDE DEF q5, q6, q7, q8
<1>29. \A l : Has(q8, l) <=> \/ Has(p1, l) \/ Has(p2, l) \/ Has(p3, l) \/ Has(p4, l)
                             \/ Has(p5, l) \/ Has(p6, l) \/ Has(p7, l) \/ Has(p8, l)
  BY <1>11, <1>12, <1>13, <1>14, <1>15, <1>16, <1>17
<1>30. \A l : Has(q8, l) => l.sec = "Container"
  BY <1>29, <1>1, <1>2, <1>3, <1>4, <1>5, <1>6, <1>7, <1>8
<1> QED
  BY <1>10, <1>17, <1>28, <1>29, <1>30 DEF Lists, p1, p2, p3, p4, p5, p6, p7, p8

PreText(s) == WaitText(s) \o Lines("Service", "ExecStartPre", s.execStartPre)

LEMMA ServiceFacts ==
  ASSUME NEW s, IsSeq(s.waitForPaths), IsSeq(s.execStartPre), IsSeq(s.execStartPost)
  PROVE  LET posts == Lines("Service", "ExecStartPost", s.execStartPost)
         IN  /\ IsSeq(ServiceText(s))
             /\ \A l : Has(ServiceText(s), l) <=>
                         \/ l = Line("Service", "Restart", s.restart)
                         \/ l = Line("Service", "TimeoutStartSec", s.timeoutStartSec)
                         \/ Has(PreText(s), l) \/ Has(posts, l)
             /\ \A l : Has(ServiceText(s), l) => l.sec = "Service"
             /\ IsSeq(PreText(s))
             /\ \A l : Has(PreText(s), l) => l.sec = "Service" /\ l.key = "ExecStartPre"
             /\ Holds(ServiceText(s), "Service", "ExecStartPre", PreText(s))
             /\ Holds(ServiceText(s), "Service", "ExecStartPost", posts)
<1> DEFINE r == RestartText(s)
           w == WaitText(s)
           p == Lines("Service", "ExecStartPre", s.execStartPre)
           e == Lines("Service", "ExecStartPost", s.execStartPost)
<1>1. /\ IsSeq(r)
      /\ \A l : Has(r, l) <=> \/ l = Line("Service", "Restart", s.restart)
                              \/ l = Line("Service", "TimeoutStartSec", s.timeoutStartSec)
  BY RestartFacts
<1>2. IsSeq(w)
  BY WaitFacts
<1>3. /\ IsSeq(p)
      /\ \A l : Has(p, l) <=> \E i \in DOMAIN s.execStartPre :
                                l = Line("Service", "ExecStartPre", s.execStartPre[i])
  BY LinesFacts
<1>4. /\ IsSeq(e)
      /\ \A l : Has(e, l) <=> \E i \in DOMAIN s.execStartPost :
                                l = Line("Service", "ExecStartPost", s.execStartPost[i])
      /\ Holds(e, "Service", "ExecStartPost", e)
  BY LinesFacts
<1>5. ServiceText(s) = r \o w \o p \o e /\ PreText(s) = w \o p
  BY DEF ServiceText, PreText
<1> HIDE DEF r, w, p, e
<1> DEFINE wp == w \o p
           rwp == r \o wp
<1>6. IsSeq(wp) /\ \A l : Has(wp, l) <=> Has(w, l) \/ Has(p, l)
  BY <1>2, <1>3, Joined
<1>7. r \o w \o p = rwp
  <2>1. IsSeq(r) /\ IsSeq(w) /\ IsSeq(p)
    BY <1>1, <1>2, <1>3
  <2> DEFINE rw == r \o w
  <2>2. \A ab, bc : ab = r \o w /\ bc = w \o p => ab \o p = r \o bc
    BY <2>1, Associative
  <2>3. rw \o p = r \o wp
    BY <2>2
  <2> QED
    BY <2>3
<1>8. ServiceText(s) = rwp \o e
  BY <1>5, <1>7
<1>9. \A l : Has(r, l) => l.sec = "Service" /\ l.key \in {"Restart", "TimeoutStartSec"}
  BY <1>1 DEF Line
<1>10. \A l : Has(w, l) => l.sec = "Service" /\ l.key = "ExecStartPre"
  BY WaitFacts DEF w
<1>11. \A l : Has(p, l) => l.sec = "Service" /\ l.key = "ExecStartPre"
  BY <1>3 DEF Line
<1>12. \A l : Has(e, l) => l.sec = "Service" /\ l.key = "ExecStartPost"
  BY <1>4 DEF Line
<1>13. \A l : Has(wp, l) => l.sec = "Service" /\ l.key = "ExecStartPre"
  BY <1>6, <1>10, <1>11
<1> HIDE DEF wp
<1>14. Holds(wp, "Service", "ExecStartPre", wp)
  BY <1>6, <1>13, HoldsAll
<1>15. IsSeq(rwp) /\ \A l : Has(rwp, l) <=> Has(r, l) \/ Has(wp, l)
  BY <1>1, <1>6, Joined
<1>16. Holds(rwp, "Service", "ExecStartPre", wp)
  <2>1. Lacks(r, "Service", "ExecStartPre")
    BY <1>9 DEF Lacks
  <2> QED
    BY <2>1, <1>1, <1>6, <1>14, HoldsBehind
<1>17. Lacks(rwp, "Service", "ExecStartPost") /\ Lacks(e, "Service", "ExecStartPre")
  BY <1>9, <1>12, <1>13, <1>15 DEF Lacks
<1> HIDE DEF rwp
<1>18. IsSeq(rwp \o e) /\ \A l : Has(rwp \o e, l) <=> Has(rwp, l) \/ Has(e, l)
  BY <1>4, <1>15, Joined
<1>19. Holds(rwp \o e, "Service", "ExecStartPre", wp)
  BY <1>4, <1>6, <1>15, <1>16, <1>17, HoldsBefore
<1>20. Holds(rwp \o e, "Service", "ExecStartPost", e)
  BY <1>4, <1>15, <1>17, HoldsBehind
<1>21. \A l : Has(rwp \o e, l) <=> \/ l = Line("Service", "Restart", s.restart)
                                   \/ l = Line("Service", "TimeoutStartSec", s.timeoutStartSec)
                                   \/ Has(wp, l) \/ Has(e, l)
  BY <1>1, <1>15, <1>18
<1>22. \A l : Has(rwp \o e, l) => l.sec = "Service"
  BY <1>9, <1>12, <1>13, <1>15, <1>18
<1> QED
  BY <1>5, <1>6, <1>8, <1>13, <1>18, <1>19, <1>20, <1>21, <1>22 DEF wp, e

ListsOK(d) ==
  /\ IsSeq(d.container.ports) /\ IsSeq(d.container.volumes) /\ IsSeq(d.container.env)
  /\ IsFiniteSet(DOMAIN d.container.labels)
  /\ IsSeq(d.service.waitForPaths) /\ IsSeq(d.service.execStartPre)
  /\ IsSeq(d.service.execStartPost)

\* The text that the form writes: its lines, and where its lists are.
LEMMA WrittenFacts ==
  ASSUME NEW d, ListsOK(d)
  PROVE  LET text == wizardToQuadlet(d)
             c    == d.container
             s    == d.service
         IN  /\ IsSeq(text)
             /\ \A l : Has(text, l) <=>
                  \/ Has(UnitText(d), l) \/ Has(ContainerText(c), l) \/ Has(ServiceText(s), l)
                  \/ l = Line("Install", "WantedBy", "default.target")
             /\ \A l : Has(UnitText(d), l) => l.sec = "Unit"
             /\ \A l : Has(ContainerText(c), l) => l.sec = "Container"
             /\ \A l : Has(ServiceText(s), l) => l.sec = "Service"
             /\ Holds(text, "Container", "PublishPort", PortText(c))
             /\ Holds(text, "Container", "Volume", VolumeText(c))
             /\ Holds(text, "Container", "Environment", EnvText(c))
             /\ Holds(text, "Service", "ExecStartPre", PreText(s))
             /\ Holds(text, "Service", "ExecStartPost",
                      Lines("Service", "ExecStartPost", s.execStartPost))
<1> DEFINE u == UnitText(d)
           c == ContainerText(d.container)
           s == ServiceText(d.service)
           w == <<Line("Install", "WantedBy", "default.target")>>
<1>1. IsSeq(u) /\ \A l : Has(u, l) => l.sec = "Unit"
  <2>1. IsSeq(u)
    BY UnitFacts
  <2>2. \A l : Has(u, l) => \/ l = Line("Unit", "Description", Description(d))
                            \/ l = Line("Unit", "After", d.unit.after)
                            \/ l = Line("Unit", "Requires", d.unit.requires)
                            \/ l = Line("Unit", "Wants", d.unit.wants)
    BY UnitFacts
  <2> HIDE DEF u
  <2> QED
    BY <2>1, <2>2 DEF Line
<1>2. IsSeq(c) /\ \A l : Has(c, l) => l.sec = "Container"
  BY ContainerFacts DEF ListsOK
<1>3. IsSeq(s) /\ \A l : Has(s, l) => l.sec = "Service"
  BY ServiceFacts DEF ListsOK
<1>4. IsSeq(w) /\ \A l : Has(w, l) <=> l = Line("Install", "WantedBy", "default.target")
  BY OneLine
<1>5. \A l : Has(w, l) => l.sec = "Install"
  BY <1>4 DEF Line
<1>6. wizardToQuadlet(d) = ((u \o c) \o s) \o w
  BY DEF wizardToQuadlet
<1> HIDE DEF u, c, s, w
<1> DEFINE uc == u \o c
           ucs == uc \o s
<1>7. IsSeq(uc) /\ \A l : Has(uc, l) <=> Has(u, l) \/ Has(c, l)
  BY <1>1, <1>2, Joined
<1>8. ASSUME NEW key, NEW m, IsSeq(m), Holds(c, "Container", key, m)
      PROVE  Holds(uc, "Container", key, m)
  <2>1. Lacks(u, "Container", key)
    BY <1>1 DEF Lacks
  <2> QED
    BY <2>1, <1>1, <1>2, <1>8, HoldsBehind
<1> HIDE DEF uc
<1>9. IsSeq(ucs) /\ \A l : Has(ucs, l) <=> Has(uc, l) \/ Has(s, l)
  BY <1>3, <1>7, Joined
<1>10. ASSUME NEW key, NEW m, IsSeq(m), Holds(c, "Container", key, m)
       PROVE  Holds(ucs, "Container", key, m)
  <2>1. Lacks(s, "Container", key)
    BY <1>3 DEF Lacks
  <2>2. Holds(uc, "Container", key, m)
    BY <1>8, <1>10
  <2> QED
    BY <2>1, <2>2, <1>3, <1>7, <1>10, HoldsBefore
<1>11. ASSUME NEW key, NEW m, IsSeq(m), Holds(s, "Service", key, m)
       PROVE  Holds(ucs, "Service", key, m)
  <2>1. Lacks(uc, "Service", key)
    BY <1>1, <1>2, <1>7 DEF Lacks
  <2> QED
    BY <2>1, <1>3, <1>7, <1>11, HoldsBehind
<1> HIDE DEF ucs
<1>12. IsSeq(ucs \o w) /\ \A l : Has(ucs \o w, l) <=> Has(ucs, l) \/ Has(w, l)
  BY <1>4, <1>9, Joined
<1>13. ASSUME NEW sec, NEW key, NEW m, IsSeq(m), Holds(ucs, sec, key, m), sec # "Install"
       PROVE  Holds(ucs \o w, sec, key, m)
  <2>1. Lacks(w, sec, key)
    BY <1>5, <1>13 DEF Lacks
  <2> QED
    BY <2>1, <1>4, <1>9, <1>13, HoldsBefore
<1>14. wizardToQuadlet(d) = ucs \o w
  BY <1>6 DEF uc, ucs
<1>15. ASSUME NEW key, NEW m, IsSeq(m), Holds(c, "Container", key, m)
       PROVE  Holds(wizardToQuadlet(d), "Container", key, m)
  BY <1>10, <1>13, <1>14, <1>15
<1>16. ASSUME NEW key, NEW m, IsSeq(m), Holds(s, "Service", key, m)
       PROVE  Holds(wizardToQuadlet(d), "Service", key, m)
  BY <1>11, <1>13, <1>14, <1>16
<1>17. /\ Holds(c, "Container", "PublishPort", PortText(d.container))
       /\ Holds(c, "Container", "Volume", VolumeText(d.container))
       /\ Holds(c, "Container", "Environment", EnvText(d.container))
  BY ContainerFacts DEF ListsOK, c
<1>18. IsSeq(PortText(d.container)) /\ IsSeq(VolumeText(d.container)) /\ IsSeq(EnvText(d.container))
  BY PortFacts, VolumeFacts, EnvFacts DEF ListsOK
<1>19. /\ Holds(s, "Service", "ExecStartPre", PreText(d.service)) /\ IsSeq(PreText(d.service))
       /\ Holds(s, "Service", "ExecStartPost",
                Lines("Service", "ExecStartPost", d.service.execStartPost))
  BY ServiceFacts DEF ListsOK, s
<1>20. IsSeq(Lines("Service", "ExecStartPost", d.service.execStartPost))
  BY LinesFacts DEF ListsOK
<1>21. /\ Holds(wizardToQuadlet(d), "Container", "PublishPort", PortText(d.container))
       /\ Holds(wizardToQuadlet(d), "Container", "Volume", VolumeText(d.container))
       /\ Holds(wizardToQuadlet(d), "Container", "Environment", EnvText(d.container))
  BY <1>15, <1>17, <1>18
<1>22. /\ Holds(wizardToQuadlet(d), "Service", "ExecStartPre", PreText(d.service))
       /\ Holds(wizardToQuadlet(d), "Service", "ExecStartPost",
                Lines("Service", "ExecStartPost", d.service.execStartPost))
  BY <1>16, <1>19, <1>20
<1>23. \A l : Has(wizardToQuadlet(d), l) <=>
                \/ Has(u, l) \/ Has(c, l) \/ Has(s, l)
                \/ l = Line("Install", "WantedBy", "default.target")
  BY <1>4, <1>7, <1>9, <1>12, <1>14
<1> QED
  BY <1>1, <1>2, <1>3, <1>12, <1>14, <1>21, <1>22, <1>23 DEF u, c, s

-----------------------------------------------------------------------------
(* What the form reads in the text that it wrote.                          *)

LEMMA UnitRead ==
  ASSUME NEW d, ListsOK(d)
  PROVE  LET text == wizardToQuadlet(d)
         IN  /\ Value(text, "Unit", "Description", "") = Description(d)
             /\ Value(text, "Unit", "After", <<>>) = d.unit.after
             /\ Value(text, "Unit", "Requires", <<>>) = d.unit.requires
             /\ Value(text, "Unit", "Wants", <<>>) = d.unit.wants
<1> DEFINE text == wizardToQuadlet(d)
           u == d.unit
           none == ""
<1>1. /\ IsSeq(text)
      /\ \A l : Has(text, l) /\ l.sec = "Unit" <=> Has(UnitText(d), l)
  <2>1. /\ IsSeq(text)
        /\ \A l : Has(text, l) <=>
             \/ Has(UnitText(d), l) \/ Has(ContainerText(d.container), l)
             \/ Has(ServiceText(d.service), l) \/ l = Line("Install", "WantedBy", "default.target")
        /\ \A l : Has(UnitText(d), l) => l.sec = "Unit"
        /\ \A l : Has(ContainerText(d.container), l) => l.sec = "Container"
        /\ \A l : Has(ServiceText(d.service), l) => l.sec = "Service"
    BY WrittenFacts
  <2>2. Line("Install", "WantedBy", "default.target").sec = "Install"
    BY DEF Line
  <2> QED
    BY <2>1, <2>2
<1>2. \A l : Has(UnitText(d), l) <=>
        \/ l = Line("Unit", "Description", Description(d))
        \/ u.after # <<>> /\ l = Line("Unit", "After", u.after)
        \/ u.requires # <<>> /\ l = Line("Unit", "Requires", u.requires)
        \/ u.wants # <<>> /\ l = Line("Unit", "Wants", u.wants)
  BY UnitFacts
<1> HIDE DEF text, u, none
<1>3. Value(text, "Unit", "Description", none) = Description(d)
  <2>1. \A l : Has(text, l) /\ l.sec = "Unit" /\ l.key = "Description" <=>
                 l = Line("Unit", "Description", Description(d))
    BY <1>1, <1>2 DEF Line
  <2> QED
    BY <2>1, <1>1, ValueOne
<1>4. Value(text, "Unit", "After", <<>>) = u.after
  <2>1. \A l : Has(text, l) /\ l.sec = "Unit" /\ l.key = "After" <=>
                 u.after # <<>> /\ l = Line("Unit", "After", u.after)
    BY <1>1, <1>2 DEF Line
  <2> QED
    BY <2>1, <1>1, ValueUnless
<1>5. Value(text, "Unit", "Requires", <<>>) = u.requires
  <2>1. \A l : Has(text, l) /\ l.sec = "Unit" /\ l.key = "Requires" <=>
                 u.requires # <<>> /\ l = Line("Unit", "Requires", u.requires)
    BY <1>1, <1>2 DEF Line
  <2> QED
    BY <2>1, <1>1, ValueUnless
<1>6. Value(text, "Unit", "Wants", <<>>) = u.wants
  <2>1. \A l : Has(text, l) /\ l.sec = "Unit" /\ l.key = "Wants" <=>
                 u.wants # <<>> /\ l = Line("Unit", "Wants", u.wants)
    BY <1>1, <1>2 DEF Line
  <2> QED
    BY <2>1, <1>1, ValueUnless
<1> QED
  BY <1>3, <1>4, <1>5, <1>6 DEF text, u, none

\* The lines of the container's section, by the part that writes them.
LEMMA ContainerLines ==
  ASSUME NEW d, ListsOK(d)
  PROVE  LET text == wizardToQuadlet(d)
             c    == d.container
             In(l) == Has(text, l) /\ l.sec = "Container"
         IN  /\ IsSeq(text)
             /\ \A l : l.key \in {"Image", "Exec"} => (In(l) <=> Has(ImageText(c), l))
             /\ \A l : l.key \in {"User", "Group", "HostName", "Network"} =>
                         (In(l) <=> Has(NetworkText(c), l))
             /\ \A l : l.key \in {"HealthCmd", "HealthInterval", "HealthRetries",
                                  "HealthStartPeriod", "HealthTimeout"} =>
                         (In(l) <=> Has(HealthText(c.healthCheck), l))
             /\ \A l : l.key = "AutoUpdate" => (In(l) <=> Has(AutoUpdateText(c), l))
             /\ \A l : l.key = "Label" =>
                         (In(l) <=> Has(LabelText(c), l) \/ Has(AutoUpdateText(c), l))
<1> DEFINE text == wizardToQuadlet(d)
           c == d.container
<1>1. /\ IsSeq(text)
      /\ \A l : Has(text, l) /\ l.sec = "Container" <=> Has(ContainerText(c), l)
  <2>1. /\ IsSeq(text)
        /\ \A l : Has(text, l) <=>
             \/ Has(UnitText(d), l) \/ Has(ContainerText(c), l)
             \/ Has(ServiceText(d.service), l) \/ l = Line("Install", "WantedBy", "default.target")
        /\ \A l : Has(UnitText(d), l) => l.sec = "Unit"
        /\ \A l : Has(ContainerText(c), l) => l.sec = "Container"
        /\ \A l : Has(ServiceText(d.service), l) => l.sec = "Service"
    BY WrittenFacts
  <2>2. Line("Install", "WantedBy", "default.target").sec = "Install"
    BY DEF Line
  <2> QED
    BY <2>1, <2>2
<1>2. \A l : Has(ContainerText(c), l) <=>
        \/ Has(ImageText(c), l) \/ Has(PortText(c), l) \/ Has(VolumeText(c), l)
        \/ Has(EnvText(c), l) \/ Has(LabelText(c), l) \/ Has(AutoUpdateText(c), l)
        \/ Has(NetworkText(c), l) \/ Has(HealthText(c.healthCheck), l)
  BY ContainerFacts DEF ListsOK
<1>3. \A l : Has(ImageText(c), l) => l.key \in {"Image", "Exec"}
  <2>1. \A l : Has(ImageText(c), l) => \/ l = Line("Container", "Image", c.image)
                                       \/ l = Line("Container", "Exec", c.exec)
    BY ImageFacts
  <2> QED
    BY <2>1 DEF Line
<1>4. \A l : Has(PortText(c), l) => l.key = "PublishPort"
  BY PortFacts DEF ListsOK
<1>5. \A l : Has(VolumeText(c), l) => l.key = "Volume"
  BY VolumeFacts DEF ListsOK
<1>6. \A l : Has(EnvText(c), l) => l.key = "Environment"
  BY EnvFacts DEF ListsOK
<1>7. \A l : Has(LabelText(c), l) => l.key = "Label"
  <2>1. \A l : Has(LabelText(c), l) =>
                 \E k \in DOMAIN c.labels : l = Line("Container", "Label", <<k, c.labels[k]>>)
    BY LabelFacts DEF ListsOK
  <2> QED
    BY <2>1 DEF Line
<1>8. \A l : Has(AutoUpdateText(c), l) => l.key \in {"AutoUpdate", "Label"}
  <2>1. \A l : Has(AutoUpdateText(c), l) => \/ l = Line("Container", "AutoUpdate", c.autoUpdate)
                                            \/ l = Line("Container", "Label", AutoUpdateLabel)
    BY AutoUpdateFacts
  <2> QED
    BY <2>1 DEF Line
<1>9. \A l : Has(NetworkText(c), l) => l.key \in {"User", "Group", "HostName", "Network"}
  <2>1. \A l : Has(NetworkText(c), l) => \/ l = Line("Container", "User", c.user)
                                         \/ l = Line("Container", "Group", c.group)
                                         \/ l = Line("Container", "HostName", c.hostName)
                                         \/ l = Line("Container", "Network", c.network)
    BY NetworkFacts
  <2> QED
    BY <2>1 DEF Line
<1>10. \A l : Has(HealthText(c.healthCheck), l) =>
         l.key \in {"HealthCmd", "HealthInterval", "HealthRetries", "HealthStartPeriod",
                    "HealthTimeout"}
  <2> DEFINE h == c.healthCheck
  <2>1. \A l : Has(HealthText(h), l) =>
          \/ l = Line("Container", "HealthCmd", h.cmd)
          \/ l = Line("Container", "HealthInterval", h.interval)
          \/ l = Line("Container", "HealthRetries", h.retries)
          \/ l = Line("Container", "HealthStartPeriod", h.startPeriod)
          \/ l = Line("Container", "HealthTimeout", h.timeout)
    BY HealthFacts
  <2> HIDE DEF h
  <2>2. \A l : Has(HealthText(h), l) =>
          l.key \in {"HealthCmd", "HealthInterval", "HealthRetries", "HealthStartPeriod",
                     "HealthTimeout"}
    BY <2>1 DEF Line
  <2> QED
    BY <2>2 DEF h
<1> HIDE DEF text, c
<1>11. \A l : l.key \in {"Image", "Exec"} =>
                (Has(text, l) /\ l.sec = "Container" <=> Has(ImageText(c), l))
  BY <1>1, <1>2, <1>3, <1>4, <1>5, <1>6, <1>7, <1>8, <1>9, <1>10
<1>12. \A l : l.key \in {"User", "Group", "HostName", "Network"} =>
                (Has(text, l) /\ l.sec = "Container" <=> Has(NetworkText(c), l))
  BY <1>1, <1>2, <1>3, <1>4, <1>5, <1>6, <1>7, <1>8, <1>9, <1>10
<1>13. \A l : l.key \in {"HealthCmd", "HealthInterval", "HealthRetries", "HealthStartPeriod",
                         "HealthTimeout"} =>
                (Has(text, l) /\ l.sec = "Container" <=> Has(HealthText(c.healthCheck), l))
  BY <1>1, <1>2, <1>3, <1>4, <1>5, <1>6, <1>7, <1>8, <1>9, <1>10
<1>14. \A l : l.key = "AutoUpdate" =>
                (Has(text, l) /\ l.sec = "Container" <=> Has(AutoUpdateText(c), l))
  BY <1>1, <1>2, <1>3, <1>4, <1>5, <1>6, <1>7, <1>8, <1>9, <1>10
<1>15. \A l : l.key = "Label" =>
                (Has(text, l) /\ l.sec = "Container" <=>
                   Has(LabelText(c), l) \/ Has(AutoUpdateText(c), l))
  BY <1>1, <1>2, <1>3, <1>4, <1>5, <1>6, <1>7, <1>8, <1>9, <1>10
<1> QED
  BY <1>1, <1>11, <1>12, <1>13, <1>14, <1>15 DEF text, c

LEMMA ContainerRead ==
  ASSUME NEW d, ListsOK(d)
  PROVE  LET text == wizardToQuadlet(d)
             c    == d.container
         IN  /\ Value(text, "Container", "Image", "") = c.image
             /\ Value(text, "Container", "Exec", "") = c.exec
             /\ Value(text, "Container", "User", "") = c.user
             /\ Value(text, "Container", "Group", "") = c.group
             /\ Value(text, "Container", "HostName", "") = c.hostName
             /\ Value(text, "Container", "Network", "") = c.network
<1> DEFINE text == wizardToQuadlet(d)
           c == d.container
           none == ""
<1>1. /\ IsSeq(text)
      /\ \A l : l.key \in {"Image", "Exec"} =>
                  (Has(text, l) /\ l.sec = "Container" <=> Has(ImageText(c), l))
      /\ \A l : l.key \in {"User", "Group", "HostName", "Network"} =>
                  (Has(text, l) /\ l.sec = "Container" <=> Has(NetworkText(c), l))
  BY ContainerLines
<1>2. \A l : Has(ImageText(c), l) <=> \/ c.image # none /\ l = Line("Container", "Image", c.image)
                                      \/ c.exec # none /\ l = Line("Container", "Exec", c.exec)
  BY ImageFacts
<1>3. \A l : Has(NetworkText(c), l) <=>
        \/ c.user # none /\ l = Line("Container", "User", c.user)
        \/ c.group # none /\ l = Line("Container", "Group", c.group)
        \/ c.hostName # none /\ l = Line("Container", "HostName", c.hostName)
        \/ c.network # none /\ l = Line("Container", "Network", c.network)
  BY NetworkFacts
<1> HIDE DEF text, c, none
<1>4. IsSeq(text)
  BY <1>1
<1>5. Value(text, "Container", "Image", none) = c.image
  <2>1. \A l : Has(text, l) /\ l.sec = "Container" /\ l.key = "Image" <=>
                 c.image # none /\ l = Line("Container", "Image", c.image)
    <3>1. \A l : Has(ImageText(c), l) /\ l.key = "Image" <=>
                   c.image # none /\ l = Line("Container", "Image", c.image)
      BY <1>2 DEF Line
    <3>2. \A l : l.key = "Image" =>
                   (Has(text, l) /\ l.sec = "Container" <=> Has(ImageText(c), l))
      BY <1>1
    <3> QED
      BY <3>1, <3>2
  <2> QED
    BY <2>1, <1>4, ValueUnless
<1>6. Value(text, "Container", "Exec", none) = c.exec
  <2>1. \A l : Has(text, l) /\ l.sec = "Container" /\ l.key = "Exec" <=>
                 c.exec # none /\ l = Line("Container", "Exec", c.exec)
    <3>1. \A l : Has(ImageText(c), l) /\ l.key = "Exec" <=>
                   c.exec # none /\ l = Line("Container", "Exec", c.exec)
      BY <1>2 DEF Line
    <3>2. \A l : l.key = "Exec" =>
                   (Has(text, l) /\ l.sec = "Container" <=> Has(ImageText(c), l))
      BY <1>1
    <3> QED
      BY <3>1, <3>2
  <2> QED
    BY <2>1, <1>4, ValueUnless
<1>7. Value(text, "Container", "User", none) = c.user
  <2>1. \A l : Has(text, l) /\ l.sec = "Container" /\ l.key = "User" <=>
                 c.user # none /\ l = Line("Container", "User", c.user)
    <3>1. \A l : Has(NetworkText(c), l) /\ l.key = "User" <=>
                   c.user # none /\ l = Line("Container", "User", c.user)
      BY <1>3 DEF Line
    <3>2. \A l : l.key = "User" =>
                   (Has(text, l) /\ l.sec = "Container" <=> Has(NetworkText(c), l))
      BY <1>1
    <3> QED
      BY <3>1, <3>2
  <2> QED
    BY <2>1, <1>4, ValueUnless
<1>8. Value(text, "Container", "Group", none) = c.group
  <2>1. \A l : Has(text, l) /\ l.sec = "Container" /\ l.key = "Group" <=>
                 c.group # none /\ l = Line("Container", "Group", c.group)
    <3>1. \A l : Has(NetworkText(c), l) /\ l.key = "Group" <=>
                   c.group # none /\ l = Line("Container", "Group", c.group)
      BY <1>3 DEF Line
    <3>2. \A l : l.key = "Group" =>
                   (Has(text, l) /\ l.sec = "Container" <=> Has(NetworkText(c), l))
      BY <1>1
    <3> QED
      BY <3>1, <3>2
  <2> QED
    BY <2>1, <1>4, ValueUnless
<1>9. Value(text, "Container", "HostName", none) = c.hostName
  <2>1. \A l : Has(text, l) /\ l.sec = "Container" /\ l.key = "HostName" <=>
                 c.hostName # none /\ l = Line("Container", "HostName", c.hostName)
    <3>1. \A l : Has(NetworkText(c), l) /\ l.key = "HostName" <=>
                   c.hostName # none /\ l = Line("Container", "HostName", c.hostName)
      BY <1>3 DEF Line
    <3>2. \A l : l.key = "HostName" =>
                   (Has(text, l) /\ l.sec = "Container" <=> Has(NetworkText(c), l))
      BY <1>1
    <3> QED
      BY <3>1, <3>2
  <2> QED
    BY <2>1, <1>4, ValueUnless
<1>10. Value(text, "Container", "Network", none) = c.network
  <2>1. \A l : Has(text, l) /\ l.sec = "Container" /\ l.key = "Network" <=>
                 c.network # none /\ l = Line("Container", "Network", c.network)
    <3>1. \A l : Has(NetworkText(c), l) /\ l.key = "Network" <=>
                   c.network # none /\ l = Line("Container", "Network", c.network)
      BY <1>3 DEF Line
    <3>2. \A l : l.key = "Network" =>
                   (Has(text, l) /\ l.sec = "Container" <=> Has(NetworkText(c), l))
      BY <1>1
    <3> QED
      BY <3>1, <3>2
  <2> QED
    BY <2>1, <1>4, ValueUnless
<1> QED
  BY <1>5, <1>6, <1>7, <1>8, <1>9, <1>10 DEF text, c, none

\* The health check is read as it was, when it is written at all.
LEMMA HealthRead ==
  ASSUME NEW d, ListsOK(d), ~ PutBack(d)
  PROVE  HealthText(HealthOf(wizardToQuadlet(d))) = HealthText(d.container.healthCheck)
<1> DEFINE text == wizardToQuadlet(d)
           h == d.container.healthCheck
           none == ""
           zero == 0
           ten == "10s"
           three == 3
           sixty == "60s"
           five == "5s"
           r == HealthOf(text)
<1>1. /\ IsSeq(text)
      /\ \A l : l.key \in {"HealthCmd", "HealthInterval", "HealthRetries", "HealthStartPeriod",
                           "HealthTimeout"} =>
                  (Has(text, l) /\ l.sec = "Container" <=> Has(HealthText(h), l))
  BY ContainerLines
<1>2. \A l : Has(HealthText(h), l) <=>
        /\ h.enabled /\ h.cmd # none
        /\ \/ l = Line("Container", "HealthCmd", h.cmd)
           \/ h.interval # none /\ l = Line("Container", "HealthInterval", h.interval)
           \/ h.retries # zero /\ l = Line("Container", "HealthRetries", h.retries)
           \/ h.startPeriod # none /\ l = Line("Container", "HealthStartPeriod", h.startPeriod)
           \/ h.timeout # none /\ l = Line("Container", "HealthTimeout", h.timeout)
  BY HealthFacts
<1>3. h.enabled /\ h.cmd # none => /\ h.interval # none /\ h.retries # zero
                                 /\ h.startPeriod # none /\ h.timeout # none
  BY DEF PutBack
<1>4. /\ r.enabled <=> Places(text, "Container", "HealthCmd") # {}
      /\ r.cmd = Value(text, "Container", "HealthCmd", none)
      /\ r.interval = Value(text, "Container", "HealthInterval", ten)
      /\ Value(text, "Container", "HealthRetries", three) # zero =>
           r.retries = Value(text, "Container", "HealthRetries", three)
      /\ r.startPeriod = Value(text, "Container", "HealthStartPeriod", sixty)
      /\ r.timeout = Value(text, "Container", "HealthTimeout", five)
  BY DEF HealthOf
<1> HIDE DEF text, h, r, none, zero, ten, three, sixty, five
<1>5. CASE h.enabled /\ h.cmd # none
  <2>1. \A l : Has(text, l) /\ l.sec = "Container" /\ l.key = "HealthCmd" <=>
                 l = Line("Container", "HealthCmd", h.cmd)
    <3>1. \A l : Has(HealthText(h), l) /\ l.key = "HealthCmd" <=>
                   l = Line("Container", "HealthCmd", h.cmd)
      BY <1>2, <1>3, <1>5 DEF Line
    <3>2. \A l : l.key = "HealthCmd" =>
                   (Has(text, l) /\ l.sec = "Container" <=> Has(HealthText(h), l))
      BY <1>1
    <3> QED
      BY <3>1, <3>2
  <2>2. \A l : Has(text, l) /\ l.sec = "Container" /\ l.key = "HealthInterval" <=>
                 l = Line("Container", "HealthInterval", h.interval)
    <3>1. \A l : Has(HealthText(h), l) /\ l.key = "HealthInterval" <=>
                   l = Line("Container", "HealthInterval", h.interval)
      BY <1>2, <1>3, <1>5 DEF Line
    <3>2. \A l : l.key = "HealthInterval" =>
                   (Has(text, l) /\ l.sec = "Container" <=> Has(HealthText(h), l))
      BY <1>1
    <3> QED
      BY <3>1, <3>2
  <2>3. \A l : Has(text, l) /\ l.sec = "Container" /\ l.key = "HealthRetries" <=>
                 l = Line("Container", "HealthRetries", h.retries)
    <3>1. \A l : Has(HealthText(h), l) /\ l.key = "HealthRetries" <=>
                   l = Line("Container", "HealthRetries", h.retries)
      BY <1>2, <1>3, <1>5 DEF Line
    <3>2. \A l : l.key = "HealthRetries" =>
                   (Has(text, l) /\ l.sec = "Container" <=> Has(HealthText(h), l))
      BY <1>1
    <3> QED
      BY <3>1, <3>2
  <2>4. \A l : Has(text, l) /\ l.sec = "Container" /\ l.key = "HealthStartPeriod" <=>
                 l = Line("Container", "HealthStartPeriod", h.startPeriod)
    <3>1. \A l : Has(HealthText(h), l) /\ l.key = "HealthStartPeriod" <=>
                   l = Line("Container", "HealthStartPeriod", h.startPeriod)
      BY <1>2, <1>3, <1>5 DEF Line
    <3>2. \A l : l.key = "HealthStartPeriod" =>
                   (Has(text, l) /\ l.sec = "Container" <=> Has(HealthText(h), l))
      BY <1>1
    <3> QED
      BY <3>1, <3>2
  <2>5. \A l : Has(text, l) /\ l.sec = "Container" /\ l.key = "HealthTimeout" <=>
                 l = Line("Container", "HealthTimeout", h.timeout)
    <3>1. \A l : Has(HealthText(h), l) /\ l.key = "HealthTimeout" <=>
                   l = Line("Container", "HealthTimeout", h.timeout)
      BY <1>2, <1>3, <1>5 DEF Line
    <3>2. \A l : l.key = "HealthTimeout" =>
                   (Has(text, l) /\ l.sec = "Container" <=> Has(HealthText(h), l))
      BY <1>1
    <3> QED
      BY <3>1, <3>2
  <2>6. ASSUME NEW key, NEW v, NEW default,
               \A l : Has(text, l) /\ l.sec = "Container" /\ l.key = key <=>
                        l = Line("Container", key, v)
        PROVE  Value(text, "Container", key, default) = v /\ Places(text, "Container", key) # {}
    BY <2>6, <1>1, ValueOne
  <2>7. r.enabled /\ r.cmd = h.cmd
    <3>1. Value(text, "Container", "HealthCmd", none) = h.cmd /\ Places(text, "Container", "HealthCmd") # {}
      BY <2>1, <2>6
    <3> QED
      BY <3>1, <1>4
  <2>8. r.interval = h.interval
    <3>1. Value(text, "Container", "HealthInterval", ten) = h.interval
      BY <2>2, <2>6
    <3> QED
      BY <3>1, <1>4
  <2>9. r.retries = h.retries
    <3>1. Value(text, "Container", "HealthRetries", three) = h.retries
      BY <2>3, <2>6
    <3> QED
      BY <3>1, <1>3, <1>4, <1>5 DEF zero
  <2>10. r.startPeriod = h.startPeriod
    <3>1. Value(text, "Container", "HealthStartPeriod", sixty) = h.startPeriod
      BY <2>4, <2>6
    <3> QED
      BY <3>1, <1>4
  <2>11. r.timeout = h.timeout
    <3>1. Value(text, "Container", "HealthTimeout", five) = h.timeout
      BY <2>5, <2>6
    <3> QED
      BY <3>1, <1>4
  <2>12. HealthText(r) = HealthText(h)
    BY <2>7, <2>8, <2>9, <2>10, <2>11, <1>5 DEF HealthText, none
  <2> QED
    BY <2>12 DEF text, h, r
<1>6. CASE ~ (h.enabled /\ h.cmd # none)
  <2>1. \A l : ~ Has(HealthText(h), l)
    BY <1>2, <1>6
  <2>2. Lacks(text, "Container", "HealthCmd")
    BY <2>1, <1>1 DEF Lacks
  <2>3. ~ r.enabled
    BY <2>2, <1>4, NoPlaces
  <2>4. HealthText(r) = <<>> /\ HealthText(h) = <<>>
    BY <2>3, <1>6 DEF HealthText, none
  <2> QED
    BY <2>4 DEF text, h, r
<1> QED
  BY <1>5, <1>6

\* An assigned key has the value of the last of its places.
LEMMA AssignedLast ==
  ASSUME NEW text, IsSeq(text), NEW at \in SUBSET (DOMAIN text), at # {}, NEW default
  PROVE  \E i \in at : Assigned(text, at, default) = text[i].val /\ \A j \in at : j <= i
<1>1. Len(text) \in Nat /\ DOMAIN text = 1 .. Len(text)
  BY SeqFacts
<1>2. Max(at) \in at /\ \A j \in at : j <= Max(at)
  BY <1>1, LastPlace
<1> QED
  BY <1>2 DEF Assigned

LEMMA HeldPlaces ==
  ASSUME NEW text, NEW m, NEW sec, NEW key, IsSeq(text), IsSeq(m), Holds(text, sec, key, m)
  PROVE  \A i \in Places(text, sec, key) : \E n \in DOMAIN m : text[i] = m[n]
<1>1. Len(m) \in Nat /\ DOMAIN m = 1 .. Len(m)
  BY SeqFacts
<1>2. PICK o \in Nat : /\ o + Len(m) <= Len(text)
                       /\ \A i \in 1 .. Len(m) : text[o + i] = m[i]
                       /\ Places(text, sec, key) = o + 1 .. o + Len(m)
  BY DEF Holds
<1>3. ASSUME NEW i \in Places(text, sec, key)
      PROVE  \E n \in DOMAIN m : text[i] = m[n]
  <2>1. i - o \in 1 .. Len(m) /\ o + (i - o) = i
    BY <1>1, <1>2
  <2> QED
    BY <2>1, <1>1, <1>2
<1> QED
  BY <1>3

LEMMA FormLists ==
  ASSUME NEW d, FormOK(d)
  PROVE  ListsOK(d)
  BY DEF FormOK, ContainerOK, ServiceOK, ListsOK

\* Auto-update is read as it was, unless one of the form's own labels turns it on.
LEMMA AutoUpdateRead ==
  ASSUME NEW d, FormOK(d), ~ PutBack(d)
  PROVE  AutoUpdateOf(wizardToQuadlet(d)) = d.container.autoUpdate
<1> DEFINE text == wizardToQuadlet(d)
           c == d.container
           none == ""
           registry == "registry"
           local == "local"
           label == AutoUpdateLabel
<1>1. /\ IsSeq(text)
      /\ \A l : l.key = "AutoUpdate" =>
                  (Has(text, l) /\ l.sec = "Container" <=> Has(AutoUpdateText(c), l))
      /\ \A l : l.key = "Label" =>
                  (Has(text, l) /\ l.sec = "Container" <=>
                     Has(LabelText(c), l) \/ Has(AutoUpdateText(c), l))
  BY ContainerLines, FormLists
<1>2. \A l : Has(AutoUpdateText(c), l) <=>
        \/ c.autoUpdate # none /\ l = Line("Container", "AutoUpdate", c.autoUpdate)
        \/ c.autoUpdate = registry /\ l = Line("Container", "Label", label)
  BY AutoUpdateFacts
<1>3. \A l : Has(LabelText(c), l) <=>
               \E k \in DOMAIN c.labels : l = Line("Container", "Label", <<k, c.labels[k]>>)
  BY LabelFacts DEF FormOK, ContainerOK, ServiceOK
<1>4. \A k \in DOMAIN c.labels : <<k, c.labels[k]>> # label
  BY DEF PutBack, AutoUpdateLabel
<1>5. c.autoUpdate \in {none, registry, local}
  BY DEF FormOK, ContainerOK, ServiceOK
<1> HIDE DEF text, c, none, registry, local, label
<1>6. \A l : Has(AutoUpdateText(c), l) /\ l.key = "AutoUpdate" =>
                l.val = c.autoUpdate /\ c.autoUpdate # none
  BY <1>2 DEF Line
<1>7. \A l : (Has(LabelText(c), l) \/ Has(AutoUpdateText(c), l)) /\ l.key = "Label" /\ l.val = label
                => c.autoUpdate = registry
  BY <1>2, <1>3, <1>4 DEF Line
<1> DEFINE byKey   == {i \in Places(text, "Container", "AutoUpdate") :
                         text[i].val \in {registry, local}}
           byLabel == {i \in Places(text, "Container", "Label") : text[i].val = label}
           on      == byKey \cup byLabel
<1>8. AutoUpdateOf(text) =
        IF on = {} THEN none ELSE IF Max(on) \in byKey THEN text[Max(on)].val ELSE registry
  BY DEF AutoUpdateOf, none, registry, local, label
<1>9. on \in SUBSET (DOMAIN text)
  BY DEF Places
<1>10. \A i \in byKey : text[i].val = c.autoUpdate /\ c.autoUpdate # none
  <2>1. ASSUME NEW i \in byKey
        PROVE  text[i].val = c.autoUpdate /\ c.autoUpdate # none
    <3>1. Has(text, text[i]) /\ text[i].sec = "Container" /\ text[i].key = "AutoUpdate"
      BY DEF Has, Places
    <3>2. Has(AutoUpdateText(c), text[i])
      BY <3>1, <1>1
    <3> QED
      BY <3>1, <3>2, <1>6
  <2> QED
    BY <2>1
<1>11. byLabel # {} => c.autoUpdate = registry
  <2>1. ASSUME NEW i \in byLabel
        PROVE  c.autoUpdate = registry
    <3>1. /\ Has(text, text[i]) /\ text[i].sec = "Container" /\ text[i].key = "Label"
          /\ text[i].val = label
      BY DEF Has, Places
    <3>2. Has(LabelText(c), text[i]) \/ Has(AutoUpdateText(c), text[i])
      BY <3>1, <1>1
    <3> QED
      BY <3>1, <3>2, <1>7
  <2> QED
    BY <2>1
<1>12. c.autoUpdate # none => byKey # {}
  <2>1. SUFFICES ASSUME c.autoUpdate # none PROVE byKey # {}
    OBVIOUS
  <2> DEFINE l == Line("Container", "AutoUpdate", c.autoUpdate)
  <2>2. l.sec = "Container" /\ l.key = "AutoUpdate" /\ l.val = c.autoUpdate
    BY DEF Line
  <2>3. Has(AutoUpdateText(c), l)
    BY <2>1, <1>2
  <2> HIDE DEF l
  <2>4. Has(text, l)
    BY <2>2, <2>3, <1>1
  <2>5. PICK i \in DOMAIN text : text[i] = l
    BY <2>4 DEF Has
  <2>6. l.val \in {registry, local}
    BY <2>1, <2>2, <1>5
  <2>7. i \in byKey
    BY <2>2, <2>5, <2>6 DEF Places
  <2> QED
    BY <2>7
<1> HIDE DEF byKey, byLabel
<1>13. CASE on = {}
  BY <1>8, <1>12, <1>13 DEF text, c
<1>14. CASE on # {}
  <2>1. Len(text) \in Nat /\ DOMAIN text = 1 .. Len(text)
    BY <1>1, SeqFacts
  <2> HIDE DEF on
  <2>2. Max(on) \in on
    BY <2>1, <1>9, <1>14, LastPlace
  <2>3. Max(on) \in byKey \/ byLabel # {}
    BY <2>2 DEF on
  <2>4. CASE Max(on) \in byKey
    BY <2>4, <1>8, <1>10, <1>14 DEF text, c
  <2>5. CASE Max(on) \notin byKey
    BY <2>3, <2>5, <1>8, <1>11, <1>14 DEF text, c
  <2> QED
    BY <2>4, <2>5
<1> QED
  BY <1>13, <1>14

\* So are the labels.
LEMMA LabelRead ==
  ASSUME NEW d, ListsOK(d), ~ PutBack(d)
  PROVE  LET labels == LabelsOf(wizardToQuadlet(d))
         IN  /\ DOMAIN labels = DOMAIN d.container.labels
             /\ \A k \in DOMAIN labels : labels[k] = d.container.labels[k]
<1> DEFINE text == wizardToQuadlet(d)
           c == d.container
           at == LabelPlaces(text)
           of(k) == {i \in at : text[i].val[1] = k}
           D == {text[i].val[1] : i \in at}
<1>1. /\ IsSeq(text)
      /\ \A l : l.key = "Label" =>
                  (Has(text, l) /\ l.sec = "Container" <=>
                     Has(LabelText(c), l) \/ Has(AutoUpdateText(c), l))
  BY ContainerLines
<1>2. \A l : Has(AutoUpdateText(c), l) => \/ l = Line("Container", "AutoUpdate", c.autoUpdate)
                                          \/ l = Line("Container", "Label", AutoUpdateLabel)
  BY AutoUpdateFacts
<1>3. \A l : Has(LabelText(c), l) <=>
               \E k \in DOMAIN c.labels : l = Line("Container", "Label", <<k, c.labels[k]>>)
  BY LabelFacts DEF ListsOK
<1>4. \A k \in DOMAIN c.labels : <<k, c.labels[k]>> # AutoUpdateLabel
  BY DEF PutBack, AutoUpdateLabel
<1>5. LabelsOf(text) = [k \in D |-> Assigned(text, of(k), <<k, "">>)[2]]
  BY DEF LabelsOf
<1>6. at \in SUBSET (DOMAIN text)
  BY DEF LabelPlaces, Places
<1> HIDE DEF text, c
<1>7. ASSUME NEW i \in at
      PROVE  \E k \in DOMAIN c.labels : text[i].val = <<k, c.labels[k]>>
  <2>1. /\ Has(text, text[i]) /\ text[i].sec = "Container" /\ text[i].key = "Label"
        /\ text[i].val # AutoUpdateLabel
    BY DEF Has, Places, LabelPlaces
  <2>2. Has(LabelText(c), text[i]) \/ Has(AutoUpdateText(c), text[i])
    BY <2>1, <1>1
  <2>3. ~ Has(AutoUpdateText(c), text[i])
    BY <2>1, <1>2, LineFields
  <2>4. PICK k \in DOMAIN c.labels : text[i] = Line("Container", "Label", <<k, c.labels[k]>>)
    BY <2>2, <2>3, <1>3
  <2> QED
    BY <2>4, LineFields
<1>8. ASSUME NEW k \in DOMAIN c.labels
      PROVE  \E i \in at : text[i].val = <<k, c.labels[k]>>
  <2> DEFINE v == <<k, c.labels[k]>>
             l == Line("Container", "Label", v)
  <2>1. l.sec = "Container" /\ l.key = "Label" /\ l.val = v
    BY LineFields
  <2>2. Has(LabelText(c), l)
    BY <1>3
  <2> HIDE DEF l
  <2>3. Has(text, l)
    BY <2>1, <2>2, <1>1
  <2>4. PICK i \in DOMAIN text : text[i] = l
    BY <2>3 DEF Has
  <2>5. hasTwoParts(v) /\ v # AutoUpdateLabel
    BY <1>4 DEF hasTwoParts
  <2> HIDE DEF v
  <2>6. i \in at
    BY <2>1, <2>4, <2>5 DEF LabelPlaces, Places
  <2> QED
    BY <2>1, <2>4, <2>6 DEF v
<1> HIDE DEF at
<1>9. D = DOMAIN c.labels
  <2>1. ASSUME NEW x \in D
        PROVE  x \in DOMAIN c.labels
    BY <1>7
  <2>2. ASSUME NEW k \in DOMAIN c.labels
        PROVE  k \in D
    <3>1. PICK i \in at : text[i].val = <<k, c.labels[k]>>
      BY <1>8
    <3> QED
      BY <3>1
  <2> QED
    BY <2>1, <2>2
<1>10. ASSUME NEW k \in D
       PROVE  Assigned(text, of(k), <<k, "">>)[2] = c.labels[k]
  <2>1. of(k) \in SUBSET (DOMAIN text) /\ of(k) # {}
    BY <1>6
  <2>2. PICK i \in of(k) : Assigned(text, of(k), <<k, "">>) = text[i].val
    BY <2>1, <1>1, AssignedLast
  <2>3. PICK h \in DOMAIN c.labels : text[i].val = <<h, c.labels[h]>>
    BY <1>7
  <2>4. h = k
    BY <2>3
  <2>5. text[i].val[2] = c.labels[h]
    BY <2>3
  <2> QED
    BY <2>2, <2>4, <2>5
<1> HIDE DEF D, of
<1> QED
  BY <1>5, <1>9, <1>10 DEF text, c

\* The lists of the container's section are read as they were.
LEMMA PortsRead ==
  ASSUME NEW d, FormOK(d), NEW e, e.ports = PortsOf(wizardToQuadlet(d))
  PROVE  PortText(e) = PortText(d.container)
<1> DEFINE text == wizardToQuadlet(d)
           c == d.container
           m == PortText(c)
<1>1. /\ IsSeq(m) /\ DOMAIN m = DOMAIN c.ports
      /\ \A i \in DOMAIN c.ports :
           m[i] = Line("Container", "PublishPort",
                       [parts |-> <<c.ports[i].hostPort, c.ports[i].containerPort>>,
                        proto |-> c.ports[i].protocol])
  BY PortFacts DEF FormOK, ContainerOK, ServiceOK
<1>2. IsSeq(text) /\ Holds(text, "Container", "PublishPort", m)
  BY WrittenFacts, FormLists
<1>3. Pick(text, Places(text, "Container", "PublishPort")) = m
  BY <1>1, <1>2, HeldLines
<1>4. e.ports = [i \in DOMAIN m |-> parsePort(m[i].val)]
  BY <1>3 DEF PortsOf
<1>5. \A i \in DOMAIN c.ports : protocolOf(c.ports[i].protocol) = c.ports[i].protocol
  BY DEF FormOK, ContainerOK, ServiceOK, protocolOf
<1> HIDE DEF text, c, m
<1>6. ASSUME NEW i \in DOMAIN c.ports
      PROVE  /\ e.ports[i].hostPort = c.ports[i].hostPort
             /\ e.ports[i].containerPort = c.ports[i].containerPort
             /\ e.ports[i].protocol = c.ports[i].protocol
  <2> DEFINE v == [parts |-> <<c.ports[i].hostPort, c.ports[i].containerPort>>,
                   proto |-> c.ports[i].protocol]
  <2>1. m[i].val = v
    BY <1>1, LineFields
  <2>2. e.ports[i] = parsePort(v)
    BY <2>1, <1>1, <1>4
  <2> QED
    BY <2>2, <1>5 DEF parsePort
<1>7. DOMAIN e.ports = DOMAIN c.ports
  BY <1>1, <1>4
<1>8. PortText(e) = PortText(c)
  BY <1>6, <1>7 DEF PortText, Lines
<1> QED
  BY <1>8 DEF c

LEMMA VolumesRead ==
  ASSUME NEW d, FormOK(d), NEW e, e.volumes = VolumesOf(wizardToQuadlet(d))
  PROVE  VolumeText(e) = VolumeText(d.container)
<1> DEFINE text == wizardToQuadlet(d)
           c == d.container
           m == VolumeText(c)
           at == Places(text, "Container", "Volume")
<1>1. /\ IsSeq(m) /\ DOMAIN m = DOMAIN c.volumes
      /\ \A i \in DOMAIN c.volumes :
           m[i] = Line("Container", "Volume",
                       <<c.volumes[i].hostPath, c.volumes[i].containerPath, c.volumes[i].mode>>)
  BY VolumeFacts DEF FormOK, ContainerOK, ServiceOK
<1>2. IsSeq(text) /\ Holds(text, "Container", "Volume", m)
  BY WrittenFacts, FormLists
<1>3. Pick(text, at) = m
  BY <1>1, <1>2, HeldLines
<1>4. \A i \in at : \E n \in DOMAIN m : text[i] = m[n]
  BY <1>1, <1>2, HeldPlaces
<1>5. VolumesOf(text) =
        LET own == Pick(text, {i \in at : hasTwoParts(text[i].val)})
        IN  [i \in DOMAIN own |-> parseVolume(own[i].val)]
  BY DEF VolumesOf
<1>6. \A i \in DOMAIN c.volumes :
        (IF c.volumes[i].mode = "ro" THEN "ro" ELSE "rw") = c.volumes[i].mode
  BY DEF FormOK, ContainerOK, ServiceOK
<1> HIDE DEF text, c, m, at
<1>7. ASSUME NEW i \in DOMAIN c.volumes
      PROVE  /\ hasTwoParts(m[i].val)
             /\ parseVolume(m[i].val).hostPath = c.volumes[i].hostPath
             /\ parseVolume(m[i].val).containerPath = c.volumes[i].containerPath
             /\ parseVolume(m[i].val).mode = c.volumes[i].mode
  <2> DEFINE v == <<c.volumes[i].hostPath, c.volumes[i].containerPath, c.volumes[i].mode>>
  <2>1. m[i] = Line("Container", "Volume", v)
    BY <1>1
  <2>2. Len(v) = 3 /\ v[1] = c.volumes[i].hostPath /\ v[2] = c.volumes[i].containerPath
        /\ v[3] = c.volumes[i].mode
    OBVIOUS
  <2> HIDE DEF v
  <2>3. m[i].val = v
    BY <2>1, LineFields
  <2>4. (IF v[3] = "ro" THEN "ro" ELSE "rw") = v[3]
    BY <2>2, <1>6
  <2>5. hasTwoParts(v)
    BY <2>2 DEF hasTwoParts
  <2>6. parseVolume(v).hostPath = v[1] /\ parseVolume(v).containerPath = v[2]
    BY DEF parseVolume
  <2>7. parseVolume(v).mode = v[3]
    BY <2>2, <2>4 DEF parseVolume
  <2> QED
    BY <2>2, <2>3, <2>5, <2>6, <2>7
<1>8. {i \in at : hasTwoParts(text[i].val)} = at
  <2>1. \A i \in at : hasTwoParts(text[i].val)
    BY <1>1, <1>4, <1>7
  <2> QED
    BY <2>1
<1>9. VolumesOf(text) = [i \in DOMAIN m |-> parseVolume(m[i].val)]
  BY <1>3, <1>5, <1>8
<1>10. e.volumes = VolumesOf(text)
  BY DEF text
<1>11. DOMAIN e.volumes = DOMAIN c.volumes
  BY <1>1, <1>9, <1>10
<1>12. \A i \in DOMAIN c.volumes : e.volumes[i] = parseVolume(m[i].val)
  BY <1>1, <1>9, <1>10
<1>13. VolumeText(e) = VolumeText(c)
  BY <1>7, <1>11, <1>12 DEF VolumeText, Lines
<1> QED
  BY <1>13 DEF c

LEMMA EnvRead ==
  ASSUME NEW d, FormOK(d), NEW e, e.env = EnvOf(wizardToQuadlet(d))
  PROVE  EnvText(e) = EnvText(d.container)
<1> DEFINE text == wizardToQuadlet(d)
           c == d.container
           m == EnvText(c)
           at == Places(text, "Container", "Environment")
<1>1. /\ IsSeq(m) /\ DOMAIN m = DOMAIN c.env
      /\ \A i \in DOMAIN c.env :
           m[i] = Line("Container", "Environment", <<c.env[i].key, c.env[i].value>>)
  BY EnvFacts DEF FormOK, ContainerOK, ServiceOK
<1>2. IsSeq(text) /\ Holds(text, "Container", "Environment", m)
  BY WrittenFacts, FormLists
<1>3. Pick(text, at) = m
  BY <1>1, <1>2, HeldLines
<1>4. \A i \in at : \E n \in DOMAIN m : text[i] = m[n]
  BY <1>1, <1>2, HeldPlaces
<1>5. EnvOf(text) =
        LET own == Pick(text, {i \in at : hasTwoParts(text[i].val)})
        IN  [i \in DOMAIN own |-> KeyValue(own[i].val)]
  BY DEF EnvOf
<1> HIDE DEF text, c, m, at
<1>6. ASSUME NEW i \in DOMAIN c.env
      PROVE  /\ hasTwoParts(m[i].val)
             /\ KeyValue(m[i].val).key = c.env[i].key
             /\ KeyValue(m[i].val).value = c.env[i].value
  <2> DEFINE v == <<c.env[i].key, c.env[i].value>>
  <2>1. m[i] = Line("Container", "Environment", v)
    BY <1>1
  <2>2. Len(v) = 2 /\ v[1] = c.env[i].key /\ v[2] = c.env[i].value
    OBVIOUS
  <2> HIDE DEF v
  <2>3. m[i].val = v
    BY <2>1, LineFields
  <2>4. hasTwoParts(v)
    BY <2>2 DEF hasTwoParts
  <2>5. KeyValue(v).key = v[1] /\ KeyValue(v).value = v[2]
    BY DEF KeyValue
  <2> QED
    BY <2>2, <2>3, <2>4, <2>5
<1>7. {i \in at : hasTwoParts(text[i].val)} = at
  <2>1. \A i \in at : hasTwoParts(text[i].val)
    BY <1>1, <1>4, <1>6
  <2> QED
    BY <2>1
<1>8. EnvOf(text) = [i \in DOMAIN m |-> KeyValue(m[i].val)]
  BY <1>3, <1>5, <1>7
<1>9. e.env = EnvOf(text)
  BY DEF text
<1>10. DOMAIN e.env = DOMAIN c.env
  BY <1>1, <1>8, <1>9
<1>11. \A i \in DOMAIN c.env : e.env[i] = KeyValue(m[i].val)
  BY <1>1, <1>8, <1>9
<1>12. EnvText(e) = EnvText(c)
  BY <1>6, <1>10, <1>11 DEF EnvText, Lines
<1> QED
  BY <1>12 DEF c

\* The waits stand before the scripts, and each are read as they were: only the form's own
\* loop is read as a wait, and it waits for no mount point.
LEMMA WaitsRead ==
  ASSUME NEW d, FormOK(d), ~ PutBack(d), NEW e,
         e.waitForPaths = WaitsOf(wizardToQuadlet(d)),
         e.execStartPre = ScriptsOf(wizardToQuadlet(d))
  PROVE  /\ WaitText(e) = WaitText(d.service)
         /\ Lines("Service", "ExecStartPre", e.execStartPre)
              = Lines("Service", "ExecStartPre", d.service.execStartPre)
<1> DEFINE text == wizardToQuadlet(d)
           s == d.service
           w == WaitText(s)
           p == Lines("Service", "ExecStartPre", s.execStartPre)
           at == Places(text, "Service", "ExecStartPre")
           script == "script"
           dir == "dir"
           mount == "mount"
<1>1. /\ IsSeq(w) /\ DOMAIN w = DOMAIN s.waitForPaths
      /\ \A i \in DOMAIN s.waitForPaths :
           w[i] = Line("Service", "ExecStartPre",
                       <<IF s.waitForPaths[i].strict THEN "mount" ELSE "dir",
                         s.waitForPaths[i].path>>)
  BY WaitFacts DEF FormOK, ContainerOK, ServiceOK
<1>2. /\ IsSeq(p) /\ DOMAIN p = DOMAIN s.execStartPre
      /\ \A i \in DOMAIN s.execStartPre :
           p[i] = Line("Service", "ExecStartPre", s.execStartPre[i])
  <2>1. IsSeq(s.execStartPre)
    BY DEF FormOK, ContainerOK, ServiceOK
  <2> HIDE DEF s
  <2> QED
    BY <2>1, LinesFacts
<1>3. IsSeq(text) /\ IsSeq(w \o p) /\ Holds(text, "Service", "ExecStartPre", w \o p)
  <2>1. IsSeq(text) /\ Holds(text, "Service", "ExecStartPre", PreText(s))
    BY WrittenFacts, FormLists
  <2> QED
    BY <2>1, <1>1, <1>2, Concat DEF PreText
<1>4. /\ \A i \in DOMAIN s.waitForPaths : ~ s.waitForPaths[i].strict
      /\ \A i \in DOMAIN s.execStartPre : s.execStartPre[i][1] = script
  BY DEF PutBack
<1>5. /\ e.waitForPaths =
           LET own == Pick(text, {i \in at : text[i].val[1] # script})
           IN  [i \in DOMAIN own |-> [path |-> pathOf(own[i].val), strict |-> own[i].val[1] = mount]]
      /\ e.execStartPre =
           LET own == Pick(text, {i \in at : text[i].val[1] = script})
           IN  [i \in DOMAIN own |-> own[i].val]
  BY DEF WaitsOf, ScriptsOf
<1>6. dir # script /\ mount # script /\ dir # mount
  OBVIOUS
<1>7. \A path : pathOf(<<dir, path>>) = path
  BY DEF pathOf
<1>8. \A i \in DOMAIN s.waitForPaths :
        w[i] = Line("Service", "ExecStartPre", <<dir, s.waitForPaths[i].path>>)
  BY <1>1, <1>4
<1> HIDE DEF text, s, w, p, at, script, dir, mount
<1>9. /\ Len(w) \in Nat /\ DOMAIN w = 1 .. Len(w)
      /\ Len(p) \in Nat /\ DOMAIN p = 1 .. Len(p)
      /\ Len(text) \in Nat
  BY <1>1, <1>2, <1>3, SeqFacts
<1>10. /\ Len(w \o p) = Len(w) + Len(p)
       /\ \A i \in 1 .. Len(w) : (w \o p)[i] = w[i]
       /\ \A i \in 1 .. Len(p) : (w \o p)[Len(w) + i] = p[i]
  BY <1>1, <1>2, Concat
<1>11. PICK o \in Nat : /\ o + Len(w \o p) <= Len(text)
                        /\ \A i \in 1 .. Len(w \o p) : text[o + i] = (w \o p)[i]
                        /\ at = o + 1 .. o + Len(w \o p)
  BY <1>3 DEF Holds, at
<1> DEFINE q == o + Len(w)
<1>12. q = o + Len(w) /\ q \in Nat /\ q + Len(p) <= Len(text) /\ at = o + 1 .. q + Len(p)
  BY <1>9, <1>10, <1>11
<1>13. \A i \in 1 .. Len(w) : text[o + i] = w[i]
  BY <1>9, <1>10, <1>11
<1>14. ASSUME NEW i \in 1 .. Len(p)
       PROVE  text[q + i] = p[i]
  <2>1. Len(w) + i \in 1 .. Len(w \o p) /\ q + i = o + (Len(w) + i)
    BY <1>9, <1>10
  <2> QED
    BY <2>1, <1>10, <1>11
<1> HIDE DEF q
<1>15. ASSUME NEW i \in 1 .. Len(w)
       PROVE  w[i].val = <<dir, s.waitForPaths[i].path>> /\ w[i].val[1] = dir
  <2> DEFINE v == <<dir, s.waitForPaths[i].path>>
  <2>1. w[i] = Line("Service", "ExecStartPre", v)
    BY <1>1, <1>8, <1>9
  <2>2. v[1] = dir
    OBVIOUS
  <2> HIDE DEF v
  <2>3. w[i].val = v
    BY <2>1, LineFields
  <2> QED
    BY <2>2, <2>3 DEF v
<1>16. \A i \in 1 .. Len(p) : p[i].val = s.execStartPre[i] /\ p[i].val[1] = script
  <2>1. \A i \in 1 .. Len(p) : p[i].val = s.execStartPre[i]
    BY <1>2, <1>9, LineFields
  <2> QED
    BY <2>1, <1>2, <1>4, <1>9
<1>17. {i \in at : text[i].val[1] # script} = o + 1 .. o + Len(w)
  <2>1. ASSUME NEW i \in at
        PROVE  text[i].val[1] # script <=> i \in o + 1 .. o + Len(w)
    <3>1. CASE i <= q
      <4>1. i - o \in 1 .. Len(w) /\ o + (i - o) = i
        BY <3>1, <1>9, <1>12
      <4>2. text[i].val[1] = dir
        BY <4>1, <1>13, <1>15
      <4> QED
        BY <4>1, <4>2, <3>1, <1>6, <1>12
    <3>2. CASE i > q
      <4>1. i - q \in 1 .. Len(p) /\ q + (i - q) = i
        BY <3>2, <1>9, <1>12
      <4>2. text[i].val[1] = script
        BY <4>1, <1>14, <1>16
      <4> QED
        BY <4>2, <3>2, <1>9, <1>12
    <3> QED
      BY <3>1, <3>2, <1>9, <1>12
  <2>2. o + 1 .. o + Len(w) \subseteq at
    BY <1>9, <1>12
  <2> QED
    BY <2>1, <2>2
<1>18. {i \in at : text[i].val[1] = script} = q + 1 .. q + Len(p)
  <2>1. ASSUME NEW i \in at
        PROVE  i \in q + 1 .. q + Len(p) <=> i \notin o + 1 .. o + Len(w)
    BY <1>9, <1>12
  <2>2. q + 1 .. q + Len(p) \subseteq at
    BY <1>9, <1>12
  <2>3. \A i \in at : text[i].val[1] = script <=> i \notin o + 1 .. o + Len(w)
    BY <1>17
  <2> QED
    BY <2>1, <2>2, <2>3
<1>19. Pick(text, o + 1 .. o + Len(w)) = w
  <2> DEFINE own == Pick(text, o + 1 .. o + Len(w))
  <2>1. o + Len(w) <= Len(text)
    BY <1>9, <1>12
  <2>2. IsSeq(own) /\ Len(own) = Len(w) /\ \A n \in 1 .. Len(w) : own[n] = text[o + n]
    BY <2>1, <1>3, <1>9, PickRun
  <2> HIDE DEF own
  <2>3. own = w
    BY <2>2, <1>1, <1>13, SeqsEqual
  <2> QED
    BY <2>3 DEF own
<1>20. Pick(text, q + 1 .. q + Len(p)) = p
  <2> DEFINE own == Pick(text, q + 1 .. q + Len(p))
  <2>1. q \in Nat /\ q + Len(p) <= Len(text)
    BY <1>12
  <2>2. IsSeq(own) /\ Len(own) = Len(p) /\ \A n \in 1 .. Len(p) : own[n] = text[q + n]
    BY <2>1, <1>3, <1>9, PickRun
  <2> HIDE DEF own
  <2>3. own = p
    BY <2>2, <1>2, <1>14, SeqsEqual
  <2> QED
    BY <2>3 DEF own
<1>21. /\ e.waitForPaths =
            [i \in DOMAIN w |-> [path |-> pathOf(w[i].val), strict |-> w[i].val[1] = mount]]
       /\ e.execStartPre = [i \in DOMAIN p |-> p[i].val]
  BY <1>5, <1>17, <1>18, <1>19, <1>20
<1>22. ASSUME NEW i \in 1 .. Len(w)
       PROVE  e.waitForPaths[i].path = s.waitForPaths[i].path /\ ~ e.waitForPaths[i].strict
  <2>1. e.waitForPaths[i] = [path |-> pathOf(w[i].val), strict |-> w[i].val[1] = mount]
    BY <1>9, <1>21
  <2>2. pathOf(w[i].val) = s.waitForPaths[i].path /\ w[i].val[1] # mount
    BY <1>6, <1>7, <1>15
  <2>3. (w[i].val[1] = mount) = FALSE
    BY <2>2
  <2>4. e.waitForPaths[i] = [path |-> pathOf(w[i].val), strict |-> FALSE]
    BY <2>1, <2>3, Zenon
  <2> QED
    BY <2>2, <2>4
<1>23. DOMAIN e.waitForPaths = DOMAIN s.waitForPaths
  BY <1>1, <1>21
<1>24. WaitText(e) = WaitText(s)
  BY <1>1, <1>4, <1>9, <1>22, <1>23 DEF WaitText, Lines
<1>25. /\ DOMAIN e.execStartPre = DOMAIN s.execStartPre
       /\ \A i \in DOMAIN s.execStartPre : e.execStartPre[i] = s.execStartPre[i]
  BY <1>2, <1>9, <1>16, <1>21
<1>26. Lines("Service", "ExecStartPre", e.execStartPre)
         = Lines("Service", "ExecStartPre", s.execStartPre)
  BY <1>25 DEF Lines
<1> QED
  BY <1>24, <1>26 DEF s

LEMMA PostsRead ==
  ASSUME NEW d, FormOK(d), NEW e, e.execStartPost = PostsOf(wizardToQuadlet(d))
  PROVE  Lines("Service", "ExecStartPost", e.execStartPost)
           = Lines("Service", "ExecStartPost", d.service.execStartPost)
<1> DEFINE text == wizardToQuadlet(d)
           s == d.service
           m == Lines("Service", "ExecStartPost", s.execStartPost)
<1>1. /\ IsSeq(m) /\ DOMAIN m = DOMAIN s.execStartPost
      /\ \A i \in DOMAIN s.execStartPost :
           m[i] = Line("Service", "ExecStartPost", s.execStartPost[i])
  <2>1. IsSeq(s.execStartPost)
    BY DEF FormOK, ContainerOK, ServiceOK
  <2> HIDE DEF s
  <2> QED
    BY <2>1, LinesFacts
<1>2. IsSeq(text) /\ Holds(text, "Service", "ExecStartPost", m)
  BY WrittenFacts, FormLists
<1>3. Pick(text, Places(text, "Service", "ExecStartPost")) = m
  BY <1>1, <1>2, HeldLines
<1>4. e.execStartPost = [i \in DOMAIN m |-> m[i].val]
  BY <1>3 DEF PostsOf
<1> HIDE DEF text, s, m
<1>5. \A i \in DOMAIN s.execStartPost : e.execStartPost[i] = s.execStartPost[i]
  BY <1>1, <1>4, LineFields
<1>6. DOMAIN e.execStartPost = DOMAIN s.execStartPost
  BY <1>1, <1>4
<1>7. Lines("Service", "ExecStartPost", e.execStartPost) =
        Lines("Service", "ExecStartPost", s.execStartPost)
  BY <1>5, <1>6 DEF Lines
<1> QED
  BY <1>7 DEF s

\* So are how the service restarts and how long it may take to start.
LEMMA RestartRead ==
  ASSUME NEW d, FormOK(d)
  PROVE  /\ RestartOf(wizardToQuadlet(d)) = d.service.restart
         /\ Value(wizardToQuadlet(d), "Service", "TimeoutStartSec", "300")
              = d.service.timeoutStartSec
<1> DEFINE text == wizardToQuadlet(d)
           s == d.service
           policy == s.restart
           limit == s.timeoutStartSec
           usual == "300"
           always == "always"
           at == {i \in Places(text, "Service", "Restart") : text[i].val \in RestartPolicy}
<1>1. /\ IsSeq(text)
      /\ \A l : Has(text, l) <=>
           \/ Has(UnitText(d), l) \/ Has(ContainerText(d.container), l)
           \/ Has(ServiceText(s), l) \/ l = Line("Install", "WantedBy", "default.target")
      /\ \A l : Has(UnitText(d), l) => l.sec = "Unit"
      /\ \A l : Has(ContainerText(d.container), l) => l.sec = "Container"
      /\ \A l : Has(ServiceText(s), l) => l.sec = "Service"
  BY WrittenFacts, FormLists
<1>2. /\ \A l : Has(ServiceText(s), l) <=>
                  \/ l = Line("Service", "Restart", policy)
                  \/ l = Line("Service", "TimeoutStartSec", limit)
                  \/ Has(PreText(s), l)
                  \/ Has(Lines("Service", "ExecStartPost", s.execStartPost), l)
      /\ \A l : Has(PreText(s), l) => l.sec = "Service" /\ l.key = "ExecStartPre"
  BY ServiceFacts DEF FormOK, ContainerOK, ServiceOK
<1>3. \A l : Has(Lines("Service", "ExecStartPost", s.execStartPost), l) => l.key = "ExecStartPost"
  <2>1. \A l : Has(Lines("Service", "ExecStartPost", s.execStartPost), l) =>
                 \E i \in DOMAIN s.execStartPost :
                   l = Line("Service", "ExecStartPost", s.execStartPost[i])
    <3>1. IsSeq(s.execStartPost)
      BY DEF FormOK, ContainerOK, ServiceOK
    <3> HIDE DEF s
    <3> QED
      BY <3>1, LinesFacts
  <2> QED
    BY <2>1, LineFields
<1>4. policy \in RestartPolicy
  BY DEF FormOK, ContainerOK, ServiceOK
<1>5. RestartOf(text) = Assigned(text, at, always)
  BY DEF RestartOf
<1> HIDE DEF text, s, policy, limit, usual, always
<1>6. \A l : Has(text, l) /\ l.sec = "Service" <=> Has(ServiceText(s), l)
  <2>1. Line("Install", "WantedBy", "default.target").sec = "Install"
    BY LineFields
  <2> QED
    BY <2>1, <1>1
<1>7. \A l : Has(text, l) /\ l.sec = "Service" /\ l.key = "TimeoutStartSec"
               <=> l = Line("Service", "TimeoutStartSec", limit)
  BY <1>2, <1>3, <1>6 DEF Line
<1>8. Value(text, "Service", "TimeoutStartSec", usual) = limit
  BY <1>1, <1>7, ValueOne
<1>9. \A l : Has(text, l) /\ l.sec = "Service" /\ l.key = "Restart"
               <=> l = Line("Service", "Restart", policy)
  BY <1>2, <1>3, <1>6 DEF Line
<1>10. \A i \in at : text[i].val = policy
  <2>1. \A i \in at : Has(text, text[i]) /\ text[i].sec = "Service" /\ text[i].key = "Restart"
    BY DEF Has, Places
  <2> QED
    BY <2>1, <1>9, LineFields
<1>11. at \in SUBSET (DOMAIN text) /\ at # {}
  <2> DEFINE l == Line("Service", "Restart", policy)
  <2>1. l.sec = "Service" /\ l.key = "Restart" /\ l.val = policy
    BY LineFields
  <2>2. Has(text, l)
    BY <1>9
  <2> HIDE DEF l
  <2>3. PICK i \in DOMAIN text : text[i] = l
    BY <2>2 DEF Has
  <2>4. i \in at
    BY <2>1, <2>3, <1>4 DEF Places
  <2>5. at \in SUBSET (DOMAIN text)
    BY DEF Places
  <2> QED
    BY <2>4, <2>5
<1> HIDE DEF at
<1>12. Assigned(text, at, always) = policy
  BY <1>1, <1>10, <1>11, AssignedLast
<1> QED
  BY <1>5, <1>8, <1>12 DEF text, s, policy, limit, usual

\* The fields of the form, each read on its own.
LEMMA FieldsRead ==
  ASSUME NEW text
  PROVE  LET e == quadletToWizard(text)
             C(key) == Value(text, "Container", key, "")
         IN  /\ e.unit.description = Value(text, "Unit", "Description", "")
             /\ e.unit.after = Value(text, "Unit", "After", <<>>)
             /\ e.unit.requires = Value(text, "Unit", "Requires", <<>>)
             /\ e.unit.wants = Value(text, "Unit", "Wants", <<>>)
             /\ e.container.image = C("Image") /\ e.container.exec = C("Exec")
             /\ e.container.ports = PortsOf(text) /\ e.container.volumes = VolumesOf(text)
             /\ e.container.env = EnvOf(text) /\ e.container.labels = LabelsOf(text)
             /\ e.container.user = C("User") /\ e.container.group = C("Group")
             /\ e.container.hostName = C("HostName") /\ e.container.network = C("Network")
             /\ e.container.autoUpdate = AutoUpdateOf(text)
             /\ e.container.healthCheck = HealthOf(text)
             /\ e.service.restart = RestartOf(text)
             /\ e.service.timeoutStartSec = Value(text, "Service", "TimeoutStartSec", "300")
             /\ e.service.waitForPaths = WaitsOf(text)
             /\ e.service.execStartPre = ScriptsOf(text)
             /\ e.service.execStartPost = PostsOf(text)
  BY DEF quadletToWizard

\* What the form writes is read back and written again the same, whatever the form holds,
\* but for the values that the text cannot carry: wizardToQuadlet after quadletToWizard
\* after wizardToQuadlet is wizardToQuadlet.
THEOREM FormsAreStable == \A d : FormOK(d) => WrittenTextIsStable(d)
<1> SUFFICES ASSUME NEW d, FormOK(d), ~ PutBack(d)
             PROVE  wizardToQuadlet(quadletToWizard(wizardToQuadlet(d))) = wizardToQuadlet(d)
  BY DEF WrittenTextIsStable
<1> DEFINE text == wizardToQuadlet(d)
           e == quadletToWizard(text)
           none == ""
           nothing == <<>>
<1>1. ListsOK(d)
  BY FormLists
<1>2. UnitText(e) = UnitText(d)
  <2>1. /\ e.unit.description = Description(d) /\ e.unit.after = d.unit.after
        /\ e.unit.requires = d.unit.requires /\ e.unit.wants = d.unit.wants
    <3>1. /\ Value(text, "Unit", "Description", none) = Description(d)
          /\ Value(text, "Unit", "After", nothing) = d.unit.after
          /\ Value(text, "Unit", "Requires", nothing) = d.unit.requires
          /\ Value(text, "Unit", "Wants", nothing) = d.unit.wants
      BY <1>1, UnitRead
    <3>2. /\ e.unit.description = Value(text, "Unit", "Description", none)
          /\ e.unit.after = Value(text, "Unit", "After", nothing)
          /\ e.unit.requires = Value(text, "Unit", "Requires", nothing)
          /\ e.unit.wants = Value(text, "Unit", "Wants", nothing)
      BY FieldsRead
    <3> HIDE DEF e, text, none, nothing
    <3> QED
      BY <3>1, <3>2
  <2>2. e.container.image = d.container.image
    <3>1. Value(text, "Container", "Image", none) = d.container.image
      BY <1>1, ContainerRead
    <3>2. e.container.image = Value(text, "Container", "Image", none)
      BY FieldsRead
    <3> QED
      BY <3>1, <3>2
  <2> HIDE DEF e
  <2>3. Description(e) = Description(d)
    <3> DEFINE made(x) == IF ShortName(x) = "" THEN "container" ELSE ShortName(x) \o " container"
    <3>1. \A f : Description(f) = IF f.unit.description # none THEN f.unit.description
                                  ELSE made(f.container.image)
      BY DEF Description
    <3> HIDE DEF made, none
    <3>2. CASE Description(d) # none
      BY <2>1, <3>1, <3>2
    <3>3. CASE Description(d) = none
      <4>1. Description(d) = made(d.container.image)
        BY <3>1, <3>3
      <4>2. Description(e) = made(e.container.image)
        BY <2>1, <3>1, <3>3
      <4> QED
        BY <4>1, <4>2, <2>2
    <3> QED
      BY <3>2, <3>3
  <2> QED
    BY <2>1, <2>3 DEF UnitText
<1>3. ContainerText(e.container) = ContainerText(d.container)
  <2> DEFINE c == d.container
             f == e.container
  <2>1. ImageText(f) = ImageText(c)
    <3>1. /\ Value(text, "Container", "Image", none) = c.image
          /\ Value(text, "Container", "Exec", none) = c.exec
      BY <1>1, ContainerRead
    <3>2. /\ f.image = Value(text, "Container", "Image", none)
          /\ f.exec = Value(text, "Container", "Exec", none)
      BY FieldsRead
    <3> HIDE DEF text, e, none, c, f
    <3> QED
      BY <3>1, <3>2 DEF ImageText
  <2>2. PortText(f) = PortText(c)
    BY FieldsRead, PortsRead
  <2>3. VolumeText(f) = VolumeText(c)
    BY FieldsRead, VolumesRead
  <2>4. EnvText(f) = EnvText(c)
    BY FieldsRead, EnvRead
  <2>5. LabelText(f) = LabelText(c)
    <3>1. f.labels = LabelsOf(text)
      BY FieldsRead
    <3>2. /\ DOMAIN LabelsOf(text) = DOMAIN c.labels
          /\ \A k \in DOMAIN LabelsOf(text) : LabelsOf(text)[k] = c.labels[k]
      BY <1>1, LabelRead
    <3>3. \A i \in DOMAIN SetToSeq(DOMAIN c.labels) :
            SetToSeq(DOMAIN c.labels)[i] \in DOMAIN c.labels
      BY KeysFacts DEF FormOK, ContainerOK, ServiceOK
    <3> HIDE DEF text, e, c, f
    <3> QED
      BY <3>1, <3>2, <3>3 DEF LabelText, Lines
  <2>6. AutoUpdateText(f) = AutoUpdateText(c)
    <3>1. f.autoUpdate = c.autoUpdate
      BY FieldsRead, AutoUpdateRead
    <3> HIDE DEF e, c, f
    <3> QED
      BY <3>1 DEF AutoUpdateText
  <2>7. NetworkText(f) = NetworkText(c)
    <3>1. /\ Value(text, "Container", "User", none) = c.user
          /\ Value(text, "Container", "Group", none) = c.group
          /\ Value(text, "Container", "HostName", none) = c.hostName
          /\ Value(text, "Container", "Network", none) = c.network
      BY <1>1, ContainerRead
    <3>2. /\ f.user = Value(text, "Container", "User", none)
          /\ f.group = Value(text, "Container", "Group", none)
          /\ f.hostName = Value(text, "Container", "HostName", none)
          /\ f.network = Value(text, "Container", "Network", none)
      BY FieldsRead
    <3> HIDE DEF text, e, none, c, f
    <3> QED
      BY <3>1, <3>2 DEF NetworkText
  <2>8. HealthText(f.healthCheck) = HealthText(c.healthCheck)
    <3>1. f.healthCheck = HealthOf(text)
      BY FieldsRead
    <3>2. HealthText(HealthOf(text)) = HealthText(c.healthCheck)
      BY <1>1, HealthRead
    <3> QED
      BY <3>1, <3>2
  <2> HIDE DEF c, f
  <2>9. ContainerText(f) = ContainerText(c)
    BY <2>1, <2>2, <2>3, <2>4, <2>5, <2>6, <2>7, <2>8 DEF ContainerText
  <2> QED
    BY <2>9 DEF c, f
<1>4. ServiceText(e.service) = ServiceText(d.service)
  <2> DEFINE s == d.service
             f == e.service
             usual == "300"
  <2>1. RestartText(f) = RestartText(s)
    <3>1. /\ RestartOf(text) = s.restart
          /\ Value(text, "Service", "TimeoutStartSec", usual) = s.timeoutStartSec
      BY RestartRead
    <3>2. /\ f.restart = RestartOf(text)
          /\ f.timeoutStartSec = Value(text, "Service", "TimeoutStartSec", usual)
      BY FieldsRead
    <3> HIDE DEF text, e, s, f, usual
    <3> QED
      BY <3>1, <3>2 DEF RestartText
  <2>2. /\ f.waitForPaths = WaitsOf(text) /\ f.execStartPre = ScriptsOf(text)
        /\ f.execStartPost = PostsOf(text)
    BY FieldsRead
  <2> HIDE DEF e
  <2>3. /\ WaitText(f) = WaitText(s)
        /\ Lines("Service", "ExecStartPre", f.execStartPre) =
             Lines("Service", "ExecStartPre", s.execStartPre)
    <3> HIDE DEF f
    <3> QED
      BY <2>2, WaitsRead
  <2>4. Lines("Service", "ExecStartPost", f.execStartPost) =
          Lines("Service", "ExecStartPost", s.execStartPost)
    <3> HIDE DEF f
    <3> QED
      BY <2>2, PostsRead
  <2> HIDE DEF s, f
  <2>5. ServiceText(f) = ServiceText(s)
    BY <2>1, <2>3, <2>4 DEF ServiceText
  <2> QED
    BY <2>5 DEF s, f
<1> HIDE DEF e
<1>5. wizardToQuadlet(e) = wizardToQuadlet(d)
  BY <1>2, <1>3, <1>4 DEF wizardToQuadlet
<1> QED
  BY <1>5 DEF e

-----------------------------------------------------------------------------
(* What the form makes of any text is a form.                              *)

LEMMA MapIsSeq ==
  ASSUME NEW own, IsSeq(own), NEW f, f = [i \in DOMAIN own |-> f[i]]
  PROVE  IsSeq(f) /\ Len(f) = Len(own) /\ DOMAIN f = DOMAIN own
<1>1. Len(own) \in Nat /\ DOMAIN own = 1 .. Len(own)
  BY SeqFacts
<1> QED
  BY <1>1, TupleIsSeq

\* The lists that are read are sequences, of what the lines they are read from hold.
LEMMA ListsReadAre ==
  ASSUME NEW text, IsSeq(text)
  PROVE  /\ IsSeq(PortsOf(text))
         /\ \A i \in DOMAIN PortsOf(text) : PortsOf(text)[i].protocol \in {"tcp", "udp"}
         /\ IsSeq(VolumesOf(text))
         /\ \A i \in DOMAIN VolumesOf(text) : VolumesOf(text)[i].mode \in {"rw", "ro"}
         /\ IsSeq(EnvOf(text))
         /\ IsSeq(WaitsOf(text))
         /\ IsSeq(ScriptsOf(text))
         /\ \A i \in DOMAIN ScriptsOf(text) :
              \E j \in Places(text, "Service", "ExecStartPre") : ScriptsOf(text)[i] = text[j].val
         /\ IsSeq(PostsOf(text))
<1>1. ASSUME NEW sec, NEW key, NEW at \in SUBSET Places(text, sec, key)
      PROVE  /\ IsSeq(Pick(text, at))
             /\ \A n \in DOMAIN Pick(text, at) : \E j \in Places(text, sec, key) :
                  Pick(text, at)[n] = text[j]
  <2>1. at \in SUBSET (DOMAIN text)
    BY DEF Places
  <2> QED
    BY <2>1, PickFacts
<1>2. /\ IsSeq(PortsOf(text))
      /\ \A i \in DOMAIN PortsOf(text) : PortsOf(text)[i].protocol \in {"tcp", "udp"}
  <2> DEFINE own == Pick(text, Places(text, "Container", "PublishPort"))
             f == PortsOf(text)
  <2>1. IsSeq(own)
    BY <1>1
  <2>2. f = [i \in DOMAIN own |-> parsePort(own[i].val)]
    BY DEF PortsOf
  <2> HIDE DEF own, f
  <2>3. IsSeq(f) /\ DOMAIN f = DOMAIN own
    BY <2>1, <2>2, MapIsSeq
  <2>4. \A val : parsePort(val).protocol \in {"tcp", "udp"}
    BY DEF parsePort, protocolOf
  <2>5. \A i \in DOMAIN f : f[i] = parsePort(own[i].val)
    BY <2>2, <2>3
  <2>6. \A i \in DOMAIN f : f[i].protocol \in {"tcp", "udp"}
    BY <2>4, <2>5
  <2> QED
    BY <2>3, <2>6 DEF f
<1>3. /\ IsSeq(VolumesOf(text))
      /\ \A i \in DOMAIN VolumesOf(text) : VolumesOf(text)[i].mode \in {"rw", "ro"}
  <2> DEFINE at == {i \in Places(text, "Container", "Volume") : hasTwoParts(text[i].val)}
             own == Pick(text, at)
             f == VolumesOf(text)
  <2>1. IsSeq(own)
    <3>1. at \in SUBSET Places(text, "Container", "Volume")
      OBVIOUS
    <3> HIDE DEF at
    <3> QED
      BY <3>1, <1>1
  <2>2. f = [i \in DOMAIN own |-> parseVolume(own[i].val)]
    BY DEF VolumesOf
  <2> HIDE DEF at, own, f
  <2>3. IsSeq(f) /\ DOMAIN f = DOMAIN own
    BY <2>1, <2>2, MapIsSeq
  <2>4. \A val : parseVolume(val).mode \in {"rw", "ro"}
    BY DEF parseVolume
  <2>5. \A i \in DOMAIN f : f[i] = parseVolume(own[i].val)
    BY <2>2, <2>3
  <2>6. \A i \in DOMAIN f : f[i].mode \in {"rw", "ro"}
    BY <2>4, <2>5
  <2> QED
    BY <2>3, <2>6 DEF f
<1>4. IsSeq(EnvOf(text))
  <2> DEFINE at == {i \in Places(text, "Container", "Environment") : hasTwoParts(text[i].val)}
             own == Pick(text, at)
             f == EnvOf(text)
  <2>1. IsSeq(own)
    <3>1. at \in SUBSET Places(text, "Container", "Environment")
      OBVIOUS
    <3> HIDE DEF at
    <3> QED
      BY <3>1, <1>1
  <2>2. f = [i \in DOMAIN own |-> KeyValue(own[i].val)]
    BY DEF EnvOf
  <2> HIDE DEF at, own, f
  <2>3. IsSeq(f)
    BY <2>1, <2>2, MapIsSeq
  <2> QED
    BY <2>3 DEF f
<1>5. IsSeq(WaitsOf(text))
  <2> DEFINE at == {i \in Places(text, "Service", "ExecStartPre") : text[i].val[1] # "script"}
             own == Pick(text, at)
             f == WaitsOf(text)
  <2>1. IsSeq(own)
    <3>1. at \in SUBSET Places(text, "Service", "ExecStartPre")
      OBVIOUS
    <3> HIDE DEF at
    <3> QED
      BY <3>1, <1>1
  <2>2. f = [i \in DOMAIN own |-> [path |-> pathOf(own[i].val), strict |-> own[i].val[1] = "mount"]]
    BY DEF WaitsOf
  <2>3. f = [i \in DOMAIN own |-> f[i]]
    BY <2>2, Zenon
  <2> HIDE DEF at, own, f
  <2>4. IsSeq(f)
    BY <2>1, <2>3, MapIsSeq
  <2> QED
    BY <2>4 DEF f
<1>6. /\ IsSeq(ScriptsOf(text))
      /\ \A i \in DOMAIN ScriptsOf(text) :
           \E j \in Places(text, "Service", "ExecStartPre") : ScriptsOf(text)[i] = text[j].val
  <2> DEFINE at == {i \in Places(text, "Service", "ExecStartPre") : text[i].val[1] = "script"}
             own == Pick(text, at)
             f == ScriptsOf(text)
  <2>1. /\ IsSeq(own)
        /\ \A n \in DOMAIN own : \E j \in Places(text, "Service", "ExecStartPre") : own[n] = text[j]
    <3>1. at \in SUBSET Places(text, "Service", "ExecStartPre")
      OBVIOUS
    <3> HIDE DEF at
    <3> QED
      BY <3>1, <1>1
  <2>2. f = [i \in DOMAIN own |-> own[i].val]
    BY DEF ScriptsOf
  <2> HIDE DEF at, own, f
  <2>3. IsSeq(f) /\ DOMAIN f = DOMAIN own
    BY <2>1, <2>2, MapIsSeq
  <2>4. \A i \in DOMAIN f :
          \E j \in Places(text, "Service", "ExecStartPre") : f[i] = text[j].val
    BY <2>1, <2>2, <2>3
  <2> QED
    BY <2>3, <2>4 DEF f
<1>7. IsSeq(PostsOf(text))
  <2> DEFINE own == Pick(text, Places(text, "Service", "ExecStartPost"))
             f == PostsOf(text)
  <2>1. IsSeq(own)
    BY <1>1
  <2>2. f = [i \in DOMAIN own |-> own[i].val]
    BY DEF PostsOf
  <2> HIDE DEF own, f
  <2>3. IsSeq(f)
    BY <2>1, <2>2, MapIsSeq
  <2> QED
    BY <2>3 DEF f
<1> QED
  BY <1>2, <1>3, <1>4, <1>5, <1>6, <1>7

LEMMA LabelsFinite ==
  ASSUME NEW text, IsSeq(text)
  PROVE  IsFiniteSet(DOMAIN LabelsOf(text))
<1> DEFINE at == LabelPlaces(text)
           D == {text[i].val[1] : i \in at}
<1>1. DOMAIN LabelsOf(text) = D
  BY DEF LabelsOf
<1>2. at \in SUBSET (1 .. Len(text)) /\ Len(text) \in Nat
  BY SeqFacts DEF LabelPlaces, Places
<1>3. IsFiniteSet(at)
  <2>1. Len(text) \in Int
    BY <1>2
  <2>2. IsFiniteSet(1 .. Len(text))
    BY <2>1, FS_Interval
  <2> HIDE DEF at
  <2> QED
    BY <2>2, <1>2, FS_Subset
<1> DEFINE first == [i \in at |-> text[i].val[1]]
<1>4. first \in Surjection(at, D)
  BY DEF Surjection
<1> HIDE DEF at, D, first
<1>5. IsFiniteSet(D)
  BY <1>3, <1>4, FS_Surjection
<1> QED
  BY <1>1, <1>5

LEMMA AutoUpdateIs ==
  ASSUME NEW text, IsSeq(text)
  PROVE  AutoUpdateOf(text) \in {"", "registry", "local"}
<1> DEFINE byKey   == {i \in Places(text, "Container", "AutoUpdate") :
                         text[i].val \in {"registry", "local"}}
           byLabel == {i \in Places(text, "Container", "Label") : text[i].val = AutoUpdateLabel}
           on      == byKey \cup byLabel
<1>1. AutoUpdateOf(text) =
        IF on = {} THEN "" ELSE IF Max(on) \in byKey THEN text[Max(on)].val ELSE "registry"
  BY DEF AutoUpdateOf
<1>2. \A i \in byKey : text[i].val \in {"registry", "local"}
  OBVIOUS
<1> HIDE DEF byKey, on
<1> QED
  BY <1>1, <1>2

LEMMA RestartIs ==
  ASSUME NEW text, IsSeq(text)
  PROVE  RestartOf(text) \in RestartPolicy
<1> DEFINE at == {i \in Places(text, "Service", "Restart") : text[i].val \in RestartPolicy}
<1>1. at \in SUBSET (DOMAIN text) /\ \A i \in at : text[i].val \in RestartPolicy
  BY DEF Places
<1>2. RestartOf(text) = Assigned(text, at, "always")
  BY DEF RestartOf
<1> HIDE DEF at
<1>3. CASE at = {}
  BY <1>2, <1>3 DEF Assigned, RestartPolicy
<1>4. CASE at # {}
  BY <1>1, <1>2, <1>4, AssignedLast
<1> QED
  BY <1>3, <1>4

LEMMA ReadIsForm ==
  ASSUME NEW text, TextOK(text)
  PROVE  FormOK(quadletToWizard(text))
<1> DEFINE e == quadletToWizard(text)
<1>1. IsSeq(text)
  BY DEF TextOK
<1>2. /\ e.container.ports = PortsOf(text) /\ e.container.volumes = VolumesOf(text)
      /\ e.container.env = EnvOf(text) /\ e.container.labels = LabelsOf(text)
      /\ e.container.autoUpdate = AutoUpdateOf(text)
      /\ e.service.restart = RestartOf(text)
      /\ e.service.waitForPaths = WaitsOf(text)
      /\ e.service.execStartPre = ScriptsOf(text)
      /\ e.service.execStartPost = PostsOf(text)
  BY FieldsRead
<1>3. \A j \in Places(text, "Service", "ExecStartPre") : CommandOK(text[j].val)
  BY DEF Places, TextOK, LineOK
<1> HIDE DEF e
<1>4. \A i \in DOMAIN e.service.execStartPre : CommandOK(e.service.execStartPre[i])
  BY <1>1, <1>2, <1>3, ListsReadAre
<1>5. /\ IsSeq(e.container.ports) /\ IsSeq(e.container.volumes) /\ IsSeq(e.container.env)
      /\ IsSeq(e.service.waitForPaths) /\ IsSeq(e.service.execStartPre)
      /\ IsSeq(e.service.execStartPost)
  BY <1>1, <1>2, ListsReadAre
<1>6. \A i \in DOMAIN e.container.ports : e.container.ports[i].protocol \in {"tcp", "udp"}
  BY <1>1, <1>2, ListsReadAre
<1>7. \A i \in DOMAIN e.container.volumes : e.container.volumes[i].mode \in {"rw", "ro"}
  BY <1>1, <1>2, ListsReadAre
<1>8. IsFiniteSet(DOMAIN e.container.labels)
  BY <1>1, <1>2, LabelsFinite
<1>9. e.container.autoUpdate \in {"", "registry", "local"}
  BY <1>1, <1>2, AutoUpdateIs
<1>10. e.service.restart \in RestartPolicy
  BY <1>1, <1>2, RestartIs
<1>11. /\ DOMAIN e = DOMAIN defaultWizardData
       /\ DOMAIN e.container = DOMAIN defaultWizardData.container
       /\ DOMAIN e.service = DOMAIN defaultWizardData.service
  BY DEF e, quadletToWizard, defaultWizardData
<1>12. FormOK(e)
  BY <1>4, <1>5, <1>6, <1>7, <1>8, <1>9, <1>10, <1>11 DEF FormOK, ContainerOK, ServiceOK
<1> QED
  BY <1>12 DEF e

-----------------------------------------------------------------------------
(* What the form writes of a text that it read.                            *)

\* A field of the form, by its section and its key.
LEMMA Fields ==
  ASSUME NEW l, HasField(l)
  PROVE  \/ l.sec = "Unit" /\ l.key \in {"Description", "After", "Requires", "Wants"}
         \/ l.sec = "Container" /\ l.key \in {"Image", "Exec", "User", "Group", "HostName", "Network"}
         \/ l.sec = "Container" /\ l.key = "PublishPort"
         \/ l.sec = "Container" /\ l.key = "Volume"
         \/ l.sec = "Container" /\ l.key = "Environment"
         \/ l.sec = "Container" /\ l.key = "Label"
         \/ l.sec = "Container" /\ l.key = "AutoUpdate"
         \/ l.sec = "Container" /\ l.key \in {"HealthCmd", "HealthInterval", "HealthRetries",
                                              "HealthStartPeriod", "HealthTimeout"}
         \/ l.sec = "Service" /\ l.key \in {"Restart", "TimeoutStartSec"}
         \/ l.sec = "Service" /\ l.key = "ExecStartPre"
         \/ l.sec = "Service" /\ l.key = "ExecStartPost"
<1>1. DOMAIN FieldKey = {"Unit", "Container", "Service"}
  BY DEF FieldKey
<1>2. CASE l.sec = "Unit"
  <2>1. FieldKey["Unit"] = {"Description", "After", "Requires", "Wants"}
    BY DEF FieldKey
  <2> QED
    BY <2>1, <1>2 DEF HasField
<1>3. CASE l.sec = "Container"
  <2>1. FieldKey["Container"] =
          {"Image", "Exec", "PublishPort", "Volume", "Environment", "Label",
           "AutoUpdate", "User", "Group", "HostName", "Network", "HealthCmd",
           "HealthInterval", "HealthRetries", "HealthStartPeriod", "HealthTimeout"}
    BY DEF FieldKey
  <2> QED
    BY <2>1, <1>3 DEF HasField
<1>4. CASE l.sec = "Service"
  <2>1. FieldKey["Service"] = {"Restart", "TimeoutStartSec", "ExecStartPre", "ExecStartPost"}
    BY DEF FieldKey
  <2> QED
    BY <2>1, <1>4 DEF HasField
<1> QED
  BY <1>1, <1>2, <1>3, <1>4 DEF HasField

\* The last line that sets a key gives it its value.
LEMMA LastValue ==
  ASSUME NEW text, IsSeq(text), NEW i \in DOMAIN text, NEW sec, NEW key, NEW default,
         text[i].sec = sec, text[i].key = key,
         ~ \E j \in i + 1 .. Len(text) : text[j].sec = sec /\ text[j].key = key
  PROVE  Value(text, sec, key, default) = text[i].val /\ Places(text, sec, key) # {}
<1> DEFINE at == Places(text, sec, key)
<1>1. Len(text) \in Nat /\ DOMAIN text = 1 .. Len(text)
  BY SeqFacts
<1>2. at \in SUBSET (1 .. Len(text)) /\ i \in at
  BY <1>1 DEF Places
<1>3. \A j \in at : j <= i
  BY <1>1 DEF Places
<1> HIDE DEF at
<1>4. Max(at) = i
  BY <1>1, <1>2, <1>3, LastIs
<1>5. Value(text, sec, key, default) = text[i].val
  BY <1>2, <1>4 DEF Value, Assigned, at
<1> QED
  BY <1>2, <1>5 DEF at

\* What the parts of the form write is in the text.
LEMMA PartsWritten ==
  ASSUME NEW d, FormOK(d), NEW l
  PROVE  /\ Has(UnitText(d), l) => Has(wizardToQuadlet(d), l)
         /\ Has(ImageText(d.container), l) => Has(wizardToQuadlet(d), l)
         /\ Has(PortText(d.container), l) => Has(wizardToQuadlet(d), l)
         /\ Has(VolumeText(d.container), l) => Has(wizardToQuadlet(d), l)
         /\ Has(EnvText(d.container), l) => Has(wizardToQuadlet(d), l)
         /\ Has(LabelText(d.container), l) => Has(wizardToQuadlet(d), l)
         /\ Has(AutoUpdateText(d.container), l) => Has(wizardToQuadlet(d), l)
         /\ Has(NetworkText(d.container), l) => Has(wizardToQuadlet(d), l)
         /\ Has(HealthText(d.container.healthCheck), l) => Has(wizardToQuadlet(d), l)
         /\ l = Line("Service", "Restart", d.service.restart) => Has(wizardToQuadlet(d), l)
         /\ l = Line("Service", "TimeoutStartSec", d.service.timeoutStartSec)
              => Has(wizardToQuadlet(d), l)
         /\ Has(WaitText(d.service), l) => Has(wizardToQuadlet(d), l)
         /\ Has(Lines("Service", "ExecStartPre", d.service.execStartPre), l)
              => Has(wizardToQuadlet(d), l)
         /\ Has(Lines("Service", "ExecStartPost", d.service.execStartPost), l)
              => Has(wizardToQuadlet(d), l)
<1> DEFINE c == d.container
           s == d.service
<1>1. Has(UnitText(d), l) \/ Has(ContainerText(c), l) \/ Has(ServiceText(s), l)
        => Has(wizardToQuadlet(d), l)
  BY FormLists, WrittenFacts
<1>2. (\/ Has(ImageText(c), l) \/ Has(PortText(c), l) \/ Has(VolumeText(c), l)
       \/ Has(EnvText(c), l) \/ Has(LabelText(c), l) \/ Has(AutoUpdateText(c), l)
       \/ Has(NetworkText(c), l) \/ Has(HealthText(c.healthCheck), l))
        => Has(ContainerText(c), l)
  BY ContainerFacts DEF FormOK, ContainerOK, ServiceOK
<1>3. IsSeq(s.waitForPaths) /\ IsSeq(s.execStartPre) /\ IsSeq(s.execStartPost)
  BY DEF FormOK, ContainerOK, ServiceOK
<1> HIDE DEF c, s
<1>4. (\/ l = Line("Service", "Restart", s.restart)
       \/ l = Line("Service", "TimeoutStartSec", s.timeoutStartSec)
       \/ Has(PreText(s), l) \/ Has(Lines("Service", "ExecStartPost", s.execStartPost), l))
        => Has(ServiceText(s), l)
  BY <1>3, ServiceFacts
<1>5. Has(WaitText(s), l) \/ Has(Lines("Service", "ExecStartPre", s.execStartPre), l)
        => Has(PreText(s), l)
  <2>1. IsSeq(WaitText(s)) /\ IsSeq(Lines("Service", "ExecStartPre", s.execStartPre))
    BY <1>3, WaitFacts, LinesFacts
  <2> QED
    BY <2>1, HasConcat DEF PreText
<1>6. /\ Has(UnitText(d), l) => Has(wizardToQuadlet(d), l)
      /\ Has(ContainerText(c), l) => Has(wizardToQuadlet(d), l)
      /\ Has(ServiceText(s), l) => Has(wizardToQuadlet(d), l)
  BY <1>1
<1>7. /\ Has(ImageText(d.container), l) => Has(wizardToQuadlet(d), l)
      /\ Has(PortText(d.container), l) => Has(wizardToQuadlet(d), l)
      /\ Has(VolumeText(d.container), l) => Has(wizardToQuadlet(d), l)
      /\ Has(EnvText(d.container), l) => Has(wizardToQuadlet(d), l)
      /\ Has(LabelText(d.container), l) => Has(wizardToQuadlet(d), l)
      /\ Has(AutoUpdateText(d.container), l) => Has(wizardToQuadlet(d), l)
      /\ Has(NetworkText(d.container), l) => Has(wizardToQuadlet(d), l)
      /\ Has(HealthText(d.container.healthCheck), l) => Has(wizardToQuadlet(d), l)
  BY <1>2, <1>6 DEF c
<1>8. /\ l = Line("Service", "Restart", d.service.restart) => Has(wizardToQuadlet(d), l)
      /\ l = Line("Service", "TimeoutStartSec", d.service.timeoutStartSec)
           => Has(wizardToQuadlet(d), l)
      /\ Has(WaitText(d.service), l) => Has(wizardToQuadlet(d), l)
      /\ Has(Lines("Service", "ExecStartPre", d.service.execStartPre), l)
           => Has(wizardToQuadlet(d), l)
      /\ Has(Lines("Service", "ExecStartPost", d.service.execStartPost), l)
           => Has(wizardToQuadlet(d), l)
  BY <1>4, <1>5, <1>6 DEF s
<1> QED
  BY <1>6, <1>7, <1>8

\* The lines of the unit's section.
LEMMA KeepsUnit ==
  ASSUME NEW text, TextOK(text), NEW i \in DOMAIN text, MustKeep(text, i), HasRoom(text, i),
         text[i].sec = "Unit", text[i].key \in {"Description", "After", "Requires", "Wants"}
  PROVE  Has(wizardToQuadlet(quadletToWizard(text)), text[i])
<1> DEFINE e == quadletToWizard(text)
           key == text[i].key
           val == text[i].val
           none == ""
           nothing == <<>>
<1>1. IsSeq(text) /\ text[i] = Line("Unit", key, val)
  BY DEF TextOK, LineOK
<1>2. FormOK(e)
  BY ReadIsForm
<1>3. ~ \E j \in i + 1 .. Len(text) : text[j].sec = "Unit" /\ text[j].key = key
  BY DEF MustKeep, HasRoom, SetAgain, ListKey, OneLineKey
<1>4. /\ key = "Description" => val # none
      /\ key \in {"After", "Requires", "Wants"} => val # nothing
  BY DEF MustKeep, Expressible
<1>5. /\ e.unit.description = Value(text, "Unit", "Description", none)
      /\ e.unit.after = Value(text, "Unit", "After", nothing)
      /\ e.unit.requires = Value(text, "Unit", "Requires", nothing)
      /\ e.unit.wants = Value(text, "Unit", "Wants", nothing)
  BY FieldsRead
<1>6. \A f, l : Has(UnitText(f), l) <=>
        \/ l = Line("Unit", "Description", Description(f))
        \/ f.unit.after # nothing /\ l = Line("Unit", "After", f.unit.after)
        \/ f.unit.requires # nothing /\ l = Line("Unit", "Requires", f.unit.requires)
        \/ f.unit.wants # nothing /\ l = Line("Unit", "Wants", f.unit.wants)
  BY UnitFacts
<1>7. \A f : f.unit.description # none => Description(f) = f.unit.description
  BY DEF Description
<1>8. key \in {"Description", "After", "Requires", "Wants"} /\ text[i].sec = "Unit"
  OBVIOUS
<1>9. text[i].key = key /\ text[i].val = val
  OBVIOUS
<1> HIDE DEF e, key, val, none, nothing
<1>10. \A default : Value(text, "Unit", key, default) = val
  BY <1>1, <1>3, <1>8, <1>9, LastValue
<1>11. Has(UnitText(e), text[i])
  <2>1. CASE key = "Description"
    BY <2>1, <1>1, <1>4, <1>5, <1>6, <1>7, <1>10
  <2>2. CASE key = "After"
    BY <2>2, <1>1, <1>4, <1>5, <1>6, <1>10
  <2>3. CASE key = "Requires"
    BY <2>3, <1>1, <1>4, <1>5, <1>6, <1>10
  <2>4. CASE key = "Wants"
    BY <2>4, <1>1, <1>4, <1>5, <1>6, <1>10
  <2> QED
    BY <2>1, <2>2, <2>3, <2>4, <1>8
<1> QED
  BY <1>2, <1>11, PartsWritten DEF e

\* The values of the container's section that are one word or command.
LEMMA KeepsWords ==
  ASSUME NEW text, TextOK(text), NEW i \in DOMAIN text, MustKeep(text, i), HasRoom(text, i),
         text[i].sec = "Container",
         text[i].key \in {"Image", "Exec", "User", "Group", "HostName", "Network"}
  PROVE  Has(wizardToQuadlet(quadletToWizard(text)), text[i])
<1> DEFINE e == quadletToWizard(text)
           c == e.container
           key == text[i].key
           val == text[i].val
           none == ""
<1>1. IsSeq(text) /\ text[i] = Line("Container", key, val)
  BY DEF TextOK, LineOK
<1>2. FormOK(e)
  BY ReadIsForm
<1>3. ~ \E j \in i + 1 .. Len(text) : text[j].sec = "Container" /\ text[j].key = key
  BY DEF MustKeep, HasRoom, SetAgain, ListKey, OneLineKey
<1>4. val # none
  BY DEF MustKeep, Expressible
<1>5. /\ c.image = Value(text, "Container", "Image", none)
      /\ c.exec = Value(text, "Container", "Exec", none)
      /\ c.user = Value(text, "Container", "User", none)
      /\ c.group = Value(text, "Container", "Group", none)
      /\ c.hostName = Value(text, "Container", "HostName", none)
      /\ c.network = Value(text, "Container", "Network", none)
  BY FieldsRead
<1>6. \A l : Has(ImageText(c), l) <=> \/ c.image # none /\ l = Line("Container", "Image", c.image)
                                      \/ c.exec # none /\ l = Line("Container", "Exec", c.exec)
  BY ImageFacts
<1>7. \A l : Has(NetworkText(c), l) <=>
        \/ c.user # none /\ l = Line("Container", "User", c.user)
        \/ c.group # none /\ l = Line("Container", "Group", c.group)
        \/ c.hostName # none /\ l = Line("Container", "HostName", c.hostName)
        \/ c.network # none /\ l = Line("Container", "Network", c.network)
  BY NetworkFacts
<1>8. /\ key \in {"Image", "Exec", "User", "Group", "HostName", "Network"}
      /\ text[i].sec = "Container"
  OBVIOUS
<1>9. text[i].key = key /\ text[i].val = val
  OBVIOUS
<1> HIDE DEF e, c, key, val, none
<1>10. \A default : Value(text, "Container", key, default) = val
  BY <1>1, <1>3, <1>8, <1>9, LastValue
<1>11. CASE key \in {"Image", "Exec"}
  <2>1. Has(ImageText(c), text[i])
    BY <1>1, <1>4, <1>5, <1>6, <1>10, <1>11
  <2>2. Has(ImageText(e.container), text[i])
    BY <2>1 DEF c
  <2>3. Has(wizardToQuadlet(e), text[i])
    BY <2>2, <1>2, PartsWritten
  <2> QED
    BY <2>3 DEF e
<1>12. CASE key \in {"User", "Group", "HostName", "Network"}
  <2>1. Has(NetworkText(c), text[i])
    BY <1>1, <1>4, <1>5, <1>7, <1>10, <1>12
  <2>2. Has(NetworkText(e.container), text[i])
    BY <2>1 DEF c
  <2>3. Has(wizardToQuadlet(e), text[i])
    BY <2>2, <1>2, PartsWritten
  <2> QED
    BY <2>3 DEF e
<1> QED
  BY <1>8, <1>11, <1>12

\* A sequence of two or three is the tuple of its parts.
LEMMA Two ==
  ASSUME NEW v, IsSeq(v), Len(v) = 2
  PROVE  v = <<v[1], v[2]>>
<1> DEFINE w == <<v[1], v[2]>>
<1>1. w = [i \in 1 .. 2 |-> w[i]] /\ w[1] = v[1] /\ w[2] = v[2]
  OBVIOUS
<1> HIDE DEF w
<1>2. IsSeq(w) /\ Len(w) = 2
  BY <1>1, TupleIsSeq
<1>3. \A i \in 1 .. Len(v) : v[i] = w[i]
  BY <1>1
<1>4. v = w
  BY <1>2, <1>3, SeqsEqual
<1> QED
  BY <1>4 DEF w

LEMMA Three ==
  ASSUME NEW v, IsSeq(v), Len(v) = 3
  PROVE  v = <<v[1], v[2], v[3]>>
<1> DEFINE w == <<v[1], v[2], v[3]>>
<1>1. w = [i \in 1 .. 3 |-> w[i]] /\ w[1] = v[1] /\ w[2] = v[2] /\ w[3] = v[3]
  OBVIOUS
<1> HIDE DEF w
<1>2. IsSeq(w) /\ Len(w) = 3
  BY <1>1, TupleIsSeq
<1>3. \A i \in 1 .. Len(v) : v[i] = w[i]
  BY <1>1
<1>4. v = w
  BY <1>2, <1>3, SeqsEqual
<1> QED
  BY <1>4 DEF w

\* A published port is written again when it has two parts and a protocol the form knows.
LEMMA KeepsPort ==
  ASSUME NEW text, TextOK(text), NEW i \in DOMAIN text, MustKeep(text, i), HasRoom(text, i),
         text[i].sec = "Container", text[i].key = "PublishPort"
  PROVE  Has(wizardToQuadlet(quadletToWizard(text)), text[i])
<1> DEFINE e == quadletToWizard(text)
           c == e.container
           val == text[i].val
           at == Places(text, "Container", "PublishPort")
           own == Pick(text, at)
<1>1. IsSeq(text) /\ text[i] = Line("Container", "PublishPort", val)
  BY DEF TextOK, LineOK
<1>2. FormOK(e)
  BY ReadIsForm
<1>3. val = [parts |-> val.parts, proto |-> val.proto] /\ IsSeq(val.parts)
  BY DEF TextOK, LineOK
<1>4. Len(val.parts) = 2 /\ val.proto \in {"tcp", "udp"}
  BY DEF MustKeep, Expressible
<1>5. c.ports = [n \in DOMAIN own |-> parsePort(own[n].val)]
  BY FieldsRead DEF PortsOf
<1>6. i \in at /\ at \in SUBSET (DOMAIN text)
  BY DEF Places
<1> HIDE DEF at
<1>7. PICK n \in DOMAIN own : own[n] = text[i]
  BY <1>1, <1>6, PickFacts
<1>8. own[n].val = val
  BY <1>7
<1>9. protocolOf(val.proto) = val.proto
  BY <1>4 DEF protocolOf
<1>10. /\ IsSeq(c.ports) /\ DOMAIN PortText(c) = DOMAIN c.ports
       /\ PortText(c)[n] = Line("Container", "PublishPort",
                                [parts |-> <<c.ports[n].hostPort, c.ports[n].containerPort>>,
                                 proto |-> c.ports[n].protocol])
  <2>1. IsSeq(c.ports)
    BY <1>2 DEF FormOK, ContainerOK, ServiceOK
  <2>2. n \in DOMAIN c.ports
    BY <1>5
  <2> HIDE DEF c, own
  <2> QED
    BY <2>1, <2>2, PortFacts
<1> HIDE DEF e, c, val, own
<1>11. c.ports[n] = parsePort(val) /\ n \in DOMAIN c.ports
  BY <1>5, <1>7, <1>8
<1>12. /\ parsePort(val).hostPort = val.parts[1]
       /\ parsePort(val).containerPort = val.parts[2]
       /\ parsePort(val).protocol = val.proto
  BY <1>4, <1>9 DEF parsePort
<1>13. val.parts = <<val.parts[1], val.parts[2]>>
  BY <1>3, <1>4, Two
<1>14. PortText(c)[n] = text[i]
  BY <1>1, <1>3, <1>10, <1>11, <1>12, <1>13
<1>15. Has(PortText(c), text[i])
  BY <1>10, <1>11, <1>14 DEF Has
<1>16. Has(PortText(e.container), text[i])
  BY <1>15 DEF c
<1>17. Has(wizardToQuadlet(e), text[i])
  BY <1>2, <1>16, PartsWritten
<1> QED
  BY <1>17 DEF e

\* So is a volume of three parts.
LEMMA KeepsVolume ==
  ASSUME NEW text, TextOK(text), NEW i \in DOMAIN text, MustKeep(text, i), HasRoom(text, i),
         text[i].sec = "Container", text[i].key = "Volume"
  PROVE  Has(wizardToQuadlet(quadletToWizard(text)), text[i])
<1> DEFINE e == quadletToWizard(text)
           c == e.container
           val == text[i].val
           at == {j \in Places(text, "Container", "Volume") : hasTwoParts(text[j].val)}
           own == Pick(text, at)
<1>1. IsSeq(text) /\ text[i] = Line("Container", "Volume", val)
  BY DEF TextOK, LineOK
<1>2. FormOK(e)
  BY ReadIsForm
<1>3. IsSeq(val)
  BY DEF TextOK, LineOK
<1>4. Len(val) = 3 /\ val[3] \in {"rw", "ro"}
  BY DEF MustKeep, Expressible
<1>5. c.volumes = [n \in DOMAIN own |-> parseVolume(own[n].val)]
  BY FieldsRead DEF VolumesOf
<1>6. i \in at /\ at \in SUBSET (DOMAIN text)
  <2>1. hasTwoParts(val)
    BY <1>4 DEF hasTwoParts
  <2> QED
    BY <2>1 DEF Places
<1> HIDE DEF at
<1>7. PICK n \in DOMAIN own : own[n] = text[i]
  BY <1>1, <1>6, PickFacts
<1>8. own[n].val = val
  BY <1>7
<1>9. (IF val[3] = "ro" THEN "ro" ELSE "rw") = val[3]
  BY <1>4
<1>10. /\ DOMAIN VolumeText(c) = DOMAIN c.volumes
       /\ VolumeText(c)[n] = Line("Container", "Volume", <<c.volumes[n].hostPath,
                                  c.volumes[n].containerPath, c.volumes[n].mode>>)
  <2>1. IsSeq(c.volumes)
    BY <1>2 DEF FormOK, ContainerOK, ServiceOK
  <2>2. n \in DOMAIN c.volumes
    BY <1>5
  <2> HIDE DEF c, own
  <2> QED
    BY <2>1, <2>2, VolumeFacts
<1> HIDE DEF e, c, val, own
<1>11. c.volumes[n] = parseVolume(val) /\ n \in DOMAIN c.volumes
  BY <1>5, <1>7, <1>8
<1>12. /\ parseVolume(val).hostPath = val[1] /\ parseVolume(val).containerPath = val[2]
       /\ parseVolume(val).mode = val[3]
  <2>1. parseVolume(val).hostPath = val[1] /\ parseVolume(val).containerPath = val[2]
    BY DEF parseVolume
  <2>2. parseVolume(val).mode = val[3]
    BY <1>4, <1>9 DEF parseVolume
  <2> QED
    BY <2>1, <2>2
<1>13. val = <<val[1], val[2], val[3]>>
  BY <1>3, <1>4, Three
<1>14. VolumeText(c)[n] = text[i]
  BY <1>1, <1>10, <1>11, <1>12, <1>13
<1>15. Has(VolumeText(c), text[i])
  BY <1>10, <1>11, <1>14 DEF Has
<1>16. Has(VolumeText(e.container), text[i])
  BY <1>15 DEF c
<1>17. Has(wizardToQuadlet(e), text[i])
  BY <1>2, <1>16, PartsWritten
<1> QED
  BY <1>17 DEF e

\* And a variable of the environment that has a value.
LEMMA KeepsEnv ==
  ASSUME NEW text, TextOK(text), NEW i \in DOMAIN text, MustKeep(text, i), HasRoom(text, i),
         text[i].sec = "Container", text[i].key = "Environment"
  PROVE  Has(wizardToQuadlet(quadletToWizard(text)), text[i])
<1> DEFINE e == quadletToWizard(text)
           c == e.container
           val == text[i].val
           at == {j \in Places(text, "Container", "Environment") : hasTwoParts(text[j].val)}
           own == Pick(text, at)
<1>1. IsSeq(text) /\ text[i] = Line("Container", "Environment", val)
  BY DEF TextOK, LineOK
<1>2. FormOK(e)
  BY ReadIsForm
<1>3. IsSeq(val)
  BY DEF TextOK, LineOK
<1>4. Len(val) = 2
  BY DEF MustKeep, Expressible
<1>5. c.env = [n \in DOMAIN own |-> KeyValue(own[n].val)]
  BY FieldsRead DEF EnvOf
<1>6. i \in at /\ at \in SUBSET (DOMAIN text)
  <2>1. hasTwoParts(val)
    BY <1>4 DEF hasTwoParts
  <2> QED
    BY <2>1 DEF Places
<1> HIDE DEF at
<1>7. PICK n \in DOMAIN own : own[n] = text[i]
  BY <1>1, <1>6, PickFacts
<1>8. own[n].val = val
  BY <1>7
<1>9. /\ DOMAIN EnvText(c) = DOMAIN c.env
      /\ EnvText(c)[n] = Line("Container", "Environment", <<c.env[n].key, c.env[n].value>>)
  <2>1. IsSeq(c.env)
    BY <1>2 DEF FormOK, ContainerOK, ServiceOK
  <2>2. n \in DOMAIN c.env
    BY <1>5
  <2> HIDE DEF c, own
  <2> QED
    BY <2>1, <2>2, EnvFacts
<1> HIDE DEF e, c, val, own
<1>10. c.env[n] = KeyValue(val) /\ n \in DOMAIN c.env
  BY <1>5, <1>7, <1>8
<1>11. KeyValue(val).key = val[1] /\ KeyValue(val).value = val[2]
  BY DEF KeyValue
<1>12. val = <<val[1], val[2]>>
  BY <1>3, <1>4, Two
<1>13. EnvText(c)[n] = text[i]
  BY <1>1, <1>9, <1>10, <1>11, <1>12
<1>14. Has(EnvText(c), text[i])
  BY <1>9, <1>10, <1>13 DEF Has
<1>15. Has(EnvText(e.container), text[i])
  BY <1>14 DEF c
<1>16. Has(wizardToQuadlet(e), text[i])
  BY <1>2, <1>15, PartsWritten
<1> QED
  BY <1>16 DEF e

\* The last of the values of a label is written again, whether it is a label of the form's
\* or the one that stands for auto-update.
LEMMA KeepsLabel ==
  ASSUME NEW text, TextOK(text), NEW i \in DOMAIN text, MustKeep(text, i), HasRoom(text, i),
         text[i].sec = "Container", text[i].key = "Label"
  PROVE  Has(wizardToQuadlet(quadletToWizard(text)), text[i])
<1> DEFINE e == quadletToWizard(text)
           c == e.container
           val == text[i].val
           k == val[1]
           at == LabelPlaces(text)
           own == {j \in at : text[j].val[1] = k}
           D == {text[j].val[1] : j \in at}
           default == <<k, "">>
           registry == "registry"
<1>1. IsSeq(text) /\ text[i] = Line("Container", "Label", val)
  BY DEF TextOK, LineOK
<1>2. FormOK(e)
  BY ReadIsForm
<1>3. IsSeq(val)
  BY DEF TextOK, LineOK
<1>4. Len(val) = 2
  BY DEF MustKeep, Expressible
<1>5. ~ \E j \in i + 1 .. Len(text) :
          text[j].sec = "Container" /\ text[j].key = "Label" /\ text[j].val[1] = k
  BY DEF MustKeep
<1>6. val = AutoUpdateLabel => AutoUpdateOf(text) = registry
  BY DEF MustKeep
<1>7. c.labels = LabelsOf(text) /\ c.autoUpdate = AutoUpdateOf(text)
  BY FieldsRead
<1>8. \/ LabelsOf(text)[k] = Assigned(text, own, default)[2] /\ DOMAIN LabelsOf(text) = D
      \/ k \notin D
  BY DEF LabelsOf
<1>9. \A j \in at :
        j \in DOMAIN text /\ text[j].sec = "Container" /\ text[j].key = "Label"
  BY DEF LabelPlaces, Places
<1>10. val # AutoUpdateLabel => i \in at
  <2>1. hasTwoParts(val)
    BY <1>4 DEF hasTwoParts
  <2> QED
    BY <2>1 DEF LabelPlaces, Places
<1>11. IsFiniteSet(DOMAIN c.labels)
  BY <1>2 DEF FormOK, ContainerOK, ServiceOK
<1>12. Len(text) \in Nat /\ DOMAIN text = 1 .. Len(text)
  BY <1>1, SeqFacts
<1>13. text[i].val = val /\ val[1] = k
  OBVIOUS
<1>14. val = <<k, val[2]>>
  BY <1>3, <1>4, Two
<1> HIDE DEF at
<1>15. CASE val = AutoUpdateLabel
  <2>1. \A l : Has(AutoUpdateText(c), l) <=>
          \/ c.autoUpdate # "" /\ l = Line("Container", "AutoUpdate", c.autoUpdate)
          \/ c.autoUpdate = registry /\ l = Line("Container", "Label", AutoUpdateLabel)
    BY AutoUpdateFacts
  <2> HIDE DEF registry, c, val, e
  <2>2. Has(AutoUpdateText(c), text[i])
    BY <2>1, <1>1, <1>6, <1>7, <1>15
  <2>3. Has(AutoUpdateText(e.container), text[i])
    BY <2>2 DEF c
  <2>4. Has(wizardToQuadlet(e), text[i])
    BY <2>3, <1>2, PartsWritten
  <2> QED
    BY <2>4 DEF e
<1>16. CASE val # AutoUpdateLabel
  <2>1. i \in own /\ own \in SUBSET (1 .. Len(text))
    BY <1>9, <1>10, <1>12, <1>16
  <2>2. \A j \in own : j <= i
    BY <1>5, <1>9, <1>12
  <2>3. k \in D
    BY <1>10, <1>16
  <2> HIDE DEF own, D, default, val, k, c, e
  <2>4. Max(own) = i
    BY <2>1, <2>2, <1>12, LastIs
  <2>5. Assigned(text, own, default) = val
    BY <2>1, <2>4, <1>13 DEF Assigned
  <2>6. c.labels[k] = val[2] /\ k \in DOMAIN c.labels
    BY <2>3, <2>5, <1>7, <1>8
  <2>7. \A l : Has(LabelText(c), l) <=>
                 \E h \in DOMAIN c.labels : l = Line("Container", "Label", <<h, c.labels[h]>>)
    BY <1>11, LabelFacts
  <2>8. Has(LabelText(c), text[i])
    BY <2>6, <2>7, <1>1, <1>14
  <2>9. Has(LabelText(e.container), text[i])
    BY <2>8 DEF c
  <2>10. Has(wizardToQuadlet(e), text[i])
    BY <2>9, <1>2, PartsWritten
  <2> QED
    BY <2>10 DEF e
<1> QED
  BY <1>15, <1>16

\* The line that turns auto-update on, when nothing behind it does.
LEMMA KeepsAutoUpdate ==
  ASSUME NEW text, TextOK(text), NEW i \in DOMAIN text, MustKeep(text, i), HasRoom(text, i),
         text[i].sec = "Container", text[i].key = "AutoUpdate"
  PROVE  Has(wizardToQuadlet(quadletToWizard(text)), text[i])
<1> DEFINE e == quadletToWizard(text)
           c == e.container
           val == text[i].val
           byKey   == {j \in Places(text, "Container", "AutoUpdate") :
                         text[j].val \in {"registry", "local"}}
           byLabel == {j \in Places(text, "Container", "Label") : text[j].val = AutoUpdateLabel}
           on      == byKey \cup byLabel
           none == ""
<1>1. IsSeq(text) /\ text[i] = Line("Container", "AutoUpdate", val)
  BY DEF TextOK, LineOK
<1>2. FormOK(e)
  BY ReadIsForm
<1>3. val \in {"registry", "local"}
  BY DEF MustKeep, Expressible
<1>4. ~ \E j \in i + 1 .. Len(text) : text[j].sec = "Container" /\ text[j].key = "AutoUpdate"
  BY DEF MustKeep, HasRoom, SetAgain, ListKey, OneLineKey
<1>5. ~ \E j \in i + 1 .. Len(text) :
          text[j].sec = "Container" /\ text[j].key = "Label" /\ text[j].val = AutoUpdateLabel
  BY DEF MustKeep
<1>6. c.autoUpdate = AutoUpdateOf(text)
  BY FieldsRead
<1>7. AutoUpdateOf(text) =
        IF on = {} THEN none ELSE IF Max(on) \in byKey THEN text[Max(on)].val ELSE "registry"
  BY DEF AutoUpdateOf
<1>8. \A l : Has(AutoUpdateText(c), l) <=>
        \/ c.autoUpdate # none /\ l = Line("Container", "AutoUpdate", c.autoUpdate)
        \/ c.autoUpdate = "registry" /\ l = Line("Container", "Label", AutoUpdateLabel)
  BY AutoUpdateFacts
<1>9. val # none
  BY <1>3
<1>10. Len(text) \in Nat /\ DOMAIN text = 1 .. Len(text)
  BY <1>1, SeqFacts
<1>11. i \in byKey
  BY <1>3 DEF Places
<1>12. \A j \in on : /\ j \in DOMAIN text /\ text[j].sec = "Container"
                     /\ \/ text[j].key = "AutoUpdate"
                        \/ text[j].key = "Label" /\ text[j].val = AutoUpdateLabel
  BY DEF Places
<1>13. i \in on
  BY <1>11
<1>14. text[i].val = val
  OBVIOUS
<1> HIDE DEF e, c, val, byKey, byLabel, on, none
<1>15. on \in SUBSET (1 .. Len(text)) /\ \A j \in on : j <= i
  BY <1>4, <1>5, <1>10, <1>12
<1>16. Max(on) = i
  BY <1>10, <1>13, <1>15, LastIs
<1>17. c.autoUpdate = val
  BY <1>6, <1>7, <1>11, <1>13, <1>14, <1>16
<1>18. Has(AutoUpdateText(c), text[i])
  BY <1>1, <1>8, <1>9, <1>17
<1>19. Has(AutoUpdateText(e.container), text[i])
  BY <1>18 DEF c
<1>20. Has(wizardToQuadlet(e), text[i])
  BY <1>2, <1>19, PartsWritten
<1> QED
  BY <1>20 DEF e

\* The health check, when there is a command for it.
LEMMA KeepsHealth ==
  ASSUME NEW text, TextOK(text), NEW i \in DOMAIN text, MustKeep(text, i), HasRoom(text, i),
         text[i].sec = "Container",
         text[i].key \in {"HealthCmd", "HealthInterval", "HealthRetries",
                          "HealthStartPeriod", "HealthTimeout"}
  PROVE  Has(wizardToQuadlet(quadletToWizard(text)), text[i])
<1> DEFINE e == quadletToWizard(text)
           h == e.container.healthCheck
           key == text[i].key
           val == text[i].val
           none == ""
           zero == 0
           three == 3
           ten == "10s"
           sixty == "60s"
           five == "5s"
<1>1. IsSeq(text) /\ text[i] = Line("Container", key, val)
  BY DEF TextOK, LineOK
<1>2. FormOK(e)
  BY ReadIsForm
<1>3. ~ \E j \in i + 1 .. Len(text) : text[j].sec = "Container" /\ text[j].key = key
  BY DEF MustKeep, HasRoom, SetAgain, ListKey, OneLineKey
<1>4. /\ key \in {"HealthCmd", "HealthInterval", "HealthStartPeriod", "HealthTimeout"} => val # none
      /\ key = "HealthRetries" => val # zero
  <2>1. key \in {"HealthCmd", "HealthInterval", "HealthStartPeriod", "HealthTimeout"} => val # none
    BY DEF MustKeep, Expressible
  <2>2. key = "HealthRetries" => val > 0
    BY DEF MustKeep, Expressible
  <2> HIDE DEF val
  <2>3. ASSUME val > 0, val = 0
        PROVE  FALSE
    <3>1. 0 > 0
      BY <2>3, Zenon
    <3> QED
      BY <3>1
  <2> QED
    BY <2>1, <2>2, <2>3
<1>5. key # "HealthCmd" => Value(text, "Container", "HealthCmd", none) # none
  BY DEF HasRoom, HealthKey
<1>6. /\ h.enabled <=> Places(text, "Container", "HealthCmd") # {}
      /\ h.cmd = Value(text, "Container", "HealthCmd", none)
      /\ h.interval = Value(text, "Container", "HealthInterval", ten)
      /\ Value(text, "Container", "HealthRetries", three) # zero =>
           h.retries = Value(text, "Container", "HealthRetries", three)
      /\ h.startPeriod = Value(text, "Container", "HealthStartPeriod", sixty)
      /\ h.timeout = Value(text, "Container", "HealthTimeout", five)
  <2>1. h = HealthOf(text)
    BY FieldsRead
  <2> HIDE DEF h
  <2> QED
    BY <2>1 DEF HealthOf
<1>7. \A l : Has(HealthText(h), l) <=>
        /\ h.enabled /\ h.cmd # none
        /\ \/ l = Line("Container", "HealthCmd", h.cmd)
           \/ h.interval # none /\ l = Line("Container", "HealthInterval", h.interval)
           \/ h.retries # zero /\ l = Line("Container", "HealthRetries", h.retries)
           \/ h.startPeriod # none /\ l = Line("Container", "HealthStartPeriod", h.startPeriod)
           \/ h.timeout # none /\ l = Line("Container", "HealthTimeout", h.timeout)
  BY HealthFacts
<1>8. /\ key \in {"HealthCmd", "HealthInterval", "HealthRetries", "HealthStartPeriod",
                  "HealthTimeout"}
      /\ text[i].sec = "Container"
  OBVIOUS
<1>9. text[i].key = key /\ text[i].val = val
  OBVIOUS
<1> HIDE DEF e, h, key, val, none, zero, three, ten, sixty, five
<1>10. \A default : Value(text, "Container", key, default) = val /\ Places(text, "Container", key) # {}
  BY <1>1, <1>3, <1>8, <1>9, LastValue
<1>11. h.enabled /\ h.cmd # none
  <2>1. CASE key = "HealthCmd"
    BY <2>1, <1>4, <1>6, <1>10
  <2>2. CASE key # "HealthCmd"
    <3>1. Places(text, "Container", "HealthCmd") # {}
      BY <2>2, <1>5 DEF Value, Assigned
    <3> QED
      BY <2>2, <3>1, <1>5, <1>6
  <2> QED
    BY <2>1, <2>2
<1>12. Has(HealthText(h), text[i])
  <2>1. CASE key = "HealthCmd"
    BY <2>1, <1>1, <1>6, <1>7, <1>10, <1>11
  <2>2. CASE key = "HealthInterval"
    BY <2>2, <1>1, <1>4, <1>6, <1>7, <1>10, <1>11
  <2>3. CASE key = "HealthRetries"
    BY <2>3, <1>1, <1>4, <1>6, <1>7, <1>10, <1>11
  <2>4. CASE key = "HealthStartPeriod"
    BY <2>4, <1>1, <1>4, <1>6, <1>7, <1>10, <1>11
  <2>5. CASE key = "HealthTimeout"
    BY <2>5, <1>1, <1>4, <1>6, <1>7, <1>10, <1>11
  <2> QED
    BY <2>1, <2>2, <2>3, <2>4, <2>5, <1>8
<1>13. Has(HealthText(e.container.healthCheck), text[i])
  BY <1>12 DEF h
<1>14. Has(wizardToQuadlet(e), text[i])
  BY <1>2, <1>13, PartsWritten
<1> QED
  BY <1>14 DEF e

\* How the service restarts, when it is a policy, and how long it may take to start.
LEMMA KeepsService ==
  ASSUME NEW text, TextOK(text), NEW i \in DOMAIN text, MustKeep(text, i), HasRoom(text, i),
         text[i].sec = "Service", text[i].key \in {"Restart", "TimeoutStartSec"}
  PROVE  Has(wizardToQuadlet(quadletToWizard(text)), text[i])
<1> DEFINE e == quadletToWizard(text)
           s == e.service
           key == text[i].key
           val == text[i].val
           at == {j \in Places(text, "Service", "Restart") : text[j].val \in RestartPolicy}
           always == "always"
           usual == "300"
<1>1. IsSeq(text) /\ text[i] = Line("Service", key, val)
  BY DEF TextOK, LineOK
<1>2. FormOK(e)
  BY ReadIsForm
<1>3. ~ \E j \in i + 1 .. Len(text) : text[j].sec = "Service" /\ text[j].key = key
  BY DEF MustKeep, HasRoom, SetAgain, ListKey, OneLineKey
<1>4. key = "Restart" => val \in RestartPolicy
  BY DEF MustKeep, Expressible
<1>5. /\ s.restart = Assigned(text, at, always)
      /\ s.timeoutStartSec = Value(text, "Service", "TimeoutStartSec", usual)
  BY FieldsRead DEF RestartOf
<1>6. Len(text) \in Nat /\ DOMAIN text = 1 .. Len(text)
  BY <1>1, SeqFacts
<1>7. key \in {"Restart", "TimeoutStartSec"} /\ text[i].sec = "Service"
  OBVIOUS
<1>8. text[i].key = key /\ text[i].val = val
  OBVIOUS
<1>9. \A j \in at : j \in DOMAIN text /\ text[j].sec = "Service" /\ text[j].key = "Restart"
  BY DEF Places
<1>10. key = "Restart" => i \in at
  BY <1>4 DEF Places
<1> HIDE DEF e, s, key, val, at, always, usual
<1>11. CASE key = "Restart"
  <2>1. at \in SUBSET (1 .. Len(text)) /\ i \in at
    BY <1>6, <1>9, <1>10, <1>11
  <2>2. \A j \in at : j <= i
    BY <1>3, <1>6, <1>9, <1>11
  <2>3. Max(at) = i
    BY <2>1, <2>2, <1>6, LastIs
  <2>4. s.restart = val
    BY <2>1, <2>3, <1>5, <1>8 DEF Assigned
  <2>5. text[i] = Line("Service", "Restart", e.service.restart)
    BY <2>4, <1>1, <1>11 DEF s
  <2>6. Has(wizardToQuadlet(e), text[i])
    BY <2>5, <1>2, PartsWritten
  <2> QED
    BY <2>6 DEF e
<1>12. CASE key = "TimeoutStartSec"
  <2>1. s.timeoutStartSec = val
    <3>1. \A default : Value(text, "Service", key, default) = val
      BY <1>1, <1>3, <1>7, <1>8, LastValue
    <3> QED
      BY <3>1, <1>5, <1>12
  <2>2. text[i] = Line("Service", "TimeoutStartSec", e.service.timeoutStartSec)
    BY <2>1, <1>1, <1>12 DEF s
  <2>3. Has(wizardToQuadlet(e), text[i])
    BY <2>2, <1>2, PartsWritten
  <2> QED
    BY <2>3 DEF e
<1> QED
  BY <1>7, <1>11, <1>12

\* A command that runs before the service, be it a script or a wait for a directory.
LEMMA KeepsPre ==
  ASSUME NEW text, TextOK(text), NEW i \in DOMAIN text, MustKeep(text, i), HasRoom(text, i),
         text[i].sec = "Service", text[i].key = "ExecStartPre"
  PROVE  Has(wizardToQuadlet(quadletToWizard(text)), text[i])
<1> DEFINE e == quadletToWizard(text)
           s == e.service
           val == text[i].val
           script == "script"
           dir == "dir"
           mount == "mount"
           waits == {j \in Places(text, "Service", "ExecStartPre") : text[j].val[1] # script}
           scripts == {j \in Places(text, "Service", "ExecStartPre") : text[j].val[1] = script}
<1>1. IsSeq(text) /\ text[i] = Line("Service", "ExecStartPre", val)
  BY DEF TextOK, LineOK
<1>2. FormOK(e)
  BY ReadIsForm
<1>3. IsSeq(val) /\ val[1] \in {script, dir, mount}
  BY DEF TextOK, LineOK, CommandOK
<1>4. Len(val) = 2 /\ val[1] # mount
  BY DEF MustKeep, Expressible
<1>5. /\ s.waitForPaths = [n \in DOMAIN Pick(text, waits) |->
                             [path   |-> pathOf(Pick(text, waits)[n].val),
                              strict |-> Pick(text, waits)[n].val[1] = mount]]
      /\ s.execStartPre = [n \in DOMAIN Pick(text, scripts) |-> Pick(text, scripts)[n].val]
  <2>1. s.waitForPaths = WaitsOf(text) /\ s.execStartPre = ScriptsOf(text)
    BY FieldsRead
  <2> HIDE DEF s
  <2>2. s.waitForPaths = [n \in DOMAIN Pick(text, waits) |->
                            [path   |-> pathOf(Pick(text, waits)[n].val),
                             strict |-> Pick(text, waits)[n].val[1] = mount]]
    BY <2>1, Zenon DEF WaitsOf
  <2>3. s.execStartPre = [n \in DOMAIN Pick(text, scripts) |-> Pick(text, scripts)[n].val]
    BY <2>1, Zenon DEF ScriptsOf
  <2> QED
    BY <2>2, <2>3
<1>6. waits \in SUBSET (DOMAIN text) /\ scripts \in SUBSET (DOMAIN text)
  BY DEF Places
<1>7. /\ val[1] # script => i \in waits
      /\ val[1] = script => i \in scripts
  BY DEF Places
<1>8. IsSeq(s.waitForPaths) /\ IsSeq(s.execStartPre)
  BY <1>2 DEF FormOK, ContainerOK, ServiceOK
<1>9. \A v : v[1] # mount => pathOf(v) = v[2]
  BY DEF pathOf
<1>10. val = <<val[1], val[2]>>
  BY <1>3, <1>4, Two
<1>11. text[i].val = val
  OBVIOUS
<1> HIDE DEF waits, scripts, script, e, val
<1>12. CASE val[1] = script
  <2> DEFINE own == Pick(text, scripts)
  <2>1. PICK n \in DOMAIN own : own[n] = text[i]
    BY <1>1, <1>6, <1>7, <1>12, PickFacts
  <2>2. s.execStartPre[n] = val /\ n \in DOMAIN s.execStartPre
    BY <2>1, <1>5, <1>11
  <2> HIDE DEF s
  <2>3. \A l : Has(Lines("Service", "ExecStartPre", s.execStartPre), l) <=>
                 \E m \in DOMAIN s.execStartPre :
                   l = Line("Service", "ExecStartPre", s.execStartPre[m])
    BY <1>8, LinesFacts
  <2>4. Has(Lines("Service", "ExecStartPre", s.execStartPre), text[i])
    BY <2>2, <2>3, <1>1
  <2>5. Has(Lines("Service", "ExecStartPre", e.service.execStartPre), text[i])
    BY <2>4 DEF s
  <2>6. Has(wizardToQuadlet(e), text[i])
    BY <2>5, <1>2, PartsWritten
  <2> QED
    BY <2>6 DEF e
<1>13. CASE val[1] # script
  <2> DEFINE own == Pick(text, waits)
  <2>1. PICK n \in DOMAIN own : own[n] = text[i]
    BY <1>1, <1>6, <1>7, <1>13, PickFacts
  <2>2. /\ s.waitForPaths[n] = [path |-> pathOf(own[n].val), strict |-> own[n].val[1] = mount]
        /\ n \in DOMAIN s.waitForPaths
    BY <1>5, Zenon
  <2> HIDE DEF s, own, mount
  <2>3. own[n].val = val
    BY <2>1, <1>11
  <2>4. (own[n].val[1] = mount) = FALSE
    BY <2>3, <1>4
  <2>5. s.waitForPaths[n] = [path |-> pathOf(own[n].val), strict |-> FALSE]
    BY <2>2, <2>4, Zenon
  <2>6. s.waitForPaths[n].path = val[2] /\ ~ s.waitForPaths[n].strict
    BY <2>3, <2>5, <1>4, <1>9
  <2>7. /\ DOMAIN WaitText(s) = DOMAIN s.waitForPaths
        /\ WaitText(s)[n] = Line("Service", "ExecStartPre",
             <<IF s.waitForPaths[n].strict THEN mount ELSE dir, s.waitForPaths[n].path>>)
    BY <2>2, <1>8, WaitFacts DEF mount
  <2>8. val[1] = dir
    BY <1>3, <1>4, <1>13
  <2>9. WaitText(s)[n] = text[i]
    BY <2>6, <2>7, <2>8, <1>1, <1>10
  <2>10. Has(WaitText(s), text[i])
    BY <2>2, <2>7, <2>9 DEF Has
  <2>11. Has(WaitText(e.service), text[i])
    BY <2>10 DEF s
  <2>12. Has(wizardToQuadlet(e), text[i])
    BY <2>11, <1>2, PartsWritten
  <2> QED
    BY <2>12 DEF e
<1> QED
  BY <1>12, <1>13

\* And every command that runs after it.
LEMMA KeepsPost ==
  ASSUME NEW text, TextOK(text), NEW i \in DOMAIN text, MustKeep(text, i), HasRoom(text, i),
         text[i].sec = "Service", text[i].key = "ExecStartPost"
  PROVE  Has(wizardToQuadlet(quadletToWizard(text)), text[i])
<1> DEFINE e == quadletToWizard(text)
           s == e.service
           val == text[i].val
           at == Places(text, "Service", "ExecStartPost")
           own == Pick(text, at)
<1>1. IsSeq(text) /\ text[i] = Line("Service", "ExecStartPost", val)
  BY DEF TextOK, LineOK
<1>2. FormOK(e)
  BY ReadIsForm
<1>3. s.execStartPost = [n \in DOMAIN own |-> own[n].val]
  BY FieldsRead DEF PostsOf
<1>4. i \in at /\ at \in SUBSET (DOMAIN text)
  BY DEF Places
<1> HIDE DEF at
<1>5. PICK n \in DOMAIN own : own[n] = text[i]
  BY <1>1, <1>4, PickFacts
<1>6. s.execStartPost[n] = val /\ n \in DOMAIN s.execStartPost
  BY <1>3, <1>5
<1>7. IsSeq(s.execStartPost)
  BY <1>2 DEF FormOK, ContainerOK, ServiceOK
<1> HIDE DEF e, s, val, own
<1>8. \A l : Has(Lines("Service", "ExecStartPost", s.execStartPost), l) <=>
               \E m \in DOMAIN s.execStartPost :
                 l = Line("Service", "ExecStartPost", s.execStartPost[m])
  BY <1>7, LinesFacts
<1>9. Has(Lines("Service", "ExecStartPost", s.execStartPost), text[i])
  BY <1>1, <1>6, <1>8
<1>10. Has(Lines("Service", "ExecStartPost", e.service.execStartPost), text[i])
  BY <1>9 DEF s
<1>11. Has(wizardToQuadlet(e), text[i])
  BY <1>2, <1>10, PartsWritten
<1> QED
  BY <1>11 DEF e

\* Reading a text into the form and writing it again (convert.ts) loses no line that the form
\* has a field for, with a value it can hold, that no later line overrules: whatever the text.
\* Two kinds of lines are left out, which the code does lose: of After, Requires, Wants and
\* Network, which add up, only the last is kept, and the options of a health check without a
\* command are not.
THEOREM TextsAreKept == \A text : TextOK(text) => FormKeepsLines(text)
<1> SUFFICES ASSUME NEW text, TextOK(text), NEW i \in DOMAIN text, MustKeep(text, i), HasRoom(text, i)
             PROVE  Has(wizardToQuadlet(quadletToWizard(text)), text[i])
  BY DEF FormKeepsLines, Has
<1>1. HasField(text[i])
  BY DEF MustKeep
<1> DEFINE l == text[i]
<1> HIDE DEF l
<1>2. \/ l.sec = "Unit" /\ l.key \in {"Description", "After", "Requires", "Wants"}
      \/ l.sec = "Container" /\ l.key \in {"Image", "Exec", "User", "Group", "HostName", "Network"}
      \/ l.sec = "Container" /\ l.key = "PublishPort"
      \/ l.sec = "Container" /\ l.key = "Volume"
      \/ l.sec = "Container" /\ l.key = "Environment"
      \/ l.sec = "Container" /\ l.key = "Label"
      \/ l.sec = "Container" /\ l.key = "AutoUpdate"
      \/ l.sec = "Container" /\ l.key \in {"HealthCmd", "HealthInterval", "HealthRetries",
                                           "HealthStartPeriod", "HealthTimeout"}
      \/ l.sec = "Service" /\ l.key \in {"Restart", "TimeoutStartSec"}
      \/ l.sec = "Service" /\ l.key = "ExecStartPre"
      \/ l.sec = "Service" /\ l.key = "ExecStartPost"
  BY <1>1, Fields DEF l
<1>3. CASE l.sec = "Unit" /\ l.key \in {"Description", "After", "Requires", "Wants"}
  BY <1>3, KeepsUnit DEF l
<1>4. CASE l.sec = "Container"
           /\ l.key \in {"Image", "Exec", "User", "Group", "HostName", "Network"}
  BY <1>4, KeepsWords DEF l
<1>5. CASE l.sec = "Container" /\ l.key = "PublishPort"
  BY <1>5, KeepsPort DEF l
<1>6. CASE l.sec = "Container" /\ l.key = "Volume"
  BY <1>6, KeepsVolume DEF l
<1>7. CASE l.sec = "Container" /\ l.key = "Environment"
  BY <1>7, KeepsEnv DEF l
<1>8. CASE l.sec = "Container" /\ l.key = "Label"
  BY <1>8, KeepsLabel DEF l
<1>9. CASE l.sec = "Container" /\ l.key = "AutoUpdate"
  BY <1>9, KeepsAutoUpdate DEF l
<1>10. CASE l.sec = "Container"
            /\ l.key \in {"HealthCmd", "HealthInterval", "HealthRetries",
                          "HealthStartPeriod", "HealthTimeout"}
  BY <1>10, KeepsHealth DEF l
<1>11. CASE l.sec = "Service" /\ l.key \in {"Restart", "TimeoutStartSec"}
  BY <1>11, KeepsService DEF l
<1>12. CASE l.sec = "Service" /\ l.key = "ExecStartPre"
  BY <1>12, KeepsPre DEF l
<1>13. CASE l.sec = "Service" /\ l.key = "ExecStartPost"
  BY <1>13, KeepsPost DEF l
<1> QED
  BY <1>2, <1>3, <1>4, <1>5, <1>6, <1>7, <1>8, <1>9, <1>10, <1>11, <1>12, <1>13

-----------------------------------------------------------------------------
(* What the form writes is a text.                                         *)

LEMMA TupleFacts ==
  /\ \A a, b : IsSeq(<<a, b>>) /\ Len(<<a, b>>) = 2
  /\ \A a, b, c : IsSeq(<<a, b, c>>) /\ Len(<<a, b, c>>) = 3
<1>1. ASSUME NEW a, NEW b
      PROVE  IsSeq(<<a, b>>) /\ Len(<<a, b>>) = 2
  <2>1. <<a, b>> = [i \in 1 .. 2 |-> <<a, b>>[i]]
    OBVIOUS
  <2> QED
    BY <2>1, TupleIsSeq
<1>2. ASSUME NEW a, NEW b, NEW c
      PROVE  IsSeq(<<a, b, c>>) /\ Len(<<a, b, c>>) = 3
  <2>1. <<a, b, c>> = [i \in 1 .. 3 |-> <<a, b, c>>[i]]
    OBVIOUS
  <2> QED
    BY <2>1, TupleIsSeq
<1> QED
  BY <1>1, <1>2

\* A line of a section and key whose values the form does not take apart.
LEMMA PlainLine ==
  ASSUME NEW sec, NEW key, NEW val,
         sec = "Container" => key \notin {"PublishPort", "Volume", "Environment", "Label"},
         sec = "Service" => key # "ExecStartPre"
  PROVE  LineOK(Line(sec, key, val))
  BY DEF LineOK, Line

LEMMA PartLine ==
  ASSUME NEW key \in {"Volume", "Environment", "Label"}, NEW val, IsSeq(val)
  PROVE  LineOK(Line("Container", key, val))
<1> DEFINE l == Line("Container", key, val)
<1>1. l.sec = "Container" /\ l.key = key /\ l.val = val
  BY DEF Line
<1> HIDE DEF l
<1>2. l = Line(l.sec, l.key, l.val)
  BY <1>1 DEF l
<1>3. LineOK(l)
  BY <1>1, <1>2 DEF LineOK
<1> QED
  BY <1>3 DEF l

LEMMA CommandLine ==
  ASSUME NEW val, CommandOK(val)
  PROVE  LineOK(Line("Service", "ExecStartPre", val))
<1> DEFINE l == Line("Service", "ExecStartPre", val)
<1>1. l.sec = "Service" /\ l.key = "ExecStartPre" /\ l.val = val
  BY DEF Line
<1> HIDE DEF l
<1>2. l = Line(l.sec, l.key, l.val)
  BY <1>1 DEF l
<1>3. LineOK(l)
  BY <1>1, <1>2 DEF LineOK
<1> QED
  BY <1>3 DEF l

LEMMA PortLine ==
  ASSUME NEW a, NEW b, NEW proto
  PROVE  LineOK(Line("Container", "PublishPort", [parts |-> <<a, b>>, proto |-> proto]))
<1> DEFINE parts == <<a, b>>
           val == [parts |-> parts, proto |-> proto]
           l == Line("Container", "PublishPort", val)
<1>1. IsSeq(parts) /\ parts # <<>>
  BY TupleFacts
<1> HIDE DEF parts
<1>2. val.parts = parts /\ val = [parts |-> val.parts, proto |-> val.proto]
  OBVIOUS
<1> HIDE DEF val
<1>3. l.sec = "Container" /\ l.key = "PublishPort" /\ l.val = val
  BY DEF Line
<1> HIDE DEF l
<1>4. l = Line(l.sec, l.key, l.val)
  BY <1>3 DEF l
<1>5. LineOK(l)
  BY <1>1, <1>2, <1>3, <1>4 DEF LineOK
<1> QED
  BY <1>5 DEF l, val, parts

LEMMA WrittenIsText ==
  ASSUME NEW d, FormOK(d)
  PROVE  TextOK(wizardToQuadlet(d))
<1> DEFINE text == wizardToQuadlet(d)
           c == d.container
           s == d.service
           h == c.healthCheck
<1>1. /\ IsSeq(text)
      /\ \A l : Has(text, l) <=>
           \/ Has(UnitText(d), l) \/ Has(ContainerText(c), l) \/ Has(ServiceText(s), l)
           \/ l = Line("Install", "WantedBy", "default.target")
  BY FormLists, WrittenFacts
<1>2. ASSUME NEW l, Has(UnitText(d), l)
      PROVE  LineOK(l)
  <2>1. \/ l = Line("Unit", "Description", Description(d))
        \/ l = Line("Unit", "After", d.unit.after)
        \/ l = Line("Unit", "Requires", d.unit.requires)
        \/ l = Line("Unit", "Wants", d.unit.wants)
    BY <1>2, UnitFacts
  <2>2. \A key, val : LineOK(Line("Unit", key, val))
    BY PlainLine
  <2> QED
    BY <2>1, <2>2
<1>3. ASSUME NEW l, Has(ContainerText(c), l)
      PROVE  LineOK(l)
  <2>1. \/ Has(ImageText(c), l) \/ Has(PortText(c), l) \/ Has(VolumeText(c), l)
        \/ Has(EnvText(c), l) \/ Has(LabelText(c), l) \/ Has(AutoUpdateText(c), l)
        \/ Has(NetworkText(c), l) \/ Has(HealthText(h), l)
    BY <1>3, ContainerFacts DEF FormOK, ContainerOK
  <2>2. \A val : /\ LineOK(Line("Container", "Image", val)) /\ LineOK(Line("Container", "Exec", val))
                 /\ LineOK(Line("Container", "AutoUpdate", val))
                 /\ LineOK(Line("Container", "User", val)) /\ LineOK(Line("Container", "Group", val))
                 /\ LineOK(Line("Container", "HostName", val))
                 /\ LineOK(Line("Container", "Network", val))
                 /\ LineOK(Line("Container", "HealthCmd", val))
                 /\ LineOK(Line("Container", "HealthInterval", val))
                 /\ LineOK(Line("Container", "HealthRetries", val))
                 /\ LineOK(Line("Container", "HealthStartPeriod", val))
                 /\ LineOK(Line("Container", "HealthTimeout", val))
    BY PlainLine
  <2>3. CASE Has(ImageText(c), l)
    <3>1. l = Line("Container", "Image", c.image) \/ l = Line("Container", "Exec", c.exec)
      BY <2>3, ImageFacts
    <3> HIDE DEF c
    <3> QED
      BY <3>1, <2>2
  <2>4. CASE Has(PortText(c), l)
    <3>1. IsSeq(c.ports)
      BY DEF FormOK, ContainerOK
    <3> HIDE DEF c
    <3>2. \E i \in DOMAIN c.ports :
            l = Line("Container", "PublishPort",
                     [parts |-> <<c.ports[i].hostPort, c.ports[i].containerPort>>,
                      proto |-> c.ports[i].protocol])
      BY <2>4, <3>1, PortFacts DEF Has
    <3> QED
      BY <3>2, PortLine
  <2>5. CASE Has(VolumeText(c), l)
    <3>1. IsSeq(c.volumes)
      BY DEF FormOK, ContainerOK
    <3> HIDE DEF c
    <3>2. \E i \in DOMAIN c.volumes :
            l = Line("Container", "Volume", <<c.volumes[i].hostPath,
                     c.volumes[i].containerPath, c.volumes[i].mode>>)
      BY <2>5, <3>1, VolumeFacts DEF Has
    <3>3. \A x, y, z : LineOK(Line("Container", "Volume", <<x, y, z>>))
      BY TupleFacts, PartLine
    <3> QED
      BY <3>2, <3>3
  <2>6. CASE Has(EnvText(c), l)
    <3>1. IsSeq(c.env)
      BY DEF FormOK, ContainerOK
    <3> HIDE DEF c
    <3>2. \E i \in DOMAIN c.env :
            l = Line("Container", "Environment", <<c.env[i].key, c.env[i].value>>)
      BY <2>6, <3>1, EnvFacts DEF Has
    <3>3. \A x, y : LineOK(Line("Container", "Environment", <<x, y>>))
      BY TupleFacts, PartLine
    <3> QED
      BY <3>2, <3>3
  <2>7. CASE Has(LabelText(c), l)
    <3>1. IsFiniteSet(DOMAIN c.labels)
      BY DEF FormOK, ContainerOK
    <3> HIDE DEF c
    <3>2. \E k \in DOMAIN c.labels : l = Line("Container", "Label", <<k, c.labels[k]>>)
      BY <2>7, <3>1, LabelFacts
    <3>3. \A x, y : LineOK(Line("Container", "Label", <<x, y>>))
      BY TupleFacts, PartLine
    <3> QED
      BY <3>2, <3>3
  <2>8. CASE Has(AutoUpdateText(c), l)
    <3>1. \/ l = Line("Container", "AutoUpdate", c.autoUpdate)
          \/ l = Line("Container", "Label", AutoUpdateLabel)
      BY <2>8, AutoUpdateFacts
    <3>2. LineOK(Line("Container", "Label", AutoUpdateLabel))
      BY TupleFacts, PartLine DEF AutoUpdateLabel
    <3> HIDE DEF c
    <3> QED
      BY <3>1, <3>2, <2>2
  <2>9. CASE Has(NetworkText(c), l)
    <3>1. \/ l = Line("Container", "User", c.user) \/ l = Line("Container", "Group", c.group)
          \/ l = Line("Container", "HostName", c.hostName)
          \/ l = Line("Container", "Network", c.network)
      BY <2>9, NetworkFacts
    <3> HIDE DEF c
    <3> QED
      BY <3>1, <2>2
  <2>10. CASE Has(HealthText(h), l)
    <3>1. \/ l = Line("Container", "HealthCmd", h.cmd)
          \/ l = Line("Container", "HealthInterval", h.interval)
          \/ l = Line("Container", "HealthRetries", h.retries)
          \/ l = Line("Container", "HealthStartPeriod", h.startPeriod)
          \/ l = Line("Container", "HealthTimeout", h.timeout)
      BY <2>10, HealthFacts
    <3> HIDE DEF h
    <3> QED
      BY <3>1, <2>2
  <2> QED
    BY <2>1, <2>3, <2>4, <2>5, <2>6, <2>7, <2>8, <2>9, <2>10
<1>4. ASSUME NEW l, Has(ServiceText(s), l)
      PROVE  LineOK(l)
  <2>1. /\ IsSeq(s.waitForPaths) /\ IsSeq(s.execStartPre) /\ IsSeq(s.execStartPost)
        /\ \A i \in DOMAIN s.execStartPre : CommandOK(s.execStartPre[i])
    BY DEF FormOK, ServiceOK
  <2> HIDE DEF s
  <2>2. \/ l = Line("Service", "Restart", s.restart)
        \/ l = Line("Service", "TimeoutStartSec", s.timeoutStartSec)
        \/ Has(PreText(s), l)
        \/ Has(Lines("Service", "ExecStartPost", s.execStartPost), l)
    BY <1>4, <2>1, ServiceFacts
  <2>3. \A val : /\ LineOK(Line("Service", "Restart", val))
                 /\ LineOK(Line("Service", "TimeoutStartSec", val))
                 /\ LineOK(Line("Service", "ExecStartPost", val))
    BY PlainLine
  <2>4. CASE Has(Lines("Service", "ExecStartPost", s.execStartPost), l)
    <3>1. \E i \in DOMAIN s.execStartPost :
            l = Line("Service", "ExecStartPost", s.execStartPost[i])
      BY <2>1, <2>4, LinesFacts
    <3> QED
      BY <3>1, <2>3
  <2>5. CASE Has(PreText(s), l)
    <3>1. Has(WaitText(s), l) \/ Has(Lines("Service", "ExecStartPre", s.execStartPre), l)
      <4>1. IsSeq(WaitText(s)) /\ IsSeq(Lines("Service", "ExecStartPre", s.execStartPre))
        BY <2>1, WaitFacts, LinesFacts
      <4> QED
        BY <4>1, <2>5, HasConcat DEF PreText
    <3>2. CASE Has(Lines("Service", "ExecStartPre", s.execStartPre), l)
      <4>1. \E i \in DOMAIN s.execStartPre :
              l = Line("Service", "ExecStartPre", s.execStartPre[i])
        BY <2>1, <3>2, LinesFacts
      <4> QED
        BY <4>1, <2>1, CommandLine
    <3>3. CASE Has(WaitText(s), l)
      <4>1. \E i \in DOMAIN s.waitForPaths :
              l = Line("Service", "ExecStartPre",
                       <<IF s.waitForPaths[i].strict THEN "mount" ELSE "dir",
                         s.waitForPaths[i].path>>)
        BY <2>1, <3>3, WaitFacts DEF Has
      <4>2. PICK i \in DOMAIN s.waitForPaths :
              \/ l = Line("Service", "ExecStartPre", <<"mount", s.waitForPaths[i].path>>)
              \/ l = Line("Service", "ExecStartPre", <<"dir", s.waitForPaths[i].path>>)
        BY <4>1
      <4>3. \A path : CommandOK(<<"mount", path>>) /\ CommandOK(<<"dir", path>>)
        BY TupleFacts DEF CommandOK
      <4> QED
        BY <4>2, <4>3, CommandLine
    <3> QED
      BY <3>1, <3>2, <3>3
  <2> QED
    BY <2>2, <2>3, <2>4, <2>5
<1>5. LineOK(Line("Install", "WantedBy", "default.target"))
  BY PlainLine
<1> HIDE DEF text, c, s
<1>6. \A l : Has(text, l) => LineOK(l)
  BY <1>1, <1>2, <1>3, <1>4, <1>5
<1>7. TextOK(text)
  BY <1>1, <1>6 DEF TextOK, Has
<1> QED
  BY <1>7 DEF text

-----------------------------------------------------------------------------
(* What the panels make of a form.                                         *)

\* A list with one more item at its end.
LEMMA Appended ==
  ASSUME NEW s, IsSeq(s), NEW v
  PROVE  /\ IsSeq(Append(s, v)) /\ Len(Append(s, v)) = Len(s) + 1
         /\ \A i \in 1 .. Len(s) : Append(s, v)[i] = s[i]
         /\ Append(s, v)[Len(s) + 1] = v
<1> DEFINE S == {s[i] : i \in DOMAIN s} \cup {v}
<1>1. s \in Seq({s[i] : i \in DOMAIN s})
  BY SeqFacts
<1>2. s \in Seq(S)
  BY <1>1, SeqMonotonic
<1>3. v \in S
  OBVIOUS
<1> HIDE DEF S
<1>4. /\ Append(s, v) \in Seq(S) /\ Len(Append(s, v)) = Len(s) + 1
      /\ \A i \in 1 .. Len(s) : Append(s, v)[i] = s[i]
      /\ Append(s, v)[Len(s) + 1] = v
  BY <1>2, <1>3, AppendProperties
<1>5. IsSeq(Append(s, v))
  BY <1>4, SeqIsSeq
<1> QED
  BY <1>4, <1>5

\* A piece of a list.
LEMMA Piece ==
  ASSUME NEW s, IsSeq(s), NEW m \in Nat \ {0}, NEW n \in Nat, n <= Len(s)
  PROVE  /\ IsSeq(SubSeq(s, m, n))
         /\ \A i \in DOMAIN SubSeq(s, m, n) : \E j \in DOMAIN s : SubSeq(s, m, n)[i] = s[j]
<1> DEFINE S == {s[i] : i \in DOMAIN s}
<1>1. Len(s) \in Nat /\ DOMAIN s = 1 .. Len(s)
  BY SeqFacts
<1>2. \A i \in m .. n : i \in DOMAIN s
  BY <1>1
<1>3. \A i \in m .. n : s[i] \in S
  BY <1>2
<1> HIDE DEF S
<1>4. /\ SubSeq(s, m, n) \in Seq(S)
      /\ Len(SubSeq(s, m, n)) = IF m <= n THEN n - m + 1 ELSE 0
      /\ \A i \in 1 .. n - m + 1 : SubSeq(s, m, n)[i] = s[m + i - 1]
  BY <1>3, SubSeqProperties
<1>5. IsSeq(SubSeq(s, m, n))
  BY <1>4, SeqIsSeq
<1>6. DOMAIN SubSeq(s, m, n) = 1 .. Len(SubSeq(s, m, n))
  BY <1>5, SeqFacts
<1>7. ASSUME NEW i \in DOMAIN SubSeq(s, m, n)
      PROVE  \E j \in DOMAIN s : SubSeq(s, m, n)[i] = s[j]
  <2>1. i \in 1 .. n - m + 1
    BY <1>4, <1>6
  <2>2. SubSeq(s, m, n)[i] = s[m + i - 1] /\ m + i - 1 \in m .. n
    BY <1>4, <2>1
  <2> QED
    BY <1>2, <2>2
<1> QED
  BY <1>5, <1>7

LEMMA Rest ==
  ASSUME NEW s, IsSeq(s), NEW m \in Nat \ {0}
  PROVE  /\ IsSeq(SubSeq(s, m, Len(s)))
         /\ \A i \in DOMAIN SubSeq(s, m, Len(s)) :
              \E j \in DOMAIN s : SubSeq(s, m, Len(s))[i] = s[j]
<1> DEFINE S == {s[i] : i \in DOMAIN s}
           r == SubSeq(s, m, Len(s))
<1>1. Len(s) \in Nat /\ DOMAIN s = 1 .. Len(s)
  BY SeqFacts
<1>2. \A i \in m .. Len(s) : i \in DOMAIN s
  BY <1>1
<1>3. \A i \in m .. Len(s) : s[i] \in S
  BY <1>2
<1> HIDE DEF S
<1>4. /\ r \in Seq(S)
      /\ Len(r) = IF m <= Len(s) THEN Len(s) - m + 1 ELSE 0
      /\ \A i \in 1 .. Len(s) - m + 1 : r[i] = s[m + i - 1]
  BY <1>1, <1>3, SubSeqProperties
<1> HIDE DEF r
<1>5. IsSeq(r)
  BY <1>4, SeqIsSeq
<1>6. DOMAIN r = 1 .. Len(r)
  BY <1>5, SeqFacts
<1>7. ASSUME NEW i \in DOMAIN r
      PROVE  \E j \in DOMAIN s : r[i] = s[j]
  <2>1. i \in 1 .. Len(s) - m + 1
    BY <1>1, <1>4, <1>6
  <2>2. r[i] = s[m + i - 1] /\ m + i - 1 \in m .. Len(s)
    BY <1>1, <1>4, <2>1
  <2> QED
    BY <1>2, <2>2
<1>8. /\ IsSeq(r)
      /\ \A i \in DOMAIN r : \E j \in DOMAIN s : r[i] = s[j]
  BY <1>5, <1>7
<1> QED
  BY <1>8 DEF r

\* Two lists put together hold what the two held.
LEMMA JoinedItems ==
  ASSUME NEW a, NEW b, IsSeq(a), IsSeq(b), NEW n \in DOMAIN (a \o b)
  PROVE  \/ \E i \in DOMAIN a : (a \o b)[n] = a[i]
         \/ \E i \in DOMAIN b : (a \o b)[n] = b[i]
<1>1. /\ IsSeq(a \o b) /\ Len(a \o b) = Len(a) + Len(b)
      /\ \A i \in 1 .. Len(a) : (a \o b)[i] = a[i]
      /\ \A i \in 1 .. Len(b) : (a \o b)[Len(a) + i] = b[i]
  BY Concat
<1>2. /\ Len(a) \in Nat /\ DOMAIN a = 1 .. Len(a)
      /\ Len(b) \in Nat /\ DOMAIN b = 1 .. Len(b)
      /\ DOMAIN (a \o b) = 1 .. Len(a) + Len(b)
  BY <1>1, SeqFacts
<1>3. CASE n <= Len(a)
  BY <1>1, <1>2, <1>3
<1>4. CASE ~ (n <= Len(a))
  <2>1. n - Len(a) \in 1 .. Len(b) /\ Len(a) + (n - Len(a)) = n
    BY <1>2, <1>4
  <2>2. (a \o b)[Len(a) + (n - Len(a))] = b[n - Len(a)]
    BY <1>1, <2>1
  <2> QED
    BY <1>2, <2>1, <2>2
<1> QED
  BY <1>3, <1>4

\* A list without the item at a place.
LEMMA Removed ==
  ASSUME NEW s, IsSeq(s), NEW i \in DOMAIN s
  PROVE  /\ IsSeq(SubSeq(s, 1, i - 1)) /\ IsSeq(SubSeq(s, i + 1, Len(s)))
         /\ IsSeq(RemoveAt(s, i))
         /\ \A n \in DOMAIN RemoveAt(s, i) : \E j \in DOMAIN s : RemoveAt(s, i)[n] = s[j]
<1> DEFINE a == SubSeq(s, 1, i - 1)
           b == SubSeq(s, i + 1, Len(s))
<1>1. /\ Len(s) \in Nat /\ i \in 1 .. Len(s)
  BY SeqFacts
<1>2. /\ i - 1 \in Nat /\ i - 1 <= Len(s) /\ i + 1 \in Nat \ {0} /\ 1 \in Nat \ {0}
      /\ Len(s) <= Len(s)
  BY <1>1
<1>3. IsSeq(a) /\ \A n \in DOMAIN a : \E j \in DOMAIN s : a[n] = s[j]
  BY <1>2, Piece
<1>4. IsSeq(b) /\ \A n \in DOMAIN b : \E j \in DOMAIN s : b[n] = s[j]
  BY <1>1, <1>2, Rest
<1>5. RemoveAt(s, i) = a \o b
  BY DEF RemoveAt
<1>6. IsSeq(a) /\ IsSeq(b)
  BY <1>3, <1>4
<1> HIDE DEF a, b
<1>7. IsSeq(RemoveAt(s, i))
  BY <1>5, <1>6, Concat
<1>8. ASSUME NEW n \in DOMAIN RemoveAt(s, i)
      PROVE  \E j \in DOMAIN s : RemoveAt(s, i)[n] = s[j]
  BY <1>3, <1>4, <1>5, <1>8, JoinedItems
<1>9. IsSeq(SubSeq(s, 1, i - 1)) /\ IsSeq(SubSeq(s, i + 1, Len(s)))
  BY <1>6 DEF a, b
<1> QED
  BY <1>7, <1>8, <1>9

\* What a list of chips holds, it held before or was typed.
LEMMA ChipsKeep ==
  ASSUME NEW items, IsSeq(items), NEW added, NEW updated,
         NEW e \in ChipInput(items, added, updated)
  PROVE  /\ IsSeq(e)
         /\ \A n \in DOMAIN e : \/ e[n] \in added \/ e[n] \in updated
                                \/ \E j \in DOMAIN items : e[n] = items[j]
<1>1. DOMAIN items = 1 .. Len(items) /\ Len(items) \in Nat
  BY SeqFacts
<1>2. CASE \E v \in added : e = Append(items, v)
  <2>1. PICK v \in added : e = Append(items, v)
    BY <1>2
  <2>2. /\ IsSeq(e) /\ Len(e) = Len(items) + 1
        /\ \A i \in 1 .. Len(items) : e[i] = items[i]
        /\ e[Len(items) + 1] = v
    BY <2>1, Appended
  <2>3. DOMAIN e = 1 .. Len(items) + 1
    BY <2>2, SeqFacts
  <2>4. ASSUME NEW n \in DOMAIN e
        PROVE  e[n] \in added \/ \E j \in DOMAIN items : e[n] = items[j]
    <3>1. n \in 1 .. Len(items) \/ n = Len(items) + 1
      BY <1>1, <2>3
    <3> QED
      BY <1>1, <2>1, <2>2, <3>1
  <2> QED
    BY <2>2, <2>4
<1>3. CASE \E i \in DOMAIN items : e = RemoveAt(items, i)
  BY <1>3, Removed
<1>4. CASE \E i \in DOMAIN items, v \in updated : e = ReplaceAt(items, i, v)
  <2>1. PICK i \in DOMAIN items, v \in updated : e = [items EXCEPT ![i] = v]
    BY <1>4 DEF ReplaceAt
  <2>2. items = [j \in 1 .. Len(items) |-> items[j]]
    BY DEF IsSeq
  <2>3. /\ DOMAIN e = DOMAIN items /\ e[i] = v
        /\ \A j \in DOMAIN items \ {i} : e[j] = items[j]
    BY <2>1, <2>2
  <2>4. e = [j \in 1 .. Len(items) |-> e[j]]
    BY <1>1, <2>1
  <2>5. IsSeq(e)
    BY <1>1, <2>4, TupleIsSeq
  <2> QED
    BY <2>1, <2>3, <2>5
<1> QED
  BY <1>2, <1>3, <1>4 DEF ChipInput

\* The container's fields, and a container with one of them changed.
LEMMA ContainerField ==
  ASSUME NEW c, ContainerOK(c)
  PROVE  {"ports", "volumes", "env", "labels", "autoUpdate"} \subseteq DOMAIN c
BY DEF ContainerOK, defaultWizardData

LEMMA PlainEdits ==
  ASSUME NEW c, ContainerOK(c), NEW w, NEW e,
         \/ e = [c EXCEPT !.image = w] \/ e = [c EXCEPT !.exec = w]
         \/ e = [c EXCEPT !.user = w] \/ e = [c EXCEPT !.group = w]
         \/ e = [c EXCEPT !.hostName = w] \/ e = [c EXCEPT !.network = w]
         \/ e = [c EXCEPT !.healthCheck = w]
  PROVE  ContainerOK(e)
<1>1. {"ports", "volumes", "env", "labels", "autoUpdate"} \subseteq DOMAIN c
  BY ContainerField
<1>2. /\ DOMAIN e = DOMAIN c /\ e.ports = c.ports /\ e.volumes = c.volumes
      /\ e.env = c.env /\ e.labels = c.labels /\ e.autoUpdate = c.autoUpdate
  BY <1>1
<1> QED
  BY <1>2 DEF ContainerOK

\* The protocols and the modes that are read from any text.
LEMMA ParsedFacts ==
  ASSUME NEW v
  PROVE  parsePort(v).protocol \in {"tcp", "udp"} /\ parseVolume(v).mode \in {"rw", "ro"}
BY DEF parsePort, protocolOf, parseVolume

LEMMA PortEditsKeep ==
  ASSUME NEW c, ContainerOK(c), NEW e \in PortEdits(c)
  PROVE  ContainerOK(e)
<1> DEFINE added == {parsePort(v) : v \in PortWord}
           updated == {parsePort(v) : v \in {v \in PortWord : hasTwoParts(v.parts)}}
           ok == {"tcp", "udp"}
<1>1. e = c \/ \E p \in ChipInput(c.ports, added, updated) : e = [c EXCEPT !.ports = p]
  BY DEF PortEdits
<1>2. IsSeq(c.ports) /\ \A i \in DOMAIN c.ports : c.ports[i].protocol \in ok
  BY DEF ContainerOK
<1>3. \A x \in added : x.protocol \in ok
  BY ParsedFacts
<1>4. \A x \in updated : x.protocol \in ok
  BY ParsedFacts
<1> HIDE DEF added, updated, ok
<1>5. ASSUME NEW p \in ChipInput(c.ports, added, updated)
      PROVE  IsSeq(p) /\ \A i \in DOMAIN p : p[i].protocol \in ok
  BY <1>2, <1>3, <1>4, ChipsKeep
<1>6. CASE \E p \in ChipInput(c.ports, added, updated) : e = [c EXCEPT !.ports = p]
  <2>1. PICK p \in ChipInput(c.ports, added, updated) : e = [c EXCEPT !.ports = p]
    BY <1>6
  <2>2. /\ DOMAIN e = DOMAIN c /\ e.ports = p /\ e.volumes = c.volumes /\ e.env = c.env
        /\ e.labels = c.labels /\ e.autoUpdate = c.autoUpdate
    BY <2>1, ContainerField
  <2>3. IsSeq(p) /\ \A i \in DOMAIN p : p[i].protocol \in ok
    BY <1>5
  <2> QED
    BY <2>2, <2>3 DEF ContainerOK, ok
<1> QED
  BY <1>1, <1>6

LEMMA VolumeEditsKeep ==
  ASSUME NEW c, ContainerOK(c), NEW e \in VolumeEdits(c)
  PROVE  ContainerOK(e)
<1> DEFINE typed == {parseVolume(v) : v \in {v \in VolumeWord : hasTwoParts(v)}}
           ok == {"rw", "ro"}
<1>1. PICK p \in ChipInput(c.volumes, typed, typed) : e = [c EXCEPT !.volumes = p]
  BY DEF VolumeEdits
<1>2. IsSeq(c.volumes) /\ \A i \in DOMAIN c.volumes : c.volumes[i].mode \in ok
  BY DEF ContainerOK
<1>3. \A x \in typed : x.mode \in ok
  BY ParsedFacts
<1> HIDE DEF typed, ok
<1>4. IsSeq(p) /\ \A i \in DOMAIN p : p[i].mode \in ok
  BY <1>2, <1>3, ChipsKeep
<1>5. /\ DOMAIN e = DOMAIN c /\ e.ports = c.ports /\ e.volumes = p /\ e.env = c.env
      /\ e.labels = c.labels /\ e.autoUpdate = c.autoUpdate
  BY <1>1, ContainerField
<1> QED
  BY <1>4, <1>5 DEF ContainerOK, ok

\* A use of the rows names one of them, or none, and puts one row there or none.
RowsAdded == {Row(0, <<KeyValue(<<k, v>>)>>) : k \in Filled, v \in Word}
RowsGone(items) == {Row(i, <<>>) : i \in DOMAIN items}
RowsKeyed(items) == {Row(i, <<[items[i] EXCEPT !.key = k]>>) : i \in DOMAIN items, k \in Word}
RowsValued(items) ==
  {Row(i, <<[items[i] EXCEPT !.value = v]>>) : i \in DOMAIN items, v \in Word}

LEMMA RowCases ==
  ASSUME NEW items, NEW x
  PROVE  x \in KeyValueInput(items) <=>
           \/ x \in RowsAdded
           \/ x \in RowsGone(items)
           \/ x \in RowsKeyed(items)
           \/ x \in RowsValued(items)
BY DEF KeyValueInput, RowsAdded, RowsGone, RowsKeyed, RowsValued

LEMMA RowAdded ==
  ASSUME NEW x \in RowsAdded
  PROVE  x.at = 0 /\ \E r : x.now = <<r>>
<1>1. PICK k \in Filled, v \in Word : x = Row(0, <<KeyValue(<<k, v>>)>>)
  BY DEF RowsAdded
<1> QED
  BY <1>1 DEF Row

LEMMA RowGone ==
  ASSUME NEW items, NEW x \in RowsGone(items)
  PROVE  x.at \in DOMAIN items /\ x.now = <<>>
<1>1. PICK i \in DOMAIN items : x = Row(i, <<>>)
  BY DEF RowsGone
<1> QED
  BY <1>1 DEF Row

LEMMA RowKeyed ==
  ASSUME NEW items, NEW x \in RowsKeyed(items)
  PROVE  x.at \in DOMAIN items /\ \E r : x.now = <<r>>
<1>1. PICK i \in DOMAIN items, k \in Word : x = Row(i, <<[items[i] EXCEPT !.key = k]>>)
  BY DEF RowsKeyed
<1> QED
  BY <1>1 DEF Row

LEMMA RowValued ==
  ASSUME NEW items, NEW x \in RowsValued(items)
  PROVE  x.at \in DOMAIN items /\ \E r : x.now = <<r>>
<1>1. PICK i \in DOMAIN items, v \in Word : x = Row(i, <<[items[i] EXCEPT !.value = v]>>)
  BY DEF RowsValued
<1> QED
  BY <1>1 DEF Row

LEMMA RowInput ==
  ASSUME NEW items, NEW x, x \in KeyValueInput(items)
  PROVE  /\ x.now = <<>> \/ \E r : x.now = <<r>>
         /\ x.at = 0 \/ x.at \in DOMAIN items
<1>1. \/ x \in RowsAdded \/ x \in RowsGone(items)
      \/ x \in RowsKeyed(items) \/ x \in RowsValued(items)
  BY RowCases
<1>2. CASE x \in RowsAdded
  BY <1>2, RowAdded
<1>3. CASE x \in RowsGone(items)
  BY <1>3, RowGone
<1>4. CASE x \in RowsKeyed(items)
  BY <1>4, RowKeyed
<1>5. CASE x \in RowsValued(items)
  BY <1>5, RowValued
<1> QED
  BY <1>1, <1>2, <1>3, <1>4, <1>5

LEMMA EnvEditsKeep ==
  ASSUME NEW c, ContainerOK(c), NEW e \in EnvEdits(c)
  PROVE  ContainerOK(e)
<1>1. PICK x \in KeyValueInput(c.env) :
        e = [c EXCEPT !.env = IF x.at = 0 THEN c.env \o x.now
                              ELSE SubSeq(c.env, 1, x.at - 1) \o x.now
                                   \o SubSeq(c.env, x.at + 1, Len(c.env))]
  BY DEF EnvEdits
<1>2. IsSeq(c.env)
  BY DEF ContainerOK
<1>3. IsSeq(x.now) /\ (x.at = 0 \/ x.at \in DOMAIN c.env)
  <2>1. /\ x.now = <<>> \/ \E r : x.now = <<r>>
        /\ x.at = 0 \/ x.at \in DOMAIN c.env
    BY RowInput
  <2> QED
    BY <2>1, NoLines, OneLine
<1> DEFINE p == IF x.at = 0 THEN c.env \o x.now
                ELSE SubSeq(c.env, 1, x.at - 1) \o x.now
                     \o SubSeq(c.env, x.at + 1, Len(c.env))
<1>4. IsSeq(p)
  <2>1. CASE x.at = 0
    BY <1>2, <1>3, <2>1, Concat
  <2>2. CASE x.at # 0
    <3>1. IsSeq(SubSeq(c.env, 1, x.at - 1)) /\ IsSeq(SubSeq(c.env, x.at + 1, Len(c.env)))
      BY <1>2, <1>3, <2>2, Removed
    <3>2. p = SubSeq(c.env, 1, x.at - 1) \o x.now \o SubSeq(c.env, x.at + 1, Len(c.env))
      BY <2>2
    <3>3. IsSeq(SubSeq(c.env, 1, x.at - 1) \o x.now)
      BY <1>3, <3>1, Concat
    <3>4. IsSeq(SubSeq(c.env, 1, x.at - 1) \o x.now \o SubSeq(c.env, x.at + 1, Len(c.env)))
      BY <3>1, <3>3, Concat
    <3> QED
      BY <3>2, <3>4
  <2> QED
    BY <2>1, <2>2
<1>5. e = [c EXCEPT !.env = p]
  BY <1>1
<1> HIDE DEF p
<1>6. /\ DOMAIN e = DOMAIN c /\ e.ports = c.ports /\ e.volumes = c.volumes /\ e.env = p
      /\ e.labels = c.labels /\ e.autoUpdate = c.autoUpdate
  BY <1>5, ContainerField
<1> QED
  BY <1>4, <1>6 DEF ContainerOK

LEMMA LabelEditsKeep ==
  ASSUME NEW c, ContainerOK(c), NEW e \in LabelEdits(c)
  PROVE  ContainerOK(e)
<1> DEFINE rows  == SetToSeq(DOMAIN c.labels)
           items == [i \in DOMAIN rows |-> KeyValue(<<rows[i], c.labels[rows[i]]>>)]
           Kept(x) == DOMAIN c.labels \ (IF x.at = 0 THEN {} ELSE {rows[x.at]})
           Added(x) == {x.now[i].key : i \in DOMAIN x.now}
           Now(x)  == [l \in Kept(x) \cup Added(x) |->
                         IF x.now # <<>> /\ l = x.now[1].key THEN x.now[1].value
                         ELSE c.labels[l]]
<1>1. PICK x \in KeyValueInput(items) : e = [c EXCEPT !.labels = Now(x)]
  BY DEF LabelEdits
<1>2. IsFiniteSet(DOMAIN c.labels)
  BY DEF ContainerOK
<1>3. x.now = <<>> \/ \E r : x.now = <<r>>
  <2> HIDE DEF items
  <2> QED
    BY RowInput
<1>4. DOMAIN Now(x) = Kept(x) \cup Added(x)
  OBVIOUS
<1>5. Kept(x) \in SUBSET (DOMAIN c.labels)
  OBVIOUS
<1>6. IsFiniteSet(Added(x))
  <2>1. CASE x.now = <<>>
    <3>1. DOMAIN x.now = {}
      BY <2>1
    <3>2. Added(x) = {}
      BY <3>1
    <3> QED
      BY <3>2, FS_EmptySet
  <2>2. CASE \E r : x.now = <<r>>
    <3>1. PICK r : x.now = <<r>>
      BY <2>2
    <3>2. DOMAIN x.now = {1} /\ x.now[1] = r
      BY <3>1
    <3>3. Added(x) = {r.key}
      BY <3>2
    <3> QED
      BY <3>3, FS_Singleton
  <2> QED
    BY <1>3, <2>1, <2>2
<1> DEFINE p == Now(x)
           K == Kept(x)
           A == Added(x)
<1>7. DOMAIN p = K \cup A /\ K \in SUBSET (DOMAIN c.labels) /\ IsFiniteSet(A)
  BY <1>4, <1>5, <1>6
<1>8. e = [c EXCEPT !.labels = p]
  BY <1>1
<1> HIDE DEF p, K, A
<1>9. IsFiniteSet(K)
  BY <1>2, <1>7, FS_Subset
<1>10. IsFiniteSet(DOMAIN p)
  BY <1>7, <1>9, FS_Union
<1>11. /\ DOMAIN e = DOMAIN c /\ e.ports = c.ports /\ e.volumes = c.volumes /\ e.env = c.env
       /\ e.labels = p /\ e.autoUpdate = c.autoUpdate
  BY <1>8, ContainerField
<1> QED
  BY <1>10, <1>11 DEF ContainerOK

LEMMA AutoUpdateEditsKeep ==
  ASSUME NEW c, ContainerOK(c), NEW e \in AutoUpdateEdits(c)
  PROVE  ContainerOK(e)
<1> DEFINE ok == {"", "registry", "local"}
<1>1. PICK a \in ok : e = [c EXCEPT !.autoUpdate = a]
  BY DEF AutoUpdateEdits
<1> HIDE DEF ok
<1>2. /\ DOMAIN e = DOMAIN c /\ e.ports = c.ports /\ e.volumes = c.volumes /\ e.env = c.env
      /\ e.labels = c.labels /\ e.autoUpdate = a
  BY <1>1, ContainerField
<1> QED
  BY <1>1, <1>2 DEF ContainerOK, ok

LEMMA OtherEditsKeep ==
  ASSUME NEW c, ContainerOK(c), NEW e \in ImageEdits(c) \cup NetworkEdits(c) \cup HealthEdits(c)
  PROVE  ContainerOK(e)
<1>1. CASE e \in ImageEdits(c)
  <2>1. PICK w : e = [c EXCEPT !.image = w] \/ e = [c EXCEPT !.exec = w]
    BY <1>1 DEF ImageEdits
  <2> QED
    BY <2>1, PlainEdits
<1>2. CASE e \in NetworkEdits(c)
  <2>1. PICK w : \/ e = [c EXCEPT !.network = w] \/ e = [c EXCEPT !.hostName = w]
                 \/ e = [c EXCEPT !.user = w] \/ e = [c EXCEPT !.group = w]
    BY <1>2 DEF NetworkEdits
  <2> QED
    BY <2>1, PlainEdits
<1>3. CASE e \in HealthEdits(c)
  <2>1. \E w : e = [c EXCEPT !.healthCheck = w]
    BY <1>3 DEF HealthEdits
  <2> QED
    BY <2>1, PlainEdits
<1> QED
  BY <1>1, <1>2, <1>3

LEMMA GeneralKeeps ==
  ASSUME NEW c, ContainerOK(c), NEW e \in GeneralPanel(c)
  PROVE  ContainerOK(e)
<1>1. CASE e \in ImageEdits(c) \cup NetworkEdits(c) \cup HealthEdits(c)
  BY <1>1, OtherEditsKeep
<1>2. CASE e \in PortEdits(c)
  BY <1>2, PortEditsKeep
<1>3. CASE e \in VolumeEdits(c)
  BY <1>3, VolumeEditsKeep
<1>4. CASE e \in EnvEdits(c)
  BY <1>4, EnvEditsKeep
<1>5. CASE e \in LabelEdits(c)
  BY <1>5, LabelEditsKeep
<1>6. CASE e \in AutoUpdateEdits(c)
  BY <1>6, AutoUpdateEditsKeep
<1> QED
  BY <1>1, <1>2, <1>3, <1>4, <1>5, <1>6 DEF GeneralPanel

\* The service's fields, and a service with one of them changed.
LEMMA ServiceField ==
  ASSUME NEW s, ServiceOK(s)
  PROVE  {"restart", "waitForPaths", "execStartPre", "execStartPost"} \subseteq DOMAIN s
BY DEF ServiceOK, defaultWizardData

LEMMA PathsKeep ==
  ASSUME NEW items, IsSeq(items), NEW w \in WaitForPathInput(items)
  PROVE  IsSeq(w)
<1>1. CASE \E v : w = Append(items, v)
  BY <1>1, Appended
<1>2. CASE \E i \in DOMAIN items : w = RemoveAt(items, i)
  BY <1>2, Removed
<1> QED
  BY <1>1, <1>2 DEF WaitForPathInput

LEMMA ServiceKeeps ==
  ASSUME NEW s, ServiceOK(s), NEW e \in ServicePanel(s)
  PROVE  ServiceOK(e)
<1>1. CASE \E p \in RestartPolicy : e = [s EXCEPT !.restart = p]
  <2>1. PICK p \in RestartPolicy : e = [s EXCEPT !.restart = p]
    BY <1>1
  <2>2. /\ DOMAIN e = DOMAIN s /\ e.restart = p /\ e.waitForPaths = s.waitForPaths
        /\ e.execStartPre = s.execStartPre /\ e.execStartPost = s.execStartPost
    BY <2>1, ServiceField
  <2> QED
    BY <2>2 DEF ServiceOK
<1>2. CASE \E w \in Word : e = [s EXCEPT !.timeoutStartSec = w]
  <2>1. /\ DOMAIN e = DOMAIN s /\ e.restart = s.restart /\ e.waitForPaths = s.waitForPaths
        /\ e.execStartPre = s.execStartPre /\ e.execStartPost = s.execStartPost
    BY <1>2, ServiceField
  <2> QED
    BY <2>1 DEF ServiceOK
<1>3. CASE \E w \in WaitForPathInput(s.waitForPaths) : e = [s EXCEPT !.waitForPaths = w]
  <2>1. PICK w \in WaitForPathInput(s.waitForPaths) : e = [s EXCEPT !.waitForPaths = w]
    BY <1>3
  <2>2. /\ DOMAIN e = DOMAIN s /\ e.restart = s.restart /\ e.waitForPaths = w
        /\ e.execStartPre = s.execStartPre /\ e.execStartPost = s.execStartPost
    BY <2>1, ServiceField
  <2>3. IsSeq(s.waitForPaths)
    BY DEF ServiceOK
  <2>5. IsSeq(w)
    BY <2>3, PathsKeep
  <2> QED
    BY <2>2, <2>5 DEF ServiceOK
<1>4. CASE \E w \in ChipInput(s.execStartPre, Command, Command) : e = [s EXCEPT !.execStartPre = w]
  <2>1. PICK w \in ChipInput(s.execStartPre, Command, Command) : e = [s EXCEPT !.execStartPre = w]
    BY <1>4
  <2>2. /\ DOMAIN e = DOMAIN s /\ e.restart = s.restart /\ e.waitForPaths = s.waitForPaths
        /\ e.execStartPre = w /\ e.execStartPost = s.execStartPost
    BY <2>1, ServiceField
  <2>3. IsSeq(s.execStartPre) /\ \A i \in DOMAIN s.execStartPre : CommandOK(s.execStartPre[i])
    BY DEF ServiceOK
  <2>4. IsSeq(w) /\ \A i \in DOMAIN w : CommandOK(w[i])
    BY <2>3, ChipsKeep, CommandAssumption
  <2> QED
    BY <2>2, <2>4 DEF ServiceOK
<1>5. CASE \E w \in ChipInput(s.execStartPost, Command, Command) : e = [s EXCEPT !.execStartPost = w]
  <2>1. PICK w \in ChipInput(s.execStartPost, Command, Command) : e = [s EXCEPT !.execStartPost = w]
    BY <1>5
  <2>2. /\ DOMAIN e = DOMAIN s /\ e.restart = s.restart /\ e.waitForPaths = s.waitForPaths
        /\ e.execStartPre = s.execStartPre /\ e.execStartPost = w
    BY <2>1, ServiceField
  <2>3. IsSeq(s.execStartPost)
    BY DEF ServiceOK
  <2>4. IsSeq(w)
    BY <2>3, ChipsKeep
  <2> QED
    BY <2>2, <2>4 DEF ServiceOK
<1> QED
  BY <1>1, <1>2, <1>3, <1>4, <1>5 DEF ServicePanel

\* Whatever is done to a form in its panels, it stays one.
LEMMA EditIsForm ==
  ASSUME NEW d, FormOK(d), NEW e \in ConfigWizard(d)
  PROVE  FormOK(e)
<1>1. ContainerOK(d.container) /\ ServiceOK(d.service)
  BY DEF FormOK
<1>2. {"container", "unit", "service"} \subseteq DOMAIN d
  BY DEF FormOK, defaultWizardData
<1>3. CASE \E c \in GeneralPanel(d.container) : e = [d EXCEPT !.container = c]
  <2>1. PICK c \in GeneralPanel(d.container) : e = [d EXCEPT !.container = c]
    BY <1>3
  <2>2. DOMAIN e = DOMAIN d /\ e.container = c /\ e.service = d.service
    BY <1>2, <2>1
  <2>3. ContainerOK(c)
    BY <1>1, GeneralKeeps
  <2> QED
    BY <1>1, <2>2, <2>3 DEF FormOK
<1>4. CASE \E u \in UnitPanel(d.unit) : e = [d EXCEPT !.unit = u]
  <2>1. DOMAIN e = DOMAIN d /\ e.container = d.container /\ e.service = d.service
    BY <1>2, <1>4
  <2> QED
    BY <1>1, <2>1 DEF FormOK
<1>5. CASE \E s \in ServicePanel(d.service) : e = [d EXCEPT !.service = s]
  <2>1. PICK s \in ServicePanel(d.service) : e = [d EXCEPT !.service = s]
    BY <1>5
  <2>2. DOMAIN e = DOMAIN d /\ e.container = d.container /\ e.service = s
    BY <1>2, <2>1
  <2>3. ServiceOK(s)
    BY <1>1, ServiceKeeps
  <2> QED
    BY <1>1, <2>2, <2>3 DEF FormOK
<1> QED
  BY <1>3, <1>4, <1>5 DEF ConfigWizard

=============================================================================
