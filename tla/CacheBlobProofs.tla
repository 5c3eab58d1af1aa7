--------------------------- MODULE CacheBlobProofs ---------------------------
(***************************************************************************)
(* Proofs about CacheBlob, for any number of numbers to a byte and of      *)
(* bytes to a number: numbers are read as they were written, what is built *)
(* is parsed to what it was built from, and what is parsed is what was     *)
(* built.                                                                  *)
(***************************************************************************)
EXTENDS CacheBlob, SequenceTheorems, WellFoundedInduction, TLAPS

(***************************************************************************)
(* Induction over the natural numbers, for sets: a set that is not all of  *)
(* them has a least number that it lacks.                                  *)
(***************************************************************************)

\* One number is less than another.
Less == {ss \in Nat \X Nat : ss[1] < ss[2]}

\* The natural numbers are well-founded.
LEMMA LessIsWellFounded == IsWellFoundedOn(Less, Nat)
  BY NatLessThanWellFounded DEF OpToRel, Less

\* Numbers have a least one.
LEMMA LeastLemma ==
    ASSUME NEW T \in SUBSET Nat, T # {}
    PROVE  \E n \in T : \A m \in T : n <= m
<1>1. \E n \in T : \A m \in T : ~(<<m, n>> \in Less)
  BY LessIsWellFounded, WFMin
<1>2. \A m, n \in Nat : m < n => <<m, n>> \in Less
  <2> SUFFICES ASSUME NEW m \in Nat, NEW n \in Nat, m < n PROVE <<m, n>> \in Less
    OBVIOUS
  <2>1. <<m, n>> \in Nat \X Nat /\ <<m, n>>[1] = m /\ <<m, n>>[2] = n
    OBVIOUS
  <2> QED
    BY <2>1 DEF Less
<1>3. T \subseteq Nat
  OBVIOUS
<1>4. PICK n \in T : \A m \in T : ~(<<m, n>> \in Less)
  BY <1>1
<1>5. ASSUME NEW m \in T PROVE n <= m
  <2>1. m \in Nat /\ n \in Nat
    BY <1>3
  <2>2. ~(m < n)
    BY <1>2, <1>4, <2>1
  <2> QED
    BY <2>1, <2>2
<1> QED
  BY <1>4, <1>5

\* A set that has 0, and with each number the next, has every number.
LEMMA InductionLemma ==
    ASSUME NEW T, 0 \in T, \A n \in Nat : n \in T => n + 1 \in T
    PROVE  Nat \subseteq T
<1> SUFFICES ASSUME NEW k \in Nat, k \notin T PROVE FALSE
  OBVIOUS
<1>1. PICK n \in Nat \ T : \A m \in Nat \ T : n <= m
  BY LeastLemma
<1> QED
  BY <1>1

-----------------------------------------------------------------------------
(***************************************************************************)
(* Functions that are defined by recursion over natural numbers exist.     *)
(***************************************************************************)

\* f recurs: its values, in V, are the base and what a step makes of the one before.
Recurs(f, V, base, step) ==
    f \in [Nat -> V] /\ f[0] = base /\ \A i \in Nat : f[i + 1] = step[<<i + 1, f[i]>>]

\* There is a function that recurs over all the natural numbers.
LEMMA NatRecursionLemma ==
    ASSUME NEW V, NEW base \in V, NEW step \in [Nat \X V -> V]
    PROVE  \E f : Recurs(f, V, base, step)
<1> DEFINE Upto(n) == {g \in [0..n -> V] :
                          g[0] = base /\ \A i \in 0..(n - 1) : g[i + 1] = step[<<i + 1, g[i]>>]}
<1>1. \A n \in Nat : \E g : g \in Upto(n)
  <2> DEFINE T == {n \in Nat : \E g : g \in Upto(n)}
  <2>1. 0 \in T
    <3> DEFINE g == [i \in 0..0 |-> base]
    <3>1. g \in [0..0 -> V] /\ g[0] = base
      OBVIOUS
    <3>2. 0..(0 - 1) = {}
      OBVIOUS
    <3>3. g \in Upto(0)
      BY <3>1, <3>2
    <3> QED
      BY <3>3
  <2>2. ASSUME NEW n \in Nat, n \in T PROVE n + 1 \in T
    <3>1. PICK g : g \in Upto(n)
      BY <2>2
    <3> DEFINE h == [i \in 0..(n + 1) |-> IF i <= n THEN g[i] ELSE step[<<n + 1, g[n]>>]]
    <3>2. g[n] \in V /\ step[<<n + 1, g[n]>>] \in V /\ \A i \in 0..n : g[i] \in V
      <4>1. g \in [0..n -> V] /\ n \in 0..n /\ n + 1 \in Nat
        BY <3>1
      <4>2. g[n] \in V
        BY <4>1
      <4>3. <<n + 1, g[n]>> \in Nat \X V
        BY <4>1, <4>2
      <4> QED
        BY <4>1, <4>2, <4>3
    <3>3. h \in [0..(n + 1) -> V]
      BY <3>2
    <3>4. h[0] = base
      BY <3>1
    <3>5. ASSUME NEW i \in 0..((n + 1) - 1) PROVE h[i + 1] = step[<<i + 1, h[i]>>]
      <4>1. i \in 0..n /\ i + 1 \in 0..(n + 1) /\ h[i] = g[i]
        OBVIOUS
      <4>2. CASE i = n
        <5>1. n + 1 \in 0..(n + 1) /\ ~(n + 1 <= n)
          OBVIOUS
        <5>2. h[n + 1] = step[<<n + 1, g[n]>>]
          BY <5>1
        <5> QED
          BY <4>1, <4>2, <5>2
      <4>3. CASE i # n
        <5>1. i \in 0..(n - 1) /\ i + 1 <= n
          BY <4>1, <4>3
        <5>2. g[i + 1] = step[<<i + 1, g[i]>>]
          BY <3>1, <5>1
        <5> QED
          BY <4>1, <5>1, <5>2
      <4> QED
        BY <4>2, <4>3
    <3>6. h \in Upto(n + 1)
      BY <3>3, <3>4, <3>5
    <3> HIDE DEF Upto
    <3> QED
      BY <3>6
  <2> HIDE DEF T
  <2>3. Nat \subseteq T
    BY <2>1, <2>2, InductionLemma
  <2> QED
    BY <2>3 DEF T
<1>2. ASSUME NEW m \in Nat, NEW n \in Nat, m <= n, NEW g \in Upto(m), NEW h \in Upto(n)
      PROVE  \A i \in 0..m : g[i] = h[i]
  <2> DEFINE T == {i \in Nat : i <= m => g[i] = h[i]}
  <2>1. 0 \in T
    OBVIOUS
  <2>2. ASSUME NEW i \in Nat, i \in T PROVE i + 1 \in T
    <3> SUFFICES ASSUME i + 1 <= m PROVE g[i + 1] = h[i + 1]
      OBVIOUS
    <3>1. i \in 0..(m - 1) /\ i \in 0..(n - 1) /\ g[i] = h[i]
      BY <1>2, <2>2
    <3>2. g[i + 1] = step[<<i + 1, g[i]>>] /\ h[i + 1] = step[<<i + 1, h[i]>>]
      BY <3>1
    <3> QED
      BY <3>1, <3>2
  <2> HIDE DEF T
  <2>3. Nat \subseteq T
    BY <2>1, <2>2, InductionLemma
  <2> QED
    BY <2>3 DEF T
<1> DEFINE some(n) == CHOOSE g : g \in Upto(n)
           f == [n \in Nat |-> some(n)[n]]
<1>3. \A n \in Nat : some(n) \in Upto(n)
  BY <1>1
<1> HIDE DEF some
<1>4. \A n \in Nat : some(n)[n] \in V
  <2> TAKE n \in Nat
  <2>1. some(n) \in [0..n -> V] /\ n \in 0..n
    BY <1>3
  <2> QED
    BY <2>1
<1>5. f \in [Nat -> V]
  BY <1>4
<1>6. f[0] = base
  BY <1>3
<1>7. ASSUME NEW i \in Nat PROVE f[i + 1] = step[<<i + 1, f[i]>>]
  <2>1. some(i) \in Upto(i) /\ some(i + 1) \in Upto(i + 1) /\ i + 1 \in Nat /\ i <= i + 1
        /\ i \in 0..i
    BY <1>3
  <2> HIDE DEF Upto
  <2>2. some(i + 1)[i] = some(i)[i]
    BY <1>2, <2>1
  <2>3. some(i + 1)[i + 1] = step[<<i + 1, some(i + 1)[i]>>]
    <3>1. i \in 0..((i + 1) - 1)
      OBVIOUS
    <3> QED
      BY <2>1, <3>1 DEF Upto
  <2> QED
    BY <2>1, <2>2, <2>3
<1> QED
  BY <1>5, <1>6, <1>7 DEF Recurs

\* The same up to n, as TLA+ defines a recursive function.
RecursUpto(f, n, V, base, step) ==
    /\ f \in [0..n -> V]
    /\ f = [i \in 0..n |-> IF i = 0 THEN base ELSE step[<<i, f[i - 1]>>]]

\* There is one that recurs over those up to a bound.
LEMMA RecursionLemma ==
    ASSUME NEW n \in Nat, NEW V, NEW base \in V, NEW step \in [Nat \X V -> V]
    PROVE  \E f : RecursUpto(f, n, V, base, step)
<1>0. PICK g : Recurs(g, V, base, step)
  BY NatRecursionLemma
<1>1. g \in [Nat -> V] /\ g[0] = base /\ \A i \in Nat : g[i + 1] = step[<<i + 1, g[i]>>]
  BY <1>0 DEF Recurs
<1> DEFINE f == [i \in 0..n |-> g[i]]
<1>2. f \in [0..n -> V]
  BY <1>1
<1>3. ASSUME NEW i \in 0..n PROVE f[i] = IF i = 0 THEN base ELSE step[<<i, f[i - 1]>>]
  <2>1. CASE i = 0
    BY <1>1, <2>1
  <2>2. CASE i # 0
    <3>1. i - 1 \in Nat /\ i - 1 \in 0..n /\ (i - 1) + 1 = i
      BY <2>2
    <3>2. g[(i - 1) + 1] = step[<<(i - 1) + 1, g[i - 1]>>]
      BY <1>1, <3>1
    <3> QED
      BY <2>2, <3>1, <3>2
  <2> QED
    BY <2>1, <2>2
<1>4. f = [i \in 0..n |-> IF i = 0 THEN base ELSE step[<<i, f[i - 1]>>]]
  BY <1>3
<1> QED
  BY <1>2, <1>4 DEF RecursUpto

-----------------------------------------------------------------------------
(***************************************************************************)
(* The recursive functions of CacheBlob.                                   *)
(***************************************************************************)

\* What Capacity is defined to be, and that it is positive.
LEMMA CapacityLemma ==
    /\ Capacity[0] = 1
    /\ \A n \in Nat : Capacity[n] \in Nat \ {0} /\ Capacity[n + 1] = Base * Capacity[n]
<1> DEFINE step == [p \in Nat \X Nat |-> Base * p[2]]
<1>1. step \in [Nat \X Nat -> Nat]
  BY FormatAssumption
<1>2. 1 \in Nat
  OBVIOUS
<1> HIDE DEF step
<1>3. PICK f : Recurs(f, Nat, 1, step)
  BY <1>1, <1>2, NatRecursionLemma
<1>4. f \in [Nat -> Nat] /\ f[0] = 1 /\ \A n \in Nat : f[n + 1] = step[<<n + 1, f[n]>>]
  BY <1>3 DEF Recurs
<1>5. ASSUME NEW n \in Nat PROVE f[n + 1] = Base * f[n]
  <2>1. <<n + 1, f[n]>> \in Nat \X Nat /\ <<n + 1, f[n]>>[2] = f[n]
    BY <1>4
  <2>2. step[<<n + 1, f[n]>>] = Base * f[n]
    BY <2>1 DEF step
  <2> QED
    BY <1>4, <2>2
<1>6. f = [n \in Nat |-> IF n = 0 THEN 1 ELSE Base * f[n - 1]]
  <2>1. ASSUME NEW n \in Nat PROVE f[n] = IF n = 0 THEN 1 ELSE Base * f[n - 1]
    <3>1. CASE n = 0
      BY <1>4, <3>1
    <3>2. CASE n # 0
      <4>1. n - 1 \in Nat /\ (n - 1) + 1 = n
        BY <3>2
      <4> QED
        BY <1>5, <3>2, <4>1
    <3> QED
      BY <3>1, <3>2
  <2> QED
    BY <1>4, <2>1
<1>7. Capacity = [n \in Nat |-> IF n = 0 THEN 1 ELSE Base * Capacity[n - 1]]
  BY <1>6 DEF Capacity
<1>8. Capacity[0] = 1
  BY <1>7
<1>9. ASSUME NEW n \in Nat PROVE Capacity[n + 1] = Base * Capacity[n]
  <2>1. n + 1 \in Nat /\ n + 1 # 0 /\ (n + 1) - 1 = n
    OBVIOUS
  <2> QED
    BY <1>7, <2>1
<1> DEFINE T == {n \in Nat : Capacity[n] \in Nat \ {0}}
<1>10. 0 \in T
  BY <1>8
<1>11. ASSUME NEW n \in Nat, n \in T PROVE n + 1 \in T
  <2>1. Capacity[n] \in Nat /\ Capacity[n] > 0 /\ Base \in Nat /\ Base > 0
    BY <1>11, FormatAssumption DEF SgxQplCacheMulticerts
  <2>2. \A a, b \in Nat : a > 0 /\ b > 0 => a * b \in Nat /\ a * b > 0
    OBVIOUS
  <2>3. Base * Capacity[n] \in Nat \ {0}
    BY <2>1, <2>2
  <2> QED
    BY <1>9, <2>3
<1> HIDE DEF T
<1>12. Nat \subseteq T
  BY <1>10, <1>11, InductionLemma
<1> QED
  BY <1>8, <1>9, <1>12 DEF T

\* What Values is defined to be.
LEMMA ValuesLemma ==
    ASSUME NEW bytes \in Seq(Byte)
    PROVE  /\ Values(bytes) \in [0..Len(bytes) -> Nat]
           /\ Values(bytes)[0] = 0
           /\ \A i \in 1..Len(bytes) :
                Values(bytes)[i] = Values(bytes)[i - 1] + bytes[i] * Capacity[i - 1]
<1> DEFINE n == Len(bytes)
           step == [p \in Nat \X Nat |->
                       IF p[1] \in 1..n THEN p[2] + bytes[p[1]] * Capacity[p[1] - 1] ELSE 0]
<1>1. n \in Nat /\ \A i \in 1..n : bytes[i] \in Nat /\ Capacity[i - 1] \in Nat
  <2>1. n \in Nat
    OBVIOUS
  <2>2. ASSUME NEW i \in 1..n PROVE bytes[i] \in Nat /\ Capacity[i - 1] \in Nat
    <3>1. bytes[i] \in Byte
      OBVIOUS
    <3>2. i - 1 \in Nat
      BY <2>1
    <3>3. bytes[i] \in Nat
      BY <3>1 DEF Byte
    <3> QED
      BY <3>2, <3>3, CapacityLemma
  <2> HIDE DEF n
  <2> QED
    BY <2>1, <2>2
<1> HIDE DEF n
<1>2. step \in [Nat \X Nat -> Nat]
  <2>1. ASSUME NEW p \in Nat \X Nat
        PROVE  (IF p[1] \in 1..n THEN p[2] + bytes[p[1]] * Capacity[p[1] - 1] ELSE 0) \in Nat
    <3>1. p[2] \in Nat
      OBVIOUS
    <3>2. CASE p[1] \in 1..n
      <4>1. bytes[p[1]] \in Nat /\ Capacity[p[1] - 1] \in Nat
        BY <1>1, <3>2
      <4>2. \A a, b, c \in Nat : a + b * c \in Nat
        OBVIOUS
      <4> QED
        BY <3>1, <3>2, <4>1, <4>2
    <3> QED
      BY <3>2
  <2> QED
    BY <2>1
<1> HIDE DEF step
<1>0. PICK f : RecursUpto(f, n, Nat, 0, step)
  <2>1. n \in Nat /\ 0 \in Nat
    BY <1>1
  <2> QED
    BY <2>1, <1>2, RecursionLemma
<1>3. f \in [0..n -> Nat] /\ f = [i \in 0..n |-> IF i = 0 THEN 0 ELSE step[<<i, f[i - 1]>>]]
  BY <1>0 DEF RecursUpto
<1>4. ASSUME NEW i \in 1..n PROVE f[i] = f[i - 1] + bytes[i] * Capacity[i - 1]
  <2>1. i \in 0..n /\ i # 0 /\ i \in Nat /\ i - 1 \in 0..n
    BY <1>1
  <2>2. f[i - 1] \in Nat
    BY <1>3, <2>1
  <2>3. f[i] = step[<<i, f[i - 1]>>]
    BY <1>3, <2>1
  <2>4. <<i, f[i - 1]>> \in Nat \X Nat /\ <<i, f[i - 1]>>[1] = i /\ <<i, f[i - 1]>>[2] = f[i - 1]
    BY <2>1, <2>2
  <2> QED
    BY <2>3, <2>4 DEF step
<1>5. f[0] = 0
  BY <1>1, <1>3
<1>6. f = [i \in 0..n |-> IF i = 0 THEN 0 ELSE f[i - 1] + bytes[i] * Capacity[i - 1]]
  <2>1. ASSUME NEW i \in 0..n
        PROVE  f[i] = IF i = 0 THEN 0 ELSE f[i - 1] + bytes[i] * Capacity[i - 1]
    BY <1>1, <1>4, <1>5
  <2> QED
    BY <1>3, <2>1
<1>7. Values(bytes) = [i \in 0..n |-> IF i = 0 THEN 0
                                      ELSE Values(bytes)[i - 1] + bytes[i] * Capacity[i - 1]]
  BY <1>6 DEF Values, n
<1>8. Values(bytes)[0] = 0
  BY <1>1, <1>7
<1>9. ASSUME NEW i \in 1..n
      PROVE  Values(bytes)[i] = Values(bytes)[i - 1] + bytes[i] * Capacity[i - 1]
  <2>1. i \in 0..n /\ i # 0
    BY <1>1
  <2> QED
    BY <1>7, <2>1
<1> DEFINE T == {i \in Nat : i <= n => Values(bytes)[i] \in Nat}
<1>10. 0 \in T
  BY <1>8
<1>11. ASSUME NEW i \in Nat, i \in T PROVE i + 1 \in T
  <2> SUFFICES ASSUME i + 1 <= n PROVE Values(bytes)[i + 1] \in Nat
    OBVIOUS
  <2>1. i + 1 \in 1..n /\ (i + 1) - 1 = i
    BY <1>1
  <2>2. Values(bytes)[i] \in Nat /\ bytes[i + 1] \in Nat /\ Capacity[i] \in Nat
    <3>1. Values(bytes)[i] \in Nat
      BY <1>1, <1>11, <2>1
    <3>2. Capacity[i] \in Nat /\ bytes[i + 1] \in Nat
      BY <1>1, <2>1
    <3> QED
      BY <3>1, <3>2
  <2>3. \A a, b, c \in Nat : a + b * c \in Nat
    OBVIOUS
  <2> QED
    BY <1>9, <2>1, <2>2, <2>3
<1> HIDE DEF T
<1>12. Nat \subseteq T
  BY <1>10, <1>11, InductionLemma
<1>13. \A i \in 0..n : Values(bytes)[i] \in Nat
  BY <1>12 DEF T
<1>14. Values(bytes) \in [0..n -> Nat]
  BY <1>7, <1>13
<1> QED
  BY <1>8, <1>9, <1>14 DEF n

-----------------------------------------------------------------------------
(***************************************************************************)
(* Numbers and their bytes.                                                *)
(***************************************************************************)

\* Quotient and remainder, and what makes a number the remainder.
LEMMA DivisionLemma ==
    ASSUME NEW n \in Nat, NEW c \in Nat, c > 0
    PROVE  n \div c \in Nat /\ n % c \in Nat /\ n % c < c /\ n = c * (n \div c) + (n % c)
  OBVIOUS

\* What was added to a multiple, and is less, is the remainder.
LEMMA RemainderLemma ==
    ASSUME NEW q \in Nat, NEW r \in Nat, NEW c \in Nat, r < c
    PROVE  (c * q + r) % c = r
  OBVIOUS

\* One more digit of a remainder.
LEMMA DigitLemma ==
    ASSUME NEW n \in Nat, NEW c \in Nat, c > 0, NEW b \in Nat, b > 0
    PROVE  n % (b * c) = (n % c) + ((n \div c) % b) * c
<1> DEFINE r == n % c
           q == n \div c
           d == q % b
           p == q \div b
<1>1. q \in Nat /\ r \in Nat /\ r < c /\ n = c * q + r
  BY DivisionLemma
<1> HIDE DEF q, r
<1>2. p \in Nat /\ d \in Nat /\ d < b /\ q = b * p + d
  BY <1>1, DivisionLemma
<1> HIDE DEF p, d
<1>3. n = (b * c) * p + (r + d * c)
  BY <1>1, <1>2
<1>4. r + d * c < b * c
  <2>1. (d + 1) * c <= b * c
    BY <1>2
  <2> QED
    BY <1>1, <1>2, <2>1
<1>5. b * c \in Nat /\ r + d * c \in Nat
  BY <1>1, <1>2
<1>6. n % (b * c) = r + d * c
  BY <1>2, <1>3, <1>4, <1>5, RemainderLemma
<1> QED
  BY <1>6 DEF r, d, q

\* A remainder by the base is a byte.
LEMMA ByteLemma == \A n \in Nat : n % Base \in Byte
<1> TAKE n \in Nat
<1>1. Base \in Nat /\ Base > 0
  BY FormatAssumption DEF SgxQplCacheMulticerts
<1> QED
  BY <1>1, DivisionLemma DEF Byte

\* A number is written in as many bytes as it is to have.
LEMMA ToBytesType ==
    ASSUME NEW n \in Nat, NEW len \in Nat
    PROVE  ToBytes(n, len) \in Seq(Byte) /\ Len(ToBytes(n, len)) = len
           /\ \A i \in 1..len : ToBytes(n, len)[i] = (n \div Capacity[i - 1]) % Base
<1>1. ASSUME NEW i \in 1..len PROVE (n \div Capacity[i - 1]) % Base \in Byte
  <2>1. i - 1 \in Nat
    OBVIOUS
  <2>2. Capacity[i - 1] \in Nat /\ Capacity[i - 1] > 0
    BY <2>1, CapacityLemma
  <2>3. n \div Capacity[i - 1] \in Nat
    BY <2>2, DivisionLemma
  <2> QED
    BY <2>3, ByteLemma
<1>2. ToBytes(n, len) \in [1..len -> Byte]
  BY <1>1 DEF ToBytes
<1> QED
  BY <1>2 DEF ToBytes

\* The first i bytes make a number that fits in i bytes.
LEMMA ValuesBound ==
    ASSUME NEW bytes \in Seq(Byte)
    PROVE  \A i \in 0..Len(bytes) : Values(bytes)[i] < Capacity[i]
<1> DEFINE T == {i \in Nat : i <= Len(bytes) => Values(bytes)[i] < Capacity[i]}
<1>1. 0 \in T
  BY ValuesLemma, CapacityLemma, SMTT(30)
<1>2. ASSUME NEW i \in Nat, i \in T PROVE i + 1 \in T
  <2> SUFFICES ASSUME i + 1 <= Len(bytes) PROVE Values(bytes)[i + 1] < Capacity[i + 1]
    OBVIOUS
  <2> DEFINE b == bytes[i + 1]
             c == Capacity[i]
             v == Values(bytes)[i]
  <2>1. i + 1 \in 1..Len(bytes) /\ (i + 1) - 1 = i /\ i \in 0..Len(bytes)
    OBVIOUS
  <2>2. Values(bytes)[i + 1] = v + b * c
    BY <2>1, ValuesLemma
  <2>3. v \in Nat /\ v < c
    BY <1>2, <2>1, ValuesLemma
  <2>4. b \in Byte
    BY <2>1
  <2>5. Base \in Nat /\ b \in Nat /\ b < Base
    BY <2>4, FormatAssumption DEF Byte
  <2>6. c \in Nat /\ Capacity[i + 1] = Base * c
    BY CapacityLemma
  <2> HIDE DEF b, c, v
  <2>7. (b + 1) * c <= Base * c
    BY <2>5, <2>6
  <2>8. v + b * c < Base * c
    BY <2>3, <2>5, <2>6, <2>7
  <2> QED
    BY <2>2, <2>6, <2>8
<1> HIDE DEF T
<1>3. Nat \subseteq T
  BY <1>1, <1>2, InductionLemma
<1> QED
  BY <1>3 DEF T

\* The first i bytes that a number is written as make its remainder.
LEMMA ValuesOfToBytes ==
    ASSUME NEW n \in Nat, NEW len \in Nat
    PROVE  \A i \in 0..len : Values(ToBytes(n, len))[i] = n % Capacity[i]
<1> DEFINE bytes == ToBytes(n, len)
<1>1. bytes \in Seq(Byte) /\ Len(bytes) = len
      /\ \A i \in 1..len : bytes[i] = (n \div Capacity[i - 1]) % Base
  BY ToBytesType
<1> HIDE DEF bytes
<1> DEFINE T == {i \in Nat : i <= len => Values(bytes)[i] = n % Capacity[i]}
<1>2. 0 \in T
  <2>1. Values(bytes)[0] = 0
    BY <1>1, ValuesLemma
  <2>2. n % 1 = 0
    OBVIOUS
  <2> QED
    BY <2>1, <2>2, CapacityLemma
<1>3. ASSUME NEW i \in Nat, i \in T PROVE i + 1 \in T
  <2> SUFFICES ASSUME i + 1 <= len PROVE Values(bytes)[i + 1] = n % Capacity[i + 1]
    OBVIOUS
  <2>1. i + 1 \in 1..len /\ (i + 1) - 1 = i
    OBVIOUS
  <2>2. Values(bytes)[i + 1] = Values(bytes)[i] + bytes[i + 1] * Capacity[i]
    BY <1>1, <2>1, ValuesLemma
  <2>3. bytes[i + 1] = (n \div Capacity[i]) % Base
    BY <1>1, <2>1
  <2>4. Values(bytes)[i] = n % Capacity[i]
    BY <1>3, <2>1
  <2>5. Base \in Nat /\ Base > 0 /\ Capacity[i] \in Nat /\ Capacity[i] > 0
        /\ Capacity[i + 1] = Base * Capacity[i]
    BY CapacityLemma, FormatAssumption DEF SgxQplCacheMulticerts
  <2>6. n % (Base * Capacity[i]) = (n % Capacity[i]) + ((n \div Capacity[i]) % Base) * Capacity[i]
    BY <2>5, DigitLemma
  <2> QED
    BY <2>2, <2>3, <2>4, <2>5, <2>6
<1> HIDE DEF T
<1>4. Nat \subseteq T
  BY <1>2, <1>3, InductionLemma
<1>5. \A i \in 0..len : Values(bytes)[i] = n % Capacity[i]
  BY <1>4 DEF T
<1> QED
  BY <1>5 DEF bytes

\* A number that fits is read as it was written.
LEMMA FromToBytes ==
    ASSUME NEW len \in Nat, NEW n \in Nat, n < Capacity[len]
    PROVE  FromBytes(ToBytes(n, len)) = n
<1>1. Len(ToBytes(n, len)) = len
  BY ToBytesType
<1>2. Values(ToBytes(n, len))[len] = n % Capacity[len]
  BY ValuesOfToBytes
<1>3. Capacity[len] \in Nat
  BY CapacityLemma
<1>4. n % Capacity[len] = n
  BY <1>3
<1> QED
  BY <1>1, <1>2, <1>4 DEF FromBytes

\* Two digits over the same place differ by more than what is below makes up for.
LEMMA PlaceLemma ==
    ASSUME NEW c \in Nat, NEW v \in Nat, NEW w \in Nat, v < c, w < c,
           NEW a \in Nat, NEW b \in Nat, v + a * c = w + b * c
    PROVE  a = b /\ v = w
<1>1. ~(a < b)
  <2> SUFFICES ASSUME a < b PROVE FALSE
    OBVIOUS
  <2>1. (a + 1) * c <= b * c
    OBVIOUS
  <2> QED
    BY <2>1
<1>2. ~(b < a)
  <2> SUFFICES ASSUME b < a PROVE FALSE
    OBVIOUS
  <2>1. (b + 1) * c <= a * c
    OBVIOUS
  <2> QED
    BY <2>1
<1> QED
  BY <1>1, <1>2

\* As many bytes that make the same number are the same.
LEMMA ValuesInjective ==
    ASSUME NEW s \in Seq(Byte), NEW t \in Seq(Byte), Len(s) = Len(t), FromBytes(s) = FromBytes(t)
    PROVE  s = t
<1> DEFINE n == Len(s)
           T == {k \in Nat : k <= n /\ Values(s)[k] = Values(t)[k] => \A i \in 1..k : s[i] = t[i]}
<1>1. n \in Nat /\ Len(t) = n
  OBVIOUS
<1>2. 0 \in T
  OBVIOUS
<1>3. ASSUME NEW k \in Nat, k \in T PROVE k + 1 \in T
  <2> SUFFICES ASSUME k + 1 <= n, Values(s)[k + 1] = Values(t)[k + 1]
               PROVE  \A i \in 1..(k + 1) : s[i] = t[i]
    OBVIOUS
  <2> DEFINE c == Capacity[k]
             v == Values(s)[k]
             w == Values(t)[k]
             a == s[k + 1]
             b == t[k + 1]
  <2> HIDE DEF n
  <2>1. k + 1 \in 1..n /\ (k + 1) - 1 = k /\ k \in 0..n
    BY <1>1
  <2>2. Values(s)[k + 1] = v + a * c /\ Values(t)[k + 1] = w + b * c
    BY <1>1, <2>1, ValuesLemma DEF n
  <2>3. v \in Nat /\ w \in Nat /\ v < c /\ w < c /\ c \in Nat
    BY <1>1, <2>1, ValuesLemma, ValuesBound, CapacityLemma DEF n
  <2>4. a \in Byte /\ b \in Byte
    BY <1>1, <2>1 DEF n
  <2>5. a \in Nat /\ b \in Nat
    BY <2>4, FormatAssumption DEF Byte
  <2>6. v + a * c = w + b * c
    BY <2>2
  <2> HIDE DEF a, b, c, v, w
  <2>7. a = b /\ v = w
    BY <2>3, <2>5, <2>6, PlaceLemma
  <2>8. \A i \in 1..k : s[i] = t[i]
    BY <1>3, <2>1, <2>7 DEF v, w
  <2> QED
    BY <2>7, <2>8 DEF a, b
<1> HIDE DEF T
<1>4. Nat \subseteq T
  BY <1>2, <1>3, InductionLemma
<1>5. \A i \in 1..n : s[i] = t[i]
  BY <1>1, <1>4 DEF T, FromBytes
<1> QED
  BY <1>1, <1>5

\* Bytes make a number that fits in them.
LEMMA FromBytesType ==
    ASSUME NEW bytes \in Seq(Byte)
    PROVE  FromBytes(bytes) \in Nat /\ FromBytes(bytes) < Capacity[Len(bytes)]
<1>1. Len(bytes) \in 0..Len(bytes)
  OBVIOUS
<1> QED
  BY <1>1, ValuesLemma, ValuesBound DEF FromBytes

\* Bytes are what the number they make is written as.
LEMMA ToFromBytes ==
    ASSUME NEW bytes \in Seq(Byte)
    PROVE  ToBytes(FromBytes(bytes), Len(bytes)) = bytes
<1>1. FromBytes(bytes) \in Nat /\ FromBytes(bytes) < Capacity[Len(bytes)] /\ Len(bytes) \in Nat
  BY FromBytesType
<1> DEFINE other == ToBytes(FromBytes(bytes), Len(bytes))
<1>2. other \in Seq(Byte) /\ Len(other) = Len(bytes)
  BY <1>1, ToBytesType
<1>3. FromBytes(other) = FromBytes(bytes)
  BY <1>1, FromToBytes
<1> QED
  BY <1>2, <1>3, ValuesInjective

-----------------------------------------------------------------------------
(***************************************************************************)
(* Where the fields of a blob are.                                         *)
(***************************************************************************)

\* The lengths of the parts of the header, and of a length.
LEMMA LengthsLemma ==
    /\ VersionLen \in Nat /\ FlagsLen \in Nat /\ ExpirationLen \in Nat /\ LengthLen \in Nat
    /\ VersionLen > 0 /\ FlagsLen > 0 /\ ExpirationLen > 0 /\ LengthLen > 0
    /\ HeaderLen \in Nat /\ HeaderLen = VersionLen + FlagsLen + ExpirationLen
  BY FormatAssumption DEF HeaderLen

\* A piece of a blob.
LEMMA PieceLemma ==
    ASSUME NEW blob \in Seq(Byte), NEW m \in Nat, NEW n \in Nat, m <= n, n <= Len(blob)
    PROVE  /\ SubSeq(blob, m + 1, n) \in Seq(Byte)
           /\ Len(SubSeq(blob, m + 1, n)) = n - m
           /\ \A i \in 1..(n - m) : SubSeq(blob, m + 1, n)[i] = blob[m + i]
<1>1. \A i \in (m + 1)..n : blob[i] \in Byte
  OBVIOUS
<1>2. m + 1 \in Int /\ n \in Int
  OBVIOUS
<1>3. /\ SubSeq(blob, m + 1, n) \in Seq(Byte)
      /\ Len(SubSeq(blob, m + 1, n)) = IF m + 1 <= n THEN n - (m + 1) + 1 ELSE 0
      /\ \A i \in 1..(n - (m + 1) + 1) : SubSeq(blob, m + 1, n)[i] = blob[(m + 1) + i - 1]
  BY <1>1, <1>2, SubSeqProperties
<1>4. n - (m + 1) + 1 = n - m
  OBVIOUS
<1>5. Len(SubSeq(blob, m + 1, n)) = n - m
  BY <1>3
<1>6. ASSUME NEW i \in 1..(n - m) PROVE SubSeq(blob, m + 1, n)[i] = blob[m + i]
  <2>1. (m + 1) + i - 1 = m + i
    OBVIOUS
  <2> QED
    BY <1>3, <1>4, <2>1
<1> QED
  BY <1>3, <1>5, <1>6

\* A field that is not truncated ends where its length says.
LEMMA ConsumedLemma ==
    ASSUME NEW blob \in Seq(Byte), NEW taken \in Nat
    PROVE  /\ Consumed(blob, taken) \in Nat
           /\ Consumed(blob, taken) <= Len(blob) =>
                /\ taken + LengthLen <= Consumed(blob, taken)
                /\ Consumed(blob, taken) =
                     taken + LengthLen + FromBytes(SubSeq(blob, taken + 1, taken + LengthLen))
<1> DEFINE start == taken + LengthLen
<1>1. start \in Nat /\ Len(blob) \in Nat /\ taken <= start
  BY LengthsLemma
<1>2. CASE start > Len(blob)
  <2>1. Consumed(blob, taken) = Len(blob) + 1
    BY <1>2 DEF Consumed
  <2> QED
    BY <1>1, <2>1
<1>3. CASE start <= Len(blob)
  <2>1. FromBytes(SubSeq(blob, taken + 1, start)) \in Nat
    BY <1>1, <1>3, PieceLemma, FromBytesType
  <2> DEFINE end == start + FromBytes(SubSeq(blob, taken + 1, start))
  <2>2. Consumed(blob, taken) = IF end > Len(blob) THEN Len(blob) + 1 ELSE end
    BY <1>1, <1>3 DEF Consumed
  <2>3. end \in Nat /\ start <= end
    BY <1>1, <2>1
  <2> QED
    BY <1>1, <2>2, <2>3
<1> QED
  BY <1>1, <1>2, <1>3

\* What Ends is defined to be.
LEMMA EndsDefined ==
    ASSUME NEW blob \in Seq(Byte)
    PROVE  /\ \A i \in 0..4 : Ends(blob)[i] \in Nat
           /\ Ends(blob)[0] = HeaderLen
           /\ \A i \in 1..4 : Ends(blob)[i] = Consumed(blob, Ends(blob)[i - 1])
<1> DEFINE step == [p \in Nat \X Nat |-> Consumed(blob, p[2])]
<1>1. step \in [Nat \X Nat -> Nat]
  BY ConsumedLemma
<1> HIDE DEF step
<1>2. 4 \in Nat /\ HeaderLen \in Nat
  BY LengthsLemma
<1>3. PICK f : RecursUpto(f, 4, Nat, HeaderLen, step)
  BY <1>1, <1>2, RecursionLemma
<1>4. /\ f \in [0..4 -> Nat]
      /\ f = [i \in 0..4 |-> IF i = 0 THEN HeaderLen ELSE step[<<i, f[i - 1]>>]]
  BY <1>3 DEF RecursUpto
<1>5. ASSUME NEW i \in 1..4 PROVE f[i] = Consumed(blob, f[i - 1])
  <2>1. i \in 0..4 /\ i - 1 \in 0..4 /\ i # 0 /\ i \in Nat
    OBVIOUS
  <2>2. f[i - 1] \in Nat /\ f[i] = step[<<i, f[i - 1]>>]
    BY <1>4, <2>1
  <2>3. <<i, f[i - 1]>> \in Nat \X Nat /\ <<i, f[i - 1]>>[2] = f[i - 1]
    BY <2>1, <2>2
  <2> QED
    BY <2>2, <2>3 DEF step
<1>6. f = [i \in 0..4 |-> IF i = 0 THEN HeaderLen ELSE Consumed(blob, f[i - 1])]
  <2>1. f[0] = HeaderLen
    BY <1>4
  <2>2. ASSUME NEW i \in 0..4
        PROVE  f[i] = IF i = 0 THEN HeaderLen ELSE Consumed(blob, f[i - 1])
    BY <1>5, <2>1
  <2> QED
    BY <1>4, <2>2
<1> DEFINE Is(g) == g = [i \in 0..4 |-> IF i = 0 THEN HeaderLen ELSE Consumed(blob, g[i - 1])]
<1>7. Is(Ends(blob))
  BY <1>6 DEF Ends
<1>8. Ends(blob)[0] = HeaderLen
  BY <1>7
<1>9. ASSUME NEW i \in 1..4 PROVE Ends(blob)[i] = Consumed(blob, Ends(blob)[i - 1])
  <2>1. i \in 0..4 /\ i # 0
    OBVIOUS
  <2> QED
    BY <1>7, <2>1
<1>10. Ends(blob)[0] \in Nat
  BY <1>2, <1>8
<1>11. ASSUME NEW i \in 1..4, Ends(blob)[i - 1] \in Nat PROVE Ends(blob)[i] \in Nat
  BY <1>9, <1>11, ConsumedLemma
<1>12. Ends(blob)[1] \in Nat
  <2>1. 1 \in 1..4 /\ 1 - 1 = 0
    OBVIOUS
  <2> QED
    BY <1>10, <1>11, <2>1
<1>13. Ends(blob)[2] \in Nat
  <2>1. 2 \in 1..4 /\ 2 - 1 = 1
    OBVIOUS
  <2> QED
    BY <1>12, <1>11, <2>1
<1>14. Ends(blob)[3] \in Nat
  <2>1. 3 \in 1..4 /\ 3 - 1 = 2
    OBVIOUS
  <2> QED
    BY <1>13, <1>11, <2>1
<1>15. Ends(blob)[4] \in Nat
  <2>1. 4 \in 1..4 /\ 4 - 1 = 3
    OBVIOUS
  <2> QED
    BY <1>14, <1>11, <2>1
<1>16. \A i \in 0..4 : i = 0 \/ i = 1 \/ i = 2 \/ i = 3 \/ i = 4
  OBVIOUS
<1>17. \A i \in 0..4 : Ends(blob)[i] \in Nat
  BY <1>10, <1>12, <1>13, <1>14, <1>15, <1>16
<1> QED
  BY <1>8, <1>9, <1>17

\* The fields of a blob that is not truncated lie one behind the other.
LEMMA EndsLemma ==
    ASSUME NEW blob \in Seq(Byte), NEW n \in 0..4, Ends(blob)[n] <= Len(blob)
    PROVE  /\ \A i \in 0..n : Ends(blob)[i] \in Nat /\ Ends(blob)[i] <= Ends(blob)[n]
           /\ \A i \in 1..n :
                /\ Ends(blob)[i - 1] + LengthLen <= Ends(blob)[i]
                /\ Ends(blob)[i] = Ends(blob)[i - 1] + LengthLen
                     + FromBytes(SubSeq(blob, Ends(blob)[i - 1] + 1, Ends(blob)[i - 1] + LengthLen))
<1> DEFINE E(i) == Ends(blob)[i]
           Step(i) == /\ E(i - 1) + LengthLen <= E(i)
                      /\ E(i) = E(i - 1) + LengthLen
                           + FromBytes(SubSeq(blob, E(i - 1) + 1, E(i - 1) + LengthLen))
<1>1. Len(blob) \in Nat /\ \A i \in 0..4 : E(i) \in Nat
  BY EndsDefined
<1>2. ASSUME NEW i \in 1..4, E(i) <= Len(blob)
      PROVE  Step(i) /\ E(i - 1) <= E(i) /\ E(i - 1) <= Len(blob)
  <2>1. i - 1 \in 0..4 /\ i \in 0..4
    OBVIOUS
  <2>2. E(i - 1) \in Nat /\ E(i) = Consumed(blob, E(i - 1)) /\ E(i) \in Nat
    BY <1>1, <2>1, EndsDefined
  <2> HIDE DEF E
  <2>3. Step(i)
    BY <1>2, <2>2, ConsumedLemma
  <2> QED
    BY <1>1, <1>2, <2>2, <2>3, LengthsLemma, SMTT(30)
<1> HIDE DEF E, Step
<1> DEFINE T == {k \in Nat : k <= n => E(n - k) <= E(n) /\ E(n - k) <= Len(blob)}
<1>3. 0 \in T
  BY <1>1 DEF E
<1>4. ASSUME NEW k \in Nat, k \in T PROVE k + 1 \in T
  <2> SUFFICES ASSUME k + 1 <= n PROVE E(n - (k + 1)) <= E(n) /\ E(n - (k + 1)) <= Len(blob)
    OBVIOUS
  <2>1. n - k \in 1..4 /\ (n - k) - 1 = n - (k + 1) /\ n - k \in 0..4 /\ n - (k + 1) \in 0..4
        /\ n \in 0..4
    OBVIOUS
  <2>2. E(n - k) <= E(n) /\ E(n - k) <= Len(blob)
    BY <1>4, <2>1
  <2>3. E(n - (k + 1)) <= E(n - k) /\ E(n - (k + 1)) <= Len(blob)
    BY <1>2, <2>1, <2>2
  <2> QED
    BY <1>1, <2>1, <2>2, <2>3
<1> HIDE DEF T
<1>5. Nat \subseteq T
  BY <1>3, <1>4, InductionLemma
<1>6. ASSUME NEW i \in 0..n PROVE E(i) <= E(n) /\ E(i) <= Len(blob)
  <2>1. n - i \in Nat /\ n - i <= n /\ n - (n - i) = i
    OBVIOUS
  <2> QED
    BY <1>5, <2>1 DEF T
<1>7. ASSUME NEW i \in 1..n PROVE Step(i)
  BY <1>2, <1>6
<1>8. \A i \in 0..n : i \in 0..4
  OBVIOUS
<1> QED
  BY <1>1, <1>6, <1>7, <1>8 DEF E, Step

\* A field is a piece of its blob.
LEMMA FieldLemma ==
    ASSUME NEW blob \in Seq(Byte), Ends(blob)[4] <= Len(blob), NEW i \in 1..4
    PROVE  /\ Field(blob, i) \in Seq(Byte)
           /\ Len(Field(blob, i)) = Ends(blob)[i] - Ends(blob)[i - 1] - LengthLen
           /\ \A j \in 1..Len(Field(blob, i)) :
                Field(blob, i)[j] = blob[Ends(blob)[i - 1] + LengthLen + j]
<1> DEFINE m == Ends(blob)[i - 1] + LengthLen
           n == Ends(blob)[i]
<1>1. i \in 0..4 /\ i - 1 \in 0..4 /\ 4 \in 0..4
  OBVIOUS
<1>2. Ends(blob)[i - 1] \in Nat /\ n \in Nat /\ n <= Ends(blob)[4] /\ m <= n
  BY <1>1, EndsLemma
<1>3. m \in Nat /\ n <= Len(blob) /\ Ends(blob)[4] \in Nat
  <2>1. Ends(blob)[4] \in Nat
    BY <1>1, EndsDefined
  <2>2. m \in Nat
    BY <1>2, LengthsLemma
  <2>3. Len(blob) \in Nat
    OBVIOUS
  <2> QED
    BY <1>2, <2>1, <2>2, <2>3, SMTT(30)
<1>4. n - m = n - Ends(blob)[i - 1] - LengthLen
  BY <1>2, LengthsLemma
<1> HIDE DEF m, n
<1>5. /\ SubSeq(blob, m + 1, n) \in Seq(Byte)
      /\ Len(SubSeq(blob, m + 1, n)) = n - m
      /\ \A j \in 1..(n - m) : SubSeq(blob, m + 1, n)[j] = blob[m + j]
  BY <1>2, <1>3, PieceLemma
<1>6. Field(blob, i) = SubSeq(blob, m + 1, n)
  BY DEF Field, m, n
<1> QED
  BY <1>4, <1>5, <1>6 DEF m, n

-----------------------------------------------------------------------------
(***************************************************************************)
(* Whatever is parsed was built.                                           *)
(***************************************************************************)

\* A byte has room for all that is less than the base.
LEMMA RoomLemma == \A len \in Nat : len > 0 => Capacity[len] >= Base
<1> TAKE len \in Nat
<1> SUFFICES ASSUME len > 0 PROVE Capacity[len] >= Base
  OBVIOUS
<1>1. len - 1 \in Nat /\ (len - 1) + 1 = len
  OBVIOUS
<1>2. Capacity[len - 1] \in Nat /\ Capacity[len - 1] > 0 /\ Capacity[len] = Base * Capacity[len - 1]
  BY <1>1, CapacityLemma
<1>3. Base \in Nat
  BY FormatAssumption
<1> DEFINE c == Capacity[len - 1]
<1> HIDE DEF c
<1>4. c \in Nat /\ c > 0 => Base * c >= Base
  BY <1>3
<1> QED
  BY <1>2, <1>4 DEF c

\* Bytes that make a number are those the number is written as.
LEMMA NumberLemma ==
    ASSUME NEW blob \in Seq(Byte), NEW m \in Nat, NEW n \in Nat, m <= n, n <= Len(blob)
    PROVE  ToBytes(FromBytes(SubSeq(blob, m + 1, n)), n - m) = SubSeq(blob, m + 1, n)
<1> DEFINE piece == SubSeq(blob, m + 1, n)
<1>1. piece \in Seq(Byte) /\ Len(piece) = n - m
  BY PieceLemma
<1> HIDE DEF piece
<1>2. ToBytes(FromBytes(piece), Len(piece)) = piece
  BY <1>1, ToFromBytes
<1>3. ToBytes(FromBytes(piece), n - m) = piece
  BY <1>1, <1>2
<1> QED
  BY <1>3 DEF piece

\* Adjacent pieces of a blob make a piece.
LEMMA JoinLemma ==
    ASSUME NEW blob \in Seq(Byte), NEW m \in Nat, NEW k \in Nat, NEW n \in Nat,
           m <= k, k <= n, n <= Len(blob)
    PROVE  SubSeq(blob, m + 1, k) \o SubSeq(blob, k + 1, n) = SubSeq(blob, m + 1, n)
<1>1. m + 1 \in 1..(Len(blob) + 1) /\ k \in ((m + 1) - 1)..Len(blob) /\ n \in k..Len(blob)
  OBVIOUS
<1> QED
  BY <1>1, ConcatAdjacentSubSeq

\* A field that was read, written again, is the piece it was read from.
LEMMA WrittenFieldLemma ==
    ASSUME NEW blob \in Seq(Byte), Ends(blob)[4] <= Len(blob), NEW i \in 1..4
    PROVE  WriteField(Field(blob, i)) = SubSeq(blob, Ends(blob)[i - 1] + 1, Ends(blob)[i])
<1> DEFINE m == Ends(blob)[i - 1]
           k == m + LengthLen
           n == Ends(blob)[i]
<1>1. i \in 0..4 /\ i - 1 \in 0..4 /\ 4 \in 0..4
  OBVIOUS
<1>2. m \in Nat /\ n \in Nat /\ n <= Ends(blob)[4] /\ k <= n
      /\ n = k + FromBytes(SubSeq(blob, m + 1, k))
  BY <1>1, EndsLemma
<1>3. k \in Nat /\ m <= k /\ k - m = LengthLen /\ n <= Len(blob) /\ k <= Len(blob)
      /\ Ends(blob)[4] \in Nat /\ LengthLen \in Nat
  BY <1>1, <1>2, LengthsLemma, EndsDefined, SMTT(30)
<1>4. Len(Field(blob, i)) = n - m - LengthLen
  BY FieldLemma
<1>5. Field(blob, i) = SubSeq(blob, k + 1, n)
  BY DEF Field
<1> DEFINE l == FromBytes(SubSeq(blob, m + 1, k))
<1>6. l \in Nat
  BY <1>2, <1>3, PieceLemma, FromBytesType
<1> HIDE DEF m, k, n
<1>7. n = k + l
  BY <1>2
<1>8. k = m + LengthLen
  BY DEF k
<1>9. Len(Field(blob, i)) = l
  BY <1>2, <1>3, <1>4, <1>6, <1>7, <1>8, SMTT(30)
<1>10. ToBytes(l, LengthLen) = SubSeq(blob, m + 1, k)
  BY <1>2, <1>3, NumberLemma
<1>11. WriteField(Field(blob, i)) = SubSeq(blob, m + 1, k) \o SubSeq(blob, k + 1, n)
  BY <1>5, <1>9, <1>10 DEF WriteField
<1>12. SubSeq(blob, m + 1, k) \o SubSeq(blob, k + 1, n) = SubSeq(blob, m + 1, n)
  <2>1. m \in Nat /\ k \in Nat /\ n \in Nat /\ m <= k /\ k <= n /\ n <= Len(blob)
    BY <1>2, <1>3
  <2> HIDE DEF l
  <2> QED
    BY ONLY <2>1, JoinLemma, blob \in Seq(Byte)
<1> QED
  BY <1>11, <1>12 DEF m, n

\* A blob that parses is the one that is built from what it is parsed to.
THEOREM ParsedIsBuilt ==
    ASSUME NEW blob \in Seq(Byte), Parses(blob)
    PROVE  blob = Build(Expiration(blob), Fields(blob))
<1> DEFINE V == VersionLen
           F == VersionLen + FlagsLen
           E(i) == Ends(blob)[i]
           b(m, n) == SubSeq(blob, m + 1, n)
<1>1. /\ V \in Nat /\ F \in Nat /\ HeaderLen \in Nat /\ V <= F /\ F <= HeaderLen
      /\ F - V = FlagsLen /\ HeaderLen - F = ExpirationLen /\ V - 0 = VersionLen /\ 0 + 1 = 1
      /\ Len(blob) \in Nat /\ 0 \in Nat /\ 0 <= V
  BY LengthsLemma
<1>2. /\ HeaderLen <= Len(blob) /\ E(4) = Len(blob)
      /\ FromBytes(b(0, V)) = CacheVersion
      /\ FromBytes(b(V, F)) = SgxQplCacheMulticerts
      /\ FromBytes(b(F, HeaderLen)) = Expiration(blob)
  BY <1>1 DEF Parses, HeaderIsValid, Expiration
<1>3. /\ E(0) = HeaderLen /\ E(0) \in Nat /\ E(1) \in Nat /\ E(2) \in Nat /\ E(3) \in Nat
         /\ E(4) \in Nat
      /\ E(0) <= E(1) /\ E(1) <= E(2) /\ E(2) <= E(3) /\ E(3) <= E(4)
  <2>1. 4 \in 0..4 /\ E(4) <= Len(blob)
    BY <1>1, <1>2
  <2>2. \A i \in 1..4 : E(i - 1) + LengthLen <= E(i)
    BY <2>1, EndsLemma
  <2>3. E(0) = HeaderLen /\ \A i \in 0..4 : E(i) \in Nat
    BY EndsDefined
  <2>4. E(0) \in Nat /\ E(1) \in Nat /\ E(2) \in Nat /\ E(3) \in Nat /\ E(4) \in Nat
    BY <2>3
  <2>5. E(0) + LengthLen <= E(1) /\ E(1) + LengthLen <= E(2) /\ E(2) + LengthLen <= E(3)
        /\ E(3) + LengthLen <= E(4)
    <3>1. 1 - 1 = 0 /\ 2 - 1 = 1 /\ 3 - 1 = 2 /\ 4 - 1 = 3 /\ 1 \in 1..4 /\ 2 \in 1..4 /\ 3 \in 1..4
      OBVIOUS
    <3> HIDE DEF E
    <3> QED
      BY <2>2, <3>1
  <2> HIDE DEF E
  <2> QED
    BY <2>3, <2>4, <2>5, LengthsLemma, SMTT(30)
<1>4. \A i \in 1..4 : WriteField(Field(blob, i)) = b(E(i - 1), E(i))
  <2>1. Ends(blob)[4] <= Len(blob)
    BY <1>1, <1>2
  <2> QED
    BY <2>1, WrittenFieldLemma
<1>5. /\ WriteField(Field(blob, 1)) = b(E(0), E(1))
      /\ WriteField(Field(blob, 2)) = b(E(1), E(2))
      /\ WriteField(Field(blob, 3)) = b(E(2), E(3))
      /\ WriteField(Field(blob, 4)) = b(E(3), E(4))
  <2>1. 1 - 1 = 0 /\ 2 - 1 = 1 /\ 3 - 1 = 2 /\ 4 - 1 = 3 /\ 1 \in 1..4 /\ 2 \in 1..4 /\ 3 \in 1..4
    OBVIOUS
  <2> HIDE DEF E, b
  <2> QED
    BY <1>4, <2>1
<1> HIDE DEF V, F, E
<1>6. /\ ToBytes(CacheVersion, VersionLen) = b(0, V)
      /\ ToBytes(SgxQplCacheMulticerts, FlagsLen) = b(V, F)
      /\ ToBytes(Expiration(blob), ExpirationLen) = b(F, HeaderLen)
  <2>1. \A m, n \in Nat : m <= n /\ n <= Len(blob) => ToBytes(FromBytes(b(m, n)), n - m) = b(m, n)
    BY NumberLemma
  <2> HIDE DEF b
  <2>2. V <= Len(blob) /\ F <= Len(blob) /\ HeaderLen <= Len(blob)
    BY <1>1, <1>2
  <2>3. ToBytes(FromBytes(b(0, V)), V - 0) = b(0, V)
    BY <1>1, <2>1, <2>2
  <2>4. ToBytes(FromBytes(b(V, F)), F - V) = b(V, F)
    BY <1>1, <2>1, <2>2
  <2>5. ToBytes(FromBytes(b(F, HeaderLen)), HeaderLen - F) = b(F, HeaderLen)
    BY <1>1, <2>1, <2>2
  <2> QED
    BY <1>1, <1>2, <2>3, <2>4, <2>5
<1>7. \A m, n \in Nat : m <= n /\ n <= Len(blob) => b(0, m) \o b(m, n) = b(0, n)
  BY <1>1, JoinLemma
<1>8. b(0, Len(blob)) = blob
  BY <1>1, SubSeqFull
<1> HIDE DEF b
<1>9. b(0, V) \o b(V, F) \o b(F, HeaderLen) \o b(E(0), E(1)) \o b(E(1), E(2)) \o b(E(2), E(3))
        \o b(E(3), E(4)) = b(0, Len(blob))
  <2>0. /\ F <= Len(blob) /\ E(0) <= Len(blob) /\ E(1) <= Len(blob)
        /\ E(2) <= Len(blob) /\ E(3) <= Len(blob) /\ E(4) <= Len(blob)
    BY <1>1, <1>2, <1>3
  <2>1. b(0, V) \o b(V, F) = b(0, F)
    BY <1>1, <1>7, <2>0
  <2>2. b(0, F) \o b(F, HeaderLen) = b(0, E(0))
    BY <1>1, <1>2, <1>3, <1>7, <2>0
  <2>3. b(0, E(0)) \o b(E(0), E(1)) = b(0, E(1))
    BY <1>1, <1>2, <1>3, <1>7, <2>0
  <2>4. b(0, E(1)) \o b(E(1), E(2)) = b(0, E(2))
    BY <1>1, <1>2, <1>3, <1>7, <2>0
  <2>5. b(0, E(2)) \o b(E(2), E(3)) = b(0, E(3))
    BY <1>1, <1>2, <1>3, <1>7, <2>0
  <2>6. b(0, E(3)) \o b(E(3), E(4)) = b(0, E(4))
    BY <1>1, <1>2, <1>3, <1>7, <2>0
  <2> QED
    BY <1>2, <2>1, <2>2, <2>3, <2>4, <2>5, <2>6
<1>10. /\ Fields(blob).cpu_svn = Field(blob, 1) /\ Fields(blob).tcb_info = Field(blob, 2)
       /\ Fields(blob).cert_chain = Field(blob, 3) /\ Fields(blob).pck_certs = Field(blob, 4)
  BY DEF Fields
<1> QED
  BY <1>5, <1>6, <1>8, <1>9, <1>10 DEF Build

-----------------------------------------------------------------------------
(***************************************************************************)
(* Whatever is built is parsed.                                            *)
(***************************************************************************)

\* A blob that starts like another sequence of bytes.
StartsWith(blob, start) ==
    Len(start) <= Len(blob) /\ \A i \in 1..Len(start) : blob[i] = start[i]

\* What two sequences that a blob starts with say of it.
LEMMA StartsWithConcat ==
    ASSUME NEW blob \in Seq(Byte), NEW s \in Seq(Byte), NEW t \in Seq(Byte),
           StartsWith(blob, s \o t)
    PROVE  /\ StartsWith(blob, s)
           /\ Len(s) + Len(t) <= Len(blob)
           /\ SubSeq(blob, Len(s) + 1, Len(s) + Len(t)) = t
<1>1. /\ Len(s \o t) = Len(s) + Len(t)
      /\ \A i \in 1..(Len(s) + Len(t)) : (s \o t)[i] = IF i <= Len(s) THEN s[i] ELSE t[i - Len(s)]
  BY ConcatProperties
<1>2. Len(s) \in Nat /\ Len(t) \in Nat /\ Len(blob) \in Nat
  OBVIOUS
<1>3. Len(s) + Len(t) <= Len(blob)
      /\ \A i \in 1..(Len(s) + Len(t)) : blob[i] = IF i <= Len(s) THEN s[i] ELSE t[i - Len(s)]
  BY <1>1 DEF StartsWith
<1>4. StartsWith(blob, s)
  <2>1. Len(s) <= Len(blob)
    BY <1>2, <1>3
  <2>2. ASSUME NEW i \in 1..Len(s) PROVE blob[i] = s[i]
    <3>1. i \in 1..(Len(s) + Len(t)) /\ i <= Len(s)
      BY <1>2
    <3> QED
      BY <1>3, <3>1
  <2> QED
    BY <2>1, <2>2 DEF StartsWith
<1> DEFINE m == Len(s)
           n == Len(s) + Len(t)
           piece == SubSeq(blob, m + 1, n)
<1>5. m \in Nat /\ n \in Nat /\ m <= n /\ n <= Len(blob) /\ n - m = Len(t)
  BY <1>2, <1>3
<1>6. piece \in Seq(Byte) /\ Len(piece) = Len(t)
      /\ \A i \in 1..Len(t) : piece[i] = blob[m + i]
  <2> HIDE DEF m, n
  <2>1. piece \in Seq(Byte) /\ Len(piece) = n - m /\ \A i \in 1..(n - m) : piece[i] = blob[m + i]
    BY <1>5, PieceLemma
  <2> QED
    BY <1>5, <2>1
<1>7. ASSUME NEW i \in 1..Len(t) PROVE piece[i] = t[i]
  <2>1. m + i \in 1..(Len(s) + Len(t)) /\ ~(m + i <= Len(s)) /\ (m + i) - Len(s) = i
    BY <1>2
  <2> HIDE DEF piece
  <2> QED
    BY <1>3, <1>6, <2>1
<1> HIDE DEF piece
<1>8. piece = t
  BY <1>6, <1>7, SeqEqual
<1> QED
  BY <1>3, <1>4, <1>8 DEF piece

\* What is appended piece by piece is appended at once.
LEMMA AppendedLemma ==
    ASSUME NEW s \in Seq(Byte), NEW t \in Seq(Byte), NEW u \in Seq(Byte), NEW tu, tu = t \o u
    PROVE  s \o tu = (s \o t) \o u
  BY ONLY s \in Seq(Byte), t \in Seq(Byte), u \in Seq(Byte), tu = t \o u, ConcatAssociative,
     SMTT(30)

\* A field that was written after what is consumed is the next one to be read.
LEMMA ReadWrittenLemma ==
    ASSUME NEW blob \in Seq(Byte), NEW pre \in Seq(Byte), NEW text \in Seq(Byte), Encodable(text),
           StartsWith(blob, pre \o WriteField(text))
    PROVE  /\ pre \o WriteField(text) \in Seq(Byte)
           /\ StartsWith(blob, pre)
           /\ Len(pre \o WriteField(text)) = Len(pre) + LengthLen + Len(text)
           /\ Consumed(blob, Len(pre)) = Len(pre \o WriteField(text))
           /\ SubSeq(blob, Len(pre) + LengthLen + 1, Len(pre \o WriteField(text))) = text
<1> DEFINE prefix == ToBytes(Len(text), LengthLen)
<1>1. Len(text) \in Nat /\ Len(pre) \in Nat /\ Len(blob) \in Nat /\ LengthLen \in Nat
  BY LengthsLemma
<1>2. prefix \in Seq(Byte) /\ Len(prefix) = LengthLen
  BY <1>1, ToBytesType
<1>3. FromBytes(prefix) = Len(text)
  BY <1>1, FromToBytes DEF Encodable
<1> HIDE DEF prefix
<1>4. WriteField(text) = prefix \o text
  BY DEF WriteField, prefix
<1>5. pre \o WriteField(text) = (pre \o prefix) \o text
  <2> DEFINE field == WriteField(text)
  <2> HIDE DEF field
  <2>1. field = prefix \o text
    BY <1>4 DEF field
  <2>2. pre \o field = (pre \o prefix) \o text
    BY ONLY <1>2, <2>1, AppendedLemma, pre \in Seq(Byte), text \in Seq(Byte), SMTT(30)
  <2> QED
    BY <2>2 DEF field
<1>6. pre \o prefix \in Seq(Byte) /\ Len(pre \o prefix) = Len(pre) + LengthLen
  BY <1>2, ConcatProperties
<1>7. /\ pre \o WriteField(text) \in Seq(Byte)
      /\ Len(pre \o WriteField(text)) = (Len(pre) + LengthLen) + Len(text)
  BY <1>5, <1>6, ConcatProperties
<1>8. /\ StartsWith(blob, pre \o prefix)
      /\ (Len(pre) + LengthLen) + Len(text) <= Len(blob)
      /\ SubSeq(blob, (Len(pre) + LengthLen) + 1, (Len(pre) + LengthLen) + Len(text)) = text
  <2> DEFINE s == pre \o prefix
  <2>1. s \in Seq(Byte) /\ StartsWith(blob, s \o text) /\ Len(s) = Len(pre) + LengthLen
    BY <1>5, <1>6
  <2> HIDE DEF s
  <2>2. /\ StartsWith(blob, s)
        /\ Len(s) + Len(text) <= Len(blob)
        /\ SubSeq(blob, Len(s) + 1, Len(s) + Len(text)) = text
    BY <2>1, StartsWithConcat
  <2>3. StartsWith(blob, pre \o prefix)
    BY <2>2 DEF s
  <2> QED
    BY <2>1, <2>2, <2>3
<1>9. /\ StartsWith(blob, pre)
      /\ SubSeq(blob, Len(pre) + 1, Len(pre) + LengthLen) = prefix
  BY <1>2, <1>8, StartsWithConcat, SMTT(30)
<1>10. Consumed(blob, Len(pre)) = (Len(pre) + LengthLen) + Len(text)
  <2>1. ~(Len(pre) + LengthLen > Len(blob)) /\ ~((Len(pre) + LengthLen) + Len(text) > Len(blob))
    BY <1>1, <1>8
  <2> QED
    BY <1>3, <1>9, <2>1 DEF Consumed
<1> QED
  BY <1>7, <1>8, <1>9, <1>10

\* The same, for what is written step by step.
LEMMA NextFieldLemma ==
    ASSUME NEW blob \in Seq(Byte), NEW pre \in Seq(Byte), NEW text \in Seq(Byte), Encodable(text),
           NEW post, post = pre \o WriteField(text), StartsWith(blob, post)
    PROVE  /\ StartsWith(blob, pre)
           /\ Consumed(blob, Len(pre)) = Len(post)
           /\ SubSeq(blob, Len(pre) + LengthLen + 1, Len(post)) = text
<1>1. StartsWith(blob, pre \o WriteField(text))
  OBVIOUS
<1>2. /\ StartsWith(blob, pre)
      /\ Consumed(blob, Len(pre)) = Len(pre \o WriteField(text))
      /\ SubSeq(blob, Len(pre) + LengthLen + 1, Len(pre \o WriteField(text))) = text
  BY <1>1, ReadWrittenLemma
<1> QED
  BY <1>2

\* What is built is parsed to what it was built from.
THEOREM BuiltIsParsed ==
    ASSUME NEW expiration \in Nat, expiration < Capacity[ExpirationLen], NEW fields \in Texts,
           \A name \in DOMAIN fields : Encodable(fields[name])
    PROVE  /\ Build(expiration, fields) \in Seq(Byte)
           /\ Parses(Build(expiration, fields))
           /\ Expiration(Build(expiration, fields)) = expiration
           /\ Fields(Build(expiration, fields)) = fields
<1> DEFINE blob == Build(expiration, fields)
           version == ToBytes(CacheVersion, VersionLen)
           flags == ToBytes(SgxQplCacheMulticerts, FlagsLen)
           expires == ToBytes(expiration, ExpirationLen)
           p0 == version \o flags \o expires
           p1 == p0 \o WriteField(fields.cpu_svn)
           p2 == p1 \o WriteField(fields.tcb_info)
           p3 == p2 \o WriteField(fields.cert_chain)
           p4 == p3 \o WriteField(fields.pck_certs)
<1>0. /\ p1 = p0 \o WriteField(fields.cpu_svn) /\ p2 = p1 \o WriteField(fields.tcb_info)
      /\ p3 = p2 \o WriteField(fields.cert_chain) /\ p4 = p3 \o WriteField(fields.pck_certs)
  OBVIOUS
<1>1. blob = p4
  BY DEF Build
<1>2. /\ CacheVersion \in Nat /\ CacheVersion < Capacity[VersionLen]
      /\ SgxQplCacheMulticerts \in Nat /\ SgxQplCacheMulticerts < Capacity[FlagsLen]
  <2>1. Capacity[VersionLen] >= Base /\ Capacity[FlagsLen] >= Base
        /\ Capacity[VersionLen] \in Nat /\ Capacity[FlagsLen] \in Nat
    BY LengthsLemma, RoomLemma, CapacityLemma
  <2> QED
    BY <2>1, FormatAssumption DEF CacheVersion, SgxQplCacheMulticerts
<1>3. /\ version \in Seq(Byte) /\ Len(version) = VersionLen /\ FromBytes(version) = CacheVersion
      /\ flags \in Seq(Byte) /\ Len(flags) = FlagsLen /\ FromBytes(flags) = SgxQplCacheMulticerts
      /\ expires \in Seq(Byte) /\ Len(expires) = ExpirationLen /\ FromBytes(expires) = expiration
  BY <1>2, LengthsLemma, ToBytesType, FromToBytes
<1> HIDE DEF version, flags, expires
<1>4. version \o flags \in Seq(Byte) /\ Len(version \o flags) = VersionLen + FlagsLen
  BY <1>3, ConcatProperties
<1>5. p0 \in Seq(Byte) /\ Len(p0) = HeaderLen
  BY <1>3, <1>4, ConcatProperties DEF HeaderLen
<1>6. /\ fields = [cpu_svn |-> fields.cpu_svn, tcb_info |-> fields.tcb_info,
                   cert_chain |-> fields.cert_chain, pck_certs |-> fields.pck_certs]
      /\ DOMAIN fields = {"cpu_svn", "tcb_info", "cert_chain", "pck_certs"}
      /\ fields.cpu_svn \in Seq(Character) /\ fields.tcb_info \in Seq(Character)
      /\ fields.cert_chain \in Seq(Character) /\ fields.pck_certs \in Seq(Character)
  BY DEF Texts
<1>7. \A text \in Seq(Character) : text \in Seq(Byte)
  BY FormatAssumption, SeqMonotonic
<1>8. /\ fields.cpu_svn \in Seq(Byte) /\ Encodable(fields.cpu_svn)
      /\ fields.tcb_info \in Seq(Byte) /\ Encodable(fields.tcb_info)
      /\ fields.cert_chain \in Seq(Byte) /\ Encodable(fields.cert_chain)
      /\ fields.pck_certs \in Seq(Byte) /\ Encodable(fields.pck_certs)
  BY <1>6, <1>7
<1>9. \A s, text \in Seq(Byte) : s \o WriteField(text) \in Seq(Byte)
  BY LengthsLemma, ToBytesType, ConcatProperties DEF WriteField
<1> HIDE DEF p0
<1>10. p1 \in Seq(Byte) /\ p2 \in Seq(Byte) /\ p3 \in Seq(Byte) /\ p4 \in Seq(Byte)
  <2>1. p1 \in Seq(Byte)
    BY <1>5, <1>8, <1>9
  <2>2. p2 \in Seq(Byte)
    <3> HIDE DEF p1
    <3> QED
      BY <1>8, <1>9, <2>1
  <2>3. p3 \in Seq(Byte)
    <3> HIDE DEF p2
    <3> QED
      BY <1>8, <1>9, <2>2
  <2>4. p4 \in Seq(Byte)
    <3> HIDE DEF p3
    <3> QED
      BY <1>8, <1>9, <2>3
  <2> QED
    BY <2>1, <2>2, <2>3, <2>4
<1> HIDE DEF blob
<1>11. blob \in Seq(Byte)
  BY <1>1, <1>10
<1>12. StartsWith(blob, p4)
  BY <1>1, <1>11 DEF StartsWith
<1> DEFINE Reads(pre, text, post) ==
               /\ Consumed(blob, Len(pre)) = Len(post)
               /\ SubSeq(blob, Len(pre) + LengthLen + 1, Len(post)) = text
<1> HIDE DEF p1, p2, p3, p4
<1>13. Reads(p3, fields.pck_certs, p4) /\ StartsWith(blob, p3)
  <2>1. p3 \in Seq(Byte) /\ fields.pck_certs \in Seq(Byte) /\ Encodable(fields.pck_certs)
    BY <1>5, <1>8, <1>10
  <2> DEFINE text == fields.pck_certs
  <2> HIDE DEF text
  <2>2. p4 = p3 \o WriteField(text) /\ text \in Seq(Byte) /\ Encodable(text)
    BY <1>0, <2>1 DEF text
  <2>3. Reads(p3, text, p4) /\ StartsWith(blob, p3)
    BY ONLY <1>11, <1>12, <2>1, <2>2, NextFieldLemma
  <2> QED
    BY <2>3 DEF text
<1>14. Reads(p2, fields.cert_chain, p3) /\ StartsWith(blob, p2)
  <2>1. p2 \in Seq(Byte) /\ fields.cert_chain \in Seq(Byte) /\ Encodable(fields.cert_chain)
    BY <1>5, <1>8, <1>10
  <2> DEFINE text == fields.cert_chain
  <2> HIDE DEF text
  <2>2. p3 = p2 \o WriteField(text) /\ text \in Seq(Byte) /\ Encodable(text)
    BY <1>0, <2>1 DEF text
  <2>3. Reads(p2, text, p3) /\ StartsWith(blob, p2)
    BY ONLY <1>11, <1>13, <2>1, <2>2, NextFieldLemma
  <2> QED
    BY <2>3 DEF text
<1>15. Reads(p1, fields.tcb_info, p2) /\ StartsWith(blob, p1)
  <2>1. p1 \in Seq(Byte) /\ fields.tcb_info \in Seq(Byte) /\ Encodable(fields.tcb_info)
    BY <1>5, <1>8, <1>10
  <2> DEFINE text == fields.tcb_info
  <2> HIDE DEF text
  <2>2. p2 = p1 \o WriteField(text) /\ text \in Seq(Byte) /\ Encodable(text)
    BY <1>0, <2>1 DEF text
  <2>3. Reads(p1, text, p2) /\ StartsWith(blob, p1)
    BY ONLY <1>11, <1>14, <2>1, <2>2, NextFieldLemma
  <2> QED
    BY <2>3 DEF text
<1>16. Reads(p0, fields.cpu_svn, p1) /\ StartsWith(blob, p0)
  <2>1. p0 \in Seq(Byte) /\ fields.cpu_svn \in Seq(Byte) /\ Encodable(fields.cpu_svn)
    BY <1>5, <1>8, <1>10
  <2> DEFINE text == fields.cpu_svn
  <2> HIDE DEF text
  <2>2. p1 = p0 \o WriteField(text) /\ text \in Seq(Byte) /\ Encodable(text)
    BY <1>0, <2>1 DEF text
  <2>3. Reads(p0, text, p1) /\ StartsWith(blob, p0)
    BY ONLY <1>11, <1>15, <2>1, <2>2, NextFieldLemma
  <2> QED
    BY <2>3 DEF text
<1>17. /\ Ends(blob)[0] = Len(p0) /\ Ends(blob)[1] = Len(p1) /\ Ends(blob)[2] = Len(p2)
       /\ Ends(blob)[3] = Len(p3) /\ Ends(blob)[4] = Len(p4)
  <2>1. Ends(blob)[0] = HeaderLen
        /\ \A i \in 1..4 : Ends(blob)[i] = Consumed(blob, Ends(blob)[i - 1])
    BY <1>11, EndsDefined
  <2>2. /\ Ends(blob)[1] = Consumed(blob, Ends(blob)[0])
        /\ Ends(blob)[2] = Consumed(blob, Ends(blob)[1])
        /\ Ends(blob)[3] = Consumed(blob, Ends(blob)[2])
        /\ Ends(blob)[4] = Consumed(blob, Ends(blob)[3])
    BY <2>1
  <2> QED
    BY <1>5, <1>13, <1>14, <1>15, <1>16, <2>1, <2>2, SMTT(30)
<1>18. /\ Field(blob, 1) = fields.cpu_svn /\ Field(blob, 2) = fields.tcb_info
       /\ Field(blob, 3) = fields.cert_chain /\ Field(blob, 4) = fields.pck_certs
  <2>1. 1 - 1 = 0 /\ 2 - 1 = 1 /\ 3 - 1 = 2 /\ 4 - 1 = 3
    OBVIOUS
  <2> QED
    BY <1>13, <1>14, <1>15, <1>16, <1>17, <2>1 DEF Field
<1>19. Fields(blob) = fields
  BY <1>6, <1>18 DEF Fields
<1>20. /\ Len(blob) >= HeaderLen
       /\ SubSeq(blob, 1, VersionLen) = version
       /\ SubSeq(blob, VersionLen + 1, VersionLen + FlagsLen) = flags
       /\ SubSeq(blob, VersionLen + FlagsLen + 1, HeaderLen) = expires
  <2>1. /\ StartsWith(blob, version \o flags)
        /\ Len(version \o flags) + Len(expires) <= Len(blob)
        /\ SubSeq(blob, Len(version \o flags) + 1, Len(version \o flags) + Len(expires)) = expires
    <3> DEFINE head == version \o flags
    <3>1. head \in Seq(Byte) /\ p0 = head \o expires
      BY <1>4 DEF p0
    <3> HIDE DEF head
    <3>2. expires \in Seq(Byte) /\ StartsWith(blob, head \o expires)
      BY <1>3, <1>16, <3>1
    <3>3. /\ StartsWith(blob, head)
          /\ Len(head) + Len(expires) <= Len(blob)
          /\ SubSeq(blob, Len(head) + 1, Len(head) + Len(expires)) = expires
      BY ONLY <1>11, <3>1, <3>2, StartsWithConcat
    <3> QED
      BY <3>3 DEF head
  <2>2. /\ StartsWith(blob, version)
        /\ SubSeq(blob, Len(version) + 1, Len(version) + Len(flags)) = flags
    BY <1>3, <1>11, <2>1, StartsWithConcat
  <2>3. SubSeq(blob, 1, VersionLen) = version
    <3>1. <<>> \in Seq(Byte) /\ <<>> \o version = version /\ Len(<<>>) = 0
      BY <1>3, ConcatEmptySeq
    <3>2. SubSeq(blob, 0 + 1, 0 + Len(version)) = version
      <4> DEFINE none == <<>>
      <4>1. none \in Seq(Byte) /\ StartsWith(blob, none \o version) /\ Len(none) = 0
        BY <2>2, <3>1
      <4> HIDE DEF none
      <4>2. SubSeq(blob, Len(none) + 1, Len(none) + Len(version)) = version
        <5>1. version \in Seq(Byte)
          BY <1>3
        <5> QED
          BY ONLY <1>11, <4>1, <5>1, StartsWithConcat
      <4> QED
        BY <4>1, <4>2
    <3>3. 0 + 1 = 1 /\ 0 + VersionLen = VersionLen
      BY LengthsLemma
    <3> QED
      BY <1>3, <3>2, <3>3
  <2>4. HeaderLen = (VersionLen + FlagsLen) + ExpirationLen /\ HeaderLen \in Nat
        /\ Len(blob) \in Nat
    BY <1>11, LengthsLemma
  <2> QED
    BY <1>3, <1>4, <2>1, <2>2, <2>3, <2>4
<1>21. HeaderIsValid(blob) /\ Expiration(blob) = expiration
  BY <1>3, <1>20 DEF HeaderIsValid, Expiration
<1>22. \A i \in 1..4 : Range(Field(blob, i)) \subseteq Character
  <2>1. \A i \in 1..4 : i = 1 \/ i = 2 \/ i = 3 \/ i = 4
    OBVIOUS
  <2>2. \A text \in Seq(Character) : Range(text) \subseteq Character
    BY RangeOfSeq
  <2> QED
    BY <1>6, <1>18, <2>1, <2>2
<1>23. Parses(blob)
  BY <1>1, <1>17, <1>21, <1>22 DEF Parses
<1> QED
  BY <1>11, <1>19, <1>21, <1>23 DEF blob

-----------------------------------------------------------------------------
(***************************************************************************)
(* Where a blob ends is told by its lengths.                               *)
(***************************************************************************)

\* A blob that has the lengths of another one where that one has them has its fields' places.
LEMMA SameEnds ==
    ASSUME NEW blob \in Seq(Byte), NEW other \in Seq(Byte), NEW n \in 0..4,
           Ends(blob)[n] <= Len(blob), Ends(blob)[n] <= Len(other),
           \A k \in 1..n : \A i \in 1..LengthLen :
               other[Ends(blob)[k - 1] + i] = blob[Ends(blob)[k - 1] + i]
    PROVE  \A k \in 0..n : Ends(other)[k] = Ends(blob)[k]
<1> DEFINE T == {k \in Nat : k <= n => Ends(other)[k] = Ends(blob)[k]}
<1>1. 0 \in T
  BY EndsDefined
<1>2. ASSUME NEW k \in Nat, k \in T PROVE k + 1 \in T
  <2> SUFFICES ASSUME k + 1 <= n PROVE Ends(other)[k + 1] = Ends(blob)[k + 1]
    OBVIOUS
  <2>1. k \in 0..n /\ k + 1 \in 0..n /\ k + 1 \in 1..n /\ k + 1 \in 1..4 /\ (k + 1) - 1 = k
    OBVIOUS
  <2> DEFINE m == Ends(blob)[k]
             start == m + LengthLen
             end == Ends(blob)[k + 1]
  <2>2. /\ m \in Nat /\ end \in Nat /\ start <= end /\ end <= Ends(blob)[n]
        /\ end = start + FromBytes(SubSeq(blob, m + 1, start))
    <3>1. /\ \A i \in 0..n : Ends(blob)[i] \in Nat /\ Ends(blob)[i] <= Ends(blob)[n]
          /\ \A i \in 1..n :
               /\ Ends(blob)[i - 1] + LengthLen <= Ends(blob)[i]
               /\ Ends(blob)[i] = Ends(blob)[i - 1] + LengthLen
                    + FromBytes(SubSeq(blob, Ends(blob)[i - 1] + 1, Ends(blob)[i - 1] + LengthLen))
      BY EndsLemma
    <3> QED
      BY <2>1, <3>1
  <2>3. Ends(other)[k] = m /\ Ends(other)[k + 1] = Consumed(other, m)
    BY <1>2, <2>1, EndsDefined
  <2>4. \A i \in 1..LengthLen : other[m + i] = blob[m + i]
    BY <2>1
  <2>5. Len(blob) \in Nat /\ Len(other) \in Nat /\ Ends(blob)[n] \in Nat /\ LengthLen \in Nat
    BY EndsDefined, LengthsLemma
  <2> HIDE DEF m, end
  <2>6. start \in Nat /\ m <= start /\ start <= Len(blob) /\ start <= Len(other)
        /\ end <= Len(other)
        /\ start - m = LengthLen
    BY <2>2, <2>5
  <2> HIDE DEF start
  <2>7. SubSeq(other, m + 1, start) = SubSeq(blob, m + 1, start)
    <3>1. /\ SubSeq(other, m + 1, start) \in Seq(Byte)
          /\ Len(SubSeq(other, m + 1, start)) = LengthLen
          /\ \A i \in 1..LengthLen : SubSeq(other, m + 1, start)[i] = other[m + i]
      BY <2>2, <2>6, PieceLemma
    <3>2. /\ SubSeq(blob, m + 1, start) \in Seq(Byte)
          /\ Len(SubSeq(blob, m + 1, start)) = LengthLen
          /\ \A i \in 1..LengthLen : SubSeq(blob, m + 1, start)[i] = blob[m + i]
      BY <2>2, <2>6, PieceLemma
    <3> DEFINE s == SubSeq(other, m + 1, start)
               t == SubSeq(blob, m + 1, start)
    <3>3. /\ s \in Seq(Byte) /\ t \in Seq(Byte) /\ Len(s) = Len(t)
          /\ \A i \in 1..Len(s) : s[i] = t[i]
      BY <2>4, <3>1, <3>2
    <3> HIDE DEF s, t
    <3>4. s = t
      BY <3>3, SeqEqual
    <3> QED
      BY <3>4 DEF s, t
  <2>8. Consumed(other, m) = end
    <3>1. ~(start > Len(other)) /\ ~(end > Len(other))
      BY <2>2, <2>5, <2>6
    <3> QED
      BY <2>2, <2>7, <3>1 DEF Consumed, start
  <2> QED
    BY <2>3, <2>8 DEF end
<1> HIDE DEF T
<1>3. Nat \subseteq T
  BY <1>1, <1>2, InductionLemma
<1> QED
  BY <1>3 DEF T

\* Where a blob is cut off, and where it ends, is told from its lengths.
LEMMA CutLemma ==
    ASSUME NEW blob \in Seq(Byte), NEW other \in Seq(Byte),
           Ends(blob)[4] = Len(blob), Ends(other)[4] = Len(other), StartsWith(other, blob)
    PROVE  Len(other) = Len(blob)
<1>1. 4 \in 0..4 /\ Len(blob) \in Nat /\ Len(other) \in Nat /\ LengthLen \in Nat
      /\ Len(blob) <= Len(other)
  BY LengthsLemma DEF StartsWith
<1>2. ASSUME NEW k \in 1..4, NEW i \in 1..LengthLen
      PROVE  other[Ends(blob)[k - 1] + i] = blob[Ends(blob)[k - 1] + i]
  <2>1. /\ Ends(blob)[k - 1] + LengthLen <= Ends(blob)[k]
        /\ Ends(blob)[k] <= Ends(blob)[4]
        /\ Ends(blob)[k] \in Nat /\ Ends(blob)[k - 1] \in Nat
    <3>1. k \in 0..4 /\ k - 1 \in 0..4 /\ Ends(blob)[4] <= Len(blob)
      BY <1>1
    <3> QED
      BY <1>1, <3>1, EndsLemma
  <2>2. Ends(blob)[k - 1] + i \in 1..Len(blob)
    BY <1>1, <2>1, SMTT(30)
  <2> QED
    BY <2>2 DEF StartsWith
<1>3. Ends(blob)[4] <= Len(blob) /\ Ends(blob)[4] <= Len(other)
  BY <1>1
<1>4. \A k \in 0..4 : Ends(other)[k] = Ends(blob)[k]
  BY <1>1, <1>2, <1>3, SameEnds
<1> QED
  BY <1>1, <1>4

=============================================================================
