-------------------------- MODULE EncodingsProofs --------------------------
(***************************************************************************)
(* Proofs about Encodings for any base, lengths, headers, prefixes and     *)
(* curve: what is signed, read from KMS, made of a signature and put       *)
(* together stands for one content only, whatever the bytes.               *)
(***************************************************************************)
EXTENDS MCTokenService, FiniteSetTheorems, SequenceTheorems, WellFoundedInduction, TLAPS

-----------------------------------------------------------------------------
(* Numbers *)

\* A set of numbers that has 0 and what follows its numbers has all.
LEMMA AllNumbers ==
  ASSUME NEW S, 0 \in S, \A n \in Nat : n \in S => n + 1 \in S
  PROVE  Nat \subseteq S
<1> DEFINE T == Nat \ S
           R == {ss \in Nat \X Nat : ss[1] < ss[2]}
<1>0. IsWellFoundedOn(R, Nat)
  BY NatLessThanWellFounded DEF OpToRel
<1>1. SUFFICES ASSUME T # {} PROVE FALSE
  OBVIOUS
<1>2. PICK n \in T : \A m \in T : <<m, n>> \notin R
  <2>1. T \subseteq Nat
    OBVIOUS
  <2> HIDE DEF T, R
  <2> QED
    BY <1>0, <1>1, <2>1, WFMin
<1>3. n \in Nat /\ n \notin S /\ n # 0
  OBVIOUS
<1>4. n - 1 \in Nat /\ <<n - 1, n>> \in R
  BY <1>3
<1>5. n - 1 \in S
  BY <1>2, <1>4
<1> QED
  BY <1>3, <1>4, <1>5

\* A function on the first n numbers is a sequence of n.
LEMMA Sequence ==
  ASSUME NEW S, NEW n \in Nat, NEW f \in [1..n -> S]
  PROVE  f \in Seq(S) /\ Len(f) = n
<1>1. f \in UNION {[1..m -> S] : m \in Nat}
  OBVIOUS
<1>2. f \in Seq(S)
  BY <1>1, SeqDef, Zenon
<1>3. DOMAIN f = 1..Len(f) /\ Len(f) \in Nat /\ DOMAIN f = 1..n
  BY <1>2, LenProperties
<1>4. Len(f) = n
  <2>1. \A i \in Nat : i \in 1..n <=> i \in 1..Len(f)
    BY <1>3
  <2> QED
    BY <1>3, <2>1
<1> QED
  BY <1>2, <1>4

\* A function that starts from a value and goes on by steps exists.
Steps(f, n, V, start, step) ==
  /\ f \in [0..n -> V] /\ f[0] = start
  /\ \A k \in 0..(n - 1) : f[k + 1] = step[k][f[k]]

\* Two computations from the same start by the same steps agree where both are.
LEMMA StepsAgree ==
  ASSUME NEW V, NEW start, NEW step, NEW m \in Nat, NEW n \in Nat, m <= n,
         NEW f, NEW g, Steps(f, m, V, start, step), Steps(g, n, V, start, step)
  PROVE  f[m] = g[m]
<1> DEFINE E == {k \in Nat : k <= m => f[k] = g[k]}
<1>1. 0 \in E
  BY DEF Steps
<1>2. ASSUME NEW k \in Nat, k \in E PROVE k + 1 \in E
  <2> SUFFICES ASSUME k + 1 <= m PROVE f[k + 1] = g[k + 1]
    OBVIOUS
  <2>1. k \in 0..(m - 1) /\ k \in 0..(n - 1) /\ f[k] = g[k]
    BY <1>2
  <2> QED
    BY <2>1 DEF Steps
<1>3. m \in E
  <2> HIDE DEF E
  <2> QED
    BY <1>1, <1>2, AllNumbers
<1> QED
  BY <1>3

\* Any number of steps can be computed.
LEMMA StepsExist ==
  ASSUME NEW V, NEW start \in V, NEW step \in [Nat -> [V -> V]], NEW n \in Nat
  PROVE  \E f : Steps(f, n, V, start, step)
<1> DEFINE S == {m \in Nat : \E f : Steps(f, m, V, start, step)}
<1>1. 0 \in S
  <2>1. Steps([k \in 0..0 |-> start], 0, V, start, step)
    BY DEF Steps
  <2> QED
    BY <2>1
<1>2. ASSUME NEW m \in Nat, m \in S PROVE m + 1 \in S
  <2>1. PICK f : Steps(f, m, V, start, step)
    BY <1>2
  <2>2. f \in [0..m -> V] /\ f[0] = start /\ m \in 0..m
    BY <2>1 DEF Steps
  <2> DEFINE next == step[m][f[m]]
             g == [k \in 0..(m + 1) |-> IF k \in 0..m THEN f[k] ELSE next]
  <2>3. next \in V
    BY <2>2
  <2> HIDE DEF next
  <2>4. g \in [0..(m + 1) -> V]
    BY <2>2, <2>3
  <2>5. g[0] = start
    BY <2>2
  <2>6. ASSUME NEW k \in 0..((m + 1) - 1) PROVE g[k + 1] = step[k][g[k]]
    <3>1. k \in 0..m /\ k \in 0..(m + 1) /\ k + 1 \in 0..(m + 1)
      OBVIOUS
    <3>2. g[k] = f[k]
      BY <3>1
    <3>3. CASE k = m
      <4>1. g[k + 1] = next
        BY <3>1, <3>3
      <4> QED
        BY <3>2, <3>3, <4>1 DEF next
    <3>4. CASE k # m
      <4>1. k \in 0..(m - 1) /\ k + 1 \in 0..m
        BY <3>1, <3>4
      <4>2. g[k + 1] = f[k + 1]
        BY <3>1, <4>1
      <4> QED
        BY <2>1, <3>2, <4>1, <4>2 DEF Steps
    <3> QED
      BY <3>3, <3>4
  <2>7. Steps(g, m + 1, V, start, step)
    <3> HIDE DEF g
    <3> QED
      BY <2>4, <2>5, <2>6 DEF Steps
  <2>8. \E x : Steps(x, m + 1, V, start, step)
    BY <2>7
  <2> QED
    BY <2>8
<1>3. n \in S
  <2> HIDE DEF S
  <2> QED
    BY <1>1, <1>2, AllNumbers
<1> QED
  BY <1>3

GoesOn(f, V, start, step) ==
  /\ f \in [Nat -> V] /\ f[0] = start
  /\ \A n \in Nat : f[n + 1] = step[n][f[n]]

\* So can all of them: what a recursive function is proved to be rests on this.
LEMMA Recursion ==
  ASSUME NEW V, NEW start \in V, NEW step \in [Nat -> [V -> V]]
  PROVE  \E f : GoesOn(f, V, start, step)
<1> DEFINE Part(n) == CHOOSE f : Steps(f, n, V, start, step)
           p == [n \in Nat |-> Part(n)[n]]
<1>1. ASSUME NEW n \in Nat PROVE Steps(Part(n), n, V, start, step)
  BY StepsExist
<1> HIDE DEF Part
<1>2. p \in [Nat -> V]
  <2>1. \A n \in Nat : Part(n)[n] \in V
    BY <1>1 DEF Steps
  <2> QED
    BY <2>1
<1>3. p[0] = start
  <2>1. 0 \in Nat
    OBVIOUS
  <2> QED
    BY <1>1, <2>1 DEF Steps
<1>4. ASSUME NEW n \in Nat PROVE p[n + 1] = step[n][p[n]]
  <2>1. n + 1 \in Nat /\ n <= n + 1 /\ n \in 0..((n + 1) - 1)
    OBVIOUS
  <2>2. Steps(Part(n), n, V, start, step) /\ Steps(Part(n + 1), n + 1, V, start, step)
    BY <1>1, <2>1
  <2>3. Part(n)[n] = Part(n + 1)[n]
    BY <2>1, <2>2, StepsAgree
  <2>4. Part(n + 1)[n + 1] = step[n][Part(n + 1)[n]]
    BY <2>1, <2>2 DEF Steps
  <2>5. p[n + 1] = Part(n + 1)[n + 1] /\ p[n] = Part(n)[n]
    BY <2>1
  <2> QED
    BY <2>3, <2>4, <2>5
<1> HIDE DEF p
<1>5. GoesOn(p, V, start, step)
  BY <1>2, <1>3, <1>4 DEF GoesOn
<1> QED
  BY <1>5

\* The powers of the base, one by one.
LEMMA PowerDef ==
  /\ Power \in [Nat -> Nat \ {0}]
  /\ Power[0] = 1
  /\ \A n \in Nat : Power[n + 1] = Base * Power[n]
<1> DEFINE V == Nat \ {0}
           step == [n \in Nat |-> [v \in V |-> Base * v]]
           Is(f) == f = [n \in Nat |-> IF n = 0 THEN 1 ELSE Base * f[n - 1]]
<1>1. \A v \in V : Base * v \in V
  BY BaseAssumption
<1>2. PICK f : GoesOn(f, V, 1, step)
  <2>1. 1 \in V /\ step \in [Nat -> [V -> V]]
    BY <1>1
  <2> HIDE DEF V, step
  <2> QED
    BY <2>1, Recursion
<1>3. Is(f)
  <2>1. ASSUME NEW n \in Nat PROVE f[n] = IF n = 0 THEN 1 ELSE Base * f[n - 1]
    <3>1. CASE n # 0
      <4>1. n - 1 \in Nat /\ (n - 1) + 1 = n
        BY <3>1
      <4>2. f[n - 1] \in V
        BY <1>2, <4>1 DEF GoesOn
      <4> QED
        BY <1>2, <3>1, <4>1, <4>2 DEF GoesOn
    <3> QED
      BY <1>2, <3>1 DEF GoesOn
  <2>2. f = [n \in Nat |-> f[n]]
    BY <1>2 DEF GoesOn
  <2>3. [n \in Nat |-> f[n]] = [n \in Nat |-> IF n = 0 THEN 1 ELSE Base * f[n - 1]]
    BY <2>1
  <2> QED
    BY <2>2, <2>3
<1>4. Is(Power)
  <2>1. \E g : Is(g)
    BY <1>3
  <2> QED
    BY <2>1 DEF Power
<1>5. Power[0] = 1 /\ \A n \in Nat : Power[n + 1] = Base * Power[n]
  <2>1. \A n \in Nat : Power[n] = IF n = 0 THEN 1 ELSE Base * Power[n - 1]
    BY <1>4
  <2> QED
    BY <2>1
<1> DEFINE F == {n \in Nat : Power[n] \in V}
<1>6. Nat \subseteq F
  <2>1. 0 \in F
    BY <1>5
  <2>2. ASSUME NEW n \in Nat, n \in F PROVE n + 1 \in F
    BY <1>1, <1>5, <2>2
  <2> HIDE DEF F
  <2> QED
    BY <2>1, <2>2, AllNumbers
<1>7. Power \in [Nat -> V]
  BY <1>4, <1>6
<1> QED
  BY <1>5, <1>7

\* The base is even, its powers are at least 1.
LEMMA Positive ==
  /\ Base \in Nat /\ Base >= 2 /\ Base % 2 = 0 /\ Base = 2 * (Base \div 2)
  /\ \A n \in Nat : Power[n] \in Nat /\ Power[n] >= 1
<1>1. Base \in Nat /\ Base >= 2 /\ Base % 2 = 0 /\ Base = 2 * (Base \div 2)
  BY BaseAssumption
<1>2. \A n \in Nat : Power[n] \in Nat /\ Power[n] >= 1
  BY PowerDef
<1> QED
  BY <1>1, <1>2

\* Half of what eight bytes hold is a number.
LEMMA Half ==
  Power[8] \div 2 \in Nat
<1> DEFINE p == Power[8]
<1>1. p \in Nat
  <2>1. 8 \in Nat
    OBVIOUS
  <2> QED
    BY <2>1, PowerDef
<1> HIDE DEF p
<1>2. p \div 2 \in Nat
  BY <1>1
<1> QED
  BY <1>2 DEF p

\* Powers grow.
LEMMA PowersGrow ==
  ASSUME NEW m \in Nat, NEW n \in Nat, m <= n
  PROVE  Power[m] <= Power[n]
<1> DEFINE S == {k \in Nat : Power[m] <= Power[m + k]}
<1>1. 0 \in S
  BY Positive
<1>2. ASSUME NEW k \in Nat, k \in S PROVE k + 1 \in S
  <2>1. m + k \in Nat /\ m + (k + 1) = (m + k) + 1
    OBVIOUS
  <2>2. Power[m + (k + 1)] = Base * Power[m + k] /\ Power[m + k] \in Nat /\ Power[m] \in Nat
    BY <2>1, PowerDef, Positive
  <2>3. Base * Power[m + k] >= Power[m + k]
    BY <2>2, Positive
  <2>4. Base * Power[m + k] \in Nat
    BY <2>2, Positive
  <2> QED
    BY <1>2, <2>2, <2>3, <2>4
<1>3. n - m \in S
  <2>1. n - m \in Nat
    OBVIOUS
  <2> HIDE DEF S
  <2> QED
    BY <1>1, <1>2, <2>1, AllNumbers
<1>4. m + (n - m) = n
  OBVIOUS
<1> QED
  BY <1>3, <1>4

\* Division and remainder.
LEMMA Division ==
  ASSUME NEW n \in Nat, NEW b \in Nat \ {0}
  PROVE  n \div b \in Nat /\ n % b \in 0..(b - 1) /\ n = b * (n \div b) + (n % b)
OBVIOUS

\* A number put together of quotient and remainder.
LEMMA Divided ==
  ASSUME NEW q \in Nat, NEW b \in Nat \ {0}, NEW r \in 0..(b - 1)
  PROVE  (b * q + r) \div b = q /\ (b * q + r) % b = r
OBVIOUS

\* A number of two digits, to two bases.
LEMMA TwoDigits ==
  ASSUME NEW a \in Nat \ {0}, NEW b \in Nat \ {0}, NEW q \in 0..(b - 1), NEW r \in 0..(a - 1)
  PROVE  a * b \in Nat \ {0} /\ a * q + r \in 0..(a * b - 1)
<1>1. a * b \in Nat \ {0}
  OBVIOUS
<1>2. a * q <= a * (b - 1)
  OBVIOUS
<1>3. a * (b - 1) = a * b - a
  OBVIOUS
<1>4. a * q \in Nat
  OBVIOUS
<1> QED
  BY <1>1, <1>2, <1>3, <1>4

\* To divide by two numbers is to divide by their product.
LEMMA DivideTwice ==
  ASSUME NEW n \in Nat, NEW a \in Nat \ {0}, NEW b \in Nat \ {0}
  PROVE  /\ (n \div a) \div b = n \div (a * b)
         /\ a * ((n \div a) % b) + (n % a) = n % (a * b)
<1> DEFINE q == n \div a
           r == n % a
           p == q \div b
           s == q % b
<1>1. q \in Nat /\ r \in 0..(a - 1) /\ n = a * q + r
  BY Division
<1> HIDE DEF q, r
<1>2. p \in Nat /\ s \in 0..(b - 1) /\ q = b * p + s
  BY <1>1, Division
<1> HIDE DEF p, s
<1>3. a * b \in Nat \ {0} /\ a * s + r \in 0..(a * b - 1)
  BY <1>1, <1>2, TwoDigits
<1>4. a * q = (a * b) * p + a * s
  BY <1>2
<1>5. n = (a * b) * p + (a * s + r)
  <2>1. a * q \in Nat /\ (a * b) * p \in Nat /\ a * s \in Nat
    BY <1>1, <1>2
  <2> QED
    BY <1>1, <1>4, <2>1
<1>6. n \div (a * b) = p /\ n % (a * b) = a * s + r
  BY <1>2, <1>3, <1>5, Divided
<1>7. p = (n \div a) \div b /\ s = (n \div a) % b /\ r = n % a
  BY DEF p, q, r, s
<1> QED
  BY <1>6, <1>7

-----------------------------------------------------------------------------
(* What the recursive definitions compute *)

\* The bytes of a number, read one by one.
Reads(read, bytes) ==
  /\ read \in [0..Len(bytes) -> Nat]
  /\ read[0] = 0
  /\ \A k \in 1..Len(bytes) : read[k] = read[k - 1] * Base + bytes[k]

\* Number reads its bytes so.
LEMMA NumberDef ==
  ASSUME NEW bytes \in Seq(Nat)
  PROVE  \E read : Reads(read, bytes) /\ Number(bytes) = read[Len(bytes)]
<1> DEFINE N == Len(bytes)
           Is(f) == f = [k \in 0..Len(bytes) |-> IF k = 0 THEN 0 ELSE f[k - 1] * Base + bytes[k]]
           step == [n \in Nat |-> [v \in Nat |-> IF n + 1 <= N THEN v * Base + bytes[n + 1] ELSE v]]
<1>1. N \in Nat /\ \A k \in 1..N : bytes[k] \in Nat
  OBVIOUS
<1>2. PICK f : GoesOn(f, Nat, 0, step)
  <2>1. ASSUME NEW n \in Nat, NEW v \in Nat
        PROVE  (IF n + 1 <= N THEN v * Base + bytes[n + 1] ELSE v) \in Nat
    <3>1. CASE n + 1 <= N
      <4>1. n + 1 \in 1..N
        BY <1>1, <3>1
      <4>2. bytes[n + 1] \in Nat /\ v * Base \in Nat
        BY <1>1, <4>1, Positive
      <4> QED
        BY <3>1, <4>2
    <3> QED
      BY <3>1
  <2>2. 0 \in Nat /\ step \in [Nat -> [Nat -> Nat]]
    BY <2>1
  <2> HIDE DEF step
  <2> QED
    BY <2>2, Recursion
<1> DEFINE g == [k \in 0..N |-> f[k]]
<1>3. \A k \in 0..N : k # 0 => f[k] = f[k - 1] * Base + bytes[k]
  <2> TAKE k \in 0..N
  <2> HAVE k # 0
  <2>1. k - 1 \in Nat /\ (k - 1) + 1 = k /\ k <= N
    BY <1>1
  <2>2. f[k] = step[k - 1][f[k - 1]] /\ f[k - 1] \in Nat
    BY <1>2, <2>1 DEF GoesOn
  <2> QED
    BY <2>1, <2>2
<1>4. \A k \in 0..N : g[k] = IF k = 0 THEN 0 ELSE g[k - 1] * Base + bytes[k]
  <2> TAKE k \in 0..N
  <2>1. CASE k = 0
    BY <1>2, <2>1 DEF GoesOn
  <2>2. CASE k # 0
    <3>1. k - 1 \in 0..N
      BY <1>1, <2>2
    <3> QED
      BY <1>3, <2>2, <3>1
  <2> QED
    BY <2>1, <2>2
<1>5. Is(g)
  <2>1. g = [k \in 0..N |-> g[k]]
    OBVIOUS
  <2> HIDE DEF g
  <2> QED
    BY <1>4, <2>1
<1> DEFINE read == CHOOSE x : Is(x)
<1>6. Is(read)
  <2>1. \E x : Is(x)
    BY <1>5
  <2> HIDE DEF Is
  <2> QED
    BY <2>1
<1>7. Number(bytes) = read[N]
  BY DEF Number
<1> HIDE DEF read
<1>8. read[0] = 0 /\ \A k \in 1..N : read[k] = read[k - 1] * Base + bytes[k]
  <2>1. \A k \in 0..N : read[k] = IF k = 0 THEN 0 ELSE read[k - 1] * Base + bytes[k]
    BY <1>6
  <2>2. 0 \in 0..N /\ \A k \in 1..N : k \in 0..N /\ k # 0
    BY <1>1
  <2> QED
    BY <2>1, <2>2
<1> DEFINE E == {k \in Nat : k <= N => read[k] \in Nat}
<1>9. Nat \subseteq E
  <2>1. 0 \in E
    BY <1>8
  <2>2. ASSUME NEW k \in Nat, k \in E PROVE k + 1 \in E
    <3> SUFFICES ASSUME k + 1 <= N PROVE read[k + 1] \in Nat
      OBVIOUS
    <3>1. k + 1 \in 1..N /\ (k + 1) - 1 = k /\ k <= N
      BY <1>1
    <3>3. read[k] \in Nat
      BY <2>2, <3>1
    <3>2. read[k + 1] = read[k] * Base + bytes[k + 1] /\ bytes[k + 1] \in Nat
      BY <1>1, <1>8, <3>1
    <3>4. read[k] * Base \in Nat
      BY <3>3, Positive
    <3> QED
      BY <3>2, <3>4
  <2> HIDE DEF E
  <2> QED
    BY <2>1, <2>2, AllNumbers
<1>10. read \in [0..N -> Nat]
  BY <1>1, <1>6, <1>9
<1> QED
  BY <1>7, <1>8, <1>10 DEF Reads

\* The bytes of a length, by division.
LEMMA Le64Def ==
  ASSUME NEW n \in Nat
  PROVE  le64(n) = [i \in 1..8 |-> (n \div Power[i - 1]) % (IF i = 8 THEN Base \div 2 ELSE Base)]
<1> DEFINE Is(f) == f = [i \in 1..8 |-> IF i = 1 THEN n ELSE f[i - 1] \div Base]
           g == [i \in 1..8 |-> n \div Power[i - 1]]
           n_tmp == CHOOSE f : Is(f)
<1>1. Power[0] = 1 /\ n \div 1 = n
  BY PowerDef
<1>2. ASSUME NEW i \in 1..8, i # 1 PROVE n \div Power[i - 1] = (n \div Power[(i - 1) - 1]) \div Base
  <2>1. (i - 1) - 1 \in Nat /\ ((i - 1) - 1) + 1 = i - 1
    BY <1>2
  <2>2. Power[i - 1] = Base * Power[(i - 1) - 1] /\ Power[(i - 1) - 1] \in Nat \ {0}
    BY <2>1, PowerDef
  <2> DEFINE p == Power[(i - 1) - 1]
  <2>3. Base * p = p * Base /\ Base \in Nat \ {0} /\ p \in Nat \ {0}
    BY <2>2, Positive
  <2>4. Power[i - 1] = p * Base
    BY <2>2, <2>3
  <2>5. (n \div p) \div Base = n \div (p * Base)
    <3> HIDE DEF p
    <3> QED
      BY <2>3, DivideTwice
  <2> QED
    BY <2>4, <2>5
<1>3. Is(g)
  <2>1. ASSUME NEW i \in 1..8 PROVE g[i] = IF i = 1 THEN n ELSE g[i - 1] \div Base
    <3>1. CASE i = 1
      BY <1>1, <3>1
    <3>2. CASE i # 1
      <4>1. i - 1 \in 1..8
        BY <3>2
      <4> QED
        BY <1>2, <3>2, <4>1
    <3> QED
      BY <3>1, <3>2
  <2>2. g = [i \in 1..8 |-> g[i]]
    OBVIOUS
  <2> HIDE DEF g
  <2> QED
    BY <2>1, <2>2
<1>4. Is(n_tmp)
  <2>1. \E f : Is(f)
    BY <1>3
  <2> HIDE DEF Is
  <2> QED
    BY <2>1
<1>5. le64(n) = [i \in 1..8 |-> n_tmp[i] % (IF i = 8 THEN Base \div 2 ELSE Base)]
  BY DEF le64
<1> HIDE DEF n_tmp
<1> DEFINE E == {k \in Nat : k < 8 => n_tmp[k + 1] = n \div Power[k]}
<1>6. 0 \in E
  BY <1>1, <1>4
<1>7. ASSUME NEW k \in Nat, k \in E PROVE k + 1 \in E
  <2> SUFFICES ASSUME k + 1 < 8 PROVE n_tmp[(k + 1) + 1] = n \div Power[k + 1]
    OBVIOUS
  <2>1. (k + 1) + 1 \in 1..8 /\ (k + 1) + 1 # 1 /\ ((k + 1) + 1) - 1 = k + 1 /\ (k + 1) - 1 = k
    OBVIOUS
  <2>2. n_tmp[(k + 1) + 1] = n_tmp[k + 1] \div Base
    BY <1>4, <2>1
  <2>3. n \div Power[k + 1] = (n \div Power[k]) \div Base
    BY <1>2, <2>1
  <2> QED
    BY <1>7, <2>2, <2>3
<1>8. \A i \in 1..8 : n_tmp[i] = n \div Power[i - 1]
  <2>1. Nat \subseteq E
    <3> HIDE DEF E
    <3> QED
      BY <1>6, <1>7, AllNumbers
  <2> TAKE i \in 1..8
  <2>2. i - 1 \in Nat /\ i - 1 < 8 /\ (i - 1) + 1 = i
    OBVIOUS
  <2> QED
    BY <2>1, <2>2
<1> QED
  BY <1>5, <1>8

\* le64 keeps a length but for its top bit, which it drops.
LEMMA LengthKept ==
  ASSUME NEW n \in Nat
  PROVE  /\ le64(n) \in Seq(Nat) /\ Len(le64(n)) = 8
         /\ Number(Reverse(le64(n))) = n % (Power[8] \div 2)
<1> DEFINE H == Base \div 2
           l == le64(n)
           r == Reverse(l)
<1>1. H \in Nat \ {0} /\ Base \in Nat \ {0} /\ Base = 2 * H
  BY Positive
<1> HIDE DEF H
<1>2. \A i \in 1..8 : n \div Power[i - 1] \in Nat
  <2> TAKE i \in 1..8
  <2>1. i - 1 \in Nat
    OBVIOUS
  <2>2. Power[i - 1] \in Nat \ {0}
    BY <2>1, PowerDef
  <2> QED
    BY <2>2, Division
<1>3. l = [i \in 1..8 |-> (n \div Power[i - 1]) % (IF i = 8 THEN H ELSE Base)]
  BY Le64Def DEF H
<1>4. \A i \in 1..8 : l[i] \in Nat
  <2> TAKE i \in 1..8
  <2> DEFINE q == n \div Power[i - 1]
  <2>1. q % H \in Nat /\ q % Base \in Nat
    <3>1. q \in Nat
      BY <1>2
    <3> HIDE DEF q
    <3> QED
      BY <1>1, <3>1, Division
  <2> QED
    BY <1>3, <2>1
<1>5. l \in Seq(Nat) /\ Len(l) = 8
  <2> HIDE DEF l
  <2>1. l \in [1..8 -> Nat]
    BY <1>3, <1>4
  <2> QED
    BY <2>1, Sequence
<1> HIDE DEF l
<1>6. r = [i \in 1..8 |-> l[(8 - i) + 1]] /\ r \in Seq(Nat) /\ Len(r) = 8
  <2>1. r = [i \in 1..8 |-> l[(8 - i) + 1]]
    BY <1>5 DEF Reverse
  <2>2. r \in [1..8 -> Nat]
    BY <1>4, <2>1
  <2> HIDE DEF r
  <2> QED
    BY <2>1, <2>2
<1> HIDE DEF r
<1>7. PICK read : Reads(read, r) /\ Number(r) = read[8]
  BY <1>6, NumberDef
<1> DEFINE E == {k \in Nat : 1 <= k + 1 /\ k + 1 <= 8 =>
                   read[k + 1] = (n \div Power[7 - k]) % (H * Power[k])}
<1>8. 0 \in E
  <2>1. 1 \in 1..8 /\ read[1] = read[0] * Base + r[1] /\ read[0] = 0
    BY <1>6, <1>7 DEF Reads
  <2>2. r[1] = (n \div Power[7]) % H
    BY <1>3, <1>6
  <2>3. (n \div Power[7]) % H \in Nat
    BY <1>3, <1>4
  <2>4. H * Power[0] = H
    BY <1>1, PowerDef
  <2> QED
    BY <1>1, <2>1, <2>2, <2>3, <2>4
<1>9. ASSUME NEW k \in Nat, k \in E PROVE k + 1 \in E
  <2> SUFFICES ASSUME (k + 1) + 1 <= 8
               PROVE  read[(k + 1) + 1] = (n \div Power[7 - (k + 1)]) % (H * Power[k + 1])
    OBVIOUS
  <2> DEFINE q == n \div Power[7 - (k + 1)]
             m == H * Power[k]
  <2>1. 7 - (k + 1) \in Nat /\ (7 - (k + 1)) + 1 = 7 - k /\ 7 - k \in Nat
    OBVIOUS
  <2>2. Power[7 - k] = Base * Power[7 - (k + 1)] /\ Power[7 - (k + 1)] \in Nat \ {0}
    BY <2>1, PowerDef
  <2>3. Power[k + 1] = Base * Power[k] /\ Power[k] \in Nat \ {0}
    BY PowerDef
  <2>4. q \in Nat /\ m \in Nat \ {0}
    <3>1. m \in Nat \ {0}
      BY <1>1, <2>3
    <3>2. q \in Nat
      BY <2>2, Division
    <3> QED
      BY <3>1, <3>2
  <2>5. n \div Power[7 - k] = q \div Base
    <3> DEFINE p == Power[7 - (k + 1)]
    <3>1. p \in Nat \ {0} /\ Power[7 - k] = p * Base
      BY <1>1, <2>2
    <3>2. (n \div p) \div Base = n \div (p * Base)
      <4> HIDE DEF p
      <4> QED
        BY <1>1, <3>1, DivideTwice
    <3> QED
      BY <3>1, <3>2
  <2>6. H * Power[k + 1] = Base * m
    BY <1>1, <2>3
  <2>7. read[k + 1] = (q \div Base) % m
    BY <1>9, <2>5
  <2>8. read[(k + 1) + 1] = read[k + 1] * Base + r[(k + 1) + 1]
    <3>1. (k + 1) + 1 \in 1..8 /\ ((k + 1) + 1) - 1 = k + 1
      OBVIOUS
    <3> QED
      BY <1>6, <1>7, <3>1 DEF Reads
  <2>9. r[(k + 1) + 1] = q % Base
    <3>1. /\ (k + 1) + 1 \in 1..8 /\ (8 - ((k + 1) + 1)) + 1 = 7 - k
          /\ 7 - k \in 1..8 /\ 7 - k # 8 /\ (7 - k) - 1 = 7 - (k + 1)
      OBVIOUS
    <3> QED
      BY <1>3, <1>6, <3>1
  <2> HIDE DEF q, m
  <2>10. Base * ((q \div Base) % m) + (q % Base) = q % (Base * m)
    BY <1>1, <2>4, DivideTwice
  <2>11. (q \div Base) % m \in Nat /\ q % Base \in Nat
    <3>1. q \div Base \in Nat
      BY <1>1, <2>4, Division
    <3> QED
      BY <1>1, <2>4, <3>1, Division
  <2>12. read[(k + 1) + 1] = q % (Base * m)
    BY <1>1, <2>7, <2>8, <2>9, <2>10, <2>11
  <2> QED
    BY <2>6, <2>12 DEF q
<1>10. 7 \in E
  <2> HIDE DEF E
  <2> QED
    BY <1>8, <1>9, AllNumbers
<1>11. read[8] = (n \div Power[0]) % (H * Power[7])
  BY <1>10
<1>12. Power[0] = 1 /\ n \div 1 = n /\ Power[8] = Base * Power[7] /\ Power[7] \in Nat
  BY PowerDef
<1>13. Power[8] \div 2 = H * Power[7]
  <2>1. Power[8] = 2 * (H * Power[7]) /\ H * Power[7] \in Nat
    BY <1>1, <1>12
  <2> QED
    BY <2>1
<1>14. Number(r) = n % (Power[8] \div 2)
  BY <1>7, <1>11, <1>12, <1>13
<1> QED
  BY <1>5, <1>14 DEF l, r

\* Two lengths below 2^63 are not encoded alike.
LEMMA LengthsApart ==
  ASSUME NEW a \in 0..(Power[8] \div 2 - 1), NEW b \in 0..(Power[8] \div 2 - 1), le64(a) = le64(b)
  PROVE  a = b
<1> DEFINE h == Power[8] \div 2
<1>1. h \in Nat /\ a \in Nat /\ b \in Nat /\ a < h /\ b < h
  BY PowerDef
<1>2. a % h = b % h
  <2>1. a % h = Number(Reverse(le64(a))) /\ b % h = Number(Reverse(le64(b)))
    BY <1>1, LengthKept
  <2> QED
    BY <2>1
<1> HIDE DEF h
<1>3. a % h = a /\ b % h = b
  BY <1>1
<1> QED
  BY <1>2, <1>3

\* Sequences joined one after the other.
Joins(f, s, T) ==
  /\ f \in [0..Len(s) -> Seq(T)] /\ f[0] = <<>>
  /\ \A i \in 1..Len(s) : f[i] = f[i - 1] \o s[i]

\* FlattenSeq joins its sequences so.
LEMMA FlattenDef ==
  ASSUME NEW T, NEW s \in Seq(Seq(T))
  PROVE  \E f : Joins(f, s, T) /\ FlattenSeq(s) = f[Len(s)]
<1> DEFINE N == Len(s)
           V == Seq(T)
           Is(f) == f = [i \in 1..Len(s) |-> IF i = 1 THEN s[i] ELSE f[i - 1] \o s[i]]
           step == [n \in Nat |-> [v \in V |-> IF n + 1 <= N THEN v \o s[n + 1] ELSE v]]
<1>1. N \in Nat /\ \A k \in 1..N : s[k] \in V
  BY LenProperties, ElementOfSeq
<1>2. <<>> \in V /\ \A u, v \in V : u \o v \in V
  BY EmptySeq, ConcatProperties
<1>3. PICK f : GoesOn(f, V, <<>>, step)
  <2>1. ASSUME NEW n \in Nat, NEW v \in V
        PROVE  (IF n + 1 <= N THEN v \o s[n + 1] ELSE v) \in V
    <3> HIDE DEF V, N
    <3>1. CASE n + 1 <= N
      <4>1. n + 1 \in 1..N
        BY <1>1, <3>1
      <4> QED
        BY <1>1, <1>2, <3>1, <4>1
    <3> QED
      BY <3>1
  <2>2. step \in [Nat -> [V -> V]]
    <3> HIDE DEF V, N
    <3> QED
      BY <2>1
  <2> HIDE DEF step, V
  <2> QED
    BY <1>2, <2>2, Recursion
<1> HIDE DEF V
<1>4. \A i \in 1..N : f[i] = f[i - 1] \o s[i]
  <2> TAKE i \in 1..N
  <2>1. i - 1 \in Nat /\ (i - 1) + 1 = i /\ i <= N
    BY <1>1
  <2>2. f[i] = step[i - 1][f[i - 1]] /\ f[i - 1] \in V
    BY <1>3, <2>1 DEF GoesOn
  <2> QED
    BY <2>1, <2>2
<1> DEFINE F == [i \in 0..N |-> f[i]]
<1>5. F \in [0..N -> V] /\ F[0] = <<>> /\ \A i \in 1..N : F[i] = F[i - 1] \o s[i]
  <2>1. F \in [0..N -> V] /\ F[0] = <<>>
    BY <1>1, <1>3 DEF GoesOn
  <2>2. \A i \in 1..N : i \in 0..N /\ i - 1 \in 0..N
    BY <1>1
  <2> QED
    BY <1>4, <2>1, <2>2
<1>6. Joins(F, s, T)
  BY <1>5 DEF Joins, V
<1> HIDE DEF F
<1>7. CASE N = 0
  <2>1. s = <<>> /\ FlattenSeq(s) = s
    BY <1>7, EmptySeq DEF FlattenSeq
  <2> QED
    BY <1>5, <1>6, <1>7, <2>1
<1>8. CASE N # 0
  <2> DEFINE g == [i \in 1..N |-> F[i]]
             flatten == CHOOSE x : Is(x)
  <2>1. \A i \in 1..N : F[i] = IF i = 1 THEN s[i] ELSE F[i - 1] \o s[i]
    <3> TAKE i \in 1..N
    <3>1. CASE i = 1
      <4>1. i - 1 = 0
        BY <3>1
      <4>2. F[i] = F[i - 1] \o s[i]
        BY <1>5
      <4>3. F[i] = <<>> \o s[i]
        BY <1>5, <4>1, <4>2
      <4>4. s[i] \in Seq(T)
        BY <1>1 DEF V
      <4> QED
        BY <3>1, <4>3, <4>4, ConcatEmptySeq
    <3> QED
      BY <1>5, <3>1
  <2>2. Is(g)
    <3>1. ASSUME NEW i \in 1..N PROVE g[i] = IF i = 1 THEN s[i] ELSE g[i - 1] \o s[i]
      <4>1. CASE i # 1
        <5>1. i - 1 \in 1..N
          BY <1>1, <4>1
        <5> QED
          BY <2>1, <4>1, <5>1
      <4> QED
        BY <2>1, <4>1
    <3>2. g = [i \in 1..N |-> g[i]]
      OBVIOUS
    <3> HIDE DEF g
    <3> QED
      BY <3>1, <3>2
  <2>3. Is(flatten)
    <3>1. \E x : Is(x)
      BY <2>2
    <3> HIDE DEF Is
    <3> QED
      BY <3>1
  <2>4. FlattenSeq(s) = flatten[N]
    BY <1>8 DEF FlattenSeq
  <2> HIDE DEF flatten
  <2> DEFINE E == {k \in Nat : k + 1 <= N => flatten[k + 1] = F[k + 1]}
  <2>5. 0 \in E
    BY <1>1, <2>1, <2>3
  <2>6. ASSUME NEW k \in Nat, k \in E PROVE k + 1 \in E
    <3> SUFFICES ASSUME (k + 1) + 1 <= N PROVE flatten[(k + 1) + 1] = F[(k + 1) + 1]
      OBVIOUS
    <3>1. (k + 1) + 1 \in 1..N /\ (k + 1) + 1 # 1 /\ ((k + 1) + 1) - 1 = k + 1 /\ k + 1 <= N
      BY <1>1
    <3>2. flatten[k + 1] = F[k + 1]
      BY <2>6, <3>1
    <3>3. flatten[(k + 1) + 1] = flatten[k + 1] \o s[(k + 1) + 1]
      BY <2>3, <3>1
    <3>4. F[(k + 1) + 1] = F[k + 1] \o s[(k + 1) + 1]
      BY <1>5, <3>1
    <3> QED
      BY <3>2, <3>3, <3>4
  <2>7. N - 1 \in E
    <3>1. N - 1 \in Nat
      BY <1>1, <1>8
    <3> HIDE DEF E
    <3> QED
      BY <2>5, <2>6, <3>1, AllNumbers
  <2>8. (N - 1) + 1 = N /\ (N - 1) + 1 <= N
    BY <1>1
  <2> QED
    BY <1>6, <2>4, <2>7, <2>8
<1> QED
  BY <1>7, <1>8

\* A place in the first of two sequences.
LEMMA PlaceInFirst ==
  ASSUME NEW a \in Nat, NEW b \in Nat, NEW x \in 1..a
  PROVE  x \in 1..(a + b) /\ x <= a
OBVIOUS

\* A place in the second of two sequences.
LEMMA PlaceInSecond ==
  ASSUME NEW a \in Nat, NEW b \in Nat, NEW m \in 1..b
  PROVE  a + m \in 1..(a + b) /\ ~(a + m <= a) /\ (a + m) - a = m
OBVIOUS

\* u stands in w after the first n places.
StandsAt(w, n, u) == \A m \in 1..Len(u) : w[n + m] = u[m]

\* Each piece stands where the ones before it end.
LEMMA PieceStands ==
  ASSUME NEW s \in Seq(Seq(Nat)), NEW f, Joins(f, s, Nat), NEW i \in 1..Len(s)
  PROVE  StandsAt(f[Len(s)], Len(f[i - 1]), s[i])
<1> SUFFICES ASSUME NEW m \in 1..Len(s[i]) PROVE f[Len(s)][Len(f[i - 1]) + m] = s[i][m]
  BY DEF StandsAt
<1> DEFINE N == Len(s)
           x == Len(f[i - 1]) + m
           E == {k \in Nat : i + k <= N => x \in 1..Len(f[i + k]) /\ f[i + k][x] = s[i][m]}
<1>1. /\ N \in Nat /\ i \in Nat /\ i >= 1 /\ i <= N
      /\ f \in [0..N -> Seq(Nat)] /\ \A j \in 1..N : s[j] \in Seq(Nat) /\ f[j] = f[j - 1] \o s[j]
  <2>1. N \in Nat
    BY LenProperties
  <2>2. i \in Nat /\ i >= 1 /\ i <= N
    BY <2>1
  <2>3. \A j \in 1..N : s[j] \in Seq(Nat)
    BY ElementOfSeq
  <2>4. f \in [0..N -> Seq(Nat)] /\ \A j \in 1..N : f[j] = f[j - 1] \o s[j]
    BY DEF Joins
  <2> QED
    BY <2>1, <2>2, <2>3, <2>4
<1> HIDE DEF N
<1>2. f[i - 1] \in Seq(Nat) /\ s[i] \in Seq(Nat) /\ f[i] = f[i - 1] \o s[i]
  <2>1. i - 1 \in 0..N /\ i \in 1..N
    BY <1>1
  <2> QED
    BY <1>1, <2>1
<1>3. Len(f[i - 1]) \in Nat /\ Len(s[i]) \in Nat
  BY <1>2, LenProperties
<1>4. 0 \in E
  <2>1. x - Len(f[i - 1]) = m /\ ~(x <= Len(f[i - 1])) /\ x \in 1..(Len(f[i - 1]) + Len(s[i]))
    BY <1>3, PlaceInSecond
  <2>2. Len(f[i]) = Len(f[i - 1]) + Len(s[i]) /\ f[i][x] = s[i][x - Len(f[i - 1])]
    <3> HIDE DEF x
    <3> QED
      BY <1>2, <2>1, ConcatProperties
  <2>3. i + 0 = i
    BY <1>1
  <2> QED
    BY <2>1, <2>2, <2>3
<1> HIDE DEF x
<1>5. ASSUME NEW k \in Nat, k \in E PROVE k + 1 \in E
  <2> SUFFICES ASSUME i + (k + 1) <= N
               PROVE  x \in 1..Len(f[i + (k + 1)]) /\ f[i + (k + 1)][x] = s[i][m]
    OBVIOUS
  <2> DEFINE j == i + (k + 1)
  <2>1. j \in 1..N /\ j - 1 = i + k /\ j - 1 \in 0..N /\ i + k <= N
    BY <1>1
  <2>2. x \in 1..Len(f[j - 1]) /\ f[j - 1][x] = s[i][m]
    BY <1>5, <2>1
  <2>3. f[j] = f[j - 1] \o s[j] /\ f[j - 1] \in Seq(Nat) /\ s[j] \in Seq(Nat)
    BY <1>1, <2>1
  <2> HIDE DEF j
  <2>4. Len(f[j - 1]) \in Nat /\ Len(s[j]) \in Nat
    BY <2>3, LenProperties
  <2>5. x \in 1..(Len(f[j - 1]) + Len(s[j])) /\ x <= Len(f[j - 1])
    BY <2>2, <2>4, PlaceInFirst
  <2>6. Len(f[j]) = Len(f[j - 1]) + Len(s[j]) /\ f[j][x] = f[j - 1][x]
    BY <2>3, <2>5, ConcatProperties
  <2> QED
    BY <2>2, <2>5, <2>6 DEF j
<1>6. N - i \in E /\ i + (N - i) = N
  <2>1. N - i \in Nat /\ i + (N - i) = N
    BY <1>1
  <2> HIDE DEF E
  <2> QED
    BY <1>4, <1>5, <2>1, AllNumbers
<1> QED
  BY <1>1, <1>6 DEF N, x

\* What has a beginning of known length has one beginning and one rest.
LEMMA SameSplit ==
  ASSUME NEW T, NEW s \in Seq(T), NEW t \in Seq(T), NEW u \in Seq(T), NEW v \in Seq(T),
         Len(s) = Len(u), s \o t = u \o v
  PROVE  s = u /\ t = v
<1>1. Len(s) \in Nat /\ Len(t) \in Nat /\ Len(v) \in Nat
  BY LenProperties
<1>2. /\ \A i \in 1..(Len(s) + Len(t)) :
           (s \o t)[i] = IF i <= Len(s) THEN s[i] ELSE t[i - Len(s)]
      /\ \A i \in 1..(Len(u) + Len(v)) :
           (u \o v)[i] = IF i <= Len(u) THEN u[i] ELSE v[i - Len(u)]
  BY ConcatProperties
<1>3. \A i \in 1..Len(s) : s[i] = u[i]
  <2> TAKE i \in 1..Len(s)
  <2>1. i \in 1..(Len(s) + Len(t)) /\ i \in 1..(Len(u) + Len(v)) /\ i <= Len(s)
    BY <1>1
  <2> QED
    BY <1>2, <2>1
<1>4. s = u
  BY <1>3, SeqEqual
<1> QED
  BY <1>4, ConcatSimplifications

\* A piece behind its length.
LEMMA Headed ==
  ASSUME NEW h \in Seq(Nat), Len(h) = 8, NEW t \in Seq(Nat)
  PROVE  Len(h \o t) = 8 + Len(t) /\ \A m \in 1..8 : (h \o t)[m] = h[m]
<1>1. Len(t) \in Nat /\ Len(h \o t) = Len(h) + Len(t)
  BY LenProperties, ConcatProperties
<1>2. ASSUME NEW m \in 1..8 PROVE (h \o t)[m] = h[m]
  <2>1. m \in 1..(Len(h) + Len(t)) /\ m <= Len(h)
    BY <1>1, PlaceInFirst
  <2> QED
    BY <2>1, ConcatProperties
<1> QED
  BY <1>1, <1>2

\* At one place there is one piece, where the heads tell the lengths.
LEMMA SamePiece ==
  ASSUME NEW h \in Seq(Nat), NEW k \in Seq(Nat), Len(h) = 8, Len(k) = 8,
         NEW s \in Seq(Nat), NEW t \in Seq(Nat), (h = k) => Len(s) = Len(t),
         NEW w, NEW n, StandsAt(w, n, h \o s), StandsAt(w, n, k \o t)
  PROVE  s = t
<1> DEFINE u == h \o s
           v == k \o t
<1>1. Len(s) \in Nat /\ Len(t) \in Nat
  BY LenProperties
<1>2. /\ Len(u) = 8 + Len(s) /\ \A m \in 1..8 : u[m] = h[m]
      /\ Len(v) = 8 + Len(t) /\ \A m \in 1..8 : v[m] = k[m]
  BY Headed
<1>3. ASSUME NEW m \in 1..8 PROVE h[m] = k[m]
  <2>1. m \in 1..(8 + Len(s)) /\ m \in 1..(8 + Len(t))
    BY <1>1
  <2> QED
    BY <1>2, <2>1 DEF StandsAt
<1>4. h = k /\ Len(s) = Len(t)
  <2>1. h = k
    BY <1>3, SeqEqual
  <2> QED
    BY <2>1
<1>5. u \in Seq(Nat) /\ v \in Seq(Nat)
  BY ConcatProperties
<1>6. ASSUME NEW m \in 1..Len(u) PROVE u[m] = v[m]
  <2>1. m \in 1..Len(v)
    BY <1>2, <1>4, <1>6
  <2> QED
    BY <1>6, <2>1 DEF StandsAt
<1>7. u = v
  <2> HIDE DEF u, v
  <2> QED
    BY <1>2, <1>4, <1>5, <1>6, SeqEqual
<1>8. h \o s = h \o t
  BY <1>4, <1>7
<1> QED
  BY <1>8, ConcatSimplifications

\* Pieces whose lengths 8 bytes can say.
Sized == {piece \in Seq(Nat) : Len(piece) < Power[8] \div 2}

Framed(pieces) == [i \in DOMAIN pieces |-> le64(Len(pieces[i])) \o pieces[i]]

\* Each piece of a framed sequence is behind its length.
LEMMA FramedPieces ==
  ASSUME NEW pieces \in Seq(Sized)
  PROVE  /\ Framed(pieces) \in Seq(Seq(Nat)) /\ Len(Framed(pieces)) = Len(pieces)
         /\ \A i \in 1..Len(pieces) :
              /\ pieces[i] \in Seq(Nat) /\ Len(pieces[i]) \in 0..(Power[8] \div 2 - 1)
              /\ Framed(pieces)[i] = le64(Len(pieces[i])) \o pieces[i]
              /\ le64(Len(pieces[i])) \in Seq(Nat) /\ Len(le64(Len(pieces[i]))) = 8
<1>1. Len(pieces) \in Nat /\ DOMAIN pieces = 1..Len(pieces)
  BY LenProperties
<1>2. ASSUME NEW i \in 1..Len(pieces)
      PROVE  /\ pieces[i] \in Seq(Nat) /\ Len(pieces[i]) \in 0..(Power[8] \div 2 - 1)
             /\ le64(Len(pieces[i])) \in Seq(Nat) /\ Len(le64(Len(pieces[i]))) = 8
             /\ le64(Len(pieces[i])) \o pieces[i] \in Seq(Nat)
  <2>1. pieces[i] \in Sized
    BY ElementOfSeq
  <2>2. pieces[i] \in Seq(Nat) /\ Len(pieces[i]) < Power[8] \div 2
    BY <2>1 DEF Sized
  <2>3. Len(pieces[i]) \in Nat
    BY <2>2, LenProperties
  <2>4. Power[8] \div 2 \in Nat
    BY Half
  <2>5. le64(Len(pieces[i])) \in Seq(Nat) /\ Len(le64(Len(pieces[i]))) = 8
    BY <2>3, LengthKept
  <2>6. le64(Len(pieces[i])) \o pieces[i] \in Seq(Nat)
    BY <2>2, <2>5, ConcatProperties
  <2>7. Len(pieces[i]) \in 0..(Power[8] \div 2 - 1)
    BY <2>2, <2>3, <2>4
  <2> QED
    BY <2>2, <2>5, <2>6, <2>7
<1>3. Framed(pieces) \in [1..Len(pieces) -> Seq(Nat)]
  BY <1>1, <1>2 DEF Framed
<1>4. Framed(pieces) \in Seq(Seq(Nat)) /\ Len(Framed(pieces)) = Len(pieces)
  BY <1>1, <1>3, Sequence
<1>5. \A i \in 1..Len(pieces) : Framed(pieces)[i] = le64(Len(pieces[i])) \o pieces[i]
  BY <1>1 DEF Framed
<1> QED
  BY <1>2, <1>4, <1>5

\* Pre-authentication encoding (pae) is unambiguous: pieces of any number and
\* length that have the same encoding are the same pieces.
THEOREM PaeUnambiguous ==
  ASSUME NEW ps \in Seq(Sized), NEW qs \in Seq(Sized),
         Len(ps) < Power[8] \div 2, Len(qs) < Power[8] \div 2, pae(ps) = pae(qs)
  PROVE  ps = qs
<1> DEFINE P == Framed(ps)
           Q == Framed(qs)
           N == Len(ps)
<1>1. /\ P \in Seq(Seq(Nat)) /\ Len(P) = N /\ N \in Nat
      /\ Q \in Seq(Seq(Nat)) /\ Len(Q) = Len(qs) /\ Len(qs) \in Nat
  BY FramedPieces, LenProperties
<1>2. PICK f : Joins(f, P, Nat) /\ FlattenSeq(P) = f[N]
  BY <1>1, FlattenDef
<1>3. PICK g : Joins(g, Q, Nat) /\ FlattenSeq(Q) = g[Len(qs)]
  BY <1>1, FlattenDef
<1>4. f \in [0..N -> Seq(Nat)] /\ f[0] = <<>> /\ \A i \in 1..N : f[i] = f[i - 1] \o P[i]
  BY <1>1, <1>2 DEF Joins
<1>5. /\ g \in [0..Len(qs) -> Seq(Nat)] /\ g[0] = <<>>
      /\ \A i \in 1..Len(qs) : g[i] = g[i - 1] \o Q[i]
  BY <1>1, <1>3 DEF Joins
<1>6. pae(ps) = le64(N) \o f[N] /\ pae(qs) = le64(Len(qs)) \o g[Len(qs)]
  BY <1>2, <1>3 DEF pae, Framed
<1>7. le64(N) = le64(Len(qs)) /\ f[N] = g[Len(qs)]
  <2>1. /\ le64(N) \in Seq(Nat) /\ Len(le64(N)) = 8
        /\ le64(Len(qs)) \in Seq(Nat) /\ Len(le64(Len(qs))) = 8
    BY <1>1, LengthKept
  <2>2. f[N] \in Seq(Nat) /\ g[Len(qs)] \in Seq(Nat)
    <3>1. N \in 0..N /\ Len(qs) \in 0..Len(qs)
      BY <1>1
    <3> QED
      BY <1>4, <1>5, <3>1
  <2> QED
    BY <1>6, <2>1, <2>2, SameSplit
<1>8. Len(qs) = N
  <2>1. Power[8] \div 2 \in Nat
    BY Half
  <2>2. N \in 0..(Power[8] \div 2 - 1) /\ Len(qs) \in 0..(Power[8] \div 2 - 1)
    BY <1>1, <2>1
  <2> QED
    BY <1>7, <2>2, LengthsApart
<1> HIDE DEF P, Q, N
<1> DEFINE E == {k \in Nat : k <= N => f[k] = g[k] /\ \A j \in 1..k : ps[j] = qs[j]}
<1>9. 0 \in E
  BY <1>4, <1>5
<1>10. ASSUME NEW k \in Nat, k \in E, k + 1 <= N
       PROVE  f[k + 1] = g[k + 1] /\ ps[k + 1] = qs[k + 1]
  <2>1. k + 1 \in 1..N /\ (k + 1) - 1 = k /\ k <= N
    BY <1>1, <1>10
  <2>2. f[k] = g[k]
    BY <1>10, <2>1
  <2>3. PICK i \in 1..N : i = k + 1
    BY <2>1
  <2>4. i - 1 = k /\ i \in 1..Len(P) /\ i \in 1..Len(Q) /\ i \in 1..Len(ps) /\ i \in 1..Len(qs)
    BY <1>1, <1>8, <2>1, <2>3 DEF N
  <2>5. /\ ps[i] \in Seq(Nat) /\ Len(ps[i]) \in 0..(Power[8] \div 2 - 1)
        /\ P[i] = le64(Len(ps[i])) \o ps[i]
    BY <2>4, FramedPieces DEF P
  <2>6. /\ qs[i] \in Seq(Nat) /\ Len(qs[i]) \in 0..(Power[8] \div 2 - 1)
        /\ Q[i] = le64(Len(qs[i])) \o qs[i]
    BY <2>4, FramedPieces DEF Q
  <2>7. f[i - 1] \in Seq(Nat)
    BY <1>1, <1>4, <2>1, <2>4
  <2>8. StandsAt(f[N], Len(f[i - 1]), P[i])
    <3>1. P \in Seq(Seq(Nat)) /\ Joins(f, P, Nat) /\ i \in 1..Len(P)
      BY <1>1, <1>2, <2>4
    <3>2. StandsAt(f[Len(P)], Len(f[i - 1]), P[i])
      BY <3>1, PieceStands
    <3> QED
      BY <1>1, <3>2
  <2>9. StandsAt(f[N], Len(f[i - 1]), Q[i])
    <3>1. Q \in Seq(Seq(Nat)) /\ Joins(g, Q, Nat) /\ i \in 1..Len(Q)
      BY <1>1, <1>3, <2>4
    <3>2. StandsAt(g[Len(Q)], Len(g[i - 1]), Q[i])
      BY <3>1, PieceStands
    <3>3. g[Len(Q)] = f[N] /\ g[i - 1] = f[i - 1]
      BY <1>1, <1>7, <2>2, <2>4
    <3> QED
      BY <3>2, <3>3
  <2>10. ps[i] = qs[i]
    <3> DEFINE h == le64(Len(ps[i]))
               k0 == le64(Len(qs[i]))
    <3>1. h \in Seq(Nat) /\ Len(h) = 8 /\ k0 \in Seq(Nat) /\ Len(k0) = 8
      BY <2>4, FramedPieces
    <3>2. (h = k0) => Len(ps[i]) = Len(qs[i])
      BY <2>5, <2>6, LengthsApart
    <3>3. P[i] = h \o ps[i] /\ Q[i] = k0 \o qs[i]
      BY <2>5, <2>6
    <3> HIDE DEF h, k0
    <3>4. ps[i] \in Seq(Nat) /\ qs[i] \in Seq(Nat)
      BY <2>5, <2>6
    <3> DEFINE w == f[N]
               n == Len(f[i - 1])
               s == ps[i]
               t == qs[i]
    <3>5. StandsAt(w, n, P[i]) /\ StandsAt(w, n, Q[i])
      BY <2>8, <2>9
    <3>6. /\ s \in Seq(Nat) /\ t \in Seq(Nat) /\ ((h = k0) => Len(s) = Len(t))
          /\ StandsAt(w, n, h \o s) /\ StandsAt(w, n, k0 \o t)
      BY <3>2, <3>3, <3>4, <3>5
    <3> HIDE DEF w, n, s, t
    <3>7. s = t
      BY <3>1, <3>6, SamePiece
    <3> QED
      BY <3>7 DEF s, t
  <2>11. f[i] = f[i - 1] \o P[i] /\ g[i] = g[i - 1] \o Q[i]
    BY <1>4, <1>5, <1>8, <2>4
  <2>12. f[i] = g[i]
    <3>1. P[i] = Q[i]
      BY <2>5, <2>6, <2>10
    <3> QED
      BY <2>2, <2>4, <2>11, <3>1
  <2> QED
    BY <2>3, <2>10, <2>12
<1>11. ASSUME NEW k \in Nat, k \in E PROVE k + 1 \in E
  <2> SUFFICES ASSUME k + 1 <= N
               PROVE  f[k + 1] = g[k + 1] /\ \A j \in 1..(k + 1) : ps[j] = qs[j]
    OBVIOUS
  <2>1. f[k + 1] = g[k + 1] /\ ps[k + 1] = qs[k + 1]
    BY <1>10, <1>11
  <2>2. \A j \in 1..k : ps[j] = qs[j]
    BY <1>1, <1>11
  <2>3. \A j \in 1..(k + 1) : j \in 1..k \/ j = k + 1
    OBVIOUS
  <2> QED
    BY <2>1, <2>2, <2>3
<1>12. N \in E
  <2> HIDE DEF E
  <2> QED
    BY <1>1, <1>9, <1>11, AllNumbers
<1>13. \A j \in 1..N : ps[j] = qs[j]
  BY <1>1, <1>12
<1> QED
  BY <1>8, <1>13, SeqEqual DEF N

-----------------------------------------------------------------------------
(* Parts of strings of bytes *)

\* The middle one of three sequences that are joined.
LEMMA Middle ==
  ASSUME NEW T, NEW a \in Seq(T), NEW b \in Seq(T), NEW c \in Seq(T)
  PROVE  /\ Len(a \o b \o c) = Len(a) + Len(b) + Len(c)
         /\ SubSeq(a \o b \o c, Len(a) + 1, Len(a) + Len(b)) = b
<1> DEFINE ab == a \o b
           s == ab \o c
           m == Len(a) + 1
           n == Len(a) + Len(b)
           t == SubSeq(s, m, n)
<1>1. Len(a) \in Nat /\ Len(b) \in Nat /\ Len(c) \in Nat
  BY LenProperties
<1>2. /\ ab \in Seq(T) /\ Len(ab) = n
      /\ \A i \in 1..n : ab[i] = IF i <= Len(a) THEN a[i] ELSE b[i - Len(a)]
  BY ConcatProperties
<1> HIDE DEF ab
<1>3. /\ s \in Seq(T) /\ Len(s) = n + Len(c)
      /\ \A i \in 1..(n + Len(c)) : s[i] = IF i <= n THEN ab[i] ELSE c[i - n]
  <2>1. /\ ab \o c \in Seq(T) /\ Len(ab \o c) = Len(ab) + Len(c)
        /\ \A i \in 1..(Len(ab) + Len(c)) : (ab \o c)[i] = IF i <= Len(ab) THEN ab[i] ELSE c[i - Len(ab)]
    <3>1. ab \in Seq(T)
      BY <1>2
    <3> QED
      BY <3>1, ConcatProperties
  <2>2. Len(ab) = n
    BY <1>2
  <2> HIDE DEF n
  <2> QED
    BY <2>1, <2>2
<1> HIDE DEF s
<1>4. ASSUME NEW i \in 1..Len(b) PROVE s[Len(a) + i] = b[i]
  <2>1. /\ Len(a) + i \in 1..n /\ Len(a) + i \in 1..(n + Len(c))
        /\ Len(a) + i <= n /\ ~(Len(a) + i <= Len(a)) /\ (Len(a) + i) - Len(a) = i
    BY <1>1
  <2> QED
    BY <1>2, <1>3, <2>1
<1>5. \A i \in m..n : s[i] \in T
  <2>1. \A i \in 1..Len(s) : s[i] \in T
    BY <1>3, ElementOfSeq
  <2> QED
    BY <1>1, <1>3, <2>1
<1>6. /\ t \in Seq(T) /\ Len(t) = IF m <= n THEN n - m + 1 ELSE 0
      /\ \A i \in 1..(n - m + 1) : t[i] = s[m + i - 1]
  <2>1. m \in Int /\ n \in Int
    BY <1>1
  <2> HIDE DEF m, n
  <2> QED
    BY <1>5, <2>1, SubSeqProperties
<1> HIDE DEF t
<1>7. Len(t) = Len(b) /\ n - m + 1 = Len(b)
  BY <1>1, <1>6
<1>8. ASSUME NEW i \in 1..Len(b) PROVE t[i] = b[i]
  <2>1. m + i - 1 = Len(a) + i
    BY <1>1
  <2> QED
    BY <1>4, <1>6, <1>7, <2>1
<1>9. t = b
  BY <1>6, <1>7, <1>8, SeqEqual
<1> QED
  BY <1>1, <1>3, <1>9 DEF t, s, ab

\* The first and the second of two sequences that are joined.
LEMMA Parts ==
  ASSUME NEW T, NEW a \in Seq(T), NEW b \in Seq(T)
  PROVE  /\ a \o b \in Seq(T) /\ Len(a \o b) = Len(a) + Len(b)
         /\ SubSeq(a \o b, 1, Len(a)) = a
         /\ SubSeq(a \o b, Len(a) + 1, Len(a) + Len(b)) = b
<1>1. <<>> \in Seq(T) /\ Len(<<>>) = 0 /\ Len(a) \in Nat /\ Len(b) \in Nat
  BY EmptySeq, LenProperties
<1>2. a \o b \in Seq(T) /\ Len(a \o b) = Len(a) + Len(b)
  BY ConcatProperties
<1>3. <<>> \o a = a /\ (a \o b) \o <<>> = a \o b
  BY <1>2, ConcatEmptySeq
<1>4. SubSeq(<<>> \o a \o b, Len(<<>>) + 1, Len(<<>>) + Len(a)) = a
  BY <1>1, Middle
<1>5. SubSeq(a \o b \o <<>>, Len(a) + 1, Len(a) + Len(b)) = b
  BY <1>1, Middle
<1>6. Len(<<>>) + 1 = 1 /\ Len(<<>>) + Len(a) = Len(a)
  BY <1>1
<1> QED
  BY <1>2, <1>3, <1>4, <1>5, <1>6

\* A token comes apart into what it was put together from, whatever the
\* message, the signature and the footer.
THEOREM TokenSplit ==
  ASSUME NEW T, NEW m \in Seq(T), NEW sig \in Seq(T), NEW f \in Seq(T)
  PROVE  taken_apart(assembled(m, sig, f), Len(sig)) = <<m, sig, f>>
<1> DEFINE body == m \o sig
           token == assembled(m, sig, f)
<1>1. Len(m) \in Nat /\ Len(sig) \in Nat
  BY LenProperties
<1>2. /\ Len(body) = Len(m) + Len(sig)
      /\ SubSeq(body, 1, Len(m)) = m /\ SubSeq(body, Len(m) + 1, Len(m) + Len(sig)) = sig
  BY Parts
<1> HIDE DEF body
<1>3. token[1] = body /\ (IF Len(token) = 2 THEN token[2] ELSE <<>>) = f
  BY DEF assembled, body
<1> HIDE DEF token
<1>4. Len(body) - Len(sig) = Len(m)
  BY <1>1, <1>2
<1>5. taken_apart(token, Len(sig)) = <<SubSeq(body, 1, Len(m)), SubSeq(body, Len(m) + 1, Len(body)), f>>
  BY <1>3, <1>4 DEF taken_apart
<1> QED
  BY <1>2, <1>5 DEF token

\* Strings of at most n bytes.
LEMMA ShortIs ==
  ASSUME NEW n \in Nat, NEW s
  PROVE  s \in Short(n) <=> s \in Bytes /\ Len(s) <= n
<1>1. ASSUME s \in Short(n) PROVE s \in Bytes /\ Len(s) <= n
  <2>1. PICK m \in 0..n : s \in [1..m -> 0..(Base - 1)]
    BY <1>1 DEF Short, BoundedSeq, SeqOf
  <2>2. m \in Nat /\ m <= n
    OBVIOUS
  <2> QED
    BY <2>1, <2>2, Sequence DEF Bytes
<1>2. ASSUME s \in Bytes, Len(s) <= n PROVE s \in Short(n)
  <2>1. s \in Seq(0..(Base - 1))
    BY <1>2 DEF Bytes
  <2>2. Len(s) \in Nat /\ DOMAIN s = 1..Len(s) /\ s \in [1..Len(s) -> 0..(Base - 1)]
    BY <2>1, LenProperties
  <2>3. Len(s) \in 0..n
    BY <1>2, <2>2
  <2> QED
    BY <2>2, <2>3 DEF Short, BoundedSeq, SeqOf
<1> QED
  BY <1>1, <1>2

\* TokensSplit is the case of small strings.
LEMMA AllSplit == TokensSplit
<1> SUFFICES ASSUME NEW m \in Short(2), NEW f \in Short(1), NEW sig \in [1..2 -> 0..(Base - 1)]
             PROVE  taken_apart(assembled(m, sig, f), 2) = <<m, sig, f>>
  BY DEF TokensSplit
<1>1. m \in Bytes /\ f \in Bytes
  BY ShortIs
<1>2. sig \in Bytes /\ Len(sig) = 2
  BY Sequence DEF Bytes
<1>3. taken_apart(assembled(m, sig, f), Len(sig)) = <<m, sig, f>>
  BY <1>1, <1>2, TokenSplit DEF Bytes
<1> QED
  BY <1>2, <1>3

\* There are finitely many strings of at most n bytes.
LEMMA ShortFinite ==
  ASSUME NEW n \in Nat
  PROVE  IsFiniteSet(Short(n))
<1> DEFINE Pairs == (1..n) \X (0..(Base - 1))
           graph == [s \in Short(n) |-> {<<i, s[i]>> : i \in 1..Len(s)}]
<1>1. IsFiniteSet(SUBSET Pairs)
  <2>1. IsFiniteSet(1..n) /\ IsFiniteSet(0..(Base - 1))
    BY Positive, FS_Interval
  <2>2. IsFiniteSet(Pairs)
    BY <2>1, FS_Product
  <2> HIDE DEF Pairs
  <2> QED
    BY <2>2, FS_SUBSET
<1>2. ASSUME NEW s \in Short(n)
      PROVE  /\ s \in Seq(0..(Base - 1)) /\ Len(s) \in 0..n
             /\ \A i \in 1..Len(s) : i \in 1..n /\ s[i] \in 0..(Base - 1)
  <2>1. s \in Seq(0..(Base - 1)) /\ Len(s) <= n /\ Len(s) \in Nat
    BY ShortIs, LenProperties DEF Bytes
  <2>2. \A i \in 1..Len(s) : s[i] \in 0..(Base - 1)
    BY <2>1, ElementOfSeq
  <2> QED
    BY <2>1, <2>2
<1>3. graph \in [Short(n) -> SUBSET Pairs]
  <2>1. ASSUME NEW s \in Short(n) PROVE {<<i, s[i]>> : i \in 1..Len(s)} \in SUBSET Pairs
    BY <1>2
  <2> QED
    BY <2>1
<1>4. ASSUME NEW s \in Short(n), NEW t \in Short(n), graph[s] = graph[t]
      PROVE  s = t
  <2>1. {<<i, s[i]>> : i \in 1..Len(s)} = {<<i, t[i]>> : i \in 1..Len(t)}
    BY <1>4
  <2>2. ASSUME NEW i \in 1..Len(s) PROVE i \in 1..Len(t) /\ s[i] = t[i]
    <3>1. <<i, s[i]>> \in {<<j, t[j]>> : j \in 1..Len(t)}
      BY <2>1, <2>2
    <3>2. PICK j \in 1..Len(t) : <<i, s[i]>> = <<j, t[j]>>
      BY <3>1
    <3> QED
      BY <3>2
  <2>3. ASSUME NEW i \in 1..Len(t) PROVE i \in 1..Len(s)
    <3>1. <<i, t[i]>> \in {<<j, s[j]>> : j \in 1..Len(s)}
      BY <2>1, <2>3
    <3>2. PICK j \in 1..Len(s) : <<i, t[i]>> = <<j, s[j]>>
      BY <3>1
    <3> QED
      BY <3>2
  <2>4. Len(s) \in Nat /\ Len(t) \in Nat
    BY <1>2
  <2>5. Len(s) = Len(t)
    BY <2>2, <2>3, <2>4
  <2> QED
    BY <1>2, <2>2, <2>5, SeqEqual
<1>5. graph \in Injection(Short(n), SUBSET Pairs)
  BY <1>3, <1>4 DEF Injection, IsInjective
<1> QED
  BY <1>1, <1>5, FS_Injection

-----------------------------------------------------------------------------
(* Public keys *)

\* So many bytes of a number are bytes, so many.
LEMMA FixedIs ==
  ASSUME NEW n \in Nat, NEW w \in Nat
  PROVE  /\ Fixed(n, w) \in [1..w -> 0..(Base - 1)]
         /\ Fixed(n, w) \in Bytes /\ Len(Fixed(n, w)) = w
<1>1. ASSUME NEW i \in 1..w PROVE (n \div Power[w - i]) % Base \in 0..(Base - 1)
  <2>1. w - i \in Nat
    OBVIOUS
  <2>2. Power[w - i] \in Nat \ {0} /\ Base \in Nat \ {0}
    BY <2>1, PowerDef, Positive
  <2>3. n \div Power[w - i] \in Nat
    BY <2>2, Division
  <2> QED
    BY <2>2, <2>3, Division
<1>2. Fixed(n, w) \in [1..w -> 0..(Base - 1)]
  BY <1>1 DEF Fixed
<1> QED
  BY <1>2, Sequence DEF Bytes

\* Bytes are numbers below the base.
LEMMA SomeBytes ==
  ASSUME NEW s \in Bytes
  PROVE  s \in Seq(Nat) /\ Len(s) \in Nat /\ \A i \in 1..Len(s) : s[i] \in 0..(Base - 1)
<1>1. s \in Seq(0..(Base - 1))
  BY DEF Bytes
<1>2. Len(s) \in Nat /\ DOMAIN s = 1..Len(s)
  BY <1>1, LenProperties
<1>3. \A i \in 1..Len(s) : s[i] \in 0..(Base - 1)
  BY <1>1, ElementOfSeq
<1>4. s \in [1..Len(s) -> Nat]
  <2>1. s \in [1..Len(s) -> 0..(Base - 1)]
    BY <1>1, <1>2, LenProperties
  <2> QED
    BY <1>3, <2>1
<1> QED
  BY <1>2, <1>3, <1>4, Sequence

\* A point is two coordinates of Width bytes.
LEMMA PointIs ==
  ASSUME NEW p \in Point
  PROVE  /\ p = <<p[1], p[2]>>
         /\ p[1] \in Bytes /\ Len(p[1]) = Width /\ p[2] \in Bytes /\ Len(p[2]) = Width
<1>1. PICK m \in 0..(Power[Width] - 1), n \in 0..(Power[Width] - 1) :
        p = <<Fixed(m, Width), Fixed(n, Width)>>
  BY DEF Point
<1>2. m \in Nat /\ n \in Nat /\ Width \in Nat
  BY BaseAssumption
<1> QED
  BY <1>1, <1>2, FixedIs

\* Sequences of numbers that are joined.
LEMMA Joined ==
  ASSUME NEW a \in Seq(Nat), NEW b \in Seq(Nat)
  PROVE  /\ a \o b \in Seq(Nat) /\ Len(a \o b) = Len(a) + Len(b)
         /\ Len(a) \in Nat /\ Len(b) \in Nat
         /\ \A i \in 1..Len(a) : (a \o b)[i] = a[i]
         /\ SubSeq(a \o b, 1, Len(a)) = a
         /\ SubSeq(a \o b, Len(a) + 1, Len(a) + Len(b)) = b
<1>1. Len(a) \in Nat /\ Len(b) \in Nat
  BY LenProperties
<1>2. ASSUME NEW i \in 1..Len(a) PROVE (a \o b)[i] = a[i]
  <2>1. i \in 1..(Len(a) + Len(b)) /\ i <= Len(a)
    BY <1>1, PlaceInFirst
  <2> QED
    BY <2>1, ConcatProperties
<1> QED
  BY <1>1, <1>2, Parts

\* It does not matter which are joined first.
LEMMA Associative ==
  ASSUME NEW a \in Seq(Nat), NEW b \in Seq(Nat), NEW c \in Seq(Nat)
  PROVE  (a \o b) \o c = a \o (b \o c)
BY ConcatAssociative

\* A compressed key is a byte and a coordinate.
LEMMA CompressedIs ==
  ASSUME NEW p \in Point
  PROVE  /\ compressed(p[1], p[2]) \in Seq(Nat) /\ Len(compressed(p[1], p[2])) = 1 + Width
         /\ <<2 + (p[2][Width] % 2)>> \in Seq(Nat) /\ Len(<<2 + (p[2][Width] % 2)>>) = 1
<1> DEFINE first == <<2 + (p[2][Width] % 2)>>
<1>1. p[1] \in Seq(Nat) /\ Len(p[1]) = Width /\ p[2][Width] \in Nat
  BY PointIs, SomeBytes, BaseAssumption
<1>2. first \in Seq(Nat) /\ Len(first) = 1
  BY <1>1
<1>3. compressed(p[1], p[2]) = first \o p[1]
  BY DEF compressed
<1> HIDE DEF first
<1>4. first \o p[1] \in Seq(Nat) /\ Len(first \o p[1]) = Len(first) + Len(p[1])
  BY <1>1, <1>2, Joined
<1> QED
  BY <1>1, <1>2, <1>3, <1>4 DEF first

\* A compressed key is that of one point.
LEMMA CompressedApart ==
  ASSUME NEW p \in Points, NEW q \in Points, compressed(p[1], p[2]) = compressed(q[1], q[2])
  PROVE  p = q
<1>1. p \in Point /\ q \in Point
  BY DEF Points
<1> DEFINE a == <<2 + (p[2][Width] % 2)>>
           b == <<2 + (q[2][Width] % 2)>>
<1>2. /\ a \in Seq(Nat) /\ Len(a) = 1 /\ b \in Seq(Nat) /\ Len(b) = 1
      /\ p[1] \in Seq(Nat) /\ q[1] \in Seq(Nat)
  BY <1>1, CompressedIs, PointIs, SomeBytes
<1>3. a \o p[1] = b \o q[1]
  BY DEF compressed
<1>4. a = b /\ p[1] = q[1]
  <2> HIDE DEF a, b
  <2> QED
    BY <1>2, <1>3, SameSplit
<1>5. p[2][Width] \in Nat /\ q[2][Width] \in Nat
  BY <1>1, PointIs, SomeBytes, BaseAssumption
<1>6. p[2][Width] % 2 = q[2][Width] % 2
  BY <1>4, <1>5
<1> QED
  BY <1>4, <1>6, CurveAssumption

\* There are as many compressed keys as points.
LEMMA PointsFinite ==
  IsFiniteSet(Points) /\ IsFiniteSet(Keys384) /\ Cardinality(Keys384) = Cardinality(Points)
<1>1. IsFiniteSet(Short(Width) \X Short(Width))
  BY ShortFinite, FS_Product, BaseAssumption
<1>2. Points \in SUBSET (Short(Width) \X Short(Width))
  <2>1. ASSUME NEW p \in Points PROVE p \in Short(Width) \X Short(Width)
    <3>1. p \in Point
      BY DEF Points
    <3>2. p = <<p[1], p[2]>> /\ p[1] \in Short(Width) /\ p[2] \in Short(Width)
      BY <3>1, PointIs, ShortIs, BaseAssumption
    <3> QED
      BY <3>2
  <2> QED
    BY <2>1
<1>3. IsFiniteSet(Points)
  BY <1>1, <1>2, FS_Subset
<1> DEFINE key == [p \in Points |-> compressed(p[1], p[2])]
<1>4. key \in Surjection(Points, Keys384)
  <2>1. key \in [Points -> Keys384]
    BY DEF Keys384
  <2>2. \A k \in Keys384 : \E p \in Points : key[p] = k
    BY DEF Keys384
  <2> QED
    BY <2>1, <2>2 DEF Surjection
<1>5. key \in Injection(Points, Keys384)
  <2>1. \A p, q \in Points : key[p] = key[q] => p = q
    BY CompressedApart
  <2>2. key \in [Points -> Keys384]
    BY DEF Keys384
  <2> QED
    BY <2>1, <2>2 DEF Injection, IsInjective
<1> HIDE DEF key
<1> QED
  BY <1>3, <1>4, <1>5, FS_Surjection

\* The SPKI of a point is taken apart into what it was put together from.
LEMMA SpkiIs ==
  ASSUME NEW p \in Point
  PROVE  /\ Len(Spki(p)) = Len(P384Prefix) + 1 + 2 * Width
         /\ SubSeq(Spki(p), Len(P384Prefix) + 1, Len(Spki(p))) = <<4>> \o p[1] \o p[2]
         /\ (<<4>> \o p[1] \o p[2])[1] = 4
         /\ SubSeq(<<4>> \o p[1] \o p[2], 2, Width + 1) = p[1]
         /\ SubSeq(<<4>> \o p[1] \o p[2], Width + 2, 2 * Width + 1) = p[2]
<1> DEFINE P == P384Prefix
           four == <<4>>
           x == p[1]
           y == p[2]
           fx == four \o x
           sec1 == fx \o y
<1>1. /\ P \in Seq(Nat) /\ x \in Seq(Nat) /\ y \in Seq(Nat) /\ Len(x) = Width /\ Len(y) = Width
      /\ Width \in Nat /\ Len(P) \in Nat /\ four \in Seq(Nat) /\ Len(four) = 1 /\ four[1] = 4
  <2>1. P384Prefix \in Bytes
    BY PartsAssumption
  <2> QED
    BY <2>1, PointIs, SomeBytes, BaseAssumption
<1>2. Spki(p) = ((P \o four) \o x) \o y
  BY DEF Spki, SEC1_UNCOMPRESSED_TAG
<1> HIDE DEF P, four, x, y
<1>3. /\ fx \in Seq(Nat) /\ Len(fx) = Len(four) + Len(x) /\ fx[1] = four[1]
  <2>1. 1 \in 1..Len(four) /\ four \in Seq(Nat) /\ x \in Seq(Nat)
    BY <1>1
  <2>2. /\ fx \in Seq(Nat) /\ Len(fx) = Len(four) + Len(x)
        /\ \A i \in 1..Len(four) : fx[i] = four[i]
    BY <2>1, Joined
  <2> QED
    BY <2>1, <2>2
<1>4. (P \o four) \o x = P \o fx
  <2>1. P \in Seq(Nat) /\ four \in Seq(Nat) /\ x \in Seq(Nat)
    BY <1>1
  <2> QED
    BY <2>1, Associative, Zenon
<1>5. SubSeq(sec1, Len(four) + 1, Len(four) + Len(x)) = x
  <2>1. P \in Seq(Nat) /\ four \in Seq(Nat) /\ x \in Seq(Nat) /\ y \in Seq(Nat)
    BY <1>1
  <2> QED
    BY <2>1, Middle
<1> HIDE DEF fx
<1>6. (P \o fx) \o y = P \o sec1
  <2>1. P \in Seq(Nat) /\ fx \in Seq(Nat) /\ y \in Seq(Nat)
    BY <1>1, <1>3
  <2> QED
    BY <2>1, Associative, Zenon
<1>7. /\ sec1 \in Seq(Nat) /\ Len(sec1) = Len(fx) + Len(y) /\ sec1[1] = fx[1]
      /\ SubSeq(sec1, Len(fx) + 1, Len(fx) + Len(y)) = y
  <2>1. fx \in Seq(Nat) /\ y \in Seq(Nat) /\ 1 \in 1..Len(fx)
    BY <1>1, <1>3
  <2>2. /\ sec1 \in Seq(Nat) /\ Len(sec1) = Len(fx) + Len(y)
        /\ SubSeq(sec1, Len(fx) + 1, Len(fx) + Len(y)) = y
        /\ \A i \in 1..Len(fx) : sec1[i] = fx[i]
    BY <2>1, Joined
  <2> QED
    BY <2>1, <2>2
<1>8. Spki(p) = P \o sec1
  BY <1>2, <1>4, <1>6
<1>9. sec1 = <<4>> \o p[1] \o p[2]
  BY DEF fx, four, x, y
<1> HIDE DEF sec1
<1>10. /\ Len(P \o sec1) = Len(P) + Len(sec1)
       /\ SubSeq(P \o sec1, Len(P) + 1, Len(P) + Len(sec1)) = sec1
  BY <1>1, <1>7, Joined
<1>11. /\ Len(fx) + 1 = Width + 2 /\ Len(fx) + Len(y) = 2 * Width + 1 /\ Len(sec1) = 1 + 2 * Width
       /\ Len(four) + 1 = 2 /\ Len(four) + Len(x) = Width + 1
  BY <1>1, <1>3, <1>7
<1>12. Len(Spki(p)) = Len(P) + 1 + 2 * Width
  BY <1>1, <1>8, <1>10, <1>11
<1>13. SubSeq(Spki(p), Len(P) + 1, Len(Spki(p))) = sec1
  BY <1>8, <1>10
<1>14. sec1[1] = 4
  BY <1>1, <1>3, <1>7
<1> QED
  BY <1>5, <1>7, <1>9, <1>11, <1>12, <1>13, <1>14 DEF P, x, y

\* A decoder of public keys gives the key of its own kind and refuses that of
\* the other kind, and the one of Ed25519 any other prefix.
LEMMA KeysDecoded == KeysOfTheirKind
<1>1. /\ EdPrefix \in Bytes /\ P384Prefix \in Bytes /\ EdLen \in Nat /\ Width \in Nat
      /\ Len(EdPrefix) \in Nat /\ Len(P384Prefix) \in Nat
      /\ Len(EdPrefix) + EdLen # Len(P384Prefix) + 1 + 2 * Width
  BY PartsAssumption, BaseAssumption, SomeBytes
<1>2. ASSUME NEW p \in Points
      PROVE  /\ p384_public_key_from_spki(Spki(p)) = compressed(p[1], p[2])
             /\ ed25519_public_key_from_spki(Spki(p)) = Err
  <2>1. p \in Point /\ OnCurve(p[1], p[2])
    <3>1. p \in Point
      BY DEF Points
    <3>2. OnCurve(p[1], p[2])
      BY DEF Points
    <3> QED
      BY <3>1, <3>2
  <2> DEFINE spki == Spki(p)
             sec1 == <<4>> \o p[1] \o p[2]
  <2>2. /\ Len(spki) = Len(P384Prefix) + 1 + 2 * Width
        /\ SubSeq(spki, Len(P384Prefix) + 1, Len(spki)) = sec1
        /\ sec1[1] = 4
        /\ SubSeq(sec1, 2, Width + 1) = p[1] /\ SubSeq(sec1, Width + 2, 2 * Width + 1) = p[2]
    BY <2>1, SpkiIs
  <2> HIDE DEF spki, sec1
  <2>3. p384_public_key_from_spki(spki) = compressed(p[1], p[2])
    BY <2>1, <2>2 DEF p384_public_key_from_spki, SEC1_UNCOMPRESSED_TAG
  <2>4. ed25519_public_key_from_spki(spki) = Err
    BY <1>1, <2>2 DEF ed25519_public_key_from_spki
  <2> QED
    BY <2>3, <2>4 DEF spki
<1>3. ASSUME NEW key \in [1..EdLen -> 0..(Base - 1)]
      PROVE  /\ ed25519_public_key_from_spki(EdPrefix \o key) = key
             /\ p384_public_key_from_spki(EdPrefix \o key) = Err
             /\ \A prefix \in [DOMAIN EdPrefix -> 0..(Base - 1)] :
                  prefix # EdPrefix => ed25519_public_key_from_spki(prefix \o key) = Err
  <2>1. key \in Seq(Nat) /\ Len(key) = EdLen /\ EdPrefix \in Seq(Nat)
    BY <1>1, Sequence, SomeBytes DEF Bytes
  <2> DEFINE spki == EdPrefix \o key
  <2>2. /\ Len(spki) = Len(EdPrefix) + Len(key) /\ SubSeq(spki, 1, Len(EdPrefix)) = EdPrefix
        /\ SubSeq(spki, Len(EdPrefix) + 1, Len(EdPrefix) + Len(key)) = key
    BY <2>1, Joined
  <2> HIDE DEF spki
  <2>3. ed25519_public_key_from_spki(spki) = key
    BY <2>1, <2>2 DEF ed25519_public_key_from_spki
  <2>4. p384_public_key_from_spki(spki) = Err
    BY <1>1, <2>1, <2>2 DEF p384_public_key_from_spki
  <2>5. ASSUME NEW prefix \in [DOMAIN EdPrefix -> 0..(Base - 1)], prefix # EdPrefix
        PROVE  ed25519_public_key_from_spki(prefix \o key) = Err
    <3>1. prefix \in [1..Len(EdPrefix) -> 0..(Base - 1)]
      BY <1>1, LenProperties DEF Bytes
    <3>2. prefix \in Bytes /\ Len(prefix) = Len(EdPrefix)
      BY <1>1, <3>1, Sequence DEF Bytes
    <3>3. prefix \in Seq(Nat)
      BY <3>2, SomeBytes
    <3> DEFINE other == prefix \o key
    <3>4. SubSeq(other, 1, Len(prefix)) = prefix
      BY <2>1, <3>3, Joined
    <3> HIDE DEF other
    <3>5. SubSeq(other, 1, Len(EdPrefix)) # EdPrefix
      BY <2>5, <3>2, <3>4
    <3>6. ed25519_public_key_from_spki(other) = Err
      BY <3>5 DEF ed25519_public_key_from_spki
    <3> QED
      BY <3>6 DEF other
  <2> QED
    BY <2>3, <2>4, <2>5 DEF spki
<1> QED
  BY <1>2, <1>3, PointsFinite DEF KeysOfTheirKind

-----------------------------------------------------------------------------
(* What is signed *)

\* Eight bytes can count the pieces.
LEMMA PowersBig == Power[8] \div 2 >= 8 /\ Power[8] \div 2 \in Nat
<1>1. /\ 0 + 1 = 1 /\ 1 + 1 = 2 /\ 2 + 1 = 3 /\ 3 + 1 = 4 /\ 4 \in Nat /\ 8 \in Nat /\ 4 <= 8
  OBVIOUS
<1>2. Power[0] = 1 /\ \A n \in Nat : Power[n] \in Nat /\ Power[n + 1] = Base * Power[n]
  BY PowerDef
<1>3. ASSUME NEW n \in Nat PROVE Power[n + 1] >= 2 * Power[n]
  <2>1. Power[n] \in Nat /\ Power[n + 1] = Base * Power[n] /\ Base \in Nat /\ Base >= 2
    BY <1>2, Positive
  <2>2. ASSUME NEW p \in Nat, NEW b \in Nat, b >= 2 PROVE b * p >= 2 * p
    BY <2>2
  <2> QED
    BY <2>1, <2>2
<1>4. Power[0] \in Nat /\ Power[1] \in Nat /\ Power[2] \in Nat /\ Power[3] \in Nat /\ Power[4] \in Nat
  BY <1>2
<1>5. Power[1] >= 2 /\ Power[2] >= 4 /\ Power[3] >= 8 /\ Power[4] >= 16
  <2>1. Power[1] >= 2 * Power[0]
    BY <1>1, <1>3
  <2>2. Power[2] >= 2 * Power[1]
    BY <1>1, <1>3
  <2>3. Power[3] >= 2 * Power[2]
    BY <1>1, <1>3
  <2>4. Power[4] >= 2 * Power[3]
    BY <1>1, <1>3
  <2> QED
    BY <1>2, <1>4, <2>1, <2>2, <2>3, <2>4
<1>6. Power[8] >= Power[4]
  BY <1>1, PowersGrow
<1>7. Power[8] \in Nat
  BY <1>2
<1>8. ASSUME NEW p \in Nat, p >= 16 PROVE p \div 2 >= 8 /\ p \div 2 \in Nat
  BY <1>8
<1> QED
  BY <1>4, <1>5, <1>6, <1>7, <1>8

\* Keys of v3 by their length.
Keyed == {key \in Sized : Len(key) = 1 + Width}

\* What there is to sign, and with what: version and key, payload, footer.
Contents == ({"V4"} \X Sized \X Sized \X Sized) \cup ({"V3"} \X Keyed \X Sized \X Sized)

\* The pieces that are signed.
Pieces(c) ==
  IF c[1] = "V4" THEN <<V4_HEADER, c[3], c[4], <<>>>> ELSE <<c[2], V3_HEADER, c[3], c[4], <<>>>>

\* What is signed encodes the pieces, which eight bytes can measure.
LEMMA SignedPieces ==
  ASSUME NEW c \in Contents
  PROVE  /\ signed(c[1], c[2], c[3], c[4]) = pae(Pieces(c))
         /\ Pieces(c) \in Seq(Sized) /\ Len(Pieces(c)) < Power[8] \div 2
<1>1. V3_HEADER \in Sized /\ V4_HEADER \in Sized /\ <<>> \in Sized
  <2>1. V3_HEADER \in Bytes /\ V4_HEADER \in Bytes
    BY PartsAssumption
  <2>2. V3_HEADER \in Seq(Nat) /\ V4_HEADER \in Seq(Nat)
    BY <2>1, SomeBytes
  <2>3. Len(V3_HEADER) < Power[8] \div 2 /\ Len(V4_HEADER) < Power[8] \div 2
    BY PartsAssumption, PowersBig
  <2>4. <<>> \in Seq(Nat) /\ Len(<<>>) < Power[8] \div 2
    BY EmptySeq, PowersBig
  <2> QED
    BY <2>2, <2>3, <2>4 DEF Sized
<1>2. CASE c[1] = "V4"
  <2>1. c[3] \in Sized /\ c[4] \in Sized
    BY DEF Contents
  <2>2. signed(c[1], c[2], c[3], c[4]) = pae(Pieces(c))
    BY <1>2 DEF signed, Pieces
  <2> DEFINE s == <<V4_HEADER, c[3], c[4], <<>>>>
  <2>3. s \in Seq(Sized) /\ Len(s) = 4
    BY <1>1, <2>1
  <2> QED
    BY <1>2, <2>2, <2>3, PowersBig DEF Pieces
<1>3. CASE c[1] # "V4"
  <2>1. c[1] = "V3" /\ c[2] \in Keyed /\ c[3] \in Sized /\ c[4] \in Sized
    BY <1>3 DEF Contents
  <2>2. c[2] \in Sized /\ Len(c[2]) = 1 + Width
    BY <2>1 DEF Keyed
  <2>3. signed(c[1], c[2], c[3], c[4]) = pae(Pieces(c))
    BY <2>1, <2>2 DEF signed, Pieces
  <2> DEFINE s == <<c[2], V3_HEADER, c[3], c[4], <<>>>>
  <2>4. s \in Seq(Sized) /\ Len(s) = 5
    BY <1>1, <2>1, <2>2
  <2> QED
    BY <1>3, <2>3, <2>4, PowersBig DEF Pieces
<1> QED
  BY <1>2, <1>3

\* Nothing else is signed by the same bytes: they tell the version, with v3 the
\* key, the payload and the footer.
THEOREM SignedApart ==
  ASSUME NEW c \in Contents, NEW d \in Contents,
         signed(c[1], c[2], c[3], c[4]) = signed(d[1], d[2], d[3], d[4])
  PROVE  /\ c[1] = d[1] /\ c[3] = d[3] /\ c[4] = d[4]
         /\ c[1] = "V3" => c[2] = d[2]
<1>1. pae(Pieces(c)) = pae(Pieces(d))
  BY SignedPieces
<1> DEFINE ps == Pieces(c)
           qs == Pieces(d)
<1>2. /\ ps \in Seq(Sized) /\ Len(ps) < Power[8] \div 2
      /\ qs \in Seq(Sized) /\ Len(qs) < Power[8] \div 2
  BY SignedPieces
<1>3. ps = qs
  <2> HIDE DEF ps, qs
  <2>1. pae(ps) = pae(qs)
    BY <1>1 DEF ps, qs
  <2> QED
    BY <1>2, <2>1, PaeUnambiguous
<1>4. c[1] \in {"V3", "V4"} /\ d[1] \in {"V3", "V4"}
  BY DEF Contents
<1>5. c[1] = d[1]
  <2>1. ASSUME NEW e \in Contents PROVE Len(Pieces(e)) = IF e[1] = "V4" THEN 4 ELSE 5
    BY DEF Pieces
  <2> QED
    BY <1>3, <1>4, <2>1
<1>6. CASE c[1] = "V4"
  BY <1>3, <1>5, <1>6 DEF Pieces
<1>7. CASE c[1] = "V3"
  BY <1>3, <1>5, <1>7 DEF Pieces
<1> QED
  BY <1>4, <1>5, <1>6, <1>7

\* An error is no string of bytes.
LEMMA ErrIsNone == Err \notin Seq(Nat)
<1>1. Err[1] = -1 /\ Len(Err) = 1
  BY DEF Err
<1> QED
  BY <1>1, ElementOfSeq

\* What is encoded is a string of numbers.
LEMMA PaeIs ==
  ASSUME NEW pieces \in Seq(Sized), Len(pieces) < Power[8] \div 2
  PROVE  pae(pieces) \in Seq(Nat) /\ pae(pieces) # Err
<1> DEFINE P == Framed(pieces)
<1>1. P \in Seq(Seq(Nat)) /\ Len(P) \in Nat /\ Len(pieces) \in Nat
  BY FramedPieces, LenProperties
<1>2. PICK f : Joins(f, P, Nat) /\ FlattenSeq(P) = f[Len(P)]
  BY <1>1, FlattenDef
<1>3. FlattenSeq(P) \in Seq(Nat)
  <2>1. Len(P) \in 0..Len(P)
    BY <1>1
  <2> QED
    BY <1>2, <2>1 DEF Joins
<1>4. le64(Len(pieces)) \in Seq(Nat)
  BY <1>1, LengthKept
<1>5. pae(pieces) = le64(Len(pieces)) \o FlattenSeq(P)
  BY DEF pae, Framed
<1>6. pae(pieces) \in Seq(Nat)
  BY <1>3, <1>4, <1>5, Joined
<1> QED
  BY <1>6, ErrIsNone

\* Small strings and points are among what there is to sign.
LEMMA SmallContents ==
  ASSUME NEW v \in {<<"V4", <<>>>>} \cup {<<"V3", key>> : key \in Keys384},
         NEW p \in Short(2), NEW f \in Short(1)
  PROVE  /\ <<v[1], v[2], p, f>> \in Contents /\ v = <<v[1], v[2]>>
         /\ v[1] = "V4" => v[2] = <<>>
<1>1. ASSUME NEW s, s \in Short(2) \/ s \in Short(1) PROVE s \in Sized
  <2>1. s \in Bytes /\ Len(s) <= 2
    BY <1>1, ShortIs, SomeBytes
  <2>2. s \in Seq(Nat) /\ Len(s) \in Nat
    BY <2>1, SomeBytes
  <2> QED
    BY <2>1, <2>2, PowersBig DEF Sized
<1>2. p \in Sized /\ f \in Sized
  BY <1>1
<1>3. CASE v = <<"V4", <<>>>>
  <2>1. <<>> \in Sized
    BY EmptySeq, PowersBig DEF Sized
  <2> QED
    BY <1>2, <1>3, <2>1 DEF Contents
<1>4. CASE v # <<"V4", <<>>>>
  <2>1. PICK key \in Keys384 : v = <<"V3", key>>
    BY <1>4
  <2>2. PICK q \in Points : key = compressed(q[1], q[2])
    BY DEF Keys384
  <2>3. q \in Point
    BY DEF Points
  <2>4. key \in Seq(Nat) /\ Len(key) = 1 + Width
    BY <2>2, <2>3, CompressedIs
  <2>5. 1 + Width < Power[8] \div 2
    BY PartsAssumption, PowersBig
  <2>6. key \in Keyed
    BY <2>4, <2>5 DEF Keyed, Sized
  <2> QED
    BY <1>2, <2>1, <2>6 DEF Contents
<1> QED
  BY <1>3, <1>4

\* SignedUnambiguously counts what SignedApart tells apart.
LEMMA SmallSigned == SignedUnambiguously
<1> DEFINE versions == {<<"V4", <<>>>>} \cup {<<"V3", key>> : key \in Keys384}
           contents == versions \X Short(2) \X Short(1)
           bytes == {signed(c[1][1], c[1][2], c[2], c[3]) : c \in contents}
           sign == [c \in contents |-> signed(c[1][1], c[1][2], c[2], c[3])]
           flat(c) == <<c[1][1], c[1][2], c[2], c[3]>>
<1>1. IsFiniteSet(contents)
  <2>1. IsFiniteSet({<<"V3", key>> : key \in Keys384})
    <3> DEFINE S == {<<"V3", key>> : key \in Keys384}
               pair == [key \in Keys384 |-> <<"V3", key>>]
    <3>1. pair \in Surjection(Keys384, S)
      BY DEF Surjection
    <3> HIDE DEF S, pair
    <3> QED
      BY <3>1, PointsFinite, FS_Surjection DEF S
  <2>2. IsFiniteSet({<<"V4", <<>>>>})
    BY FS_Singleton
  <2>3. IsFiniteSet(versions)
    BY <2>1, <2>2, FS_Union
  <2> HIDE DEF versions
  <2>4. IsFiniteSet(Short(2)) /\ IsFiniteSet(Short(1))
    BY ShortFinite
  <2>5. IsFiniteSet(versions \X Short(2))
    BY <2>3, <2>4, FS_Product
  <2> DEFINE triple == [x \in (versions \X Short(2)) \X Short(1) |-> <<x[1][1], x[1][2], x[2]>>]
  <2>6. IsFiniteSet((versions \X Short(2)) \X Short(1))
    BY <2>4, <2>5, FS_Product
  <2>7. triple \in Surjection((versions \X Short(2)) \X Short(1), contents)
    <3>1. triple \in [(versions \X Short(2)) \X Short(1) -> contents]
      OBVIOUS
    <3>2. ASSUME NEW c \in contents
          PROVE  \E x \in (versions \X Short(2)) \X Short(1) : triple[x] = c
      <4>1. <<<<c[1], c[2]>>, c[3]>> \in (versions \X Short(2)) \X Short(1)
        OBVIOUS
      <4>2. triple[<<<<c[1], c[2]>>, c[3]>>] = c
        BY <4>1
      <4> QED
        BY <4>1, <4>2
    <3> HIDE DEF triple, contents
    <3> QED
      BY <3>1, <3>2 DEF Surjection
  <2> HIDE DEF contents, triple
  <2> QED
    BY <2>6, <2>7, FS_Surjection
<1>2. ASSUME NEW c \in contents
      PROVE  /\ flat(c) \in Contents /\ c = <<c[1], c[2], c[3]>> /\ c[1] = <<c[1][1], c[1][2]>>
             /\ c[1][1] = "V4" => c[1][2] = <<>>
  <2>1. c[1] \in versions /\ c[2] \in Short(2) /\ c[3] \in Short(1) /\ c = <<c[1], c[2], c[3]>>
    OBVIOUS
  <2> HIDE DEF contents
  <2> QED
    BY <2>1, SmallContents
<1>3. ASSUME NEW c \in contents, NEW d \in contents, sign[c] = sign[d] PROVE c = d
  <2>1. signed(c[1][1], c[1][2], c[2], c[3]) = signed(d[1][1], d[1][2], d[2], d[3])
    BY <1>3
  <2> DEFINE e == flat(c)
             g == flat(d)
  <2>2. e \in Contents /\ g \in Contents
    BY <1>2
  <2>3. signed(e[1], e[2], e[3], e[4]) = signed(g[1], g[2], g[3], g[4])
    BY <2>1
  <2>4. e[1] = g[1] /\ e[3] = g[3] /\ e[4] = g[4] /\ (e[1] = "V3" => e[2] = g[2])
    <3> HIDE DEF e, g
    <3> QED
      BY <2>2, <2>3, SignedApart
  <2>5. e[1] \in {"V3", "V4"}
    <3> HIDE DEF e
    <3> QED
      BY <2>2 DEF Contents
  <2>6. c[1][1] = d[1][1] /\ c[2] = d[2] /\ c[3] = d[3] /\ c[1][2] = d[1][2]
    BY <1>2, <2>4, <2>5
  <2> QED
    BY <1>2, <2>6
<1>4. Err \notin bytes
  <2> SUFFICES ASSUME NEW c \in contents PROVE signed(c[1][1], c[1][2], c[2], c[3]) # Err
    OBVIOUS
  <2> DEFINE e == flat(c)
  <2>1. e \in Contents
    BY <1>2
  <2>2. signed(c[1][1], c[1][2], c[2], c[3]) = signed(e[1], e[2], e[3], e[4])
    OBVIOUS
  <2> HIDE DEF e
  <2> QED
    BY <2>1, <2>2, SignedPieces, PaeIs
<1>5. sign \in Surjection(contents, bytes)
  <2>1. sign \in [contents -> bytes]
    OBVIOUS
  <2>2. \A b \in bytes : \E c \in contents : sign[c] = b
    OBVIOUS
  <2> HIDE DEF sign, bytes, contents
  <2> QED
    BY <2>1, <2>2 DEF Surjection
<1>6. sign \in Injection(contents, bytes)
  <2>1. sign \in [contents -> bytes]
    OBVIOUS
  <2> HIDE DEF sign, bytes, contents
  <2> QED
    BY <1>3, <2>1 DEF Injection, IsInjective
<1>7. Cardinality(bytes) = Cardinality(contents)
  <2> HIDE DEF sign, bytes, contents
  <2> QED
    BY <1>1, <1>5, <1>6, FS_Surjection
<1> QED
  BY <1>4, <1>7 DEF SignedUnambiguously

-----------------------------------------------------------------------------
(* Numbers in signatures *)

\* A number below another has it no time.
LEMMA Below ==
  ASSUME NEW n \in Nat, NEW b \in Nat \ {0}
  PROVE  (n < b) <=> (n \div b = 0)
<1> DEFINE q == n \div b
           r == n % b
<1>1. q \in Nat /\ r \in 0..(b - 1) /\ n = b * q + r
  BY Division
<1> HIDE DEF q, r
<1>2. CASE q = 0
  <2>1. b * q = 0
    BY <1>2
  <2> QED
    BY <1>1, <1>2, <2>1 DEF q
<1>3. CASE q # 0
  <2>1. b * q >= b /\ b * q \in Nat
    BY <1>1, <1>3
  <2> QED
    BY <1>1, <1>3, <2>1 DEF q
<1> QED
  BY <1>2, <1>3

\* To divide by the next power is to divide once more by the base.
LEMMA NextPower ==
  ASSUME NEW n \in Nat, NEW j \in Nat
  PROVE  n \div Power[j + 1] = (n \div Power[j]) \div Base
<1> DEFINE p == Power[j]
           m == Power[j + 1]
<1>1. p \in Nat \ {0} /\ Base \in Nat \ {0} /\ m = p * Base
  BY PowerDef, Positive
<1> HIDE DEF p, m
<1>2. (n \div p) \div Base = n \div (p * Base)
  BY <1>1, DivideTwice
<1>3. (n \div p) \div Base = n \div m
  BY <1>1, <1>2
<1> QED
  BY <1>3 DEF p, m

\* The bytes of a number are its digits; so many hold what is below the power.
LEMMA NumberIs ==
  ASSUME NEW s \in Bytes
  PROVE  /\ Number(s) \in Nat /\ Number(s) < Power[Len(s)]
         /\ s = Fixed(Number(s), Len(s))
<1> DEFINE L == Len(s)
           n == Number(s)
<1>1. s \in Seq(Nat) /\ L \in Nat /\ \A i \in 1..L : s[i] \in 0..(Base - 1)
  BY SomeBytes
<1>2. PICK read : Reads(read, s) /\ n = read[L]
  BY <1>1, NumberDef
<1>3. /\ read \in [0..L -> Nat] /\ read[0] = 0
      /\ \A k \in 1..L : read[k] = read[k - 1] * Base + s[k]
  BY <1>2 DEF Reads
<1>4. n \in Nat
  <2>1. L \in 0..L
    BY <1>1
  <2> QED
    BY <1>2, <1>3, <2>1
<1> HIDE DEF L, n
<1> DEFINE E == {j \in Nat : j <= L => read[L - j] = n \div Power[j]}
<1>5. ASSUME NEW k \in 1..L PROVE read[k] \div Base = read[k - 1] /\ read[k] % Base = s[k]
  <2>1. k - 1 \in 0..L
    BY <1>1
  <2>2. read[k - 1] \in Nat /\ s[k] \in 0..(Base - 1) /\ Base \in Nat \ {0}
    BY <1>1, <1>3, <2>1, Positive
  <2> DEFINE a == read[k - 1]
             d == s[k]
  <2>3. read[k] = Base * a + d
    BY <1>3, <2>2
  <2> HIDE DEF a, d
  <2>4. (Base * a + d) \div Base = a /\ (Base * a + d) % Base = d
    <3>1. a \in Nat /\ d \in 0..(Base - 1) /\ Base \in Nat \ {0}
      BY <2>2 DEF a, d
    <3> QED
      BY <3>1, Divided
  <2> QED
    BY <2>3, <2>4 DEF a, d
<1>6. 0 \in E
  <2>1. L - 0 = L /\ Power[0] = 1 /\ n \div 1 = n
    BY <1>1, <1>4, PowerDef
  <2> QED
    BY <1>2, <2>1 DEF L, n
<1>7. ASSUME NEW j \in Nat, j \in E PROVE j + 1 \in E
  <2> SUFFICES ASSUME j + 1 <= L PROVE read[L - (j + 1)] = n \div Power[j + 1]
    OBVIOUS
  <2>1. L - j \in 1..L /\ (L - j) - 1 = L - (j + 1) /\ j <= L
    BY <1>1
  <2>2. read[L - j] = n \div Power[j]
    BY <1>7, <2>1
  <2>3. read[L - (j + 1)] = (n \div Power[j]) \div Base
    BY <1>5, <2>1, <2>2
  <2> QED
    BY <1>4, <2>3, NextPower
<1>8. \A j \in Nat : j <= L => read[L - j] = n \div Power[j]
  <2>1. Nat \subseteq E
    <3> HIDE DEF E
    <3> QED
      BY <1>6, <1>7, AllNumbers
  <2> QED
    BY <2>1
<1>9. n < Power[L]
  <2>1. read[L - L] = n \div Power[L] /\ L - L = 0
    BY <1>1, <1>8
  <2>2. Power[L] \in Nat \ {0}
    BY <1>1, PowerDef
  <2> QED
    BY <1>3, <1>4, <2>1, <2>2, Below
<1>10. ASSUME NEW i \in 1..L PROVE s[i] = Fixed(n, L)[i]
  <2>1. L - i \in Nat /\ L - i <= L /\ L - (L - i) = i
    BY <1>1
  <2>2. read[i] = n \div Power[L - i]
    BY <1>8, <2>1
  <2> QED
    BY <1>5, <2>2 DEF Fixed
<1>11. s = Fixed(n, L)
  <2>1. Fixed(n, L) \in Seq(Nat) /\ Len(Fixed(n, L)) = L
    BY <1>1, <1>4, FixedIs, SomeBytes
  <2>2. Len(s) = L
    BY DEF L
  <2> QED
    BY <1>1, <1>10, <2>1, <2>2, SeqEqual
<1> QED
  BY <1>4, <1>9, <1>11 DEF n, L

\* A number comes back from its bytes where there are enough of them.
LEMMA NumberOfFixed ==
  ASSUME NEW n \in Nat, NEW w \in Nat, n < Power[w]
  PROVE  Number(Fixed(n, w)) = n
<1> DEFINE s == Fixed(n, w)
<1>1. s \in Seq(Nat) /\ Len(s) = w /\ \A i \in 1..w : s[i] = (n \div Power[w - i]) % Base
  <2>1. s \in Seq(Nat) /\ Len(s) = w
    BY FixedIs, SomeBytes
  <2> QED
    BY <2>1 DEF Fixed
<1> HIDE DEF s
<1>2. PICK read : Reads(read, s) /\ Number(s) = read[w]
  BY <1>1, NumberDef
<1>3. read[0] = 0 /\ \A k \in 1..w : read[k] = read[k - 1] * Base + s[k]
  BY <1>1, <1>2 DEF Reads
<1> DEFINE E == {k \in Nat : k <= w => read[k] = n \div Power[w - k]}
<1>4. 0 \in E
  <2>1. Power[w] \in Nat \ {0} /\ w - 0 = w
    BY PowerDef
  <2>2. n \div Power[w] = 0
    BY <2>1, Below
  <2> QED
    BY <1>3, <2>1, <2>2
<1>5. ASSUME NEW k \in Nat, k \in E PROVE k + 1 \in E
  <2> SUFFICES ASSUME k + 1 <= w PROVE read[k + 1] = n \div Power[w - (k + 1)]
    OBVIOUS
  <2> DEFINE j == w - (k + 1)
             q == n \div Power[j]
  <2>1. j \in Nat /\ w - k = j + 1 /\ k + 1 \in 1..w /\ (k + 1) - 1 = k /\ k <= w
    OBVIOUS
  <2>2. Power[j] \in Nat \ {0} /\ Base \in Nat \ {0} /\ Power[j + 1] = Power[j] * Base
    BY <2>1, PowerDef, Positive
  <2>3. read[k] = n \div Power[j + 1]
    BY <1>5, <2>1
  <2>4. read[k] = q \div Base
    BY <2>1, <2>3, NextPower
  <2>5. s[k + 1] = q % Base
    BY <1>1, <2>1
  <2>6. read[k + 1] = read[k] * Base + s[k + 1]
    BY <1>3, <2>1
  <2>7. q \in Nat
    BY <2>2, Division
  <2> HIDE DEF q, j
  <2>8. read[k + 1] = q
    <3>1. q \div Base \in Nat /\ q = Base * (q \div Base) + (q % Base)
      BY <2>2, <2>7, Division
    <3> QED
      BY <2>2, <2>4, <2>5, <2>6, <3>1
  <2> QED
    BY <2>8 DEF q, j
<1>6. w \in E
  <2> HIDE DEF E
  <2> QED
    BY <1>4, <1>5, AllNumbers
<1>7. w - w = 0 /\ Power[0] = 1 /\ n \div 1 = n
  BY PowerDef
<1> QED
  BY <1>2, <1>6, <1>7 DEF s

\* The first byte of a number that so many bytes hold.
LEMMA TopByte ==
  ASSUME NEW n \in Nat, NEW L \in Nat, L >= 1, n < Power[L]
  PROVE  /\ Power[L] = Base * Power[L - 1] /\ Power[L - 1] \in Nat \ {0}
         /\ n \div Power[L - 1] \in 0..(Base - 1)
         /\ Fixed(n, L)[1] = n \div Power[L - 1]
<1> DEFINE p == Power[L - 1]
           q == n \div p
<1>1. L - 1 \in Nat /\ (L - 1) + 1 = L
  OBVIOUS
<1>2. p \in Nat \ {0} /\ Power[L] = Base * p /\ Base \in Nat \ {0}
  BY <1>1, PowerDef, Positive
<1>3. Fixed(n, L)[1] = q % Base
  BY DEF Fixed
<1>4. q \in Nat /\ n % p \in 0..(p - 1) /\ n = p * q + (n % p)
  BY <1>2, Division
<1> HIDE DEF p, q
<1>5. q < Base
  <2>1. SUFFICES ASSUME q >= Base PROVE FALSE
    BY <1>2, <1>4
  <2>2. p * q >= p * Base
    BY <1>2, <1>4, <2>1
  <2>3. n >= p * q
    <3>1. p * q \in Nat
      BY <1>2, <1>4
    <3> QED
      BY <1>2, <1>4, <3>1
  <2>4. p * Base = Base * p /\ Base * p \in Nat /\ p * q \in Nat
    BY <1>2, <1>4
  <2>5. n < Base * p
    BY <1>2
  <2> QED
    BY <2>2, <2>3, <2>4, <2>5
<1>6. q % Base = q
  BY <1>2, <1>4, <1>5
<1> QED
  BY <1>2, <1>3, <1>4, <1>5, <1>6 DEF p, q

\* What is even and below the base, which is even, is so by 2.
LEMMA Doubled ==
  ASSUME NEW q \in Nat
  PROVE  2 * q < Base => 2 * q + 2 <= Base
BY Positive

\* The length of a number in DER is told by the number.
LEMMA DerLength ==
  ASSUME NEW s \in Bytes, IsDer(s), Number(s) >= 1
  PROVE  /\ Len(s) \in Nat /\ Len(s) >= 1
         /\ 2 * Number(s) < Power[Len(s)] /\ Power[Len(s) - 1] <= 2 * Number(s)
<1> DEFINE n == Number(s)
           L == Len(s)
           p == Power[L - 1]
           q == n \div p
           r == n % p
<1>1. n \in Nat /\ n >= 1 /\ n < Power[L] /\ s = Fixed(n, L)
  BY NumberIs
<1>2. L \in Nat /\ L >= 1
  <2>1. s \in Seq(Nat) /\ Len(s) \in Nat /\ s # <<>>
    BY SomeBytes DEF IsDer
  <2> QED
    BY <2>1, EmptySeq
<1> HIDE DEF n, L
<1>3. /\ Power[L] = Base * p /\ p \in Nat \ {0} /\ q \in 0..(Base - 1) /\ s[1] = q
  BY <1>1, <1>2, TopByte
<1>4. r \in 0..(p - 1) /\ n = p * q + r
  BY <1>1, <1>3, Division
<1>5. 2 * q < Base /\ (L > 1 /\ q = 0 => 2 * s[2] >= Base)
  BY <1>3 DEF IsDer, L
<1>6. Base \in Nat \ {0}
  BY Positive
<1> HIDE DEF p, q, r
<1>7. 2 * n < Power[L]
  <2>1. q \in Nat /\ 2 * q + 2 <= Base
    BY <1>3, <1>5, <1>6, Doubled
  <2>2. 2 * n < p * (2 * q + 2)
    <3>1. p * q \in Nat /\ p * (2 * q + 2) = 2 * (p * q) + 2 * p
      BY <1>3, <2>1
    <3> QED
      BY <1>3, <1>4, <3>1
  <2>3. p * (2 * q + 2) <= p * Base
    BY <1>3, <1>6, <2>1
  <2>4. p * Base = Base * p /\ p * Base \in Nat /\ p * (2 * q + 2) \in Nat
    BY <1>3, <1>6, <2>1
  <2> QED
    BY <1>1, <1>3, <2>2, <2>3, <2>4
<1>8. p <= 2 * n
  <2>1. CASE L = 1
    <3>1. p = 1
      BY <2>1, PowerDef DEF p
    <3> QED
      BY <1>1, <3>1
  <2>2. CASE L > 1 /\ q # 0
    <3>1. p * q >= p /\ p * q \in Nat
      BY <1>3, <2>2
    <3> QED
      BY <1>1, <1>3, <1>4, <3>1
  <2>3. CASE L > 1 /\ q = 0
    <3> DEFINE m == Power[L - 2]
               t == n \div m
               u == n % m
    <3>1. L - 2 \in Nat /\ (L - 2) + 1 = L - 1 /\ L - 1 \in Nat /\ L - 1 >= 1 /\ (L - 1) - 1 = L - 2
      BY <1>2, <2>3
    <3>2. p = Base * m /\ m \in Nat \ {0}
      BY <3>1, PowerDef DEF p
    <3>3. t \in Nat /\ u \in 0..(m - 1) /\ n = m * t + u
      BY <1>1, <3>2, Division
    <3>4. s[2] = t % Base
      <4>1. 2 \in 1..L
        BY <1>2, <2>3
      <4> QED
        BY <1>1, <4>1 DEF Fixed
    <3>5. t % Base <= t
      BY <1>6, <3>3
    <3> HIDE DEF m, t, u
    <3>6. 2 * t >= Base
      <4>1. t % Base \in Nat
        BY <1>6, <3>3
      <4> QED
        BY <1>5, <1>6, <2>3, <3>3, <3>4, <3>5, <4>1
    <3>7. m * (2 * t) >= m * Base
      BY <1>6, <3>2, <3>3, <3>6
    <3>8. m * (2 * t) = 2 * (m * t) /\ m * Base = Base * m /\ m * t \in Nat /\ m * Base \in Nat
      BY <1>6, <3>2, <3>3
    <3> QED
      BY <1>1, <3>2, <3>3, <3>7, <3>8
  <2> QED
    BY <1>2, <2>1, <2>2, <2>3
<1> QED
  BY <1>2, <1>7, <1>8 DEF n, L, p

\* Some length is that of the DER of a number.
LEMMA LengthFound ==
  ASSUME NEW n \in Numbers
  PROVE  \E L \in 1..(Width + 1) : 2 * n < Power[L] /\ Power[L - 1] <= 2 * n
<1>1. n \in Nat /\ n >= 1 /\ n < Power[Width] /\ Width \in Nat
  <2>1. Width \in Nat /\ Power[Width] \in Nat
    BY BaseAssumption, PowerDef
  <2> QED
    BY <2>1 DEF Numbers
<1> SUFFICES ASSUME \A L \in 1..(Width + 1) : ~(2 * n < Power[L] /\ Power[L - 1] <= 2 * n)
             PROVE  FALSE
  OBVIOUS
<1> DEFINE E == {k \in Nat : k <= Width + 1 => Power[k] <= 2 * n}
<1>2. 0 \in E
  BY <1>1, PowerDef
<1>3. ASSUME NEW k \in Nat, k \in E PROVE k + 1 \in E
  <2> SUFFICES ASSUME k + 1 <= Width + 1 PROVE Power[k + 1] <= 2 * n
    OBVIOUS
  <2>1. k + 1 \in 1..(Width + 1) /\ (k + 1) - 1 = k /\ k <= Width + 1
    BY <1>1
  <2>2. Power[k] <= 2 * n
    BY <1>3, <2>1
  <2>3. ~(2 * n < Power[k + 1])
    BY <2>1, <2>2
  <2>4. Power[k + 1] \in Nat
    BY PowerDef
  <2> QED
    BY <1>1, <2>3, <2>4
<1>4. Power[Width + 1] <= 2 * n
  <2>1. Nat \subseteq E
    <3> HIDE DEF E
    <3> QED
      BY <1>2, <1>3, AllNumbers
  <2> QED
    BY <1>1, <2>1
<1>5. Power[Width + 1] >= 2 * Power[Width] /\ Power[Width] \in Nat /\ Power[Width + 1] \in Nat
  <2>1. Power[Width] \in Nat /\ Power[Width + 1] = Base * Power[Width] /\ Base \in Nat /\ Base >= 2
    BY <1>1, PowerDef, Positive
  <2>2. ASSUME NEW p \in Nat, NEW b \in Nat, b >= 2 PROVE b * p >= 2 * p /\ b * p \in Nat
    BY <2>2
  <2> QED
    BY <2>1, <2>2
<1> QED
  BY <1>1, <1>4, <1>5

\* So many bytes of the number are its DER.
LEMMA DerFound ==
  ASSUME NEW n \in Nat, n >= 1, NEW L \in Nat, L >= 1,
         2 * n < Power[L], Power[L - 1] <= 2 * n
  PROVE  IsDer(Fixed(n, L)) /\ n < Power[L]
<1> DEFINE s == Fixed(n, L)
           p == Power[L - 1]
           q == n \div p
           r == n % p
<1>1. n < Power[L]
  <2>1. Power[L] \in Nat
    BY PowerDef
  <2> QED
    BY <2>1
<1>2. s \in Seq(Nat) /\ Len(s) = L /\ s # <<>>
  <2>1. s \in Seq(Nat) /\ Len(s) = L
    BY FixedIs, SomeBytes
  <2> HIDE DEF s
  <2> QED
    BY <2>1, EmptySeq
<1>3. Power[L] = Base * p /\ p \in Nat \ {0} /\ q \in 0..(Base - 1) /\ s[1] = q
  BY <1>1, TopByte
<1>4. r \in 0..(p - 1) /\ n = p * q + r /\ p <= 2 * n
  BY <1>3, Division
<1>5. Base \in Nat \ {0}
  BY Positive
<1>6. 2 * n < Base * p
  BY <1>3
<1>7. ASSUME L > 1, q = 0 PROVE 2 * s[2] >= Base
  <2> DEFINE m == Power[L - 2]
             t == n \div m
  <2>1. /\ L - 2 \in Nat /\ (L - 2) + 1 = L - 1 /\ L - 1 \in Nat /\ L - 1 >= 1 /\ (L - 1) - 1 = L - 2
        /\ 2 \in 1..L
    BY <1>7
  <2>2. n < Power[L - 1]
    BY <1>3, <1>7, Below
  <2>3. p = Base * m /\ m \in Nat \ {0} /\ t \in 0..(Base - 1)
    BY <2>1, <2>2, TopByte
  <2>4. s[2] = t
    <3>1. s[2] = t % Base
      BY <2>1 DEF Fixed
    <3>2. t % Base = t
      BY <1>5, <2>3
    <3> QED
      BY <3>1, <3>2
  <2>5. n \div m = t /\ n % m \in 0..(m - 1) /\ n = m * t + (n % m)
    BY <2>3, Division
  <2> DEFINE u == n % m
  <2>6. u \in 0..(m - 1) /\ n = m * t + u
    BY <2>5
  <2> HIDE DEF m, t, u, p, q, r, s
  <2>7. 2 * t + 2 > Base
    <3> SUFFICES ASSUME 2 * t + 2 <= Base PROVE FALSE
      BY <1>5, <2>3
    <3>1. m * (2 * t + 2) <= m * Base
      BY <1>5, <2>3
    <3>2. m * (2 * t + 2) = 2 * (m * t) + 2 * m /\ m * t \in Nat /\ m * Base = Base * m
      BY <1>5, <2>3
    <3>3. 2 * n < m * (2 * t + 2)
      BY <2>3, <2>6, <3>2
    <3> QED
      BY <1>4, <1>5, <2>3, <2>6, <3>1, <3>2, <3>3
  <2>8. 2 * t >= Base
    BY <1>5, <2>3, <2>7, Doubled
  <2> QED
    BY <2>4, <2>8
<1>8. 2 * q < Base
  <2> HIDE DEF p, q, r, s
  <2> SUFFICES ASSUME 2 * q >= Base PROVE FALSE
    BY <1>3, <1>5
  <2>1. p * (2 * q) >= p * Base
    BY <1>3, <1>5
  <2>2. p * (2 * q) = 2 * (p * q) /\ p * q \in Nat /\ p * Base = Base * p /\ Base * p \in Nat
    BY <1>3, <1>5
  <2> QED
    BY <1>3, <1>4, <1>6, <2>1, <2>2
<1> HIDE DEF s, q, p, r
<1>9. IsDer(s)
  BY <1>2, <1>3, <1>7, <1>8 DEF IsDer
<1> QED
  BY <1>1, <1>9 DEF s

\* Each number has one DER form.
LEMMA OneDer ==
  ASSUME NEW n \in Numbers
  PROVE  \E s : Ders(n) = {s}
<1>1. n \in Nat /\ n >= 1 /\ Width \in Nat
  BY BaseAssumption, PowerDef DEF Numbers
<1>2. PICK L \in 1..(Width + 1) : 2 * n < Power[L] /\ Power[L - 1] <= 2 * n
  BY LengthFound
<1>3. L \in Nat /\ L >= 1 /\ L <= Width + 1 /\ Width + 1 \in Nat
  BY <1>1
<1> DEFINE s == Fixed(n, L)
<1>4. IsDer(s) /\ n < Power[L]
  BY <1>1, <1>2, <1>3, DerFound
<1>5. s \in Bytes /\ Len(s) = L /\ Number(s) = n
  BY <1>1, <1>3, <1>4, FixedIs, NumberOfFixed
<1>6. s \in Ders(n)
  BY <1>3, <1>4, <1>5, ShortIs DEF Ders
<1>7. ASSUME NEW t \in Ders(n) PROVE t = s
  <2>1. t \in Bytes /\ IsDer(t) /\ Number(t) = n
    BY <1>3, ShortIs DEF Ders
  <2> DEFINE M == Len(t)
  <2>2. M \in Nat /\ M >= 1 /\ 2 * n < Power[M] /\ Power[M - 1] <= 2 * n
    BY <1>1, <2>1, DerLength
  <2>3. t = Fixed(n, M)
    BY <2>1, NumberIs
  <2> HIDE DEF M
  <2>4. Power[M] \in Nat /\ Power[L] \in Nat /\ Power[M - 1] \in Nat /\ Power[L - 1] \in Nat
    BY <1>3, <2>2, PowerDef
  <2>5. ~(L < M)
    <3> SUFFICES ASSUME L < M PROVE FALSE
      OBVIOUS
    <3>1. M - 1 \in Nat /\ L <= M - 1
      BY <1>3, <2>2
    <3>2. Power[L] <= Power[M - 1]
      BY <1>3, <3>1, PowersGrow
    <3> QED
      BY <1>1, <1>2, <2>2, <2>4, <3>2
  <2>6. ~(M < L)
    <3> SUFFICES ASSUME M < L PROVE FALSE
      OBVIOUS
    <3>1. L - 1 \in Nat /\ M <= L - 1
      BY <1>3, <2>2
    <3>2. Power[M] <= Power[L - 1]
      BY <2>2, <3>1, PowersGrow
    <3> QED
      BY <1>1, <1>2, <2>2, <2>4, <3>2
  <2>7. M = L
    BY <1>3, <2>2, <2>5, <2>6
  <2> QED
    BY <2>3, <2>7
<1> QED
  BY <1>6, <1>7

\* The fixed width has the two numbers of a signature whole, whatever they are.
THEOREM SignatureWhole ==
  ASSUME NEW r \in Numbers, NEW s \in Numbers, NEW d \in Ders(r) \X Ders(s)
  PROVE  LET raw == ecdsa_der_to_raw96(d) IN
         /\ raw \in Seq(Nat) /\ Len(raw) = 2 * Width
         /\ Number(SubSeq(raw, 1, Width)) = r /\ Number(SubSeq(raw, Width + 1, 2 * Width)) = s
<1>1. /\ r \in Nat /\ r < Power[Width] /\ s \in Nat /\ s < Power[Width]
      /\ r \in 1..(Power[Width] - 1) /\ s \in 1..(Power[Width] - 1) /\ Width \in Nat
  BY BaseAssumption, PowerDef DEF Numbers
<1>2. IsDer(d[1]) /\ Number(d[1]) = r /\ IsDer(d[2]) /\ Number(d[2]) = s
  BY DEF Ders
<1> DEFINE a == Fixed(r, Width)
           b == Fixed(s, Width)
<1>3. ecdsa_der_to_raw96(d) = a \o b
  <2>1. \A n \in {1, 2} : IsDer(d[n]) /\ Number(d[n]) \in 1..(Power[Width] - 1)
    BY <1>1, <1>2
  <2> QED
    BY <1>2, <2>1 DEF ecdsa_der_to_raw96
<1>4. /\ a \in Seq(Nat) /\ Len(a) = Width /\ Number(a) = r
      /\ b \in Seq(Nat) /\ Len(b) = Width /\ Number(b) = s
  BY <1>1, FixedIs, SomeBytes, NumberOfFixed
<1> HIDE DEF a, b
<1> DEFINE raw == a \o b
<1>5. /\ raw \in Seq(Nat) /\ Len(raw) = Len(a) + Len(b)
      /\ SubSeq(raw, 1, Len(a)) = a /\ SubSeq(raw, Len(a) + 1, Len(a) + Len(b)) = b
  BY <1>4, Joined
<1> HIDE DEF raw
<1>6. Len(a) = Width /\ Len(a) + 1 = Width + 1 /\ Len(a) + Len(b) = 2 * Width
  BY <1>1, <1>4
<1>7. /\ raw \in Seq(Nat) /\ Len(raw) = 2 * Width
      /\ SubSeq(raw, 1, Width) = a /\ SubSeq(raw, Width + 1, 2 * Width) = b
  BY <1>5, <1>6
<1>8. ecdsa_der_to_raw96(d) = raw
  BY <1>3 DEF raw
<1> QED
  BY <1>4, <1>7, <1>8

\* SignaturesWhole is the case of some numbers.
LEMMA AllSignatures == SignaturesWhole
<1>1. ASSUME NEW n \in Numbers PROVE Cardinality(Ders(n)) = 1
  BY OneDer, FS_Singleton
<1>2. ASSUME NEW r \in {1, Base - 1, Power[Width - 1], Power[Width] - 1} PROVE r \in Numbers
  <2> DEFINE w == Width - 1
             p == Power[w]
             q == Power[Width]
  <2>1. w \in Nat /\ w + 1 = Width /\ Width \in Nat
    BY BaseAssumption
  <2>2. p \in Nat \ {0} /\ q \in Nat /\ q = Base * p /\ Base \in Nat /\ Base >= 2
    BY <2>1, PowerDef, Positive
  <2>3. r \in {1, Base - 1, p, q - 1} /\ Numbers = 1..(q - 1)
    BY DEF Numbers
  <2> HIDE DEF p, q
  <2>4. q >= Base /\ q >= 2 * p
    <3>1. ASSUME NEW b \in Nat, NEW m \in Nat, b >= 2, m >= 1 PROVE b * m >= b /\ b * m >= 2 * m
      BY <3>1
    <3>2. p \in Nat /\ p >= 1
      BY <2>2
    <3> QED
      BY <2>2, <3>1, <3>2
  <2> QED
    BY <2>2, <2>3, <2>4
<1>3. ASSUME NEW r \in {1, Base - 1, Power[Width - 1], Power[Width] - 1},
             NEW s \in {1, Base - 1, Power[Width - 1], Power[Width] - 1},
             NEW d \in Ders(r) \X Ders(s)
      PROVE  LET raw == ecdsa_der_to_raw96(d) IN
             /\ Len(raw) = 2 * Width
             /\ Number(SubSeq(raw, 1, Width)) = r /\ Number(SubSeq(raw, Width + 1, 2 * Width)) = s
  <2>1. r \in Numbers /\ s \in Numbers
    BY <1>2
  <2> QED
    BY <2>1, SignatureWhole
<1>4. ASSUME NEW n \in Numbers, NEW d \in Ders(n) PROVE ecdsa_der_to_raw96(<<d, d>>) # Err
  <2> DEFINE raw == ecdsa_der_to_raw96(<<d, d>>)
  <2>1. raw \in Seq(Nat)
    <3>1. <<d, d>> \in Ders(n) \X Ders(n)
      OBVIOUS
    <3> QED
      BY <3>1, SignatureWhole
  <2> QED
    BY <2>1, ErrIsNone
<1>5. Err \notin {ecdsa_der_to_raw96(<<d, d>>) : d \in UNION {Ders(n) : n \in Numbers}}
  BY <1>4
<1> QED
  BY <1>1, <1>3, <1>5 DEF SignaturesWhole

\* LengthsKept is the case of some lengths.
LEMMA AllLengths == LengthsKept
<1> SUFFICES ASSUME NEW n \in 0..300 \cup {Power[7] - 1, Power[7], Power[8] \div 2 - 1, Power[8] \div 2, Power[8] - 1}
             PROVE  Number(Reverse(le64(n))) = n % (Power[8] \div 2)
  BY DEF LengthsKept
<1>1. Power[7] \in Nat \ {0} /\ Power[8] \in Nat \ {0}
  BY PowerDef
<1>2. n \in Nat
  BY <1>1, PowersBig
<1> QED
  BY <1>2, LengthKept

\* What crate token makes and takes apart itself keeps what it stands for, for
\* any base, lengths, headers, prefixes and curve.
THEOREM BytesCorrect == Spec => []BytesTrue
<1>1. EncodingsTrue
  BY AllLengths, SmallSigned, AllSignatures, KeysDecoded, AllSplit DEF EncodingsTrue
<1>2. BytesTrue
  BY <1>1 DEF BytesTrue
<1> QED
  BY <1>2, PTL
=============================================================================
