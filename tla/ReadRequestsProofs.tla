------------------------ MODULE ReadRequestsProofs -------------------------
(***************************************************************************)
(* Proofs about the requests of DynamoReads.  First what holds of any      *)
(* request and of any items: the order of a list is one, a page is the     *)
(* front of it, what a request selects does not depend on where it starts. *)
(* Then, whatever the arguments, what each function asks for is what its   *)
(* caller means by them.                                                   *)
(***************************************************************************)
EXTENDS DynamoReads, FiniteSetTheorems, TLAPS

-----------------------------------------------------------------------------
(* The order of texts *)

\* s comes before t by its n first codes, which they share, and the next one.
Splits(s, t, n) ==
  /\ n < Len(t) /\ \A k \in 1..n : s[k] = t[k]
  /\ n < Len(s) => s[n + 1] < t[n + 1]

\* Two texts begin alike as far as their codes are the same.
LEMMA SameFront ==
  ASSUME NEW s \in Texts, NEW t \in Texts, NEW n \in Nat, n <= Len(s), n <= Len(t)
  PROVE  SubSeq(s, 1, n) = SubSeq(t, 1, n) <=> \A k \in 1..n : s[k] = t[k]
<1>1. /\ SubSeq(s, 1, n) = [k \in 1..n |-> s[k]]
      /\ SubSeq(t, 1, n) = [k \in 1..n |-> t[k]]
  BY DEF Texts
<1> QED BY <1>1

\* The order compares the first code that is not the same.
LEMMA LessSplits ==
  ASSUME NEW s \in Texts, NEW t \in Texts
  PROVE  Less(s, t) <=> \E n \in 0..Len(s) : Splits(s, t, n)
<1>1. Len(s) \in Nat /\ Len(t) \in Nat
  BY DEF Texts
<1>2. ASSUME NEW n \in 0..Len(s)
      PROVE  (n < Len(t) /\ SubSeq(s, 1, n) = SubSeq(t, 1, n)) <=>
             (n < Len(t) /\ \A k \in 1..n : s[k] = t[k])
  <2>1. n \in Nat /\ n <= Len(s)
    BY <1>1
  <2>2. CASE n < Len(t)
    <3>1. n <= Len(t)
      BY <1>1, <2>1, <2>2
    <3> QED BY <2>1, <3>1, SameFront
  <2> QED BY <2>2
<1> QED BY <1>2 DEF Less, Splits

\* No text comes before itself.
LEMMA LessNever ==
  ASSUME NEW s \in Texts
  PROVE  ~Less(s, s)
<1>1. Len(s) \in Nat /\ \A k \in 1..Len(s) : s[k] \in Nat
  BY DEF Texts
<1>2. ASSUME NEW n \in 0..Len(s), Splits(s, s, n) PROVE FALSE
  BY <1>1, <1>2 DEF Splits
<1> QED BY <1>2, LessSplits

\* What comes before a text that comes before a third comes before that.
LEMMA LessFollows ==
  ASSUME NEW s \in Texts, NEW t \in Texts, NEW u \in Texts, Less(s, t), Less(t, u)
  PROVE  Less(s, u)
<1>1. /\ Len(s) \in Nat /\ \A k \in 1..Len(s) : s[k] \in Nat
      /\ Len(t) \in Nat /\ \A k \in 1..Len(t) : t[k] \in Nat
      /\ Len(u) \in Nat /\ \A k \in 1..Len(u) : u[k] \in Nat
  BY DEF Texts
<1>2. PICK m \in 0..Len(s) : Splits(s, t, m)
  BY LessSplits
<1>3. PICK n \in 0..Len(t) : Splits(t, u, n)
  BY LessSplits
<1>4. CASE m <= n
  <2>1. m < Len(u) /\ \A k \in 1..m : s[k] = u[k]
    BY <1>1, <1>2, <1>3, <1>4 DEF Splits
  <2>2. m < Len(s) => s[m + 1] < u[m + 1]
    BY <1>1, <1>2, <1>3, <1>4 DEF Splits
  <2>3. Splits(s, u, m)
    BY <2>1, <2>2 DEF Splits
  <2> QED BY <2>3, LessSplits
<1>5. CASE n < m
  <2>1. n \in 0..Len(s) /\ n < Len(u) /\ \A k \in 1..n : s[k] = u[k]
    BY <1>1, <1>2, <1>3, <1>5 DEF Splits
  <2>2. n < Len(s) => s[n + 1] < u[n + 1]
    BY <1>1, <1>2, <1>3, <1>5 DEF Splits
  <2>3. Splits(s, u, n)
    BY <2>1, <2>2 DEF Splits
  <2> QED BY <2>1, <2>3, LessSplits
<1> QED BY <1>1, <1>4, <1>5

-----------------------------------------------------------------------------
(* Finite sets in an order: R holds the pairs whose first comes first *)

Ordered(D, R) ==
  /\ \A i \in D : <<i, i>> \notin R
  /\ \A i, j, k \in D : <<i, j>> \in R /\ <<j, k>> \in R => <<i, k>> \in R
  /\ \A i, j \in D : i # j => <<i, j>> \in R \/ <<j, i>> \in R

Ahead(D, R, i) == {j \in D : <<j, i>> \in R}
Rank(D, R) == [i \in D |-> Cardinality(Ahead(D, R, i))]

\* What comes first has less ahead of it.
LEMMA RanksGrow ==
  ASSUME NEW D, NEW R, IsFiniteSet(D), Ordered(D, R)
  PROVE  /\ \A i \in D : Rank(D, R)[i] \in 0..(Cardinality(D) - 1)
         /\ \A i, j \in D : <<i, j>> \in R => Rank(D, R)[i] < Rank(D, R)[j]
<1>1. ASSUME NEW i \in D
      PROVE  /\ IsFiniteSet(Ahead(D, R, i)) /\ Cardinality(Ahead(D, R, i)) \in Nat
             /\ Cardinality(Ahead(D, R, i)) <= Cardinality(D) - 1
  <2>1. IsFiniteSet(D \ {i}) /\ Cardinality(D \ {i}) = Cardinality(D) - 1
    BY FS_RemoveElement
  <2>2. Ahead(D, R, i) \in SUBSET (D \ {i})
    BY DEF Ahead, Ordered
  <2>3. IsFiniteSet(Ahead(D, R, i)) /\ Cardinality(Ahead(D, R, i)) <= Cardinality(D \ {i})
    BY <2>1, <2>2, FS_Subset
  <2>4. Cardinality(Ahead(D, R, i)) \in Nat
    BY <2>3, FS_CardinalityType
  <2> QED BY <2>1, <2>3, <2>4
<1>2. Cardinality(D) \in Nat
  BY FS_CardinalityType
<1>3. ASSUME NEW i \in D, NEW j \in D, <<i, j>> \in R
      PROVE  Cardinality(Ahead(D, R, i)) < Cardinality(Ahead(D, R, j))
  <2>1. Ahead(D, R, i) \in SUBSET Ahead(D, R, j)
    BY <1>3 DEF Ahead, Ordered
  <2>2. i \in Ahead(D, R, j) /\ i \notin Ahead(D, R, i)
    BY <1>3 DEF Ahead, Ordered
  <2>3. Ahead(D, R, i) # Ahead(D, R, j)
    BY <2>2
  <2>4. /\ Cardinality(Ahead(D, R, i)) <= Cardinality(Ahead(D, R, j))
        /\ Cardinality(Ahead(D, R, j)) # Cardinality(Ahead(D, R, i))
    BY <1>1, <2>1, <2>3, FS_Subset
  <2> QED BY <1>1, <2>4
<1> QED BY <1>1, <1>2, <1>3 DEF Rank

\* Every rank is taken: were one not, two would have the same.
LEMMA RanksTaken ==
  ASSUME NEW D, NEW R, IsFiniteSet(D), Ordered(D, R), NEW n \in 0..(Cardinality(D) - 1)
  PROVE  \E i \in D : Rank(D, R)[i] = n
<1> SUFFICES ASSUME \A i \in D : Rank(D, R)[i] # n PROVE FALSE
  OBVIOUS
<1> DEFINE N == 0..(Cardinality(D) - 1)
<1>1. Cardinality(D) \in Nat
  BY FS_CardinalityType
<1>2. IsFiniteSet(N) /\ Cardinality(N) = Cardinality(D)
  <2>1. 0 \in Int /\ Cardinality(D) - 1 \in Int
    BY <1>1
  <2>2. IsFiniteSet(N) /\ Cardinality(N) = IF 0 > Cardinality(D) - 1 THEN 0 ELSE Cardinality(D) - 1 - 0 + 1
    BY <2>1, FS_Interval
  <2> QED BY <1>1, <2>2
<1>3. IsFiniteSet(N \ {n}) /\ Cardinality(N \ {n}) = Cardinality(D) - 1
  BY <1>2, FS_RemoveElement
<1>4. Cardinality(N \ {n}) < Cardinality(D)
  BY <1>1, <1>3
<1>5. Rank(D, R) \in [D -> N \ {n}]
  BY RanksGrow DEF Rank
<1>6. PICK i \in D, j \in D : i # j /\ Rank(D, R)[i] = Rank(D, R)[j]
  BY <1>3, <1>4, <1>5, FS_PigeonHole
<1>7. <<i, j>> \in R \/ <<j, i>> \in R
  BY <1>6 DEF Ordered
<1>8. Rank(D, R)[i] \in N /\ Rank(D, R)[j] \in N
  BY RanksGrow
<1> QED BY <1>1, <1>6, <1>7, <1>8, RanksGrow

\* A finite set that is not empty has a last element.
LEMMA LastOne ==
  ASSUME NEW D, NEW R, IsFiniteSet(D), Ordered(D, R), D # {}
  PROVE  \E i \in D : \A j \in D \ {i} : <<j, i>> \in R
<1>1. Cardinality(D) \in Nat /\ Cardinality(D) # 0
  BY FS_CardinalityType, FS_EmptySet
<1>2. PICK i \in D : Rank(D, R)[i] = Cardinality(D) - 1
  BY <1>1, RanksTaken
<1>3. IsFiniteSet(D \ {i}) /\ Cardinality(D \ {i}) = Cardinality(D) - 1
  BY FS_RemoveElement
<1>4. Ahead(D, R, i) \in SUBSET (D \ {i})
  BY DEF Ahead, Ordered
<1>5. Cardinality(D \ {i}) = Cardinality(Ahead(D, R, i))
  BY <1>2, <1>3 DEF Rank
<1>6. D \ {i} = Ahead(D, R, i)
  BY <1>3, <1>4, <1>5, FS_Subset
<1> QED BY <1>6 DEF Ahead

\* It has a first one, too.
LEMMA FirstOne ==
  ASSUME NEW D, NEW R, IsFiniteSet(D), Ordered(D, R), D # {}
  PROVE  \E i \in D : \A j \in D \ {i} : <<i, j>> \in R
<1>1. Cardinality(D) \in Nat /\ Cardinality(D) # 0
  BY FS_CardinalityType, FS_EmptySet
<1>2. PICK i \in D : Rank(D, R)[i] = 0
  BY <1>1, RanksTaken
<1>3. ASSUME NEW j \in D \ {i}, <<j, i>> \in R PROVE FALSE
  <2>1. Rank(D, R)[j] < 0 /\ Rank(D, R)[j] \in 0..(Cardinality(D) - 1)
    BY <1>2, <1>3, RanksGrow
  <2> QED BY <1>1, <2>1
<1> QED BY <1>3 DEF Ordered

\* The n first.
FrontOf(D, R, n) == {i \in D : Cardinality(Ahead(D, R, i)) < n}

\* If they are fewer than n they are all, if not
\* there is a last one among them; and they come before all others.
LEMMA FrontIsFirst ==
  ASSUME NEW D, NEW R, IsFiniteSet(D), Ordered(D, R), NEW n \in Nat \ {0}
  PROVE  /\ Cardinality(FrontOf(D, R, n)) < n => FrontOf(D, R, n) = D
         /\ ~(Cardinality(FrontOf(D, R, n)) < n) =>
              \E i \in FrontOf(D, R, n) : \A j \in FrontOf(D, R, n) \ {i} : <<j, i>> \in R
         /\ \A i \in FrontOf(D, R, n), j \in D \ FrontOf(D, R, n) : <<i, j>> \in R
<1> DEFINE F == FrontOf(D, R, n)
<1>1. F = {i \in D : Rank(D, R)[i] < n} /\ F \in SUBSET D
  BY DEF Rank, FrontOf
<1> HIDE DEF F
<1>2. IsFiniteSet(F) /\ Cardinality(F) \in Nat /\ Cardinality(D) \in Nat
  BY <1>1, FS_Subset, FS_CardinalityType
<1>3. \A i \in D : Rank(D, R)[i] \in Int
  BY RanksGrow
<1>4. ASSUME NEW i \in F, NEW j \in D \ F PROVE <<i, j>> \in R
  <2>1. Rank(D, R)[i] < Rank(D, R)[j] /\ i # j /\ i \in D
    BY <1>1, <1>3, <1>4
  <2>2. <<j, i>> \notin R
    <3> SUFFICES ASSUME <<j, i>> \in R PROVE FALSE
      OBVIOUS
    <3>1. Rank(D, R)[j] < Rank(D, R)[i]
      BY <2>1, RanksGrow
    <3> QED BY <1>3, <2>1, <3>1
  <2> QED BY <2>1, <2>2 DEF Ordered
<1>5. ASSUME Cardinality(F) < n PROVE F = D
  <2> SUFFICES ASSUME F # D PROVE FALSE
    OBVIOUS
  <2>1. PICK j \in D : j \notin F
    BY <1>1
  <2>2. Rank(D, R)[j] \in 0..(Cardinality(D) - 1) /\ n <= Rank(D, R)[j]
    BY <1>1, <2>1, RanksGrow
  <2> DEFINE N == 0..(n - 1)
  <2>3. IsFiniteSet(N) /\ Cardinality(N) = n
    <3>1. 0 \in Int /\ n - 1 \in Int
      OBVIOUS
    <3>2. IsFiniteSet(N) /\ Cardinality(N) = IF 0 > n - 1 THEN 0 ELSE n - 1 - 0 + 1
      BY <3>1, FS_Interval
    <3> QED BY <3>2
  <2>4. \A m \in N : \E i \in D : Rank(D, R)[i] = m
    <3>1. \A m \in N : m \in 0..(Cardinality(D) - 1)
      BY <1>2, <2>2
    <3> QED BY <3>1, RanksTaken
  <2> DEFINE g == [m \in N |-> CHOOSE i \in D : Rank(D, R)[i] = m]
  <2>5. \A m \in N : g[m] \in D /\ Rank(D, R)[g[m]] = m
    BY <2>4
  <2>6. g \in [N -> F]
    BY <1>1, <2>5
  <2>7. PICK a \in N, b \in N : a # b /\ g[a] = g[b]
    <3>1. Cardinality(F) < Cardinality(N)
      BY <1>5, <2>3
    <3> HIDE DEF g, N
    <3> QED BY <1>2, <2>3, <2>6, <3>1, FS_PigeonHole
  <2> HIDE DEF g
  <2> QED BY <2>5, <2>7
<1>6. ASSUME ~(Cardinality(F) < n) PROVE \E i \in F : \A j \in F \ {i} : <<j, i>> \in R
  <2>1. F # {}
    BY <1>6, FS_EmptySet
  <2>2. Ordered(F, R)
    BY <1>1 DEF Ordered
  <2> QED BY <1>2, <2>1, <2>2, LastOne
<1> QED BY <1>4, <1>5, <1>6 DEF F

-----------------------------------------------------------------------------
(* The order of a list *)

\* Of two texts that are not the same one comes first: at the first code that
\* is not the same, or where the shorter ends.
LEMMA LessEither ==
  ASSUME NEW s \in Texts, NEW t \in Texts, s # t
  PROVE  Less(s, t) \/ Less(t, s)
<1>1. /\ Len(s) \in Nat /\ \A k \in 1..Len(s) : s[k] \in Nat
      /\ Len(t) \in Nat /\ \A k \in 1..Len(t) : t[k] \in Nat
      /\ DOMAIN s = 1..Len(s) /\ DOMAIN t = 1..Len(t)
      /\ s = [k \in DOMAIN s |-> s[k]] /\ t = [k \in DOMAIN t |-> t[k]]
  BY DEF Texts
<1>2. CASE \E k \in (1..Len(s)) \cap (1..Len(t)) : s[k] # t[k]
  <2> DEFINE Both == (1..Len(s)) \cap (1..Len(t))
             D == {k \in Both : s[k] # t[k]}
             R == {p \in D \X D : p[1] < p[2]}
  <2>1. IsFiniteSet(D)
    <3>1. IsFiniteSet(1..Len(s))
      <4>1. 1 \in Int /\ Len(s) \in Int
        BY <1>1
      <4> QED BY <4>1, FS_Interval
    <3>2. D \in SUBSET (1..Len(s))
      OBVIOUS
    <3> HIDE DEF D
    <3> QED BY <3>1, <3>2, FS_Subset
  <2>2. Ordered(D, R)
    <3>1. \A i \in D : i \in Int
      BY <1>1
    <3>2. \A i, j \in D : <<i, j>> \in R <=> i < j
      OBVIOUS
    <3> HIDE DEF D, R
    <3> QED BY <3>1, <3>2 DEF Ordered
  <2>3. D # {}
    BY <1>2
  <2>4. PICK f \in D : \A j \in D \ {f} : <<f, j>> \in R
    <3> HIDE DEF D, R
    <3> QED BY <2>1, <2>2, <2>3, FirstOne
  <2>5. \A j \in D \ {f} : f < j
    BY <2>4
  <2>6. f \in Nat /\ f >= 1 /\ f <= Len(s) /\ f <= Len(t) /\ s[f] # t[f]
    BY <1>1
  <2>7. \A k \in 1..(f - 1) : s[k] = t[k]
    <3> TAKE k \in 1..(f - 1)
    <3>1. k \in Both /\ k < f
      BY <1>1, <2>6
    <3> QED BY <1>1, <2>5, <2>6, <3>1
  <2>8. f - 1 \in 0..Len(s) /\ f - 1 \in 0..Len(t) /\ f - 1 < Len(s) /\ f - 1 < Len(t) /\ (f - 1) + 1 = f
    BY <1>1, <2>6
  <2>9. s[f] \in Nat /\ t[f] \in Nat
    BY <1>1, <2>6
  <2>10. s[f] < t[f] \/ t[f] < s[f]
    BY <2>6, <2>9
  <2> HIDE DEF D, R
  <2>11. CASE s[f] < t[f]
    <3>1. Splits(s, t, f - 1)
      BY <2>7, <2>8, <2>11 DEF Splits
    <3> QED BY <2>8, <3>1, LessSplits
  <2>12. CASE t[f] < s[f]
    <3>1. Splits(t, s, f - 1)
      BY <2>7, <2>8, <2>12 DEF Splits
    <3> QED BY <2>8, <3>1, LessSplits
  <2> QED BY <2>10, <2>11, <2>12
<1>3. CASE \A k \in (1..Len(s)) \cap (1..Len(t)) : s[k] = t[k]
  <2>1. Len(s) # Len(t)
    <3> SUFFICES ASSUME Len(s) = Len(t) PROVE FALSE
      OBVIOUS
    <3>1. DOMAIN s = DOMAIN t /\ \A k \in DOMAIN s : s[k] = t[k]
      BY <1>1, <1>3
    <3> QED BY <1>1, <3>1
  <2>2. CASE Len(s) < Len(t)
    <3>1. Splits(s, t, Len(s)) /\ Len(s) \in 0..Len(s)
      BY <1>1, <1>3, <2>2 DEF Splits
    <3> QED BY <3>1, LessSplits
  <2>3. CASE Len(t) < Len(s)
    <3>1. Splits(t, s, Len(t)) /\ Len(t) \in 0..Len(t)
      BY <1>1, <1>3, <2>3 DEF Splits
    <3> QED BY <3>1, LessSplits
  <2>4. Len(s) < Len(t) \/ Len(t) < Len(s)
    <3>1. Len(s) \in Nat /\ Len(t) \in Nat
      BY <1>1
    <3> QED BY <2>1, <3>1
  <2> QED BY <2>2, <2>3, <2>4
<1> QED BY <1>2, <1>3

\* In the direction of the request.
Runs(r, s, t) == IF r.forward THEN Less(s, t) ELSE Less(t, s)

\* Either direction of the order is one.
LEMMA RunsOne ==
  ASSUME NEW r, NEW s \in Texts, NEW t \in Texts, NEW u \in Texts
  PROVE  /\ ~Runs(r, s, s)
         /\ Runs(r, s, t) /\ Runs(r, t, u) => Runs(r, s, u)
         /\ s # t => Runs(r, s, t) \/ Runs(r, t, s)
BY LessNever, LessFollows, LessEither DEF Runs

\* The order by one, two or three attributes, written out.
LEMMA BeforeOne ==
  ASSUME NEW r, NEW i, NEW j, NEW a, OrderBy(r) = <<a>>
  PROVE  Before(r, i, j) <=> Runs(r, i[a], j[a])
<1>1. DOMAIN OrderBy(r) = {1} /\ OrderBy(r)[1] = a /\ 1..(1 - 1) = {}
  OBVIOUS
<1> QED BY <1>1 DEF Before, Runs

\* By two attributes: the second decides where the first is the same.
LEMMA BeforeTwo ==
  ASSUME NEW r, NEW i, NEW j, NEW a, NEW b, OrderBy(r) = <<a, b>>
  PROVE  Before(r, i, j) <=> Runs(r, i[a], j[a]) \/ (i[a] = j[a] /\ Runs(r, i[b], j[b]))
<1>1. DOMAIN OrderBy(r) = {1, 2} /\ OrderBy(r)[1] = a /\ OrderBy(r)[2] = b
  OBVIOUS
<1>2. 1..(1 - 1) = {} /\ 1..(2 - 1) = {1}
  OBVIOUS
<1> QED BY <1>1, <1>2 DEF Before, Runs

\* By three attributes.
LEMMA BeforeThree ==
  ASSUME NEW r, NEW i, NEW j, NEW a, NEW b, NEW c, OrderBy(r) = <<a, b, c>>
  PROVE  Before(r, i, j) <=>
           \/ Runs(r, i[a], j[a])
           \/ i[a] = j[a] /\ Runs(r, i[b], j[b])
           \/ i[a] = j[a] /\ i[b] = j[b] /\ Runs(r, i[c], j[c])
<1>1. DOMAIN OrderBy(r) = {1, 2, 3} /\ OrderBy(r)[1] = a /\ OrderBy(r)[2] = b /\ OrderBy(r)[3] = c
  OBVIOUS
<1>2. 1..(1 - 1) = {} /\ 1..(2 - 1) = {1} /\ 1..(3 - 1) = {1, 2}
  OBVIOUS
<1> QED BY <1>1, <1>2 DEF Before, Runs

-----------------------------------------------------------------------------
(* Requests *)

Formed(r) ==
  /\ r = [op |-> r.op, index |-> r.index, cond |-> r.cond, filter |-> r.filter, names |-> r.names,
          values |-> r.values, forward |-> r.forward, limit |-> r.limit, start |-> r.start,
          keys |-> r.keys]
  /\ r.op \in {"Query", "Scan", "GetItem", "BatchGetItem"} /\ r.index \in {"table", "gsi"}
  /\ r.forward \in BOOLEAN /\ r.limit \in Nat \cup {NoLimit}
  /\ DOMAIN r.cond = 1..Len(r.cond)
  /\ r.op = "Scan" => r.cond = <<>>

\* A request for a list, of which there may be pages.
Listed(r) == r.op \in {"Query", "Scan"}

\* The same request from another place on, and from the first.
From(r, start) == [r EXCEPT !.start = start]
First(r) == From(r, NoKey)

Item == [Attributes -> Texts]

\* Only the place is another.
LEMMA FromFormed ==
  ASSUME NEW r, Formed(r), NEW start
  PROVE  /\ Formed(From(r, start)) /\ From(r, start).start = start
         /\ From(r, start).op = r.op /\ From(r, start).index = r.index
         /\ From(r, start).cond = r.cond /\ From(r, start).filter = r.filter
         /\ From(r, start).names = r.names /\ From(r, start).values = r.values
         /\ From(r, start).forward = r.forward /\ From(r, start).limit = r.limit
         /\ From(r, start).keys = r.keys
         /\ First(From(r, start)) = First(r)
<1> DEFINE whole == [op |-> r.op, index |-> r.index, cond |-> r.cond, filter |-> r.filter, names |-> r.names,
          values |-> r.values, forward |-> r.forward, limit |-> r.limit, start |-> start,
          keys |-> r.keys]
<1>1. From(r, start) = whole
  BY DEF Formed, From
<1>2. First(r) = [whole EXCEPT !.start = NoKey]
  BY DEF Formed, From, First
<1>3. First(From(r, start)) = [whole EXCEPT !.start = NoKey]
  BY <1>1 DEF From, First
<1>4. First(From(r, start)) = First(r)
  BY <1>2, <1>3
<1>5. whole = [op |-> whole.op, index |-> whole.index, cond |-> whole.cond, filter |-> whole.filter,
          names |-> whole.names, values |-> whole.values, forward |-> whole.forward,
          limit |-> whole.limit, start |-> whole.start, keys |-> whole.keys]
  OBVIOUS
<1>6. Formed(whole)
  BY <1>5 DEF Formed
<1> QED BY <1>1, <1>4, <1>6

\* What a condition says does not depend on the place.
LEMMA FromHolds ==
  ASSUME NEW r, Formed(r), NEW start, NEW e, NEW i
  PROVE  Holds(From(r, start), e, i) <=> Holds(r, e, i)
<1>1. From(r, start).names = r.names /\ From(r, start).values = r.values
  BY FromFormed
<1>2. \A c : Operands(From(r, start), c) = Operands(r, c)
  BY <1>1 DEF Operands
<1>3. \A name : AttributeOf(From(r, start), name) = AttributeOf(r, name)
  BY <1>1 DEF AttributeOf
<1> QED BY <1>2, <1>3 DEF Holds

\* Nor does the order.
LEMMA FromBefore ==
  ASSUME NEW r, Formed(r), NEW start, NEW i, NEW j
  PROVE  Before(From(r, start), i, j) <=> Before(r, i, j)
<1>1. /\ From(r, start).op = r.op /\ From(r, start).index = r.index
      /\ From(r, start).forward = r.forward
  BY FromFormed
<1>2. OrderBy(From(r, start)) = OrderBy(r)
  BY <1>1 DEF OrderBy
<1> QED BY <1>1, <1>2 DEF Before

\* Whether DynamoDB takes the request depends on it only as far as the place
\* itself goes.
Starts(r) ==
  r.start # NoKey =>
    /\ DOMAIN r.start = KeyAttributes(r.index)
    /\ r.op = "Query" => Holds(r, r.cond, r.start)

\* A request is taken if it would be from the first page on, and its place is
\* one of its list.
LEMMA FromFits ==
  ASSUME NEW r, Formed(r)
  PROVE  Fits(r) <=> Fits(First(r)) /\ Starts(r)
<1> DEFINE f == First(r)
<1>1. /\ f.start = NoKey
      /\ f.op = r.op /\ f.index = r.index
      /\ f.cond = r.cond /\ f.filter = r.filter
      /\ f.names = r.names /\ f.values = r.values
      /\ f.limit = r.limit /\ f.keys = r.keys
  BY FromFormed DEF First
<1>2. \A c : Operands(f, c) = Operands(r, c)
  BY <1>1 DEF Operands
<1>3. \A name : AttributeOf(f, name) = AttributeOf(r, name)
  BY <1>1 DEF AttributeOf
<1> HIDE DEF f
<1>4. Fits(r) <=> Fits(f) /\ Starts(r)
  BY <1>1, <1>2, <1>3 DEF Fits, Starts
<1> QED BY <1>4 DEF f

-----------------------------------------------------------------------------
(* Places in a list *)

\* What the order looks at is in the key of the index.
LEMMA KeyHasOrder ==
  ASSUME NEW r, r.index \in {"table", "gsi"}
  PROVE  /\ KeyAttributes(r.index) \subseteq Attributes
         /\ \A n \in DOMAIN OrderBy(r) : OrderBy(r)[n] \in KeyAttributes(r.index)
         /\ OrderBy(r) \in {<<"pk", "sk">>, <<"gsk", "pk", "sk">>, <<"sk">>}
<1>1. ToSet(<<"pk", "sk">>) = {"pk", "sk"} /\ ToSet(<<"gpk", "gsk">>) = {"gpk", "gsk"}
  BY DEF ToSet
<1>2. KeyAttributes("table") = {"pk", "sk"} /\ KeyAttributes("gsi") = {"pk", "sk", "gpk", "gsk"}
  BY <1>1 DEF KeyAttributes, KeyOfIndex, PrimaryKey
<1>3. CASE r.op = "Scan"
  <2>1. OrderBy(r) = <<"pk", "sk">>
    BY <1>3 DEF OrderBy
  <2>2. CASE r.index = "table"
    BY <1>2, <2>1, <2>2 DEF Attributes
  <2>3. CASE r.index = "gsi"
    BY <1>2, <2>1, <2>3 DEF Attributes
  <2> QED BY <2>2, <2>3
<1>4. CASE r.op # "Scan" /\ r.index = "gsi"
  <2>1. OrderBy(r) = <<"gsk", "pk", "sk">>
    BY <1>4 DEF OrderBy
  <2> QED BY <1>2, <1>4, <2>1 DEF Attributes
<1>5. CASE r.op # "Scan" /\ r.index = "table"
  <2>1. OrderBy(r) = <<"sk">>
    BY <1>5 DEF OrderBy
  <2> QED BY <1>2, <1>5, <2>1 DEF Attributes
<1> QED BY <1>3, <1>4, <1>5

\* An item and its key are at the same place.
LEMMA KeyBefore ==
  ASSUME NEW r, r.index \in {"table", "gsi"}, NEW i, NEW j
  PROVE  /\ Before(r, KeyIn(r.index, i), j) <=> Before(r, i, j)
         /\ Before(r, j, KeyIn(r.index, i)) <=> Before(r, j, i)
<1>1. \A a \in KeyAttributes(r.index) : KeyIn(r.index, i)[a] = i[a]
  BY DEF KeyIn
<1>2. OrderBy(r) \in {<<"pk", "sk">>, <<"gsk", "pk", "sk">>, <<"sk">>}
  BY KeyHasOrder
<1>3. \A n \in DOMAIN OrderBy(r) : OrderBy(r)[n] \in KeyAttributes(r.index)
  BY KeyHasOrder
<1>4. \A n \in DOMAIN OrderBy(r) : \A m \in 1..(n - 1) : m \in DOMAIN OrderBy(r)
  BY <1>2
<1> QED BY <1>1, <1>3, <1>4 DEF Before

\* Items with the same key in the index are at the same place.
LEMMA SameBefore ==
  ASSUME NEW r, r.index \in {"table", "gsi"}, NEW i, NEW j, NEW k,
         KeyIn(r.index, i) = KeyIn(r.index, k)
  PROVE  Before(r, i, j) <=> Before(r, k, j)
BY KeyBefore

\* No item is before itself, and what is before an item that is before a third
\* is before that.
LEMMA BeforeOrder ==
  ASSUME NEW r, r.index \in {"table", "gsi"}, NEW i \in Item, NEW j \in Item, NEW k \in Item
  PROVE  /\ ~Before(r, i, i)
         /\ Before(r, i, j) /\ Before(r, j, k) => Before(r, i, k)
<1>1. \A a \in {"pk", "sk", "gsk"} : i[a] \in Texts /\ j[a] \in Texts /\ k[a] \in Texts
  BY DEF Item, Attributes
<1>2. \A a \in {"pk", "sk", "gsk"} :
        /\ ~Runs(r, i[a], i[a])
        /\ Runs(r, i[a], j[a]) /\ Runs(r, j[a], k[a]) => Runs(r, i[a], k[a])
  BY <1>1, RunsOne
<1>3. CASE OrderBy(r) = <<"sk">>
  BY <1>2, <1>3, BeforeOne
<1>4. CASE OrderBy(r) = <<"pk", "sk">>
  BY <1>2, <1>4, BeforeTwo
<1>5. CASE OrderBy(r) = <<"gsk", "pk", "sk">>
  BY <1>2, <1>5, BeforeThree
<1> QED BY <1>3, <1>4, <1>5, KeyHasOrder

\* In one partition, or in an index or the whole table, an item is before the
\* other if their keys are not the same.
LEMMA BeforeEither ==
  ASSUME NEW r, Formed(r), Listed(r), Fits(First(r)), NEW i \in Item, NEW j \in Item,
         Holds(r, r.cond, i), Holds(r, r.cond, j), KeyOf(i) # KeyOf(j)
  PROVE  Before(r, i, j) \/ Before(r, j, i)
<1>1. \A a \in {"pk", "sk", "gsk"} : i[a] \in Texts /\ j[a] \in Texts
  BY DEF Item, Attributes
<1>2. \A a \in {"pk", "sk", "gsk"} : i[a] # j[a] => Runs(r, i[a], j[a]) \/ Runs(r, j[a], i[a])
  BY <1>1, RunsOne
<1>3. i["pk"] # j["pk"] \/ i["sk"] # j["sk"]
  BY DEF KeyOf, Key
<1>4. CASE r.op = "Scan"
  <2>1. OrderBy(r) = <<"pk", "sk">>
    BY <1>4 DEF OrderBy
  <2> QED BY <1>2, <1>3, <2>1, BeforeTwo
<1>5. CASE r.op # "Scan" /\ r.index = "gsi"
  <2>1. OrderBy(r) = <<"gsk", "pk", "sk">>
    BY <1>5 DEF OrderBy
  <2> QED BY <1>2, <1>3, <2>1, BeforeThree
<1>6. CASE r.op = "Query" /\ r.index = "table"
  <2>1. OrderBy(r) = <<"sk">>
    BY <1>6 DEF OrderBy
  <2>2. i["pk"] = j["pk"]
    <3>1. /\ First(r).op = "Query" /\ First(r).index = "table" /\ First(r).cond = r.cond
          /\ First(r).names = r.names
      BY <1>6, FromFormed DEF First
    <3>2. AttributeOf(First(r), r.cond[1].name) = AttributeOf(r, r.cond[1].name)
      BY <3>1 DEF AttributeOf
    <3>3. /\ Len(r.cond) \in 1..2
          /\ AttributeOf(r, r.cond[1].name) = KeyOfIndex["table"][1] /\ r.cond[1].op = "="
      BY <3>1, <3>2 DEF Fits
    <3>4. KeyOfIndex["table"][1] = "pk"
      BY DEF KeyOfIndex
    <3>5. 1 \in DOMAIN r.cond
      BY <3>3 DEF Formed
    <3>6. /\ Compare(i["pk"], "=", Operands(r, r.cond[1]))
          /\ Compare(j["pk"], "=", Operands(r, r.cond[1]))
      BY <3>3, <3>4, <3>5 DEF Holds
    <3> QED BY <3>6 DEF Compare
  <2> QED BY <1>2, <1>3, <2>1, <2>2, BeforeOne
<1> QED BY <1>4, <1>5, <1>6 DEF Formed, Listed

-----------------------------------------------------------------------------
(* Pages *)

\* A key condition looks at nothing but the key of the index.
LEMMA CondAttributes ==
  ASSUME NEW r, Formed(r), r.op = "Query", Fits(First(r)), NEW n \in DOMAIN r.cond
  PROVE  AttributeOf(r, r.cond[n].name) \in KeyAttributes(r.index)
<1>1. /\ First(r).op = "Query" /\ First(r).index = r.index /\ First(r).cond = r.cond
      /\ First(r).names = r.names
  BY FromFormed DEF First
<1>2. \A name : AttributeOf(First(r), name) = AttributeOf(r, name)
  BY <1>1 DEF AttributeOf
<1>3. /\ Len(r.cond) \in 1..2
      /\ AttributeOf(r, r.cond[1].name) = KeyOfIndex[r.index][1]
      /\ Len(r.cond) = 2 => AttributeOf(r, r.cond[2].name) = KeyOfIndex[r.index][2]
  BY <1>1, <1>2 DEF Fits
<1>4. n = 1 \/ (n = 2 /\ Len(r.cond) = 2)
  <2>1. DOMAIN r.cond = 1..Len(r.cond)
    BY DEF Formed
  <2>2. n \in 1..Len(r.cond)
    BY <2>1
  <2> QED BY <1>3, <2>2
<1>5. KeyOfIndex[r.index][1] \in KeyAttributes(r.index) /\ KeyOfIndex[r.index][2] \in KeyAttributes(r.index)
  BY DEF Formed, KeyAttributes, KeyOfIndex, ToSet
<1> QED BY <1>3, <1>4, <1>5

\* So an item's key meets it if the item does.
LEMMA KeyHolds ==
  ASSUME NEW r, Formed(r), r.op = "Query", Fits(First(r)), NEW i
  PROVE  Holds(r, r.cond, KeyIn(r.index, i)) <=> Holds(r, r.cond, i)
<1>1. \A n \in DOMAIN r.cond : AttributeOf(r, r.cond[n].name) \in KeyAttributes(r.index)
  BY CondAttributes
<1>2. \A a \in KeyAttributes(r.index) : KeyIn(r.index, i)[a] = i[a]
  BY DEF KeyIn
<1> QED BY <1>1, <1>2 DEF Holds

\* A page has room for an item.
LEMMA PageHasRoom ==
  ASSUME NEW r, Formed(r), Fits(First(r)), NoLimit \notin Nat
  PROVE  PageSize(r) \in Nat \ {0}
<1>1. First(r).limit = r.limit
  BY FromFormed DEF First
<1>2. r.limit # 0 /\ r.limit \in Nat \cup {NoLimit}
  BY <1>1 DEF Fits, Formed
<1>3. PageItems \in Nat \ {0}
  BY SizesAssumption
<1>4. CASE r.limit = NoLimit
  BY <1>3, <1>4 DEF PageSize
<1>5. CASE r.limit # NoLimit
  <2>1. r.limit \in Nat /\ PageSize(r) = Min({r.limit, PageItems})
    BY <1>2, <1>5 DEF PageSize
  <2>2. \E m \in {r.limit, PageItems} : \A n \in {r.limit, PageItems} : m <= n
    BY <1>3, <2>1
  <2>3. PageSize(r) \in {r.limit, PageItems}
    BY <2>1, <2>2 DEF Min
  <2> QED BY <1>2, <1>3, <2>1, <2>3
<1> QED BY <1>4, <1>5

\* The items of a list that are still to come.
Due(r, S) ==
  {i \in S : Holds(r, r.cond, i) /\ (r.start # NoKey => Before(r, r.start, i))}

Unique(T) == \A i, j \in T : KeyOf(i) = KeyOf(j) => i = j

\* A page is the front of what is due.  Without a last key it is all of it;
\* a last key is that of its last item.
LEMMA PageIsFront ==
  ASSUME NEW r, Formed(r), Listed(r), Fits(First(r)), NoLimit \notin Nat,
         NEW S \in SUBSET Item, IsFiniteSet(S), Unique(S),
         \A i \in S : KeyIn(r.index, i) # NoKey
  PROVE  /\ Page(r, S) \subseteq Due(r, S)
         /\ LastKey(r, Page(r, S)) = NoKey => Page(r, S) = Due(r, S)
         /\ LastKey(r, Page(r, S)) # NoKey =>
              \E i \in Page(r, S) :
                /\ LastKey(r, Page(r, S)) = KeyIn(r.index, i)
                /\ \A j \in Page(r, S) \ {i} : Before(r, j, i)
         /\ \A i \in Page(r, S), j \in Due(r, S) \ Page(r, S) : Before(r, i, j)
<1> DEFINE D == Due(r, S)
           P == Page(r, S)
           R == {p \in D \X D : Before(r, p[1], p[2])}
<1>1. D \in SUBSET S
  BY DEF Due
<1>2. IsFiniteSet(D)
  BY <1>1, FS_Subset
<1>3. \A i, j \in D : <<i, j>> \in R <=> Before(r, i, j)
  OBVIOUS
<1>4. P = {i \in D : Cardinality({j \in D : Before(r, j, i)}) < PageSize(r)}
  BY DEF Page, Due
<1>5. \A i \in D : i \in Item /\ i \in S /\ Holds(r, r.cond, i)
  BY DEF Due
<1>6. r.index \in {"table", "gsi"}
  BY DEF Formed
<1>7. PageSize(r) \in Nat \ {0}
  BY PageHasRoom
<1> HIDE DEF D, P, R
<1>8. Ordered(D, R)
  <2>1. \A i \in D : <<i, i>> \notin R
    BY <1>3, <1>5, <1>6, BeforeOrder
  <2>2. \A i, j, k \in D : <<i, j>> \in R /\ <<j, k>> \in R => <<i, k>> \in R
    BY <1>3, <1>5, <1>6, BeforeOrder
  <2>3. ASSUME NEW i \in D, NEW j \in D, i # j PROVE <<i, j>> \in R \/ <<j, i>> \in R
    <3>1. KeyOf(i) # KeyOf(j)
      BY <1>5, <2>3 DEF Unique
    <3>2. Before(r, i, j) \/ Before(r, j, i)
      BY <1>5, <3>1, BeforeEither
    <3> QED BY <1>3, <3>2
  <2> QED BY <2>1, <2>2, <2>3 DEF Ordered
<1>9. P = {i \in D : Cardinality(Ahead(D, R, i)) < PageSize(r)}
  <2>1. \A i \in D : {j \in D : Before(r, j, i)} = Ahead(D, R, i)
    BY <1>3 DEF Ahead
  <2> QED BY <1>4, <2>1
<1>10. /\ Cardinality(P) < PageSize(r) => P = D
       /\ ~(Cardinality(P) < PageSize(r)) => \E i \in P : \A j \in P \ {i} : <<j, i>> \in R
       /\ \A i \in P, j \in D \ P : <<i, j>> \in R
  <2> DEFINE n == PageSize(r)
  <2>1. n \in Nat \ {0} /\ P = FrontOf(D, R, n)
    BY <1>7, <1>9 DEF FrontOf
  <2> HIDE DEF n
  <2>2. /\ Cardinality(P) < n => P = D
        /\ ~(Cardinality(P) < n) => \E i \in P : \A j \in P \ {i} : <<j, i>> \in R
        /\ \A i \in P, j \in D \ P : <<i, j>> \in R
    BY <1>2, <1>8, <2>1, FrontIsFirst
  <2> QED BY <2>2 DEF n
<1>11. P \subseteq D
  BY <1>4
<1>12. ASSUME ~(Cardinality(P) < PageSize(r))
       PROVE  /\ LastKey(r, P) # NoKey
              /\ \E i \in P : LastKey(r, P) = KeyIn(r.index, i) /\ \A j \in P \ {i} : Before(r, j, i)
  <2>1. \E i \in P : \A j \in P \ {i} : Before(r, j, i)
    BY <1>3, <1>10, <1>11, <1>12
  <2> DEFINE last == CHOOSE i \in P : \A j \in P \ {i} : Before(r, j, i)
  <2>2. last \in P /\ \A j \in P \ {last} : Before(r, j, last)
    BY <2>1
  <2>3. LastKey(r, P) = KeyIn(r.index, last)
    BY <1>12 DEF LastKey
  <2> HIDE DEF last
  <2>4. KeyIn(r.index, last) # NoKey
    BY <1>5, <1>11, <2>2
  <2> QED BY <2>2, <2>3, <2>4
<1>13. Cardinality(P) < PageSize(r) => LastKey(r, P) = NoKey
  BY DEF LastKey
<1>14. \A i \in P, j \in D \ P : Before(r, i, j)
  BY <1>3, <1>10, <1>11
<1> QED BY <1>10, <1>11, <1>12, <1>13, <1>14 DEF D, P

-----------------------------------------------------------------------------
(* What a request selects *)

Selects(r, i) ==
  IF Listed(r) THEN Holds(r, r.cond, i) /\ Holds(r, r.filter, i) ELSE KeyOf(i) \in ToSet(r.keys)

Comparison(name, op, args) == [name |-> name, op |-> op, args |-> args]

\* No comparison excludes nothing.
LEMMA HoldsNone ==
  ASSUME NEW r, NEW i
  PROVE  Holds(r, <<>>, i)
BY DEF Holds

\* One comparison.
LEMMA HoldsOne ==
  ASSUME NEW r, NEW c, NEW i
  PROVE  Holds(r, <<c>>, i) <=> Compare(i[AttributeOf(r, c.name)], c.op, Operands(r, c))
<1>1. DOMAIN <<c>> = {1} /\ <<c>>[1] = c
  OBVIOUS
<1> QED BY <1>1 DEF Holds

\* Two comparisons.
LEMMA HoldsTwo ==
  ASSUME NEW r, NEW c, NEW d, NEW i
  PROVE  Holds(r, <<c, d>>, i) <=>
           /\ Compare(i[AttributeOf(r, c.name)], c.op, Operands(r, c))
           /\ Compare(i[AttributeOf(r, d.name)], d.op, Operands(r, d))
<1>1. DOMAIN <<c, d>> = {1, 2} /\ <<c, d>>[1] = c /\ <<c, d>>[2] = d
  OBVIOUS
<1> QED BY <1>1 DEF Holds

\* The values of one placeholder or of two.
LEMMA OperandsOne ==
  ASSUME NEW r, NEW name, NEW op, NEW v
  PROVE  Operands(r, Comparison(name, op, <<v>>)) = <<r.values[v]>>
<1> DEFINE c == Comparison(name, op, <<v>>)
<1>1. c.args = <<v>> /\ DOMAIN <<v>> = {1} /\ <<v>>[1] = v
  BY DEF Comparison
<1>2. Operands(r, c) = [m \in {1} |-> r.values[v]]
  BY <1>1 DEF Operands
<1>3. [m \in {1} |-> r.values[v]] = <<r.values[v]>>
  OBVIOUS
<1> QED BY <1>2, <1>3

\* The operands of a comparison with two.
LEMMA OperandsTwo ==
  ASSUME NEW r, NEW name, NEW op, NEW v, NEW w
  PROVE  /\ Operands(r, Comparison(name, op, <<v, w>>))[1] = r.values[v]
         /\ Operands(r, Comparison(name, op, <<v, w>>))[2] = r.values[w]
<1> DEFINE c == Comparison(name, op, <<v, w>>)
<1>1. c.args = <<v, w>> /\ DOMAIN <<v, w>> = {1, 2} /\ <<v, w>>[1] = v /\ <<v, w>>[2] = w
  BY DEF Comparison
<1> QED BY <1>1 DEF Operands

\* One condition, on the hash key.
AsksOne(r, n, v, hash) ==
  /\ Formed(r) /\ r.op = "Query" /\ r.start = NoKey /\ r.filter = <<>> /\ r.cond = <<Is(n, v)>>
  /\ DOMAIN r.names = {n} \ Attributes /\ DOMAIN r.values = {v}
  /\ hash = KeyOfIndex[r.index][1] /\ AttributeOf(r, n) = hash

\* DynamoDB takes such a request, and selects the items with that hash key.
LEMMA OneCondition ==
  ASSUME NEW r, NEW n, NEW v, NEW hash, AsksOne(r, n, v, hash)
  PROVE  /\ r.limit # 0 => Fits(r)
         /\ \A i \in Item : Selects(r, i) <=> i[hash] = r.values[v]
<1>1. Is(n, v) = Comparison(n, "=", <<v>>)
  BY DEF Is, Comparison
<1>2. Operands(r, Is(n, v)) = <<r.values[v]>>
  BY <1>1, OperandsOne
<1>3. Is(n, v).name = n /\ Is(n, v).op = "=" /\ Is(n, v).args = <<v>>
  BY DEF Is
<1>4. /\ Formed(r) /\ r.op = "Query" /\ r.start = NoKey /\ r.filter = <<>> /\ r.cond = <<Is(n, v)>>
      /\ DOMAIN r.names = {n} \ Attributes /\ DOMAIN r.values = {v}
      /\ hash = KeyOfIndex[r.index][1] /\ AttributeOf(r, n) = hash
  BY DEF AsksOne
<1>5. ASSUME NEW i \in Item PROVE Selects(r, i) <=> i[hash] = r.values[v]
  <2>1. Holds(r, r.cond, i) <=> Compare(i[hash], "=", <<r.values[v]>>)
    BY <1>2, <1>3, <1>4, HoldsOne
  <2>2. Compare(i[hash], "=", <<r.values[v]>>) <=> i[hash] = r.values[v]
    BY DEF Compare
  <2> QED BY <1>4, <2>1, <2>2, HoldsNone DEF Selects, Listed
<1>6. ASSUME r.limit # 0 PROVE Fits(r)
  <2>1. ToSet(r.cond) = {Is(n, v)} /\ ToSet(r.filter) = {} /\ ToSet(<<v>>) = {v}
    BY <1>4 DEF ToSet
  <2>2. ToSet(r.cond) \cup ToSet(r.filter) = {Is(n, v)}
    BY <2>1
  <2>3. {c.name : c \in {Is(n, v)}} = {n} /\ {ToSet(c.args) : c \in {Is(n, v)}} = {{v}}
    BY <1>3, <2>1
  <2>4. {c.name : c \in {Is(n, v)}} \ Attributes = DOMAIN r.names
        /\ UNION {ToSet(c.args) : c \in {Is(n, v)}} = DOMAIN r.values
    BY <1>4, <2>3
  <2>5. Len(r.cond) = 1 /\ r.cond[1] = Is(n, v)
    BY <1>4
  <2>6. \A c \in ToSet(r.cond) : c.op # "between"
    BY <1>3, <2>1
  <2> QED BY <1>3, <1>4, <1>6, <2>1, <2>2, <2>4, <2>5, <2>6 DEF Fits
<1> QED BY <1>5, <1>6

\* One on the hash key and one on the sort key.
AsksTwo(r, n, v, m, op, args, hash, range) ==
  /\ Formed(r) /\ r.op = "Query" /\ r.start = NoKey /\ r.filter = <<>>
  /\ r.cond = <<Is(n, v), Comparison(m, op, args)>>
  /\ DOMAIN r.names = {n, m} \ Attributes /\ DOMAIN r.values = {v} \cup ToSet(args)
  /\ hash = KeyOfIndex[r.index][1] /\ AttributeOf(r, n) = hash
  /\ range = KeyOfIndex[r.index][2] /\ AttributeOf(r, m) = range
  /\ op = "between" =>
       ~Less(Operands(r, Comparison(m, op, args))[2], Operands(r, Comparison(m, op, args))[1])

\* DynamoDB takes such a request, and selects what both conditions say.
LEMMA TwoConditions ==
  ASSUME NEW r, NEW n, NEW v, NEW m, NEW op, NEW args, NEW hash, NEW range,
         AsksTwo(r, n, v, m, op, args, hash, range)
  PROVE  /\ r.limit # 0 => Fits(r)
         /\ \A i \in Item : Selects(r, i) <=>
              i[hash] = r.values[v] /\ Compare(i[range], op, Operands(r, Comparison(m, op, args)))
<1> DEFINE d == Comparison(m, op, args)
<1>1. Is(n, v) = Comparison(n, "=", <<v>>)
  BY DEF Is, Comparison
<1>2. Operands(r, Is(n, v)) = <<r.values[v]>>
  BY <1>1, OperandsOne
<1>3. /\ Is(n, v).name = n /\ Is(n, v).op = "=" /\ Is(n, v).args = <<v>>
      /\ d.name = m /\ d.op = op /\ d.args = args
  BY DEF Is, Comparison
<1>4. /\ Formed(r) /\ r.op = "Query" /\ r.start = NoKey /\ r.filter = <<>> /\ r.cond = <<Is(n, v), d>>
      /\ DOMAIN r.names = {n, m} \ Attributes /\ DOMAIN r.values = {v} \cup ToSet(args)
      /\ hash = KeyOfIndex[r.index][1] /\ AttributeOf(r, n) = hash
      /\ range = KeyOfIndex[r.index][2] /\ AttributeOf(r, m) = range
      /\ op = "between" => ~Less(Operands(r, d)[2], Operands(r, d)[1])
  BY DEF AsksTwo
<1> HIDE DEF d
<1>5. ASSUME NEW i \in Item
      PROVE  Selects(r, i) <=> i[hash] = r.values[v] /\ Compare(i[range], op, Operands(r, d))
  <2>1. Holds(r, r.cond, i) <=>
          Compare(i[hash], "=", <<r.values[v]>>) /\ Compare(i[range], op, Operands(r, d))
    BY <1>2, <1>3, <1>4, HoldsTwo
  <2>2. Compare(i[hash], "=", <<r.values[v]>>) <=> i[hash] = r.values[v]
    BY DEF Compare
  <2> QED BY <1>4, <2>1, <2>2, HoldsNone DEF Selects, Listed
<1>6. ASSUME r.limit # 0 PROVE Fits(r)
  <2>1. ToSet(r.cond) = {Is(n, v), d} /\ ToSet(r.filter) = {} /\ ToSet(<<v>>) = {v}
    BY <1>4 DEF ToSet
  <2>2. ToSet(r.cond) \cup ToSet(r.filter) = {Is(n, v), d}
    BY <2>1
  <2>3. /\ {c.name : c \in {Is(n, v), d}} = {n, m}
        /\ {ToSet(c.args) : c \in {Is(n, v), d}} = {{v}, ToSet(args)}
    BY <1>3, <2>1
  <2>4. /\ {c.name : c \in {Is(n, v), d}} \ Attributes = DOMAIN r.names
        /\ UNION {ToSet(c.args) : c \in {Is(n, v), d}} = DOMAIN r.values
    BY <1>4, <2>3
  <2>5. Len(r.cond) = 2 /\ r.cond[1] = Is(n, v) /\ r.cond[2] = d
    BY <1>4
  <2>6. \A c \in ToSet(r.cond) : c.op = "between" => ~Less(Operands(r, c)[2], Operands(r, c)[1])
    BY <1>3, <1>4, <2>1
  <2> QED BY <1>3, <1>4, <1>6, <2>1, <2>2, <2>4, <2>5, <2>6 DEF Fits
<1> QED BY <1>5, <1>6 DEF d

-----------------------------------------------------------------------------
(* What the functions ask for is what their callers mean *)

Meant(fn, r, wants) ==
  /\ Formed(r) /\ r.start = NoKey /\ wants \subseteq Items
  /\ Fits(r) => \A i \in Items : i \in wants <=> Selects(r, i)
  /\ \/ Fits(r)
     \/ fn \in {"query_gsi_by_pksk", "batch_get"} \/ r.limit = 0
     \/ fn = "scan_with_filter2" /\ r.names = EmptyMap

\* The parts of a request that say what it selects.
Parts(r, op, index, cond, filter, names, values) ==
  /\ Formed(r) /\ r.start = NoKey
  /\ r.op = op /\ r.index = index /\ r.cond = cond /\ r.filter = filter
  /\ r.names = names /\ r.values = values

\* What an update of a field makes of a request.
PutOp(r, x)      == [r EXCEPT !.op = x]
PutKeys(r, x)    == [r EXCEPT !.keys = x]
PutIndex(r, x)   == [r EXCEPT !.index = x]
PutCond(r, x)    == [r EXCEPT !.cond = x]
PutFilter(r, x)  == [r EXCEPT !.filter = x]
PutNames(r, x)   == [r EXCEPT !.names = x]
PutValues(r, x)  == [r EXCEPT !.values = x]
PutForward(r, x) == [r EXCEPT !.forward = x]
PutLimit(r, x)   == [r EXCEPT !.limit = x]
PutStart(r, x)   == [r EXCEPT !.start = x]

\* An empty query.
LEMMA QueryParts == Parts(Query, "Query", "table", <<>>, <<>>, None, None)
BY DEF Query, Parts, Formed

\* One field at a time.
LEMMA PutParts ==
  ASSUME NEW r, NEW op, NEW index, NEW cond, NEW filter, NEW names, NEW values,
         Parts(r, op, index, cond, filter, names, values)
  PROVE  /\ \A x \in {"table", "gsi"} : Parts(PutIndex(r, x), op, x, cond, filter, names, values)
         /\ \A x : op # "Scan" /\ DOMAIN x = 1..Len(x) =>
                     Parts(PutCond(r, x), op, index, x, filter, names, values)
         /\ \A x : Parts(PutFilter(r, x), op, index, cond, x, names, values)
         /\ \A x : Parts(PutNames(r, x), op, index, cond, filter, x, values)
         /\ \A x : Parts(PutValues(r, x), op, index, cond, filter, names, x)
         /\ \A x \in BOOLEAN : Parts(PutForward(r, x), op, index, cond, filter, names, values)
         /\ \A x \in Nat \cup {NoLimit} : Parts(PutLimit(r, x), op, index, cond, filter, names, values)
         /\ \A x : x = NoKey => Parts(PutStart(r, x), op, index, cond, filter, names, values)
<1>1. r = [op |-> r.op, index |-> r.index, cond |-> r.cond, filter |-> r.filter, names |-> r.names,
           values |-> r.values, forward |-> r.forward, limit |-> r.limit, start |-> r.start,
           keys |-> r.keys]
  BY DEF Parts, Formed
<1>2. ASSUME NEW x \in {"table", "gsi"}
      PROVE  Parts(PutIndex(r, x), op, x, cond, filter, names, values)
  <2>1. PutIndex(r, x) = [op |-> r.op, index |-> x, cond |-> r.cond, filter |-> r.filter, names |-> r.names, values |-> r.values, forward |-> r.forward, limit |-> r.limit, start |-> r.start, keys |-> r.keys]
    BY <1>1 DEF PutIndex
  <2> QED BY <2>1 DEF Parts, Formed
<1>3. ASSUME NEW x, op # "Scan", DOMAIN x = 1..Len(x)
      PROVE  Parts(PutCond(r, x), op, index, x, filter, names, values)
  <2>1. PutCond(r, x) = [op |-> r.op, index |-> r.index, cond |-> x, filter |-> r.filter, names |-> r.names, values |-> r.values, forward |-> r.forward, limit |-> r.limit, start |-> r.start, keys |-> r.keys]
    BY <1>1 DEF PutCond
  <2> QED BY <2>1, <1>3 DEF Parts, Formed
<1>4. ASSUME NEW x
      PROVE  Parts(PutFilter(r, x), op, index, cond, x, names, values)
  <2>1. PutFilter(r, x) = [op |-> r.op, index |-> r.index, cond |-> r.cond, filter |-> x, names |-> r.names, values |-> r.values, forward |-> r.forward, limit |-> r.limit, start |-> r.start, keys |-> r.keys]
    BY <1>1 DEF PutFilter
  <2> QED BY <2>1 DEF Parts, Formed
<1>5. ASSUME NEW x
      PROVE  Parts(PutNames(r, x), op, index, cond, filter, x, values)
  <2>1. PutNames(r, x) = [op |-> r.op, index |-> r.index, cond |-> r.cond, filter |-> r.filter, names |-> x, values |-> r.values, forward |-> r.forward, limit |-> r.limit, start |-> r.start, keys |-> r.keys]
    BY <1>1 DEF PutNames
  <2> QED BY <2>1 DEF Parts, Formed
<1>6. ASSUME NEW x
      PROVE  Parts(PutValues(r, x), op, index, cond, filter, names, x)
  <2>1. PutValues(r, x) = [op |-> r.op, index |-> r.index, cond |-> r.cond, filter |-> r.filter, names |-> r.names, values |-> x, forward |-> r.forward, limit |-> r.limit, start |-> r.start, keys |-> r.keys]
    BY <1>1 DEF PutValues
  <2> QED BY <2>1 DEF Parts, Formed
<1>7. ASSUME NEW x \in BOOLEAN
      PROVE  Parts(PutForward(r, x), op, index, cond, filter, names, values)
  <2>1. PutForward(r, x) = [op |-> r.op, index |-> r.index, cond |-> r.cond, filter |-> r.filter, names |-> r.names, values |-> r.values, forward |-> x, limit |-> r.limit, start |-> r.start, keys |-> r.keys]
    BY <1>1 DEF PutForward
  <2> QED BY <2>1 DEF Parts, Formed
<1>8. ASSUME NEW x \in Nat \cup {NoLimit}
      PROVE  Parts(PutLimit(r, x), op, index, cond, filter, names, values)
  <2>1. PutLimit(r, x) = [op |-> r.op, index |-> r.index, cond |-> r.cond, filter |-> r.filter, names |-> r.names, values |-> r.values, forward |-> r.forward, limit |-> x, start |-> r.start, keys |-> r.keys]
    BY <1>1 DEF PutLimit
  <2> QED BY <2>1 DEF Parts, Formed
<1>9. ASSUME NEW x, x = NoKey
      PROVE  Parts(PutStart(r, x), op, index, cond, filter, names, values)
  <2>1. PutStart(r, x) = [op |-> r.op, index |-> r.index, cond |-> r.cond, filter |-> r.filter, names |-> r.names, values |-> r.values, forward |-> r.forward, limit |-> r.limit, start |-> x, keys |-> r.keys]
    BY <1>1 DEF PutStart
  <2> QED BY <2>1, <1>9 DEF Parts, Formed
<1> QED BY <1>2, <1>3, <1>4, <1>5, <1>6, <1>7, <1>8, <1>9

\* Placeholders that are added.
LEMMA BindingParts ==
  ASSUME NEW r, NEW op, NEW index, NEW cond, NEW filter, NEW names, NEW values,
         Parts(r, op, index, cond, filter, names, values), NEW n, NEW v
  PROVE  Parts(Binding(r, n, v), op, index, cond, filter, n ++ names, v ++ values)
<1>1. r.names = names /\ r.values = values
  BY DEF Parts
<1>2. Binding(r, n, v) = PutValues(PutNames(r, n ++ r.names), v ++ r.values)
  BY DEF Binding, PutValues, PutNames
<1> DEFINE n2 == n ++ names
           v2 == v ++ values
<1>3. Binding(r, n, v) = PutValues(PutNames(r, n2), v2)
  BY <1>1, <1>2
<1> HIDE DEF n2, v2
<1>4. Parts(PutNames(r, n2), op, index, cond, filter, n2, values)
  BY PutParts
<1>5. Parts(PutValues(PutNames(r, n2), v2), op, index, cond, filter, n2, v2)
  BY <1>4, PutParts
<1> QED BY <1>3, <1>5 DEF n2, v2

\* A page is of the same list.
LEMMA PagedParts ==
  ASSUME NEW r, NEW op, NEW index, NEW cond, NEW filter, NEW names, NEW values,
         Parts(r, op, index, cond, filter, names, values), NEW limit \in Nat \cup {NoLimit}
  PROVE  Parts(Paged(r, NoText, limit), op, index, cond, filter, names, values)
<1>1. make_start_key(NoText) = NoKey
  BY DEF make_start_key
<1>2. Paged(r, NoText, limit) = PutLimit(PutStart(r, make_start_key(NoText)), limit)
  BY DEF Paged, PutLimit, PutStart
<1> QED BY <1>1, <1>2, PutParts

\* A query with one condition means the items with that partition key.
LEMMA OneMeant ==
  ASSUME NEW fn, NEW r, NEW n, NEW v, NEW hash, AsksOne(r, n, v, hash),
         NEW wants \in SUBSET Items, \A i \in Items : i \in wants <=> i[hash] = r.values[v]
  PROVE  Meant(fn, r, wants)
<1>1. Formed(r) /\ r.start = NoKey
  BY DEF AsksOne
<1>2. /\ r.limit # 0 => Fits(r)
      /\ \A i \in Item : Selects(r, i) <=> i[hash] = r.values[v]
  BY OneCondition
<1>3. Items \subseteq Item
  BY ItemsAssumption DEF Item
<1> QED BY <1>1, <1>2, <1>3 DEF Meant

\* With two, those of them whose sort key meets the second.
LEMMA TwoMeant ==
  ASSUME NEW fn, NEW r, NEW n, NEW v, NEW m, NEW op, NEW args, NEW hash, NEW range,
         AsksTwo(r, n, v, m, op, args, hash, range),
         NEW wants \in SUBSET Items,
         \A i \in Items : i \in wants <=>
           i[hash] = r.values[v] /\ Compare(i[range], op, Operands(r, Comparison(m, op, args)))
  PROVE  Meant(fn, r, wants)
<1>1. Formed(r) /\ r.start = NoKey
  BY DEF AsksTwo
<1>2. /\ r.limit # 0 => Fits(r)
      /\ \A i \in Item : Selects(r, i) <=>
           i[hash] = r.values[v] /\ Compare(i[range], op, Operands(r, Comparison(m, op, args)))
  BY TwoConditions
<1>3. Items \subseteq Item
  BY ItemsAssumption DEF Item
<1> QED BY <1>1, <1>2, <1>3 DEF Meant

\* The attributes of the keys.
LEMMA KeyNames ==
  /\ KeyOfIndex["table"][1] = "pk" /\ KeyOfIndex["table"][2] = "sk"
  /\ KeyOfIndex["gsi"][1] = "gpk" /\ KeyOfIndex["gsi"][2] = "gsk"
  /\ "pk" \in Attributes /\ "sk" \in Attributes /\ "gpk" \in Attributes /\ "gsk" \in Attributes
  /\ "#pk" \notin Attributes /\ "#sk" \notin Attributes
BY DEF KeyOfIndex, Attributes

-----------------------------------------------------------------------------
(* Function by function *)

\* By a partition key.
LEMMA ByPkMeant ==
  ASSUME NEW fn, NEW r, NEW pk,
         Parts(r, "Query", "table", <<Is("pk", ":hashKey")>>, <<>>, None, Bind(":hashKey", pk))
  PROVE  Meant(fn, r, In(pk))
<1>1. /\ Formed(r) /\ r.start = NoKey /\ r.op = "Query" /\ r.filter = <<>> /\ r.index = "table"
      /\ r.cond = <<Is("pk", ":hashKey")>> /\ r.names = None /\ r.values = Bind(":hashKey", pk)
  BY DEF Parts
<1>2. DOMAIN r.names = {}
  BY <1>1 DEF None
<1>3. DOMAIN r.values = {":hashKey"} /\ r.values[":hashKey"] = pk
  BY <1>1 DEF Bind
<1>4. AttributeOf(r, "pk") = "pk"
  BY <1>2 DEF AttributeOf
<1>5. AsksOne(r, "pk", ":hashKey", "pk")
  <2>1. {"pk"} \ Attributes = {}
    BY KeyNames
  <2>2. "pk" = KeyOfIndex[r.index][1]
    BY <1>1, KeyNames
  <2>3. DOMAIN r.names = {"pk"} \ Attributes
    BY <1>2, <2>1
  <2> QED BY <1>1, <1>3, <1>4, <2>2, <2>3 DEF AsksOne
<1>6. In(pk) \in SUBSET Items /\ \A i \in Items : i \in In(pk) <=> i["pk"] = r.values[":hashKey"]
  BY <1>3 DEF In
<1> QED BY <1>5, <1>6, OneMeant

\* A query with a condition and its values; and with an index, names and a
\* direction.
LEMMA QueryWith ==
  ASSUME NEW c, DOMAIN c = 1..Len(c), NEW names, NEW values, NEW index \in {"table", "gsi"},
         NEW forward \in BOOLEAN
  PROVE  /\ Parts(PutValues(PutCond(Query, c), values), "Query", "table", c, <<>>, None, values)
         /\ Parts(PutValues(PutNames(PutCond(PutIndex(Query, index), c), names), values),
                  "Query", index, c, <<>>, names, values)
         /\ Parts(PutForward(PutValues(PutNames(PutCond(PutIndex(Query, index), c), names), values), forward),
                  "Query", index, c, <<>>, names, values)
<1>1. Parts(PutCond(Query, c), "Query", "table", c, <<>>, None, None)
  BY QueryParts, PutParts
<1>2. Parts(PutValues(PutCond(Query, c), values), "Query", "table", c, <<>>, None, values)
  BY <1>1, PutParts
<1>3. Parts(PutIndex(Query, index), "Query", index, <<>>, <<>>, None, None)
  BY QueryParts, PutParts
<1>4. Parts(PutCond(PutIndex(Query, index), c), "Query", index, c, <<>>, None, None)
  BY <1>3, PutParts
<1>5. Parts(PutNames(PutCond(PutIndex(Query, index), c), names), "Query", index, c, <<>>, names, None)
  BY <1>4, PutParts
<1>6. Parts(PutValues(PutNames(PutCond(PutIndex(Query, index), c), names), values),
            "Query", index, c, <<>>, names, values)
  BY <1>5, PutParts
<1>7. Parts(PutForward(PutValues(PutNames(PutCond(PutIndex(Query, index), c), names), values), forward),
            "Query", index, c, <<>>, names, values)
  BY <1>6, PutParts
<1> QED BY <1>2, <1>6, <1>7

\* The conditions the functions have.
LEMMA OneLong ==
  ASSUME NEW c
  PROVE  DOMAIN <<c>> = 1..Len(<<c>>)
OBVIOUS

\* Nor does one of two.
LEMMA TwoLong ==
  ASSUME NEW c, NEW d
  PROVE  DOMAIN <<c, d>> = 1..Len(<<c, d>>)
OBVIOUS

\* What is asked of a partition.
LEMMA ByPkParts ==
  ASSUME NEW pk
  PROVE  Parts(ByPk(pk), "Query", "table", <<Is("pk", ":hashKey")>>, <<>>, None, Bind(":hashKey", pk))
<1> DEFINE c == <<Is("pk", ":hashKey")>>
           v == Bind(":hashKey", pk)
<1>1. ByPk(pk) = PutValues(PutCond(Query, c), v)
  BY DEF ByPk, PutValues, PutCond
<1>2. DOMAIN c = 1..Len(c)
  BY OneLong
<1> HIDE DEF c, v
<1>3. Parts(ByPk(pk), "Query", "table", c, <<>>, None, v)
  BY <1>1, <1>2, QueryWith
<1> QED BY <1>3 DEF c, v

\* query_by_pk, query_latest_by_pk and query_page_by_pk mean the partition.
LEMMA QueryByPk ==
  ASSUME NEW pk, NEW limit \in Nat \cup {NoLimit}
  PROVE  /\ Meant("query_by_pk", ByPk(pk), In(pk))
         /\ Meant("query_latest_by_pk", [ByPk(pk) EXCEPT !.forward = FALSE, !.limit = limit], In(pk))
         /\ Meant("query_page_by_pk", [Paged(ByPk(pk), NoText, limit) EXCEPT !.forward = FALSE], In(pk))
<1>1. [ByPk(pk) EXCEPT !.forward = FALSE, !.limit = limit] = PutLimit(PutForward(ByPk(pk), FALSE), limit)
  BY DEF PutLimit, PutForward
<1>2. [Paged(ByPk(pk), NoText, limit) EXCEPT !.forward = FALSE] =
        PutForward(Paged(ByPk(pk), NoText, limit), FALSE)
  BY DEF PutForward
<1>3. \A r, fn : Parts(r, "Query", "table", <<Is("pk", ":hashKey")>>, <<>>, None, Bind(":hashKey", pk)) =>
                   Meant(fn, r, In(pk))
  BY ByPkMeant
<1> QED BY <1>1, <1>2, <1>3, ByPkParts, PutParts, PagedParts

\* By a partition key and something of the sort key.
LEMMA ByPkSkMeant ==
  ASSUME NEW fn, NEW r, NEW op, op # "between", NEW w, w # ":hashKey", NEW pk, NEW val,
         Parts(r, "Query", "table", <<Is("pk", ":hashKey"), Comparison("sk", op, <<w>>)>>, <<>>,
               None, Bind(":hashKey", pk) ++ Bind(w, val)),
         NEW wants \in SUBSET Items,
         \A i \in Items : i \in wants <=> i["pk"] = pk /\ Compare(i["sk"], op, <<val>>)
  PROVE  Meant(fn, r, wants)
<1>1. /\ Formed(r) /\ r.start = NoKey /\ r.op = "Query" /\ r.filter = <<>> /\ r.index = "table"
      /\ r.cond = <<Is("pk", ":hashKey"), Comparison("sk", op, <<w>>)>>
      /\ r.names = None /\ r.values = Bind(":hashKey", pk) ++ Bind(w, val)
  BY DEF Parts
<1>2. DOMAIN r.names = {}
  BY <1>1 DEF None
<1>3. DOMAIN r.values = {":hashKey", w} /\ r.values[":hashKey"] = pk /\ r.values[w] = val
  BY <1>1 DEF Bind, ++
<1>4. AttributeOf(r, "pk") = "pk" /\ AttributeOf(r, "sk") = "sk"
  BY <1>2 DEF AttributeOf
<1>5. {"pk", "sk"} \ Attributes = {}
  BY KeyNames
<1>6. {":hashKey"} \cup ToSet(<<w>>) = {":hashKey", w}
  BY DEF ToSet
<1>7. DOMAIN r.names = {"pk", "sk"} \ Attributes /\ DOMAIN r.values = {":hashKey"} \cup ToSet(<<w>>)
  BY <1>2, <1>3, <1>5, <1>6
<1>8. "pk" = KeyOfIndex[r.index][1] /\ "sk" = KeyOfIndex[r.index][2]
  BY <1>1, KeyNames
<1>9. AsksTwo(r, "pk", ":hashKey", "sk", op, <<w>>, "pk", "sk")
  BY <1>1, <1>4, <1>7, <1>8 DEF AsksTwo
<1>10. Operands(r, Comparison("sk", op, <<w>>)) = <<val>>
  BY <1>3, OperandsOne
<1>11. \A i \in Items : i \in wants <=>
         i["pk"] = r.values[":hashKey"] /\ Compare(i["sk"], op, Operands(r, Comparison("sk", op, <<w>>)))
  BY <1>3, <1>10
<1> QED BY <1>9, <1>11, TwoMeant

\* What is asked of the sort keys under a prefix.
LEMMA ByPkPrefixParts ==
  ASSUME NEW pk, NEW pfx
  PROVE  Parts(ByPkPrefix(pk, pfx), "Query", "table",
               <<Is("pk", ":hashKey"), Comparison("sk", "begins_with", <<":prefix">>)>>, <<>>,
               None, Bind(":hashKey", pk) ++ Bind(":prefix", pfx))
<1> DEFINE c == <<Is("pk", ":hashKey"), Comparison("sk", "begins_with", <<":prefix">>)>>
           v == Bind(":hashKey", pk) ++ Bind(":prefix", pfx)
<1>1. ByPkPrefix(pk, pfx) = PutValues(PutCond(Query, c), v)
  BY DEF ByPkPrefix, PutValues, PutCond, Begins, Comparison
<1>2. DOMAIN c = 1..Len(c)
  BY TwoLong
<1> HIDE DEF c, v
<1>3. Parts(ByPkPrefix(pk, pfx), "Query", "table", c, <<>>, None, v)
  BY <1>1, <1>2, QueryWith
<1> QED BY <1>3 DEF c, v

\* It is the items of the partition under that prefix.
LEMMA PrefixMeant ==
  ASSUME NEW fn, NEW r, NEW pk, NEW pfx,
         Parts(r, "Query", "table",
               <<Is("pk", ":hashKey"), Comparison("sk", "begins_with", <<":prefix">>)>>, <<>>,
               None, Bind(":hashKey", pk) ++ Bind(":prefix", pfx))
  PROVE  Meant(fn, r, In(pk) \cap Under(pfx))
<1>1. \A i \in Items : i \in In(pk) \cap Under(pfx) <=> i["pk"] = pk /\ Compare(i["sk"], "begins_with", <<pfx>>)
  BY DEF In, Under, Compare
<1>2. In(pk) \cap Under(pfx) \in SUBSET Items
  BY DEF In
<1>3. ":prefix" # ":hashKey" /\ "begins_with" # "between"
  OBVIOUS
<1> QED BY <1>1, <1>2, <1>3, ByPkSkMeant

\* query_by_pk_with_sk_prefix and its paged sibling.
LEMMA QueryByPkPrefix ==
  ASSUME NEW pk, NEW pfx, NEW limit \in Nat \cup {NoLimit}
  PROVE  /\ Meant("query_by_pk_with_sk_prefix", ByPkPrefix(pk, pfx), In(pk) \cap Under(pfx))
         /\ Meant("query_page_by_pk_with_sk_prefix",
                  [Paged(ByPkPrefix(pk, pfx), NoText, limit) EXCEPT !.forward = FALSE],
                  In(pk) \cap Under(pfx))
<1> DEFINE c == <<Is("pk", ":hashKey"), Comparison("sk", "begins_with", <<":prefix">>)>>
           v == Bind(":hashKey", pk) ++ Bind(":prefix", pfx)
           q == ByPkPrefix(pk, pfx)
           W == In(pk) \cap Under(pfx)
<1>1. [Paged(q, NoText, limit) EXCEPT !.forward = FALSE] = PutForward(Paged(q, NoText, limit), FALSE)
  BY DEF PutForward
<1>2. \A r, fn : Parts(r, "Query", "table", c, <<>>, None, v) => Meant(fn, r, W)
  BY PrefixMeant
<1>3. Parts(q, "Query", "table", c, <<>>, None, v)
  BY ByPkPrefixParts
<1> HIDE DEF c, v, q, W
<1>4. Parts(Paged(q, NoText, limit), "Query", "table", c, <<>>, None, v)
  BY <1>3, PagedParts
<1>5. Parts(PutForward(Paged(q, NoText, limit), FALSE), "Query", "table", c, <<>>, None, v)
  BY <1>4, PutParts
<1>6. Meant("query_by_pk_with_sk_prefix", q, W)
  BY <1>2, <1>3
<1>7. Meant("query_page_by_pk_with_sk_prefix", [Paged(q, NoText, limit) EXCEPT !.forward = FALSE], W)
  BY <1>1, <1>2, <1>5
<1> QED BY <1>6, <1>7 DEF q, W

\* What follows a code of a text.
LEMMA After ==
  ASSUME NEW t \in Seq(Nat), NEW n \in Nat, n <= Len(t)
  PROVE  SubSeq(t, n + 1, Len(t)) = [m \in 1..(Len(t) - n) |-> t[n + m]]
OBVIOUS

\* A composite key read back: the partition key has no separator in it.
LEMMA KeyAgain ==
  ASSUME NEW pk \in Texts, SEP \notin ToSet(pk), NEW sort \in Texts
  PROVE  CompositeKeyOf(key_as_string(pk, sort)) = Key(pk, sort)
<1> DEFINE text == key_as_string(pk, sort)
           seps == {n \in DOMAIN text : text[n] = SEP}
           first == Len(pk) + 1
<1>1. /\ Len(pk) \in Nat /\ Len(sort) \in Nat
      /\ pk \in Seq(Nat) /\ sort \in Seq(Nat) /\ <<SEP>> \in Seq(Nat)
  BY DEF Texts, SEP
<1>2. /\ text \in Seq(Nat) /\ Len(text) = Len(pk) + 1 + Len(sort) /\ DOMAIN text = 1..Len(text)
      /\ \A n \in 1..Len(pk) : text[n] = pk[n]
      /\ text[Len(pk) + 1] = SEP
      /\ \A n \in 1..Len(sort) : text[Len(pk) + 1 + n] = sort[n]
  BY <1>1 DEF key_as_string
<1>3. first \in seps
  BY <1>1, <1>2
<1>4. \A n \in seps : n \in Nat /\ first <= n
  <2> TAKE n \in seps
  <2>1. n \in 1..Len(text) /\ text[n] = SEP
    BY <1>2
  <2>2. CASE n \in 1..Len(pk)
    <3>1. pk[n] = SEP
      BY <1>2, <2>1, <2>2
    <3>2. n \in DOMAIN pk
      BY <1>1, <2>2
    <3> QED BY <3>1, <3>2 DEF ToSet
  <2> QED BY <1>1, <1>2, <2>1, <2>2
<1>5. Min(seps) = first
  <2> HIDE DEF seps, first
  <2>1. first \in Nat
    BY <1>3, <1>4
  <2>2. \A n \in seps : (\A m \in seps : n <= m) => n = first
    BY <1>3, <1>4, <2>1
  <2> QED BY <1>3, <1>4, <2>2 DEF Min
<1>6. SubSeq(text, 1, first - 1) = pk
  BY <1>1, <1>2
<1>7. SubSeq(text, first + 1, Len(text)) = sort
  <2>1. text \in Seq(Nat) /\ first \in Nat /\ first <= Len(text) /\ Len(text) - first = Len(sort)
    BY <1>1, <1>2
  <2>2. sort = [n \in 1..Len(sort) |-> sort[n]]
    BY <1>1
  <2>3. \A n \in 1..Len(sort) : text[first + n] = sort[n]
    BY <1>2
  <2> HIDE DEF text, first
  <2>4. SubSeq(text, first + 1, Len(text)) = [n \in 1..(Len(text) - first) |-> text[first + n]]
    BY <2>1, After
  <2> QED BY <2>1, <2>2, <2>3, <2>4
<1>8. seps # {}
  BY <1>3
<1>9. CompositeKeyOf(text) = Key(SubSeq(text, 1, Min(seps) - 1), SubSeq(text, Min(seps) + 1, Len(text)))
  BY <1>8 DEF CompositeKeyOf
<1> QED BY <1>5, <1>6, <1>7, <1>9

\* By a composite key, its sort key a pattern or not.
LEMMA QueryMeant ==
  ASSUME NEW pk \in Pks, NEW pattern \in Patterns, NEW ck, ck = CompositeKeyOf(key_as_string(pk, pattern))
  PROVE  Meant("query",
      [Query EXCEPT
         !.cond = <<Is("pk", ":hashKey"),
                    IF IsPattern(ck) THEN Begins("sk", ":rangeKey") ELSE Is("sk", ":rangeKey")>>,
         !.values = Bind(":hashKey", ck.pk) ++ Bind(":rangeKey", sk(ck))],
      In(pk) \cap (IF EndsWith(pattern, Star) THEN Under(Front(pattern))
                   ELSE IF EndsWith(pattern, Hash) THEN Under(pattern)
                   ELSE {i \in Items : i.sk = pattern}))
<1> DEFINE op == IF IsPattern(ck) THEN "begins_with" ELSE "="
           val == sk(ck)
           c == <<Is("pk", ":hashKey"), Comparison("sk", op, <<":rangeKey">>)>>
           v == Bind(":hashKey", ck.pk) ++ Bind(":rangeKey", val)
           wants == In(pk) \cap (IF EndsWith(pattern, Star) THEN Under(Front(pattern))
                   ELSE IF EndsWith(pattern, Hash) THEN Under(pattern)
                   ELSE {i \in Items : i.sk = pattern})
           r == [Query EXCEPT
         !.cond = <<Is("pk", ":hashKey"),
                    IF IsPattern(ck) THEN Begins("sk", ":rangeKey") ELSE Is("sk", ":rangeKey")>>,
         !.values = Bind(":hashKey", ck.pk) ++ Bind(":rangeKey", sk(ck))]
<1>1. ck = Key(pk, pattern)
  BY TextsAssumption, KeyAgain
<1>2. ck.pk = pk /\ ck.sk = pattern
  BY <1>1 DEF Key
<1>3. (IF IsPattern(ck) THEN Begins("sk", ":rangeKey") ELSE Is("sk", ":rangeKey")) =
        Comparison("sk", op, <<":rangeKey">>)
  BY DEF Begins, Is, Comparison
<1>4. r = PutValues(PutCond(Query, c), v)
  BY <1>3 DEF PutValues, PutCond
<1>5. DOMAIN c = 1..Len(c)
  BY TwoLong
<1>6. \A i \in Items : i \in wants <=> i["pk"] = ck.pk /\ Compare(i["sk"], op, <<val>>)
  <2> TAKE i \in Items
  <2>1. i \in In(pk) <=> i["pk"] = ck.pk
    BY <1>2 DEF In
  <2>2. Front(pattern) = SubSeq(pattern, 1, Len(pattern) - 1)
    BY DEF Front
  <2>3. CASE EndsWith(pattern, Star)
    <3>1. op = "begins_with" /\ val = Front(pattern)
      BY <1>2, <2>2, <2>3 DEF IsPattern, sk
    <3>2. Compare(i["sk"], "begins_with", <<val>>) <=> i \in Under(Front(pattern))
      BY <3>1 DEF Compare, Under
    <3> QED BY <2>1, <2>3, <3>1, <3>2
  <2>4. CASE ~EndsWith(pattern, Star) /\ EndsWith(pattern, Hash)
    <3>1. op = "begins_with" /\ val = pattern
      BY <1>2, <2>4 DEF IsPattern, sk
    <3>2. Compare(i["sk"], "begins_with", <<val>>) <=> i \in Under(pattern)
      BY <3>1 DEF Compare, Under
    <3> QED BY <2>1, <2>4, <3>1, <3>2
  <2>5. CASE ~EndsWith(pattern, Star) /\ ~EndsWith(pattern, Hash)
    <3>1. op = "=" /\ val = pattern
      BY <1>2, <2>5 DEF IsPattern, sk
    <3>2. Compare(i["sk"], "=", <<val>>) <=> i["sk"] = pattern
      BY <3>1 DEF Compare
    <3> QED BY <2>1, <2>5, <3>1, <3>2
  <2> QED BY <2>3, <2>4, <2>5
<1>7. wants \in SUBSET Items
  BY DEF In
<1>8. op # "between" /\ ":rangeKey" # ":hashKey"
  OBVIOUS
<1> HIDE DEF c, v, op, val, r, wants
<1>9. Parts(r, "Query", "table", c, <<>>, None, v)
  BY <1>4, <1>5, QueryWith
<1>10. Parts(r, "Query", "table", <<Is("pk", ":hashKey"), Comparison("sk", op, <<":rangeKey">>)>>, <<>>,
             None, Bind(":hashKey", ck.pk) ++ Bind(":rangeKey", val))
  BY <1>9 DEF c, v
<1>11. Meant("query", r, wants)
  BY <1>6, <1>7, <1>8, <1>10, ByPkSkMeant
<1> QED BY <1>11 DEF r, wants

\* By one key or by several.
Plain(r, op, keys) ==
  /\ Formed(r) /\ r.start = NoKey /\ r.limit = NoLimit /\ r.op = op /\ r.keys = keys
  /\ r.cond = <<>> /\ r.filter = <<>> /\ r.names = None /\ r.values = None

\* An update of such a request.
LEMMA PutPlain ==
  ASSUME NEW r, NEW op, NEW keys, Plain(r, op, keys)
  PROVE  /\ \A x \in {"GetItem", "BatchGetItem"} : Plain(PutOp(r, x), x, keys)
         /\ \A x : Plain(PutKeys(r, x), op, x)
<1>1. r = [op |-> r.op, index |-> r.index, cond |-> r.cond, filter |-> r.filter, names |-> r.names,
           values |-> r.values, forward |-> r.forward, limit |-> r.limit, start |-> r.start,
           keys |-> r.keys]
  BY DEF Plain, Formed
<1>2. ASSUME NEW x \in {"GetItem", "BatchGetItem"} PROVE Plain(PutOp(r, x), x, keys)
  <2>1. PutOp(r, x) = [op |-> x, index |-> r.index, cond |-> r.cond, filter |-> r.filter,
           names |-> r.names, values |-> r.values, forward |-> r.forward, limit |-> r.limit,
           start |-> r.start, keys |-> r.keys]
    BY <1>1 DEF PutOp
  <2> QED BY <2>1 DEF Plain, Formed
<1>3. ASSUME NEW x PROVE Plain(PutKeys(r, x), op, x)
  <2>1. PutKeys(r, x) = [op |-> r.op, index |-> r.index, cond |-> r.cond, filter |-> r.filter,
           names |-> r.names, values |-> r.values, forward |-> r.forward, limit |-> r.limit,
           start |-> r.start, keys |-> x]
    BY <1>1 DEF PutKeys
  <2> QED BY <2>1 DEF Plain, Formed
<1> QED BY <1>2, <1>3

\* What GetItem and BatchGetItem are asked.
LEMMA GetParts ==
  ASSUME NEW keys
  PROVE  /\ Plain(Get(keys), "GetItem", keys)
         /\ Plain([Get(keys) EXCEPT !.op = "BatchGetItem"], "BatchGetItem", keys)
<1>1. Plain(Query, "Query", <<>>)
  BY DEF Plain, Query, Formed
<1>2. Get(keys) = PutKeys(PutOp(Query, "GetItem"), keys)
  BY DEF Get, PutKeys, PutOp
<1>3. Plain(PutOp(Query, "GetItem"), "GetItem", <<>>)
  BY <1>1, PutPlain
<1>4. Plain(Get(keys), "GetItem", keys)
  BY <1>2, <1>3, PutPlain
<1>5. [Get(keys) EXCEPT !.op = "BatchGetItem"] = PutOp(Get(keys), "BatchGetItem")
  BY DEF PutOp
<1>6. Plain(PutOp(Get(keys), "BatchGetItem"), "BatchGetItem", keys)
  BY <1>4, PutPlain
<1> QED BY <1>4, <1>5, <1>6

\* It is the items with those keys.
LEMMA GetMeant ==
  ASSUME NEW fn, NEW op, NEW keys, NEW r, Plain(r, op, keys), op \in {"GetItem", "BatchGetItem"},
         op = "BatchGetItem" => fn = "batch_get"
  PROVE  Meant(fn, r, {i \in Items : KeyOf(i) \in ToSet(keys)})
<1>1. /\ Formed(r) /\ r.start = NoKey /\ r.limit = NoLimit /\ r.op = op /\ r.keys = keys
      /\ r.cond = <<>> /\ r.filter = <<>> /\ r.names = None /\ r.values = None
  BY DEF Plain
<1>2. \A i \in Items : i \in {j \in Items : KeyOf(j) \in ToSet(keys)} <=> Selects(r, i)
  BY <1>1 DEF Selects, Listed
<1>3. CASE op = "GetItem"
  <2>1. DOMAIN r.names = {} /\ DOMAIN r.values = {}
    BY <1>1 DEF None
  <2>2. ToSet(r.cond) = {} /\ ToSet(r.filter) = {}
    BY <1>1 DEF ToSet
  <2>3. ToSet(r.cond) \cup ToSet(r.filter) = {}
    BY <2>2
  <2>4. {c.name : c \in {}} \ Attributes = {} /\ UNION {ToSet(c.args) : c \in {}} = {}
    OBVIOUS
  <2>5. r.limit # 0 /\ r.op # "Query" /\ r.op # "BatchGetItem"
    BY <1>1, <1>3, LimitsAssumption
  <2>6. Fits(r)
    BY <1>1, <2>1, <2>3, <2>4, <2>5 DEF Fits
  <2> QED BY <1>1, <1>2, <2>6 DEF Meant
<1>4. CASE op = "BatchGetItem"
  BY <1>1, <1>2, <1>4 DEF Meant
<1> QED BY <1>3, <1>4

\* The functions that read by keys.
LEMMA ReadByKey ==
  ASSUME NEW fn, NEW key
  PROVE  Meant(fn, Get(<<key>>), {i \in Items : KeyOf(i) = key})
<1>1. ToSet(<<key>>) = {key}
  BY DEF ToSet
<1>2. {i \in Items : KeyOf(i) = key} = {i \in Items : KeyOf(i) \in ToSet(<<key>>)}
  BY <1>1
<1>3. Meant(fn, Get(<<key>>), {i \in Items : KeyOf(i) \in ToSet(<<key>>)})
  BY GetParts, GetMeant
<1> QED BY <1>2, <1>3

\* An id is read back as the key it was made of.
LEMMA ResidAgain ==
  /\ \A key \in Resids : CompositeKeyOf(keys_to_resid(key)) = key
  /\ \A pk \in Pks : CompositeKeyOf(pk) = Key(pk, <<Hash>>)
<1>1. ASSUME NEW key \in Resids PROVE CompositeKeyOf(keys_to_resid(key)) = key
  <2>1. PICK i \in Items : SEP \notin ToSet(i.pk) /\ key = KeyOf(i)
    BY DEF Resids
  <2>2. i.pk \in Texts /\ i.sk \in Texts
    BY ItemsAssumption DEF Attributes
  <2>3. key = Key(i.pk, i.sk) /\ key.pk = i.pk /\ key.sk = i.sk
    BY <2>1 DEF KeyOf, Key
  <2> QED BY <2>1, <2>2, <2>3, KeyAgain DEF keys_to_resid
<1>2. ASSUME NEW pk \in Pks PROVE CompositeKeyOf(pk) = Key(pk, <<Hash>>)
  <2>1. SEP \notin ToSet(pk)
    BY TextsAssumption
  <2>2. {n \in DOMAIN pk : pk[n] = SEP} = {}
    BY <2>1 DEF ToSet
  <2> QED BY <2>2 DEF CompositeKeyOf
<1> QED BY <1>1, <1>2

\* In the index, with the caller's own expression.
LEMMA QueryWithKey ==
  ASSUME NEW role
  PROVE  Meant("query_with_key",
               [Query EXCEPT !.index = "gsi", !.cond = <<Is("gpk", ":e")>>, !.names = None,
                             !.values = Bind(":e", role)],
               WithRole(role))
<1> DEFINE c == <<Is("gpk", ":e")>>
           v == Bind(":e", role)
           r == [Query EXCEPT !.index = "gsi", !.cond = <<Is("gpk", ":e")>>, !.names = None,
                              !.values = Bind(":e", role)]
<1>1. r = PutValues(PutNames(PutCond(PutIndex(Query, "gsi"), c), None), v)
  BY DEF PutValues, PutNames, PutCond, PutIndex
<1>2. DOMAIN c = 1..Len(c)
  BY OneLong
<1>3. DOMAIN v = {":e"} /\ v[":e"] = role
  BY DEF Bind
<1> HIDE DEF r, c, v
<1>4. Parts(r, "Query", "gsi", c, <<>>, None, v)
  BY <1>1, <1>2, QueryWith
<1>5. /\ Formed(r) /\ r.start = NoKey /\ r.op = "Query" /\ r.filter = <<>> /\ r.index = "gsi"
      /\ r.cond = c /\ r.names = None /\ r.values = v
  BY <1>4 DEF Parts
<1>6. DOMAIN r.names = {}
  BY <1>5 DEF None
<1>7. AttributeOf(r, "gpk") = "gpk"
  BY <1>6 DEF AttributeOf
<1>8. AsksOne(r, "gpk", ":e", "gpk")
  <2>1. {"gpk"} \ Attributes = {}
    BY KeyNames
  <2>2. "gpk" = KeyOfIndex[r.index][1]
    BY <1>5, KeyNames
  <2>3. DOMAIN r.names = {"gpk"} \ Attributes
    BY <1>6, <2>1
  <2> QED BY <1>3, <1>5, <1>7, <2>2, <2>3 DEF AsksOne, c
<1>9. WithRole(role) \in SUBSET Items /\ \A i \in Items : i \in WithRole(role) <=> i["gpk"] = r.values[":e"]
  BY <1>3, <1>5 DEF WithRole
<1>10. Meant("query_with_key", r, WithRole(role))
  BY <1>8, <1>9, OneMeant
<1> QED BY <1>10 DEF r

\* In the index, by role.
LEMMA ByRoleParts ==
  ASSUME NEW role, NEW forward \in BOOLEAN
  PROVE  Parts(ByRole(role, forward), "Query", "gsi", <<Is("#pk", ":pk")>>, <<>>,
               Bind("#pk", "gpk"), Bind(":pk", role))
<1> DEFINE c == <<Is("#pk", ":pk")>>
           n == Bind("#pk", "gpk")
           v == Bind(":pk", role)
<1>1. ByRole(role, forward) =
        PutForward(PutValues(PutNames(PutCond(PutIndex(Query, "gsi"), c), n), v), forward)
  BY DEF ByRole, PutForward, PutValues, PutNames, PutCond, PutIndex
<1>2. DOMAIN c = 1..Len(c)
  BY OneLong
<1> HIDE DEF c, n, v
<1>3. Parts(ByRole(role, forward), "Query", "gsi", c, <<>>, n, v)
  BY <1>1, <1>2, QueryWith
<1> QED BY <1>3 DEF c, n, v

\* It is the items with that role.
LEMMA ByRoleMeant ==
  ASSUME NEW fn, NEW r, NEW role,
         Parts(r, "Query", "gsi", <<Is("#pk", ":pk")>>, <<>>, Bind("#pk", "gpk"), Bind(":pk", role))
  PROVE  Meant(fn, r, WithRole(role))
<1>1. /\ Formed(r) /\ r.start = NoKey /\ r.op = "Query" /\ r.filter = <<>> /\ r.index = "gsi"
      /\ r.cond = <<Is("#pk", ":pk")>> /\ r.names = Bind("#pk", "gpk") /\ r.values = Bind(":pk", role)
  BY DEF Parts
<1>2. DOMAIN r.names = {"#pk"} /\ r.names["#pk"] = "gpk"
  BY <1>1 DEF Bind
<1>3. DOMAIN r.values = {":pk"} /\ r.values[":pk"] = role
  BY <1>1 DEF Bind
<1>4. AttributeOf(r, "#pk") = "gpk"
  BY <1>2 DEF AttributeOf
<1>5. AsksOne(r, "#pk", ":pk", "gpk")
  <2>1. {"#pk"} \ Attributes = {"#pk"}
    BY KeyNames
  <2>2. "gpk" = KeyOfIndex[r.index][1]
    BY <1>1, KeyNames
  <2>3. DOMAIN r.names = {"#pk"} \ Attributes
    BY <1>2, <2>1
  <2> QED BY <1>1, <1>3, <1>4, <2>2, <2>3 DEF AsksOne
<1>6. WithRole(role) \in SUBSET Items /\ \A i \in Items : i \in WithRole(role) <=> i["gpk"] = r.values[":pk"]
  BY <1>3 DEF WithRole
<1> QED BY <1>5, <1>6, OneMeant

\* query_gsi_by_pk and query_gsi_page_by_pk.
LEMMA QueryByRole ==
  ASSUME NEW role, NEW forward \in BOOLEAN, NEW limit \in Nat \cup {NoLimit}
  PROVE  /\ Meant("query_gsi_by_pk", ByRole(role, forward), WithRole(role))
         /\ Meant("query_gsi_page_by_pk", Paged(ByRole(role, forward), NoText, limit), WithRole(role))
<1> DEFINE q == ByRole(role, forward)
           c == <<Is("#pk", ":pk")>>
           n == Bind("#pk", "gpk")
           v == Bind(":pk", role)
<1>1. Parts(q, "Query", "gsi", c, <<>>, n, v)
  BY ByRoleParts
<1>2. \A r, fn : Parts(r, "Query", "gsi", c, <<>>, n, v) => Meant(fn, r, WithRole(role))
  BY ByRoleMeant
<1> HIDE DEF q, c, n, v
<1>3. Parts(Paged(q, NoText, limit), "Query", "gsi", c, <<>>, n, v)
  BY <1>1, PagedParts
<1>4. /\ Meant("query_gsi_by_pk", q, WithRole(role))
      /\ Meant("query_gsi_page_by_pk", Paged(q, NoText, limit), WithRole(role))
  BY <1>1, <1>2, <1>3
<1> QED BY <1>4 DEF q

\* A further key condition, its placeholders added to those of the role.
LEMMA RoleWith ==
  ASSUME NEW role, NEW forward \in BOOLEAN, NEW c, DOMAIN c = 1..Len(c), NEW n, NEW v
  PROVE  Parts(Binding([ByRole(role, forward) EXCEPT !.cond = c], n, v),
               "Query", "gsi", c, <<>>, n ++ Bind("#pk", "gpk"), v ++ Bind(":pk", role))
<1> DEFINE q == ByRole(role, forward)
           n2 == n ++ Bind("#pk", "gpk")
           v2 == v ++ Bind(":pk", role)
           r == Binding([q EXCEPT !.cond = c], n, v)
<1>1. Parts(q, "Query", "gsi", <<Is("#pk", ":pk")>>, <<>>, Bind("#pk", "gpk"), Bind(":pk", role))
  BY ByRoleParts
<1>2. q.names = Bind("#pk", "gpk") /\ q.values = Bind(":pk", role)
  BY <1>1 DEF Parts
<1>3. r = Binding(PutCond(q, c), n, v)
  BY DEF PutCond
<1> HIDE DEF q, r
<1>4. Parts(PutCond(q, c), "Query", "gsi", c, <<>>, Bind("#pk", "gpk"), Bind(":pk", role))
  BY <1>1, PutParts
<1>5. Parts(r, "Query", "gsi", c, <<>>, n2, v2)
  BY <1>3, <1>4, BindingParts
<1> QED BY <1>5 DEF q, r

\* Both keys by placeholders: in the table or in the index.
Named(names, index) ==
  /\ DOMAIN names = {"#pk", "#sk"}
  /\ names["#pk"] = KeyOfIndex[index][1] /\ names["#sk"] = KeyOfIndex[index][2]
Valued(values, pk, args) == DOMAIN values = {":pk"} \cup ToSet(args) /\ values[":pk"] = pk

\* What a caller means by them.
Wanted(wants, index, pk, op, operands) ==
  /\ wants \subseteq Items
  /\ \A i \in Items : i \in wants <=>
       i[KeyOfIndex[index][1]] = pk /\ Compare(i[KeyOfIndex[index][2]], op, operands)
Sorted(op, operands) == op = "between" => ~Less(operands[2], operands[1])

\* A condition on both keys of an index, by placeholders, means what the two
\* say.
LEMMA NamedMeant ==
  ASSUME NEW fn, NEW r, NEW index, NEW op, NEW args, NEW names, NEW values,
         Parts(r, "Query", index, <<Is("#pk", ":pk"), Comparison("#sk", op, args)>>, <<>>, names, values),
         Named(names, index), NEW pk, Valued(values, pk, args),
         NEW operands, operands = Operands(r, Comparison("#sk", op, args)), Sorted(op, operands),
         NEW wants, Wanted(wants, index, pk, op, operands)
  PROVE  Meant(fn, r, wants)
<1>1. /\ Formed(r) /\ r.start = NoKey /\ r.op = "Query" /\ r.filter = <<>> /\ r.index = index
      /\ r.cond = <<Is("#pk", ":pk"), Comparison("#sk", op, args)>> /\ r.names = names /\ r.values = values
  BY DEF Parts
<1> DEFINE hash == KeyOfIndex[index][1]
           range == KeyOfIndex[index][2]
<1>2. hash = KeyOfIndex[r.index][1] /\ range = KeyOfIndex[r.index][2]
  BY <1>1
<1>3. /\ "#pk" \in DOMAIN names /\ "#sk" \in DOMAIN names /\ names["#pk"] = hash /\ names["#sk"] = range
      /\ DOMAIN names = {"#pk", "#sk"}
  BY DEF Named
<1> HIDE DEF hash, range
<1>4. AttributeOf(r, "#pk") = hash /\ AttributeOf(r, "#sk") = range
  BY <1>1, <1>3 DEF AttributeOf
<1>5. {"#pk", "#sk"} \ Attributes = {"#pk", "#sk"}
  BY KeyNames
<1>6. DOMAIN r.names = {"#pk", "#sk"} \ Attributes
  BY <1>1, <1>3, <1>5
<1>7. DOMAIN r.values = {":pk"} \cup ToSet(args) /\ r.values[":pk"] = pk
  BY <1>1 DEF Valued
<1>8. AsksTwo(r, "#pk", ":pk", "#sk", op, args, hash, range)
  BY <1>1, <1>2, <1>4, <1>6, <1>7 DEF AsksTwo, Sorted
<1>9. \A i \in Items : i \in wants <=>
        i[hash] = r.values[":pk"] /\ Compare(i[range], op, Operands(r, Comparison("#sk", op, args)))
  BY <1>7 DEF hash, range, Wanted
<1>10. wants \in SUBSET Items
  BY DEF Wanted
<1> QED BY <1>8, <1>9, <1>10, TwoMeant

\* In the index, by role and the beginning of its sort key.
LEMMA QueryByRolePrefix ==
  ASSUME NEW role, NEW pfx
  PROVE  Meant("query_gsi_by_pk_with_sk_prefix",
      Binding([ByRole(role, TRUE) EXCEPT !.cond = <<Is("#pk", ":pk"), Begins("#sk", ":pfx")>>],
              Bind("#sk", "gsk"), Bind(":pfx", pfx)),
               WithRole(role) \cap IndexUnder(pfx))
<1> DEFINE c == <<Is("#pk", ":pk"), Begins("#sk", ":pfx")>>
           n == Bind("#sk", "gsk") ++ Bind("#pk", "gpk")
           v == Bind(":pfx", pfx) ++ Bind(":pk", role)
           args == <<":pfx">>
           wants == WithRole(role) \cap IndexUnder(pfx)
           forward == TRUE
           r == Binding([ByRole(role, forward) EXCEPT !.cond = c], Bind("#sk", "gsk"), Bind(":pfx", pfx))
           operands == Operands(r, Comparison("#sk", "begins_with", args))
<1>1. forward \in BOOLEAN
  OBVIOUS
<1>2. DOMAIN c = 1..Len(c)
  BY TwoLong
<1>3. c = <<Is("#pk", ":pk"), Comparison("#sk", "begins_with", args)>>
  BY DEF Begins, Comparison
<1>4. DOMAIN n = {"#pk", "#sk"} /\ n["#pk"] = "gpk" /\ n["#sk"] = "gsk"
  BY DEF Bind, ++
<1>5. Named(n, "gsi")
  BY <1>4, KeyNames DEF Named
<1>6. DOMAIN v = {":pk", ":pfx"} /\ v[":pk"] = role /\ v[":pfx"] = pfx
  BY DEF Bind, ++
<1>7. {":pk"} \cup ToSet(args) = {":pk", ":pfx"}
  BY DEF ToSet
<1>8. Valued(v, role, args)
  BY <1>6, <1>7 DEF Valued
<1> HIDE DEF c, forward
<1>9. Parts(r, "Query", "gsi", c, <<>>, n, v)
  BY <1>1, <1>2, RoleWith
<1>10. r.values = v
  BY <1>9 DEF Parts
<1>11. operands = <<pfx>>
  <2> HIDE DEF r
  <2>1. operands = <<r.values[":pfx"]>>
    BY OperandsOne
  <2> QED BY <1>6, <1>10, <2>1
<1>12. wants \in SUBSET Items
  BY DEF WithRole
<1>13. Wanted(wants, "gsi", role, "begins_with", operands)
  <2>1. \A i \in Items : i \in wants <=> i["gpk"] = role /\ Compare(i["gsk"], "begins_with", <<pfx>>)
    BY DEF WithRole, IndexUnder, Compare
  <2> HIDE DEF wants, operands
  <2> QED BY <1>11, <1>12, <2>1, KeyNames DEF Wanted
<1>14. operands = Operands(r, Comparison("#sk", "begins_with", args)) /\ Sorted("begins_with", operands)
  BY DEF Sorted
<1> HIDE DEF n, v, args, wants, r, operands
<1>15. Parts(r, "Query", "gsi", <<Is("#pk", ":pk"), Comparison("#sk", "begins_with", args)>>, <<>>, n, v)
  BY <1>3, <1>9
<1>16. Meant("query_gsi_by_pk_with_sk_prefix", r, wants)
  BY <1>5, <1>8, <1>13, <1>14, <1>15, NamedMeant
<1> QED BY <1>16 DEF r, wants, c, forward

\* The one that loses a condition is refused.
LEMMA QueryByRoleAndKey ==
  ASSUME NEW role, NEW gsk, NEW forward \in BOOLEAN
  PROVE  Meant("query_gsi_by_pksk",
      Binding([ByRole(role, forward) EXCEPT !.cond = <<Is("#sk", ":sk")>>],
              Bind("#sk", "gsk"), Bind(":sk", gsk)),
               {i \in WithRole(role) : i.gsk = gsk})
<1> DEFINE c == <<Is("#sk", ":sk")>>
           n == Bind("#sk", "gsk") ++ Bind("#pk", "gpk")
           v == Bind(":sk", gsk) ++ Bind(":pk", role)
           r == Binding([ByRole(role, forward) EXCEPT !.cond = c], Bind("#sk", "gsk"), Bind(":sk", gsk))
           wants == {i \in WithRole(role) : i.gsk = gsk}
<1>1. DOMAIN c = 1..Len(c)
  BY OneLong
<1>2. "#pk" \in DOMAIN n
  BY DEF Bind, ++
<1>3. ToSet(c) = {Is("#sk", ":sk")} /\ Is("#sk", ":sk").name = "#sk"
  BY DEF ToSet, Is
<1>4. wants \in SUBSET Items
  BY DEF WithRole
<1> HIDE DEF c, n, v, wants
<1>5. Parts(r, "Query", "gsi", c, <<>>, n, v)
  BY <1>1, RoleWith DEF n, v
<1> HIDE DEF r
<1>6. /\ Formed(r) /\ r.start = NoKey /\ r.op = "Query" /\ r.filter = <<>> /\ r.index = "gsi"
      /\ r.cond = c /\ r.names = n /\ r.values = v
  BY <1>5 DEF Parts
<1>7. ~Fits(r)
  <2>1. ToSet(r.filter) = {}
    BY <1>6 DEF ToSet
  <2>2. {x.name : x \in ToSet(r.cond) \cup ToSet(r.filter)} = {"#sk"}
    BY <1>3, <1>6, <2>1
  <2>3. "#pk" \notin {x.name : x \in ToSet(r.cond) \cup ToSet(r.filter)} \ Attributes
    BY <2>2
  <2>4. "#pk" \in DOMAIN r.names
    BY <1>2, <1>6
  <2>5. Fits(r) => {x.name : x \in ToSet(r.cond) \cup ToSet(r.filter)} \ Attributes = DOMAIN r.names
    BY DEF Fits
  <2> QED BY <2>3, <2>4, <2>5
<1>8. Meant("query_gsi_by_pksk", r, wants)
  BY <1>4, <1>6, <1>7 DEF Meant
<1> QED BY <1>8 DEF r, wants, c

\* QueriesBuilder: what it has put together so far.
Built(b, q, pk_name, sk_name) ==
  /\ b = [pk_name |-> b.pk_name, sk_name |-> b.sk_name, ascending |-> b.ascending,
          last_key |-> b.last_key, page_size |-> b.page_size, builder |-> b.builder]
  /\ b.builder = q /\ b.pk_name = pk_name /\ b.sk_name = sk_name

\* The builder begins with the table.
LEMMA BuiltTable == Built(with_table, Query, "pk", "sk")
BY DEF Built, with_table

\* An index instead.
LEMMA BuiltIndex ==
  ASSUME NEW b, NEW q, NEW pk_name, NEW sk_name, Built(b, q, pk_name, sk_name), NEW index
  PROVE  Built(use_index(b, index), PutIndex(q, index), pk_name, sk_name)
<1>1. use_index(b, index) =
        [pk_name |-> b.pk_name, sk_name |-> b.sk_name, ascending |-> b.ascending,
         last_key |-> b.last_key, page_size |-> b.page_size, builder |-> PutIndex(q, index)]
  BY DEF Built, use_index, PutIndex
<1> QED BY <1>1 DEF Built

\* The names of the key attributes.
PutPkName(b, x) == [b EXCEPT !.pk_name = x]
PutSkName(b, x) == [b EXCEPT !.sk_name = x]

\* The names of the keys come in beside the request.
LEMMA BuiltNames ==
  ASSUME NEW b, NEW q, NEW pk_name, NEW sk_name, Built(b, q, pk_name, sk_name), NEW pkn, NEW skn
  PROVE  Built(key_names(b, pkn, skn), q, pkn, skn)
<1>1. key_names(b, pkn, skn) = PutSkName(PutPkName(b, pkn), skn)
  BY DEF key_names, PutSkName, PutPkName
<1>2. PutPkName(b, pkn) =
        [pk_name |-> pkn, sk_name |-> b.sk_name, ascending |-> b.ascending,
         last_key |-> b.last_key, page_size |-> b.page_size, builder |-> b.builder]
  BY DEF Built, PutPkName
<1>3. PutSkName(PutPkName(b, pkn), skn) =
        [pk_name |-> pkn, sk_name |-> skn, ascending |-> b.ascending,
         last_key |-> b.last_key, page_size |-> b.page_size, builder |-> b.builder]
  BY <1>2 DEF PutSkName
<1> QED BY <1>1, <1>3 DEF Built

\* What an update of the request makes of it.
PutBuilder(b, q) == [b EXCEPT !.builder = q]

\* The rest of the builder stays.
LEMMA BuiltUpdate ==
  ASSUME NEW b, NEW q, NEW pk_name, NEW sk_name, Built(b, q, pk_name, sk_name), NEW q2
  PROVE  Built(PutBuilder(b, q2), q2, pk_name, sk_name)
<1>1. PutBuilder(b, q2) =
        [pk_name |-> b.pk_name, sk_name |-> b.sk_name, ascending |-> b.ascending,
         last_key |-> b.last_key, page_size |-> b.page_size, builder |-> q2]
  BY DEF Built, PutBuilder
<1> QED BY <1>1 DEF Built

\* A key condition replaces one that was there, its placeholders are added.
LEMMA BuiltWhere ==
  ASSUME NEW b, NEW q, NEW pk_name, NEW sk_name, Built(b, q, pk_name, sk_name),
         NEW c, NEW names, NEW values
  PROVE  Built(Where(b, c, names, values),
               Binding(PutCond(q, c), names, values), pk_name, sk_name)
<1>1. b.builder = q
  BY DEF Built
<1>2. Where(b, c, names, values) = PutBuilder(b, Binding(PutCond(q, c), names, values))
  BY <1>1 DEF Where, PutBuilder, PutCond
<1> QED BY <1>2, BuiltUpdate

\* A filter.
LEMMA BuiltFilter ==
  ASSUME NEW b, NEW q, NEW pk_name, NEW sk_name, Built(b, q, pk_name, sk_name), NEW f
  PROVE  Built(set_filter(b, f),
               Binding(PutFilter(q, f.exp), f.names, f.values), pk_name, sk_name)
<1>1. b.builder = q
  BY DEF Built
<1>2. set_filter(b, f) = PutBuilder(b, Binding(PutFilter(q, f.exp), f.names, f.values))
  BY <1>1 DEF set_filter, PutBuilder, PutFilter
<1> QED BY <1>2, BuiltUpdate

\* The settings come into the request at the end.
PutAscending(b, x) == [b EXCEPT !.ascending = x]
PutSize(b, x)      == [b EXCEPT !.page_size = x]
PutLast(b, x)      == [b EXCEPT !.last_key = x]

\* They leave the request alone until then.
LEMMA BuiltSettings ==
  ASSUME NEW b, NEW q, NEW pk_name, NEW sk_name, Built(b, q, pk_name, sk_name),
         NEW ascending, NEW limit, NEW last
  PROVE  /\ Built(settings(b, ascending, limit, last), q, pk_name, sk_name)
         /\ settings(b, ascending, limit, last).ascending = ascending
         /\ settings(b, ascending, limit, last).page_size = limit
         /\ settings(b, ascending, limit, last).last_key = last
<1>1. settings(b, ascending, limit, last) = PutLast(PutSize(PutAscending(b, ascending), limit), last)
  BY DEF settings, PutLast, PutSize, PutAscending
<1>2. PutAscending(b, ascending) =
        [pk_name |-> b.pk_name, sk_name |-> b.sk_name, ascending |-> ascending,
         last_key |-> b.last_key, page_size |-> b.page_size, builder |-> b.builder]
  BY DEF Built, PutAscending
<1>3. PutSize(PutAscending(b, ascending), limit) =
        [pk_name |-> b.pk_name, sk_name |-> b.sk_name, ascending |-> ascending,
         last_key |-> b.last_key, page_size |-> limit, builder |-> b.builder]
  BY <1>2 DEF PutSize
<1>4. PutLast(PutSize(PutAscending(b, ascending), limit), last) =
        [pk_name |-> b.pk_name, sk_name |-> b.sk_name, ascending |-> ascending,
         last_key |-> last, page_size |-> limit, builder |-> b.builder]
  BY <1>3 DEF PutLast
<1> QED BY <1>1, <1>4 DEF Built

\* The request that is sent is the one put together.
LEMMA BuiltGo ==
  ASSUME NEW b, NEW q, NEW pk_name, NEW sk_name, Built(b, q, pk_name, sk_name),
         NEW op, NEW index, NEW cond, NEW filter, NEW names, NEW values,
         Parts(q, op, index, cond, filter, names, values),
         b.ascending \in BOOLEAN, b.page_size \in Nat \cup {NoLimit}, b.last_key = NoText
  PROVE  Parts(go(b), op, index, cond, filter, names, values)
<1> DEFINE forward == b.ascending
           limit == b.page_size
<1>1. make_start_key(NoText) = NoKey
  BY DEF make_start_key
<1>2. go(b) = PutLimit(PutStart(PutForward(b.builder, forward), make_start_key(b.last_key)), limit)
  BY DEF go, PutLimit, PutStart, PutForward
<1>3. go(b) = PutLimit(PutStart(PutForward(q, forward), NoKey), limit)
  BY <1>1, <1>2 DEF Built
<1>4. forward \in BOOLEAN /\ limit \in Nat \cup {NoLimit}
  OBVIOUS
<1> HIDE DEF forward, limit
<1>5. Parts(PutForward(q, forward), op, index, cond, filter, names, values)
  BY <1>4, PutParts
<1>6. Parts(PutStart(PutForward(q, forward), NoKey), op, index, cond, filter, names, values)
  BY <1>5, PutParts
<1>7. Parts(PutLimit(PutStart(PutForward(q, forward), NoKey), limit), op, index, cond, filter, names, values)
  BY <1>4, <1>6, PutParts
<1> QED BY <1>3, <1>7

\* A key condition on both keys, through QueriesBuilder.
Starting(b, q, index) ==
  /\ index \in {"table", "gsi"} /\ Built(b, q, KeyOfIndex[index][1], KeyOfIndex[index][2])
  /\ Parts(q, "Query", index, <<>>, <<>>, None, None)
Setting(ascending, limit) == ascending \in BOOLEAN /\ limit \in Nat \cup {NoLimit}
Fresh(values, args) == DOMAIN values = ToSet(args) /\ ":pk" \notin DOMAIN values
Keeps(v, values, args) == \A x \in ToSet(args) : v[x] = values[x]

\* What SortKey puts together.
LEMMA SortKeyParts ==
  ASSUME NEW b, NEW q, NEW index, Starting(b, q, index),
         NEW pk, NEW op, NEW args, NEW values, Fresh(values, args),
         NEW ascending, NEW limit, Setting(ascending, limit),
         NEW r, r = go(settings(SortKey(b, pk, op, args, values), ascending, limit, NoText))
  PROVE  \E n, v :
           /\ Parts(r, "Query", index, <<Is("#pk", ":pk"), Comparison("#sk", op, args)>>, <<>>, n, v)
           /\ Named(n, index) /\ Valued(v, pk, args) /\ Keeps(v, values, args)
<1> DEFINE hash == KeyOfIndex[index][1]
           range == KeyOfIndex[index][2]
           c == <<Is("#pk", ":pk"), Comparison("#sk", op, args)>>
           N == Bind("#pk", b.pk_name) ++ Bind("#sk", b.sk_name)
           V == Bind(":pk", pk) ++ values
           n == N ++ None
           v == V ++ None
           s == SortKey(b, pk, op, args, values)
           t == settings(s, ascending, limit, NoText)
           w == Binding(PutCond(q, c), N, V)
<1>1. b.pk_name = hash /\ b.sk_name = range
  BY DEF Built, Starting
<1>2. DOMAIN c = 1..Len(c)
  BY TwoLong
<1>3. s = Where(b, c, N, V)
  BY DEF SortKey, Comparison
<1>4. DOMAIN n = {"#pk", "#sk"} /\ n["#pk"] = hash /\ n["#sk"] = range
  <2>1. DOMAIN N = {"#pk", "#sk"} /\ N["#pk"] = hash /\ N["#sk"] = range
    BY <1>1 DEF Bind, ++
  <2> HIDE DEF N
  <2> QED BY <2>1 DEF None, ++
<1>5. Named(n, index)
  BY <1>4 DEF Named
<1>6. DOMAIN v = {":pk"} \cup ToSet(args) /\ v[":pk"] = pk /\ \A x \in ToSet(args) : v[x] = values[x]
  <2>1. DOMAIN V = {":pk"} \cup ToSet(args) /\ V[":pk"] = pk /\ \A x \in ToSet(args) : V[x] = values[x]
    BY DEF Bind, ++, Fresh
  <2> HIDE DEF V
  <2> QED BY <2>1 DEF None, ++
<1>7. Valued(v, pk, args) /\ Keeps(v, values, args)
  BY <1>6 DEF Valued, Keeps
<1>8. Built(b, q, hash, range) /\ Parts(q, "Query", index, <<>>, <<>>, None, None)
  BY DEF Starting
<1>9. ascending \in BOOLEAN /\ limit \in Nat \cup {NoLimit}
  BY DEF Setting
<1> HIDE DEF hash, range, c, N, V, n, v
<1>10. Built(s, w, hash, range)
  BY <1>3, <1>8, BuiltWhere
<1>11. Parts(PutCond(q, c), "Query", index, c, <<>>, None, None)
  BY <1>2, <1>8, PutParts
<1>12. Parts(w, "Query", index, c, <<>>, n, v)
  BY <1>11, BindingParts DEF n, v
<1> HIDE DEF s, w
<1>13. Built(t, w, hash, range) /\ t.ascending = ascending /\ t.page_size = limit /\ t.last_key = NoText
  BY <1>10, BuiltSettings
<1> HIDE DEF t
<1>14. r = go(t)
  BY DEF t, s
<1>15. Parts(r, "Query", index, c, <<>>, n, v)
  BY <1>9, <1>12, <1>13, <1>14, BuiltGo
<1> QED BY <1>5, <1>7, <1>15 DEF c

\* With one operand.
LEMMA SortKeyOne ==
  ASSUME NEW fn, NEW b, NEW q, NEW index, Starting(b, q, index),
         NEW pk, NEW op, op # "between", NEW x, x # ":pk", NEW val,
         NEW ascending, NEW limit, Setting(ascending, limit),
         NEW r, r = go(settings(SortKey(b, pk, op, <<x>>, Bind(x, val)), ascending, limit, NoText)),
         NEW wants, Wanted(wants, index, pk, op, <<val>>)
  PROVE  Meant(fn, r, wants)
<1> DEFINE args == <<x>>
           values == Bind(x, val)
           operands == Operands(r, Comparison("#sk", op, args))
<1>1. ToSet(args) = {x} /\ DOMAIN values = {x} /\ values[x] = val
  BY DEF ToSet, Bind
<1>2. Fresh(values, args)
  BY <1>1 DEF Fresh
<1> HIDE DEF values
<1>3. r = go(settings(SortKey(b, pk, op, args, values), ascending, limit, NoText))
  BY DEF values
<1>4. PICK n, v :
           /\ Parts(r, "Query", index, <<Is("#pk", ":pk"), Comparison("#sk", op, args)>>, <<>>, n, v)
           /\ Named(n, index) /\ Valued(v, pk, args) /\ Keeps(v, values, args)
  <2> HIDE DEF args
  <2> QED BY <1>2, <1>3, SortKeyParts
<1>5. v[x] = val
  BY <1>1, <1>4 DEF Keeps
<1>6. operands = <<val>>
  <2>1. r.values = v
    BY <1>4 DEF Parts
  <2>2. operands = <<r.values[x]>>
    BY OperandsOne
  <2> QED BY <1>5, <2>1, <2>2
<1>7. operands = Operands(r, Comparison("#sk", op, args)) /\ Sorted(op, operands)
  BY DEF Sorted
<1> HIDE DEF args, operands
<1>8. Wanted(wants, index, pk, op, operands)
  BY <1>6
<1> QED BY <1>4, <1>7, <1>8, NamedMeant

\* With two.
LEMMA SortKeyTwo ==
  ASSUME NEW fn, NEW b, NEW q, NEW index, Starting(b, q, index),
         NEW pk, NEW lo, NEW hi, ~Less(hi, lo),
         NEW ascending, NEW limit, Setting(ascending, limit),
         NEW r, r = go(settings(hash_key_with_sort_key_between(b, pk, lo, hi), ascending, limit, NoText)),
         NEW wants \in SUBSET Items,
         \A i \in Items : i \in wants <=>
           i[KeyOfIndex[index][1]] = pk
           /\ ~Less(i[KeyOfIndex[index][2]], lo) /\ ~Less(hi, i[KeyOfIndex[index][2]])
  PROVE  Meant(fn, r, wants)
<1> DEFINE args == <<":sk1", ":sk2">>
           values == Bind(":sk1", lo) ++ Bind(":sk2", hi)
           op == "between"
           operands == Operands(r, Comparison("#sk", op, args))
<1>1. ToSet(args) = {":sk1", ":sk2"}
  BY DEF ToSet
<1>2. DOMAIN values = {":sk1", ":sk2"} /\ values[":sk1"] = lo /\ values[":sk2"] = hi
  BY DEF Bind, ++
<1>3. Fresh(values, args)
  BY <1>1, <1>2 DEF Fresh
<1>4. r = go(settings(SortKey(b, pk, op, args, values), ascending, limit, NoText))
  BY DEF hash_key_with_sort_key_between
<1> HIDE DEF values
<1>5. PICK n, v :
           /\ Parts(r, "Query", index, <<Is("#pk", ":pk"), Comparison("#sk", op, args)>>, <<>>, n, v)
           /\ Named(n, index) /\ Valued(v, pk, args) /\ Keeps(v, values, args)
  <2> HIDE DEF args, op
  <2> QED BY <1>3, <1>4, SortKeyParts
<1>6. v[":sk1"] = lo /\ v[":sk2"] = hi
  BY <1>1, <1>2, <1>5 DEF Keeps
<1>7. operands[1] = lo /\ operands[2] = hi
  <2>1. r.values = v
    BY <1>5 DEF Parts
  <2>2. operands[1] = r.values[":sk1"] /\ operands[2] = r.values[":sk2"]
    BY OperandsTwo
  <2> QED BY <1>6, <2>1, <2>2
<1>8. operands = Operands(r, Comparison("#sk", op, args))
  OBVIOUS
<1> HIDE DEF args, operands
<1>9. \A y : Compare(y, "between", operands) <=> ~Less(y, lo) /\ ~Less(hi, y)
  BY <1>7 DEF Compare
<1>10. Wanted(wants, index, pk, op, operands)
  BY <1>9 DEF Wanted
<1>11. Sorted(op, operands)
  BY <1>7 DEF Sorted
<1> HIDE DEF op
<1> QED BY <1>5, <1>8, <1>10, <1>11, NamedMeant

\* The builder for the table and that for the index.
LEMMA Starters ==
  /\ Starting(with_table, Query, "table")
  /\ Starting(key_names(use_index(with_table, "gsi"), "gpk", "gsk"), PutIndex(Query, "gsi"), "gsi")
<1>1. "table" \in {"table", "gsi"} /\ "gsi" \in {"table", "gsi"}
  OBVIOUS
<1>2. Starting(with_table, Query, "table")
  BY <1>1, BuiltTable, QueryParts, KeyNames DEF Starting
<1>3. Built(use_index(with_table, "gsi"), PutIndex(Query, "gsi"), "pk", "sk")
  BY BuiltTable, BuiltIndex
<1>4. Built(key_names(use_index(with_table, "gsi"), "gpk", "gsk"), PutIndex(Query, "gsi"), "gpk", "gsk")
  BY <1>3, BuiltNames
<1>5. Parts(PutIndex(Query, "gsi"), "Query", "gsi", <<>>, <<>>, None, None)
  BY <1>1, QueryParts, PutParts
<1>6. Starting(key_names(use_index(with_table, "gsi"), "gpk", "gsk"), PutIndex(Query, "gsi"), "gsi")
  BY <1>1, <1>4, <1>5, KeyNames DEF Starting
<1> QED BY <1>2, <1>6

\* query_page_by_pk_with_sk_expr, for each comparison.
LEMMA QueryByExpr ==
  ASSUME NEW pk, NEW op, op # "between", NEW val, NEW ascending, NEW limit, Setting(ascending, limit)
  PROVE  Meant("query_page_by_pk_with_sk_expr",
               go(settings(hash_key_with_sort_key_expr(with_table, pk, op, val), ascending, limit, NoText)),
               In(pk) \cap Compared(op, val))
<1> DEFINE r == go(settings(hash_key_with_sort_key_expr(with_table, pk, op, val), ascending, limit, NoText))
           wants == In(pk) \cap Compared(op, val)
<1>1. Wanted(wants, "table", pk, op, <<val>>)
  <2>1. wants \subseteq Items /\ \A i \in Items : i \in wants <=> i["pk"] = pk /\ Compare(i["sk"], op, <<val>>)
    BY DEF In, Compared
  <2> QED BY <2>1, KeyNames DEF Wanted
<1>2. r = go(settings(SortKey(with_table, pk, op, <<":sk">>, Bind(":sk", val)), ascending, limit, NoText))
  BY DEF hash_key_with_sort_key_expr
<1>3. ":sk" # ":pk"
  OBVIOUS
<1> HIDE DEF r, wants
<1>4. Meant("query_page_by_pk_with_sk_expr", r, wants)
  BY <1>1, <1>2, <1>3, Starters, SortKeyOne
<1> QED BY <1>4 DEF r, wants

\* The prefix of the builder.
LEMMA QueryByBuilderPrefix ==
  ASSUME NEW pk, NEW pfx, NEW ascending, NEW limit, Setting(ascending, limit)
  PROVE  Meant("QueriesBuilder",
               go(settings(hash_key_with_sort_key_prefix(with_table, pk, pfx), ascending, limit, NoText)),
               In(pk) \cap Under(pfx))
<1> DEFINE r == go(settings(hash_key_with_sort_key_prefix(with_table, pk, pfx), ascending, limit, NoText))
           wants == In(pk) \cap Under(pfx)
<1>1. Wanted(wants, "table", pk, "begins_with", <<pfx>>)
  <2>1. wants \subseteq Items
        /\ \A i \in Items : i \in wants <=> i["pk"] = pk /\ Compare(i["sk"], "begins_with", <<pfx>>)
    BY DEF In, Under, Compare
  <2> HIDE DEF wants
  <2> QED BY <2>1, KeyNames DEF Wanted
<1>2. r = go(settings(SortKey(with_table, pk, "begins_with", <<":pfx">>, Bind(":pfx", pfx)),
                      ascending, limit, NoText))
  BY DEF hash_key_with_sort_key_prefix
<1>3. ":pfx" # ":pk" /\ "begins_with" # "between"
  OBVIOUS
<1> HIDE DEF r, wants
<1>4. Meant("QueriesBuilder", r, wants)
  BY <1>1, <1>2, <1>3, Starters, SortKeyOne
<1> QED BY <1>4 DEF r, wants

\* The sort keys between two, in the table and in the index.
LEMMA QueryByBetween ==
  ASSUME NEW pk, NEW lo, NEW hi, ~Less(hi, lo), NEW ascending, NEW limit, Setting(ascending, limit)
  PROVE  Meant("query_page_by_pk_with_sk_between",
               go(settings(hash_key_with_sort_key_between(with_table, pk, lo, hi), ascending, limit, NoText)),
               {i \in In(pk) : ~Less(i.sk, lo) /\ ~Less(hi, i.sk)})
<1> DEFINE r == go(settings(hash_key_with_sort_key_between(with_table, pk, lo, hi), ascending, limit, NoText))
           wants == {i \in In(pk) : ~Less(i.sk, lo) /\ ~Less(hi, i.sk)}
<1>1. wants \in SUBSET Items
      /\ \A i \in Items : i \in wants <=>
           i[KeyOfIndex["table"][1]] = pk
           /\ ~Less(i[KeyOfIndex["table"][2]], lo) /\ ~Less(hi, i[KeyOfIndex["table"][2]])
  <2>1. wants \in SUBSET Items
        /\ \A i \in Items : i \in wants <=> i["pk"] = pk /\ ~Less(i["sk"], lo) /\ ~Less(hi, i["sk"])
    BY DEF In
  <2> HIDE DEF wants
  <2> QED BY <2>1, KeyNames
<1>2. r = go(settings(hash_key_with_sort_key_between(with_table, pk, lo, hi), ascending, limit, NoText))
  OBVIOUS
<1>3. Starting(with_table, Query, "table")
  BY Starters
<1> HIDE DEF r, wants
<1>4. Meant("query_page_by_pk_with_sk_between", r, wants)
  BY <1>1, <1>2, <1>3, SortKeyTwo
<1> QED BY <1>4 DEF r, wants

\* query_gsi_page_by_pk_with_sk_between.
LEMMA QueryByRoleBetween ==
  ASSUME NEW role, NEW lo, NEW hi, ~Less(hi, lo), NEW ascending, NEW limit, Setting(ascending, limit),
         NEW b, b = key_names(use_index(with_table, "gsi"), "gpk", "gsk")
  PROVE  Meant("query_gsi_page_by_pk_with_sk_between",
               go(settings(hash_key_with_sort_key_between(b, role, lo, hi), ascending, limit, NoText)),
               {i \in WithRole(role) : ~Less(i.gsk, lo) /\ ~Less(hi, i.gsk)})
<1> DEFINE r == go(settings(hash_key_with_sort_key_between(b, role, lo, hi), ascending, limit, NoText))
           wants == {i \in WithRole(role) : ~Less(i.gsk, lo) /\ ~Less(hi, i.gsk)}
<1>1. wants \in SUBSET Items
      /\ \A i \in Items : i \in wants <=>
           i[KeyOfIndex["gsi"][1]] = role
           /\ ~Less(i[KeyOfIndex["gsi"][2]], lo) /\ ~Less(hi, i[KeyOfIndex["gsi"][2]])
  <2>1. wants \in SUBSET Items
        /\ \A i \in Items : i \in wants <=> i["gpk"] = role /\ ~Less(i["gsk"], lo) /\ ~Less(hi, i["gsk"])
    BY DEF WithRole
  <2> HIDE DEF wants
  <2> QED BY <2>1, KeyNames
<1>2. r = go(settings(hash_key_with_sort_key_between(b, role, lo, hi), ascending, limit, NoText))
  OBVIOUS
<1>3. Starting(b, PutIndex(Query, "gsi"), "gsi")
  BY Starters
<1> HIDE DEF r, wants
<1>4. Meant("query_gsi_page_by_pk_with_sk_between", r, wants)
  BY <1>1, <1>2, <1>3, SortKeyTwo
<1> QED BY <1>4 DEF r, wants

\* Filters: a scan with one of them, as DynamoDB takes it.
LEMMA ScanParts ==
  ASSUME NEW f
  PROVE  Parts(ScanWith(f), "Scan", "table", <<>>, f.exp, f.names, f.values)
<1>1. Parts(Scan, "Scan", "table", <<>>, <<>>, None, None)
  <2> DEFINE q == Query
  <2>1. Parts(q, "Query", "table", <<>>, <<>>, None, None) /\ Scan = PutOp(q, "Scan")
    BY QueryParts DEF Scan, PutOp
  <2> HIDE DEF q
  <2>2. q = [op |-> q.op, index |-> q.index, cond |-> q.cond, filter |-> q.filter, names |-> q.names,
           values |-> q.values, forward |-> q.forward, limit |-> q.limit, start |-> q.start,
           keys |-> q.keys]
    BY <2>1 DEF Parts, Formed
  <2>3. PutOp(q, "Scan") = [op |-> "Scan", index |-> q.index, cond |-> q.cond, filter |-> q.filter,
           names |-> q.names, values |-> q.values, forward |-> q.forward, limit |-> q.limit,
           start |-> q.start, keys |-> q.keys]
    BY <2>2 DEF PutOp
  <2> QED BY <2>1, <2>3 DEF Parts, Formed
<1> DEFINE e == f.exp
           n == f.names
           v == f.values
<1>2. ScanWith(f) = PutValues(PutNames(PutFilter(Scan, e), n), v)
  BY DEF ScanWith, PutValues, PutNames, PutFilter
<1> HIDE DEF e, n, v
<1>3. Parts(PutFilter(Scan, e), "Scan", "table", <<>>, e, None, None)
  BY <1>1, PutParts
<1>4. Parts(PutNames(PutFilter(Scan, e), n), "Scan", "table", <<>>, e, n, None)
  BY <1>3, PutParts
<1>5. Parts(ScanWith(f), "Scan", "table", <<>>, e, n, v)
  BY <1>2, <1>4, PutParts
<1> QED BY <1>5 DEF e, n, v

\* A scan with a filter means the items the filter looks for.
LEMMA ScanMeant ==
  ASSUME NEW fn, NEW f \in Filters
  PROVE  Meant(fn, ScanWith(f), Tagged(f.tag))
<1> DEFINE r == ScanWith(f)
<1>1. Formed(r) /\ r.start = NoKey /\ r.op = "Scan" /\ r.cond = <<>> /\ r.filter = f.exp
  BY ScanParts DEF Parts
<1>2. Fits(r) /\ \A i \in Items : Holds(r, f.exp, i) <=> i.tag = f.tag
  BY FiltersAssumption
<1> HIDE DEF r
<1>3. \A i \in Items : i \in Tagged(f.tag) <=> Selects(r, i)
  BY <1>1, <1>2, HoldsNone DEF Selects, Listed, Tagged
<1>4. Tagged(f.tag) \subseteq Items
  BY DEF Tagged
<1>5. Meant(fn, r, Tagged(f.tag))
  BY <1>1, <1>2, <1>3, <1>4 DEF Meant
<1> QED BY <1>5 DEF r

\* And so does its first page; a scan_with_filter2 without names is refused.
LEMMA ScanPage ==
  ASSUME NEW f \in Filters,
         NEW names, names = IF f.names = None THEN EmptyMap ELSE f.names
  PROVE  Meant("scan_with_filter2",
               [ScanWith(f) EXCEPT !.names = names, !.start = make_start_key(NoText)], Tagged(f.tag))
<1> DEFINE q == ScanWith(f)
           r == [q EXCEPT !.names = names, !.start = make_start_key(NoText)]
<1>1. /\ Formed(q) /\ q.start = NoKey /\ q.op = "Scan" /\ q.cond = <<>> /\ q.filter = f.exp
      /\ q.names = f.names /\ Parts(q, "Scan", "table", <<>>, f.exp, f.names, f.values)
  BY ScanParts DEF Parts
<1>2. Fits(q)
  BY FiltersAssumption
<1>3. make_start_key(NoText) = NoKey
  BY DEF make_start_key
<1>4. r = PutStart(PutNames(q, names), NoKey)
  BY <1>3 DEF PutStart, PutNames
<1>5. Tagged(f.tag) \subseteq Items
  BY DEF Tagged
<1>6. Meant("scan_with_filter2", q, Tagged(f.tag))
  BY ScanMeant
<1> HIDE DEF q, r
<1>7. ASSUME f.names = None PROVE Meant("scan_with_filter2", r, Tagged(f.tag))
  <2>1. Parts(PutNames(q, names), "Scan", "table", <<>>, f.exp, names, f.values)
    BY <1>1, PutParts
  <2>2. Parts(r, "Scan", "table", <<>>, f.exp, names, f.values)
    BY <1>4, <2>1, PutParts
  <2>3. r.cond = q.cond /\ r.filter = q.filter /\ r.names = EmptyMap /\ q.names = None
    BY <1>1, <1>7, <2>2 DEF Parts
  <2>4. ~Fits(r)
    <3> DEFINE named == {c.name : c \in ToSet(q.cond) \cup ToSet(q.filter)} \ Attributes
    <3>1. named = DOMAIN q.names
      BY <1>2 DEF Fits
    <3>2. Fits(r) => named = DOMAIN r.names
      BY <2>3 DEF Fits
    <3> HIDE DEF named
    <3>3. DOMAIN None = {}
      BY DEF None
    <3>4. "" \in DOMAIN EmptyMap
      BY DEF EmptyMap, Bind
    <3> QED BY <2>3, <3>1, <3>2, <3>3, <3>4
  <2> QED BY <1>5, <1>7, <2>2, <2>3, <2>4 DEF Meant, Parts
<1>8. ASSUME f.names # None PROVE Meant("scan_with_filter2", r, Tagged(f.tag))
  <2>1. names = q.names
    BY <1>1, <1>8
  <2>2. q = [op |-> q.op, index |-> q.index, cond |-> q.cond, filter |-> q.filter, names |-> q.names,
             values |-> q.values, forward |-> q.forward, limit |-> q.limit, start |-> q.start,
             keys |-> q.keys]
    BY <1>1 DEF Formed
  <2>3. PutNames(q, q.names) = q
    BY <2>2 DEF PutNames
  <2>4. PutStart(q, q.start) = q
    BY <2>2 DEF PutStart
  <2>5. r = q
    BY <1>1, <1>4, <2>1, <2>3, <2>4
  <2> QED BY <1>6, <2>5
<1> QED BY <1>7, <1>8 DEF r, q

\* A request with a key condition and a filter: its placeholders are those
\* of both.
AsksFiltered(r, n, f, pk) ==
  /\ Formed(r) /\ r.op = "Query" /\ r.start = NoKey /\ r.index = "table"
  /\ r.cond = <<Is(n, ":pk")>> /\ r.filter = f.exp
  /\ DOMAIN r.names = ({n} \ Attributes) \cup DOMAIN f.names
  /\ \A x \in DOMAIN f.names : r.names[x] = f.names[x]
  /\ AttributeOf(r, n) = "pk"
  /\ DOMAIN r.values = {":pk"} \cup DOMAIN f.values
  /\ \A x \in DOMAIN f.values : r.values[x] = f.values[x]
  /\ r.values[":pk"] = pk

\* What the filter says is what it says in a scan.
LEMMA FilterKept ==
  ASSUME NEW r, NEW n, n \in {"pk", "#pk"}, NEW f \in Filters, NEW pk, AsksFiltered(r, n, f, pk),
         NEW c \in ToSet(f.exp)
  PROVE  /\ AttributeOf(r, c.name) = AttributeOf(ScanWith(f), c.name)
         /\ Operands(r, c) = Operands(ScanWith(f), c)
<1> DEFINE s == ScanWith(f)
<1>1. s.cond = <<>> /\ s.filter = f.exp /\ s.names = f.names /\ s.values = f.values
  BY ScanParts DEF Parts
<1>2. Fits(s)
  BY FiltersAssumption
<1> HIDE DEF s
<1>3. /\ {d.name : d \in ToSet(s.cond) \cup ToSet(s.filter)} \ Attributes = DOMAIN s.names
      /\ UNION {ToSet(d.args) : d \in ToSet(s.cond) \cup ToSet(s.filter)} = DOMAIN s.values
  BY <1>2 DEF Fits
<1>4. c \in ToSet(s.cond) \cup ToSet(s.filter)
  BY <1>1
<1>5. c.name \in Attributes \/ c.name \in DOMAIN f.names
  BY <1>1, <1>3, <1>4
<1>6. ToSet(c.args) \subseteq DOMAIN f.values
  BY <1>1, <1>3, <1>4
<1>7. DOMAIN f.names \cap Attributes = {}
  BY <1>1, <1>3
<1>8. /\ DOMAIN r.names = ({n} \ Attributes) \cup DOMAIN f.names
      /\ \A x \in DOMAIN f.names : r.names[x] = f.names[x]
      /\ \A x \in DOMAIN f.values : r.values[x] = f.values[x]
  BY DEF AsksFiltered
<1>9. AttributeOf(r, c.name) = AttributeOf(s, c.name)
  <2>1. CASE c.name \in DOMAIN f.names
    BY <1>1, <1>8, <2>1 DEF AttributeOf
  <2>2. CASE c.name \notin DOMAIN f.names
    <3>1. c.name \notin DOMAIN r.names
      BY <1>5, <1>8, <2>2
    <3> QED BY <1>1, <2>2, <3>1 DEF AttributeOf
  <2> QED BY <2>1, <2>2
<1>10. Operands(r, c) = Operands(s, c)
  <2>1. \A m \in DOMAIN c.args : c.args[m] \in DOMAIN f.values
    BY <1>6 DEF ToSet
  <2>2. \A m \in DOMAIN c.args : r.values[c.args[m]] = s.values[c.args[m]]
    BY <1>1, <1>8, <2>1
  <2> QED BY <2>2 DEF Operands
<1> QED BY <1>9, <1>10 DEF s

\* Such a request means the items of the partition the filter looks for.
LEMMA FilteredMeant ==
  ASSUME NEW fn, NEW r, NEW n, n \in {"pk", "#pk"}, NEW f \in Filters, NEW pk, AsksFiltered(r, n, f, pk)
  PROVE  Meant(fn, r, In(pk) \cap Tagged(f.tag))
<1> DEFINE s == ScanWith(f)
           d == Is(n, ":pk")
           wants == In(pk) \cap Tagged(f.tag)
<1>1. s.cond = <<>> /\ s.filter = f.exp /\ s.names = f.names /\ s.values = f.values
  BY ScanParts DEF Parts
<1>2. /\ Fits(s) /\ \A i \in Items : Holds(s, f.exp, i) <=> i.tag = f.tag
      /\ \A c \in ToSet(f.exp) : AttributeOf(s, c.name) \notin PrimaryKey
  BY FiltersAssumption
<1>3. \A c \in ToSet(f.exp) : AttributeOf(r, c.name) = AttributeOf(s, c.name) /\ Operands(r, c) = Operands(s, c)
  BY FilterKept
<1> HIDE DEF s
<1>4. /\ Formed(r) /\ r.op = "Query" /\ r.start = NoKey /\ r.index = "table"
      /\ r.cond = <<d>> /\ r.filter = f.exp
      /\ DOMAIN r.names = ({n} \ Attributes) \cup DOMAIN f.names
      /\ AttributeOf(r, n) = "pk"
      /\ DOMAIN r.values = {":pk"} \cup DOMAIN f.values
      /\ r.values[":pk"] = pk
  BY DEF AsksFiltered
<1>5. d.name = n /\ d.op = "=" /\ d.args = <<":pk">> /\ ToSet(d.args) = {":pk"}
  BY DEF Is, ToSet
<1>6. Operands(r, d) = <<pk>>
  <2>1. d = Comparison(n, "=", <<":pk">>)
    BY DEF Is, Comparison
  <2> QED BY <1>4, <2>1, OperandsOne
<1> HIDE DEF d
<1>7. \A i \in Items : Holds(r, f.exp, i) <=> i.tag = f.tag
  <2>1. \A m \in DOMAIN f.exp : f.exp[m] \in ToSet(f.exp)
    BY DEF ToSet
  <2>2. \A i \in Items : Holds(r, f.exp, i) <=> Holds(s, f.exp, i)
    BY <1>3, <2>1 DEF Holds
  <2> QED BY <1>2, <2>2
<1>8. \A i \in Items : Holds(r, r.cond, i) <=> i["pk"] = pk
  <2> TAKE i \in Items
  <2>1. Holds(r, r.cond, i) <=> Compare(i["pk"], "=", <<pk>>)
    BY <1>4, <1>5, <1>6, HoldsOne
  <2>2. Compare(i["pk"], "=", <<pk>>) <=> i["pk"] = pk
    BY DEF Compare
  <2> QED BY <2>1, <2>2
<1>9. \A i \in Items : i \in wants <=> Selects(r, i)
  BY <1>4, <1>7, <1>8 DEF Selects, Listed, In, Tagged
<1>10. wants \subseteq Items
  BY DEF In
<1>11. ASSUME r.limit # 0 PROVE Fits(r)
  <2>1. ToSet(r.cond) = {d} /\ ToSet(s.cond) = {}
    BY <1>1, <1>4 DEF ToSet
  <2>2. /\ {c.name : c \in ToSet(s.cond) \cup ToSet(s.filter)} \ Attributes = DOMAIN s.names
        /\ UNION {ToSet(c.args) : c \in ToSet(s.cond) \cup ToSet(s.filter)} = DOMAIN s.values
    BY <1>2 DEF Fits
  <2>3. ToSet(s.cond) \cup ToSet(s.filter) = ToSet(f.exp)
    BY <1>1, <2>1
  <2>4. {c.name : c \in ToSet(f.exp)} \ Attributes = DOMAIN f.names
    BY <1>1, <2>2, <2>3
  <2>5. UNION {ToSet(c.args) : c \in ToSet(f.exp)} = DOMAIN f.values
    BY <1>1, <2>2, <2>3
  <2>6. ToSet(r.cond) \cup ToSet(r.filter) = {d} \cup ToSet(f.exp)
    BY <1>4, <2>1
  <2>7. {c.name : c \in {d} \cup ToSet(f.exp)} = {n} \cup {c.name : c \in ToSet(f.exp)}
    BY <1>5
  <2>8. {c.name : c \in {d} \cup ToSet(f.exp)} \ Attributes = DOMAIN r.names
    BY <1>4, <2>4, <2>7
  <2>9. UNION {ToSet(c.args) : c \in {d} \cup ToSet(f.exp)} = {":pk"} \cup UNION {ToSet(c.args) : c \in ToSet(f.exp)}
    BY <1>5
  <2>10. UNION {ToSet(c.args) : c \in {d} \cup ToSet(f.exp)} = DOMAIN r.values
    BY <1>4, <2>5, <2>9
  <2>11. Len(r.cond) = 1 /\ r.cond[1] = d
    BY <1>4
  <2>12. \A c \in ToSet(r.cond) : c.op # "between"
    BY <1>5, <2>1
  <2>13. KeyOfIndex[r.index][1] = "pk" /\ KeyOfIndex[r.index][2] = "sk"
    BY <1>4, KeyNames
  <2>14. \A c \in ToSet(r.filter) : AttributeOf(r, c.name) \notin {"pk", "sk"}
    BY <1>2, <1>3, <1>4 DEF PrimaryKey
  <2> QED BY <1>4, <1>5, <1>11, <2>6, <2>8, <2>10, <2>11, <2>12, <2>13, <2>14 DEF Fits
<1>12. Meant(fn, r, wants)
  BY <1>4, <1>9, <1>10, <1>11 DEF Meant
<1> QED BY <1>12

\* The functions that take a filter: one sets the placeholders itself, the
\* other adds them through QueriesBuilder.
LEMMA QueryByFilter ==
  ASSUME NEW pk, NEW f \in Filters
  PROVE  Meant("query_by_pk_with_filter",
               [Query EXCEPT !.cond = <<Is("pk", ":pk")>>, !.filter = f.exp, !.names = f.names,
                             !.values = Bind(":pk", pk) ++ f.values],
               In(pk) \cap Tagged(f.tag))
<1> DEFINE c == <<Is("pk", ":pk")>>
           e == f.exp
           n == f.names
           v == Bind(":pk", pk) ++ f.values
           r == [Query EXCEPT !.cond = c, !.filter = e, !.names = n, !.values = v]
<1>1. DOMAIN v = {":pk"} \cup DOMAIN f.values /\ v[":pk"] = pk
      /\ \A x \in DOMAIN f.values : v[x] = f.values[x]
  <2>1. ":pk" \notin DOMAIN f.values
    BY FiltersAssumption
  <2> QED BY <2>1 DEF Bind, ++
<1>2. DOMAIN c = 1..Len(c)
  BY OneLong
<1>3. "pk" \in Attributes
  BY DEF Attributes
<1> HIDE DEF c, e, n, v
<1>4. r = PutValues(PutNames(PutFilter(PutCond(Query, c), e), n), v)
  BY DEF PutValues, PutNames, PutFilter, PutCond
<1> HIDE DEF r
<1>5. Parts(PutCond(Query, c), "Query", "table", c, <<>>, None, None)
  BY <1>2, QueryParts, PutParts
<1>6. Parts(PutFilter(PutCond(Query, c), e), "Query", "table", c, e, None, None)
  BY <1>5, PutParts
<1>7. Parts(PutNames(PutFilter(PutCond(Query, c), e), n), "Query", "table", c, e, n, None)
  BY <1>6, PutParts
<1>8. Parts(r, "Query", "table", c, e, n, v)
  BY <1>4, <1>7, PutParts
<1>9. /\ Formed(r) /\ r.op = "Query" /\ r.start = NoKey /\ r.index = "table"
      /\ r.cond = <<Is("pk", ":pk")>> /\ r.filter = f.exp
      /\ r.names = f.names /\ r.values = v
  BY <1>8 DEF Parts, c, e, n
<1>10. "pk" \notin DOMAIN f.names
  <2>1. DOMAIN f.names \cap Attributes = {}
    <3> DEFINE s == ScanWith(f)
    <3>1. s.names = f.names
      BY ScanParts DEF Parts
    <3>2. Fits(s)
      BY FiltersAssumption
    <3> HIDE DEF s
    <3>3. {d.name : d \in ToSet(s.cond) \cup ToSet(s.filter)} \ Attributes = DOMAIN s.names
      BY <3>2 DEF Fits
    <3> QED BY <3>1, <3>3
  <2> QED BY <1>3, <2>1
<1>11. AttributeOf(r, "pk") = "pk"
  BY <1>9, <1>10 DEF AttributeOf
<1>12. AsksFiltered(r, "pk", f, pk)
  BY <1>1, <1>3, <1>9, <1>11 DEF AsksFiltered
<1>13. Meant("query_by_pk_with_filter", r, In(pk) \cap Tagged(f.tag))
  BY <1>12, FilteredMeant
<1> QED BY <1>13 DEF r, c, e, n, v

\* query_page_by_pk_with_filter, through QueriesBuilder.
LEMMA QueryPageByFilter ==
  ASSUME NEW pk, NEW f \in Filters, NEW ascending, NEW limit, Setting(ascending, limit)
  PROVE  Meant("query_page_by_pk_with_filter",
               go(set_filter(settings(hash_key(with_table, pk), ascending, limit, NoText), f)),
               In(pk) \cap Tagged(f.tag))
<1> DEFINE c == <<Is("#pk", ":pk")>>
           e == f.exp
           N == Bind("#pk", "pk")
           V == Bind(":pk", pk)
           fn == f.names
           fv == f.values
           b == hash_key(with_table, pk)
           q == Binding(PutCond(Query, c), N, V)
           t == settings(b, ascending, limit, NoText)
           u == set_filter(t, f)
           w == Binding(PutFilter(q, e), fn, fv)
           n == fn ++ (N ++ None)
           v == fv ++ (V ++ None)
           r == go(u)
<1>1. b = Where(with_table, c, N, V)
  BY DEF hash_key, with_table
<1>2. DOMAIN c = 1..Len(c)
  BY OneLong
<1>3. ascending \in BOOLEAN /\ limit \in Nat \cup {NoLimit}
  BY DEF Setting
<1>4. "#pk" \notin DOMAIN fn /\ ":pk" \notin DOMAIN fv
  BY FiltersAssumption
<1>5. DOMAIN n = {"#pk"} \cup DOMAIN fn /\ n["#pk"] = "pk" /\ \A x \in DOMAIN fn : n[x] = fn[x]
  <2>1. DOMAIN (N ++ None) = {"#pk"} /\ (N ++ None)["#pk"] = "pk"
    BY DEF Bind, ++, None
  <2> HIDE DEF N, fn
  <2> QED BY <1>4, <2>1 DEF ++
<1>6. DOMAIN v = {":pk"} \cup DOMAIN fv /\ v[":pk"] = pk /\ \A x \in DOMAIN fv : v[x] = fv[x]
  <2>1. DOMAIN (V ++ None) = {":pk"} /\ (V ++ None)[":pk"] = pk
    BY DEF Bind, ++, None
  <2> HIDE DEF V, fv
  <2> QED BY <1>4, <2>1 DEF ++
<1> HIDE DEF c, N, V
<1>7. Built(b, q, "pk", "sk")
  BY <1>1, BuiltTable, BuiltWhere
<1>8. Parts(PutCond(Query, c), "Query", "table", c, <<>>, None, None)
  BY <1>2, QueryParts, PutParts
<1>9. Parts(q, "Query", "table", c, <<>>, N ++ None, V ++ None)
  BY <1>8, BindingParts
<1> HIDE DEF b, q
<1>10. Built(t, q, "pk", "sk") /\ t.ascending = ascending /\ t.page_size = limit /\ t.last_key = NoText
  BY <1>7, BuiltSettings
<1> HIDE DEF t
<1>11. Built(u, w, "pk", "sk")
  BY <1>10, BuiltFilter
<1>12. u.ascending = ascending /\ u.page_size = limit /\ u.last_key = NoText
  <2> DEFINE x == Binding(PutFilter(t.builder, f.exp), f.names, f.values)
  <2>1. u = PutBuilder(t, x)
    BY DEF set_filter, PutBuilder, PutFilter
  <2>2. t = [pk_name |-> t.pk_name, sk_name |-> t.sk_name, ascending |-> t.ascending,
             last_key |-> t.last_key, page_size |-> t.page_size, builder |-> t.builder]
    BY <1>10 DEF Built
  <2> HIDE DEF x, u
  <2>3. u = [pk_name |-> t.pk_name, sk_name |-> t.sk_name, ascending |-> t.ascending,
             last_key |-> t.last_key, page_size |-> t.page_size, builder |-> x]
    BY <2>1, <2>2 DEF PutBuilder
  <2> QED BY <1>10, <2>3
<1> DEFINE N2 == N ++ None
           V2 == V ++ None
<1> HIDE DEF N2, V2, e, fn, fv
<1>13. Parts(PutFilter(q, e), "Query", "table", c, e, N2, V2)
  BY <1>9, PutParts DEF N2, V2
<1>14. Parts(w, "Query", "table", c, e, n, v)
  BY <1>13, BindingParts DEF N2, V2
<1> HIDE DEF u, w, n, v
<1>15. Parts(r, "Query", "table", c, e, n, v)
  BY <1>3, <1>11, <1>12, <1>14, BuiltGo
<1>16. "#pk" \notin Attributes
  BY DEF Attributes
<1> HIDE DEF r
<1>17. /\ Formed(r) /\ r.op = "Query" /\ r.start = NoKey /\ r.index = "table"
       /\ r.cond = <<Is("#pk", ":pk")>> /\ r.filter = f.exp /\ r.names = n /\ r.values = v
  BY <1>15 DEF Parts, c, e
<1>18. AttributeOf(r, "#pk") = "pk"
  BY <1>5, <1>17 DEF AttributeOf
<1>19. AsksFiltered(r, "#pk", f, pk)
  BY <1>5, <1>6, <1>16, <1>17, <1>18 DEF AsksFiltered, fn, fv
<1>20. Meant("query_page_by_pk_with_filter", r, In(pk) \cap Tagged(f.tag))
  BY <1>19, FilteredMeant
<1> QED BY <1>20 DEF r, u, t, b

-----------------------------------------------------------------------------
(* The steps *)

\* The order of a request.
Headed(r, x) == "forward" \in DOMAIN r /\ r.forward = x

\* Only a change of the order changes it.
LEMMA PutHeads ==
  ASSUME NEW r, NEW x, Headed(r, x)
  PROVE  /\ \A y : Headed(PutOp(r, y), x) /\ Headed(PutKeys(r, y), x) /\ Headed(PutIndex(r, y), x)
         /\ \A y : Headed(PutCond(r, y), x) /\ Headed(PutFilter(r, y), x) /\ Headed(PutNames(r, y), x)
         /\ \A y : Headed(PutValues(r, y), x) /\ Headed(PutLimit(r, y), x) /\ Headed(PutStart(r, y), x)
         /\ \A y : Headed(PutForward(r, y), y)
BY DEF Headed, PutOp, PutKeys, PutIndex, PutCond, PutFilter, PutNames, PutValues, PutLimit, PutStart,
       PutForward

\* A page, and added placeholders.
LEMMA PagedHeads ==
  ASSUME NEW r, NEW x, Headed(r, x)
  PROVE  /\ \A last, limit : Headed(Paged(r, last, limit), x)
         /\ \A n, v : Headed(Binding(r, n, v), x)
<1>1. ASSUME NEW last, NEW limit PROVE Headed(Paged(r, last, limit), x)
  <2>1. Paged(r, last, limit) = PutLimit(PutStart(r, make_start_key(last)), limit)
    BY DEF Paged, PutLimit, PutStart
  <2> QED BY <2>1, PutHeads
<1>2. ASSUME NEW n, NEW v PROVE Headed(Binding(r, n, v), x)
  <2>1. Binding(r, n, v) = PutValues(PutNames(r, n ++ r.names), v ++ r.values)
    BY DEF Binding, PutValues, PutNames
  <2> QED BY <2>1, PutHeads
<1> QED BY <1>1, <1>2

\* The requests the functions begin with.
LEMMA BegunHeads ==
  /\ Headed(Query, TRUE) /\ Headed(Scan, TRUE) /\ \A keys : Headed(Get(keys), TRUE)
  /\ \A pk : Headed(ByPk(pk), TRUE)
  /\ \A pk, pfx : Headed(ByPkPrefix(pk, pfx), TRUE)
  /\ \A role, forward : Headed(ByRole(role, forward), forward)
  /\ \A f : Headed(ScanWith(f), TRUE)
<1>1. Headed(Query, TRUE)
  BY DEF Headed, Query
<1>2. Headed(Scan, TRUE)
  BY <1>1, PutHeads DEF Scan, PutOp
<1>3. ASSUME NEW keys PROVE Headed(Get(keys), TRUE)
  <2>1. Get(keys) = PutKeys(PutOp(Query, "GetItem"), keys)
    BY DEF Get, PutKeys, PutOp
  <2> QED BY <1>1, <2>1, PutHeads
<1>4. ASSUME NEW pk PROVE Headed(ByPk(pk), TRUE)
  <2> DEFINE c == <<Is("pk", ":hashKey")>>
             v == Bind(":hashKey", pk)
  <2>1. ByPk(pk) = PutValues(PutCond(Query, c), v)
    BY DEF ByPk, PutValues, PutCond
  <2> HIDE DEF c, v
  <2> QED BY <1>1, <2>1, PutHeads
<1>5. ASSUME NEW pk, NEW pfx PROVE Headed(ByPkPrefix(pk, pfx), TRUE)
  <2> DEFINE c == <<Is("pk", ":hashKey"), Begins("sk", ":prefix")>>
             v == Bind(":hashKey", pk) ++ Bind(":prefix", pfx)
  <2>1. ByPkPrefix(pk, pfx) = PutValues(PutCond(Query, c), v)
    BY DEF ByPkPrefix, PutValues, PutCond
  <2> HIDE DEF c, v
  <2> QED BY <1>1, <2>1, PutHeads
<1>6. ASSUME NEW role, NEW forward PROVE Headed(ByRole(role, forward), forward)
  <2> DEFINE c == <<Is("#pk", ":pk")>>
             n == Bind("#pk", "gpk")
             v == Bind(":pk", role)
             r == PutValues(PutNames(PutCond(PutIndex(Query, "gsi"), c), n), v)
  <2>1. ByRole(role, forward) = PutForward(r, forward)
    BY DEF ByRole, PutForward, PutValues, PutNames, PutCond, PutIndex
  <2> HIDE DEF c, n, v
  <2>2. Headed(r, TRUE)
    BY <1>1, PutHeads
  <2> HIDE DEF r
  <2> QED BY <2>1, <2>2, PutHeads
<1>7. ASSUME NEW f PROVE Headed(ScanWith(f), TRUE)
  <2>1. ScanWith(f) = PutValues(PutNames(PutFilter(Scan, f.exp), f.names), f.values)
    BY DEF ScanWith, PutValues, PutNames, PutFilter
  <2> QED BY <1>2, <2>1, PutHeads
<1> QED BY <1>1, <1>2, <1>3, <1>4, <1>5, <1>6, <1>7

\* The order a QueriesBuilder is set to is that of its request.
Ascends(b, x) == "ascending" \in DOMAIN b /\ b.ascending = x

\* A filter leaves it alone.
LEMMA SettingsAscend ==
  ASSUME NEW b, "ascending" \in DOMAIN b, NEW ascending, NEW limit, NEW last
  PROVE  /\ Ascends(settings(b, ascending, limit, last), ascending)
         /\ \A f : Ascends(set_filter(settings(b, ascending, limit, last), f), ascending)
<1> DEFINE t == settings(b, ascending, limit, last)
<1>1. Ascends(t, ascending)
  BY DEF settings, Ascends
<1> HIDE DEF t
<1>2. ASSUME NEW f PROVE Ascends(set_filter(t, f), ascending)
  <2> DEFINE q == Binding([t.builder EXCEPT !.filter = f.exp], f.names, f.values)
  <2>1. set_filter(t, f) = PutBuilder(t, q)
    BY DEF set_filter, PutBuilder
  <2> HIDE DEF q
  <2> QED BY <1>1, <2>1 DEF PutBuilder, Ascends
<1> QED BY <1>1, <1>2 DEF t

\* Nor do the key conditions.
LEMMA BuildersAscend ==
  /\ "ascending" \in DOMAIN with_table
  /\ "ascending" \in DOMAIN key_names(use_index(with_table, "gsi"), "gpk", "gsk")
  /\ \A b : "ascending" \in DOMAIN b =>
       /\ \A pk : "ascending" \in DOMAIN hash_key(b, pk)
       /\ \A pk, op, args, values : "ascending" \in DOMAIN SortKey(b, pk, op, args, values)
<1>1. "ascending" \in DOMAIN with_table
  BY DEF with_table
<1>2. "ascending" \in DOMAIN key_names(use_index(with_table, "gsi"), "gpk", "gsk")
  BY <1>1 DEF key_names, use_index
<1>3. ASSUME NEW b, "ascending" \in DOMAIN b, NEW c, NEW n, NEW v
      PROVE  "ascending" \in DOMAIN Where(b, c, n, v)
  BY <1>3 DEF Where
<1> QED BY <1>1, <1>2, <1>3 DEF hash_key, SortKey

\* The request that goes out has it.
LEMMA GoHeads ==
  ASSUME NEW b, NEW x, Ascends(b, x), NEW fn, NEW wants, Meant(fn, go(b), wants)
  PROVE  go(b).forward = x
<1>1. "forward" \in DOMAIN go(b)
  BY DEF Meant, Formed
<1>2. go(b) = PutLimit(PutStart(PutForward(b.builder, b.ascending), make_start_key(b.last_key)), b.page_size)
  BY DEF go, PutLimit, PutStart, PutForward
<1>3. DOMAIN go(b) = DOMAIN b.builder
  BY DEF go
<1>4. Headed(b.builder, b.builder.forward)
  BY <1>1, <1>3 DEF Headed
<1>5. Headed(go(b), b.ascending)
  BY <1>2, <1>4, PutHeads
<1> QED BY <1>5 DEF Headed, Ascends

\* A caller asks, and means what it asks for, in that order.
Asked ==
  /\ read.status = NotAsked /\ Meant(read'.fn, read'.req, read'.wants)
  /\ read'.fn # "query_by_pk" => read'.req.forward = read'.ascending
  /\ read'.fn = "query_by_pk" => ~read'.paged
  /\ read' = [fn |-> read'.fn, req |-> read'.req, ascending |-> read'.ascending,
              wants |-> read'.wants, paged |-> read'.paged,
              status |-> "asking", last |-> NoKey, garbled |-> 0]
  /\ lasting' = table \cap copy /\ ever' = table \cup copy
  /\ UNCHANGED <<table, copy, page, given>>

\* A call does so if its request means what its caller does.
LEMMA AskIsAsked ==
  ASSUME NEW fn, NEW r, NEW ascending, NEW wants, NEW paged, Ask(fn, r, ascending, wants, paged),
         Meant(fn, r, wants), fn # "query_by_pk" => r.forward = ascending,
         fn = "query_by_pk" => ~paged
  PROVE  Asked
<1>1. read' = [fn |-> fn, req |-> r, ascending |-> ascending, wants |-> wants, paged |-> paged,
               status |-> "asking", last |-> NoKey, garbled |-> 0]
  BY DEF Ask
<1>2. /\ read'.fn = fn /\ read'.req = r /\ read'.ascending = ascending /\ read'.wants = wants
      /\ read'.paged = paged
  BY <1>1
<1> QED BY <1>1, <1>2 DEF Ask, Asked

\* The functions that give one answer.
LEMMA AskedOnce ==
  ASSUME AskOnce
  PROVE  Asked
<1> DEFINE once == FALSE
           up == TRUE
           down == FALSE
<1>1. ASSUME NEW i \in Items, get_by_pksk(KeyOf(i)) PROVE Asked
  <2> DEFINE key == KeyOf(i)
             r == Get(<<key>>)
             wants == {j \in Items : KeyOf(j) = key}
  <2>1. Ask("get_by_pksk", r, up, wants, once)
    BY <1>1 DEF get_by_pksk
  <2>2. Meant("get_by_pksk", r, wants)
    BY ReadByKey
  <2>9. r.forward = up
    BY BegunHeads DEF Headed
  <2> HIDE DEF r, wants, once, up
  <2> QED BY <2>1, <2>2, <2>9, AskIsAsked
<1>2. ASSUME NEW res_id, NEW key, CompositeKeyOf(res_id) = key, get(res_id, key) PROVE Asked
  <2> DEFINE r == Get(<<key>>)
             wants == {j \in Items : KeyOf(j) = key}
  <2>1. Ask("get", r, up, wants, once)
    BY <1>2 DEF get
  <2>2. Meant("get", r, wants)
    BY ReadByKey
  <2>9. r.forward = up
    BY BegunHeads DEF Headed
  <2> HIDE DEF r, wants, once, up
  <2> QED BY <2>1, <2>2, <2>9, AskIsAsked
<1>3. ASSUME NEW keys \in KeyLists, batch_get(keys) PROVE Asked
  <2> DEFINE r == [Get(keys) EXCEPT !.op = "BatchGetItem"]
             wants == {j \in Items : KeyOf(j) \in ToSet(keys)}
  <2>1. Ask("batch_get", r, up, wants, once)
    BY <1>3 DEF batch_get
  <2>2. Plain(r, "BatchGetItem", keys)
    BY GetParts
  <2>9. r.forward = up
    BY BegunHeads, PutHeads DEF PutOp, Headed
  <2> HIDE DEF r
  <2>3. Meant("batch_get", r, wants)
    BY <2>2, GetMeant
  <2> HIDE DEF wants, once, up
  <2> QED BY <2>1, <2>3, <2>9, AskIsAsked
<1>4. ASSUME NEW pk \in Pks, query_by_pk(pk) PROVE Asked
  <2> DEFINE r == ByPk(pk)
             wants == In(pk)
  <2>1. Ask("query_by_pk", r, down, wants, once)
    BY <1>4 DEF query_by_pk
  <2>2. NoLimit \in Nat \cup {NoLimit}
    OBVIOUS
  <2>3. Meant("query_by_pk", r, wants)
    BY <2>2, QueryByPk
  <2>4. ~once
    OBVIOUS
  <2> HIDE DEF r, wants, once, down
  <2> QED BY <2>1, <2>3, <2>4, AskIsAsked
<1>5. ASSUME NEW pk \in Pks, NEW limit \in Limits, query_latest_by_pk(pk, limit) PROVE Asked
  <2> DEFINE n == IF limit = NoLimit THEN 1 ELSE limit
             r == [ByPk(pk) EXCEPT !.forward = FALSE, !.limit = n]
             wants == In(pk)
  <2>1. Ask("query_latest_by_pk", r, down, wants, once)
    BY <1>5 DEF query_latest_by_pk
  <2>2. n \in Nat \cup {NoLimit}
    BY LimitsAssumption
  <2> HIDE DEF n
  <2>3. Meant("query_latest_by_pk", r, wants)
    BY <2>2, QueryByPk
  <2>9. r.forward = down
    BY BegunHeads, PutHeads DEF PutForward, PutLimit, Headed
  <2> HIDE DEF r, wants, once, down
  <2> QED BY <2>1, <2>3, <2>9, AskIsAsked
<1>6. ASSUME NEW pk \in Pks, NEW pfx \in Sks, query_by_pk_with_sk_prefix(pk, pfx) PROVE Asked
  <2> DEFINE r == ByPkPrefix(pk, pfx)
             wants == In(pk) \cap Under(pfx)
  <2>1. Ask("query_by_pk_with_sk_prefix", r, up, wants, once)
    BY <1>6 DEF query_by_pk_with_sk_prefix
  <2>2. NoLimit \in Nat \cup {NoLimit}
    OBVIOUS
  <2>3. Meant("query_by_pk_with_sk_prefix", r, wants)
    BY <2>2, QueryByPkPrefix
  <2>9. r.forward = up
    BY BegunHeads DEF Headed
  <2> HIDE DEF r, wants, once, up
  <2> QED BY <2>1, <2>3, <2>9, AskIsAsked
<1>7. ASSUME NEW pk \in Pks, NEW pattern \in Patterns, query(key_as_string(pk, pattern), pk, pattern)
      PROVE  Asked
  <2> DEFINE ck == CompositeKeyOf(key_as_string(pk, pattern))
             r == [Query EXCEPT
         !.cond = <<Is("pk", ":hashKey"),
                    IF IsPattern(ck) THEN Begins("sk", ":rangeKey") ELSE Is("sk", ":rangeKey")>>,
         !.values = Bind(":hashKey", ck.pk) ++ Bind(":rangeKey", sk(ck))]
             wants == In(pk) \cap (IF EndsWith(pattern, Star) THEN Under(Front(pattern))
                   ELSE IF EndsWith(pattern, Hash) THEN Under(pattern)
                   ELSE {i \in Items : i.sk = pattern})
  <2>1. Ask("query", r, up, wants, once)
    BY <1>7 DEF query
  <2>2. Meant("query", r, wants)
    BY QueryMeant
  <2>9. r.forward = up
    BY BegunHeads, PutHeads DEF PutCond, PutValues, Headed
  <2> HIDE DEF r, wants, once, up
  <2> QED BY <2>1, <2>2, <2>9, AskIsAsked
<1>8. ASSUME NEW role \in Roles,
             query_with_key("gsi", <<Is("gpk", ":e")>>, None, Bind(":e", role), WithRole(role))
      PROVE  Asked
  <2> DEFINE r == [Query EXCEPT !.index = "gsi", !.cond = <<Is("gpk", ":e")>>, !.names = None,
                             !.values = Bind(":e", role)]
             wants == WithRole(role)
  <2>1. Ask("query_with_key", r, up, wants, once)
    BY <1>8 DEF query_with_key
  <2>2. Meant("query_with_key", r, wants)
    BY QueryWithKey
  <2>9. r.forward = up
    BY BegunHeads, PutHeads DEF PutIndex, PutCond, PutNames, PutValues, Headed
  <2> HIDE DEF r, wants, once, up
  <2> QED BY <2>1, <2>2, <2>9, AskIsAsked
<1>9. ASSUME NEW role \in Roles, NEW forward \in BOOLEAN, query_gsi_by_pk(role, forward) PROVE Asked
  <2> DEFINE r == ByRole(role, forward)
             wants == WithRole(role)
  <2>1. Ask("query_gsi_by_pk", r, forward, wants, once)
    BY <1>9 DEF query_gsi_by_pk
  <2>2. NoLimit \in Nat \cup {NoLimit}
    OBVIOUS
  <2>3. Meant("query_gsi_by_pk", r, wants)
    BY <2>2, QueryByRole
  <2>9. r.forward = forward
    BY BegunHeads DEF Headed
  <2> HIDE DEF r, wants, once
  <2> QED BY <2>1, <2>3, <2>9, AskIsAsked
<1>10. ASSUME NEW role \in Roles, NEW gsk \in Sks, query_gsi_by_pksk(role, gsk, TRUE) PROVE Asked
  <2> DEFINE forward == TRUE
             r == Binding([ByRole(role, forward) EXCEPT !.cond = <<Is("#sk", ":sk")>>],
              Bind("#sk", "gsk"), Bind(":sk", gsk))
             wants == {i \in WithRole(role) : i.gsk = gsk}
  <2>1. Ask("query_gsi_by_pksk", r, forward, wants, once)
    BY <1>10 DEF query_gsi_by_pksk
  <2>2. forward \in BOOLEAN
    OBVIOUS
  <2> HIDE DEF forward
  <2>3. Meant("query_gsi_by_pksk", r, wants)
    BY <2>2, QueryByRoleAndKey
  <2>9. r.forward = forward
    <3> DEFINE c == <<Is("#sk", ":sk")>>
               q == PutCond(ByRole(role, forward), c)
    <3>1. Headed(q, forward)
      BY BegunHeads, PutHeads
    <3>2. r = Binding(q, Bind("#sk", "gsk"), Bind(":sk", gsk))
      BY DEF PutCond
    <3> HIDE DEF q, r
    <3> QED BY <3>1, <3>2, PagedHeads DEF Headed
  <2> HIDE DEF r, wants, once
  <2> QED BY <2>1, <2>3, <2>9, AskIsAsked
<1>11. ASSUME NEW role \in Roles, NEW pfx \in Sks, query_gsi_by_pk_with_sk_prefix(role, pfx) PROVE Asked
  <2> DEFINE r == Binding([ByRole(role, TRUE) EXCEPT !.cond = <<Is("#pk", ":pk"), Begins("#sk", ":pfx")>>],
              Bind("#sk", "gsk"), Bind(":pfx", pfx))
             wants == WithRole(role) \cap IndexUnder(pfx)
  <2>1. Ask("query_gsi_by_pk_with_sk_prefix", r, up, wants, once)
    BY <1>11 DEF query_gsi_by_pk_with_sk_prefix
  <2>2. Meant("query_gsi_by_pk_with_sk_prefix", r, wants)
    BY QueryByRolePrefix
  <2>9. r.forward = up
    <3> DEFINE c == <<Is("#pk", ":pk"), Begins("#sk", ":pfx")>>
               q == PutCond(ByRole(role, TRUE), c)
    <3>1. Headed(q, up)
      BY BegunHeads, PutHeads
    <3>2. r = Binding(q, Bind("#sk", "gsk"), Bind(":pfx", pfx))
      BY DEF PutCond
    <3> HIDE DEF q, r, up
    <3> QED BY <3>1, <3>2, PagedHeads DEF Headed
  <2> HIDE DEF r, wants, once, up
  <2> QED BY <2>1, <2>2, <2>9, AskIsAsked
<1>12. ASSUME NEW pk \in Pks, NEW f \in Filters, query_by_pk_with_filter(pk, f) PROVE Asked
  <2> DEFINE r == [Query EXCEPT !.cond = <<Is("pk", ":pk")>>, !.filter = f.exp, !.names = f.names,
                             !.values = Bind(":pk", pk) ++ f.values]
             wants == In(pk) \cap Tagged(f.tag)
  <2>1. Ask("query_by_pk_with_filter", r, up, wants, once)
    BY <1>12 DEF query_by_pk_with_filter
  <2>2. Meant("query_by_pk_with_filter", r, wants)
    BY QueryByFilter
  <2>9. r.forward = up
    BY BegunHeads, PutHeads DEF PutCond, PutFilter, PutNames, PutValues, Headed
  <2> HIDE DEF r, wants, once, up
  <2> QED BY <2>1, <2>2, <2>9, AskIsAsked
<1>13. ASSUME NEW f \in Filters, scan_with_filter(f) PROVE Asked
  <2> DEFINE r == ScanWith(f)
             wants == Tagged(f.tag)
  <2>1. Ask("scan_with_filter", r, up, wants, once)
    BY <1>13 DEF scan_with_filter
  <2>2. Meant("scan_with_filter", r, wants)
    BY ScanMeant
  <2>9. r.forward = up
    BY BegunHeads DEF Headed
  <2> HIDE DEF r, wants, once, up
  <2> QED BY <2>1, <2>2, <2>9, AskIsAsked
<1>14. ASSUME NEW key \in Resids, get(keys_to_resid(key), key) PROVE Asked
  <2> DEFINE res_id == keys_to_resid(key)
  <2>1. CompositeKeyOf(res_id) = key
    BY ResidAgain
  <2> HIDE DEF res_id
  <2> QED BY <1>2, <1>14, <2>1 DEF res_id
<1>15. ASSUME NEW pk \in Pks, get(pk, Key(pk, <<Hash>>)) PROVE Asked
  <2> DEFINE key == Key(pk, <<Hash>>)
  <2>1. CompositeKeyOf(pk) = key
    BY ResidAgain
  <2> HIDE DEF key
  <2> QED BY <1>2, <1>15, <2>1 DEF key
<1> QED BY <1>1, <1>3, <1>4, <1>5, <1>6, <1>7, <1>8, <1>9, <1>10, <1>11, <1>12, <1>13, <1>14, <1>15
        DEF AskOnce

\* Those that give a page.
LEMMA AskedPaged ==
  ASSUME AskPaged
  PROVE  Asked
<1> DEFINE more == TRUE
           down == FALSE
           up == TRUE
<1>1. PICK limit \in Limits :
    \/ \E pk \in Pks, pfx \in Sks : query_page_by_pk_with_sk_prefix(pk, pfx, NoText, limit)
    \/ \E pk \in Pks : query_page_by_pk(pk, NoText, limit)
    \/ \E role \in Roles, forward \in BOOLEAN : query_gsi_page_by_pk(role, forward, NoText, limit)
    \/ \E pk \in Pks, val \in Sks, op \in {"=", "<", ">", "<=", ">="} :
         query_page_by_pk_with_sk_expr(pk, NoText, limit, op \in {">", "="}, op, val)
    \/ \E pk \in Pks, lo, hi \in Sks : ~Less(hi, lo) /\
         query_page_by_pk_with_sk_between(pk, NoText, limit, lo = hi, lo, hi)
    \/ \E role \in Roles, lo, hi \in Sks : ~Less(hi, lo) /\
         query_gsi_page_by_pk_with_sk_between(role, lo, hi, NoText, limit, lo # hi)
    \/ \E pk \in Pks, f \in Filters : query_page_by_pk_with_filter(pk, NoText, limit, FALSE, f)
    \/ \E pk \in Pks, pfx \in Sks : QueriesBuilder_prefix(pk, pfx, NoText, limit)
    \/ \E f \in Filters : scan_with_filter2(f, NoText)
  BY DEF AskPaged
<1>2. limit \in Nat \cup {NoLimit}
  BY LimitsAssumption
<1>3. ASSUME NEW pk \in Pks, NEW pfx \in Sks, query_page_by_pk_with_sk_prefix(pk, pfx, NoText, limit)
      PROVE  Asked
  <2> DEFINE r == [Paged(ByPkPrefix(pk, pfx), NoText, limit) EXCEPT !.forward = FALSE]
             wants == In(pk) \cap Under(pfx)
  <2>1. Ask("query_page_by_pk_with_sk_prefix", r, down, wants, more)
    BY <1>3 DEF query_page_by_pk_with_sk_prefix
  <2>2. Meant("query_page_by_pk_with_sk_prefix", r, wants)
    BY <1>2, QueryByPkPrefix
  <2>9. r.forward = down
    BY BegunHeads, PagedHeads, PutHeads DEF PutForward, Headed
  <2> HIDE DEF r, wants, more, down
  <2> QED BY <2>1, <2>2, <2>9, AskIsAsked
<1>4. ASSUME NEW pk \in Pks, query_page_by_pk(pk, NoText, limit) PROVE Asked
  <2> DEFINE r == [Paged(ByPk(pk), NoText, limit) EXCEPT !.forward = FALSE]
             wants == In(pk)
  <2>1. Ask("query_page_by_pk", r, down, wants, more)
    BY <1>4 DEF query_page_by_pk
  <2>2. Meant("query_page_by_pk", r, wants)
    BY <1>2, QueryByPk
  <2>9. r.forward = down
    BY BegunHeads, PagedHeads, PutHeads DEF PutForward, Headed
  <2> HIDE DEF r, wants, more, down
  <2> QED BY <2>1, <2>2, <2>9, AskIsAsked
<1>5. ASSUME NEW role \in Roles, NEW forward \in BOOLEAN, query_gsi_page_by_pk(role, forward, NoText, limit)
      PROVE  Asked
  <2> DEFINE r == Paged(ByRole(role, forward), NoText, limit)
             wants == WithRole(role)
  <2>1. Ask("query_gsi_page_by_pk", r, forward, wants, more)
    BY <1>5 DEF query_gsi_page_by_pk
  <2>2. Meant("query_gsi_page_by_pk", r, wants)
    BY <1>2, QueryByRole
  <2>9. r.forward = forward
    BY BegunHeads, PagedHeads DEF Headed
  <2> HIDE DEF r, wants, more
  <2> QED BY <2>1, <2>2, <2>9, AskIsAsked
<1>6. ASSUME NEW pk \in Pks, NEW val \in Sks, NEW op \in {"=", "<", ">", "<=", ">="},
             query_page_by_pk_with_sk_expr(pk, NoText, limit, op \in {">", "="}, op, val)
      PROVE  Asked
  <2> DEFINE ascending == op \in {">", "="}
             r == go(settings(hash_key_with_sort_key_expr(with_table, pk, op, val), ascending, limit, NoText))
             wants == In(pk) \cap Compared(op, val)
  <2>1. Ask("query_page_by_pk_with_sk_expr", r, ascending, wants, more)
    BY <1>6 DEF query_page_by_pk_with_sk_expr
  <2>2. ascending \in BOOLEAN
    OBVIOUS
  <2> HIDE DEF ascending
  <2>3. Setting(ascending, limit) /\ op # "between"
    BY <1>2, <2>2 DEF Setting
  <2>4. Meant("query_page_by_pk_with_sk_expr", r, wants)
    BY <2>3, QueryByExpr
  <2>9. r.forward = ascending
    BY <2>4, BuildersAscend, SettingsAscend, GoHeads DEF hash_key_with_sort_key_expr
  <2> HIDE DEF r, wants, more
  <2> QED BY <2>1, <2>4, <2>9, AskIsAsked
<1>7. ASSUME NEW pk \in Pks, NEW lo \in Sks, NEW hi \in Sks, ~Less(hi, lo),
             query_page_by_pk_with_sk_between(pk, NoText, limit, lo = hi, lo, hi)
      PROVE  Asked
  <2> DEFINE ascending == lo = hi
             r == go(settings(hash_key_with_sort_key_between(with_table, pk, lo, hi), ascending, limit, NoText))
             wants == {i \in In(pk) : ~Less(i.sk, lo) /\ ~Less(hi, i.sk)}
  <2>1. Ask("query_page_by_pk_with_sk_between", r, ascending, wants, more)
    BY <1>7 DEF query_page_by_pk_with_sk_between
  <2>2. ascending \in BOOLEAN
    OBVIOUS
  <2> HIDE DEF ascending
  <2>3. Setting(ascending, limit)
    BY <1>2, <2>2 DEF Setting
  <2>4. Meant("query_page_by_pk_with_sk_between", r, wants)
    BY <1>7, <2>3, QueryByBetween
  <2>9. r.forward = ascending
    BY <2>4, BuildersAscend, SettingsAscend, GoHeads DEF hash_key_with_sort_key_between
  <2> HIDE DEF r, wants, more
  <2> QED BY <2>1, <2>4, <2>9, AskIsAsked
<1>8. ASSUME NEW role \in Roles, NEW lo \in Sks, NEW hi \in Sks, ~Less(hi, lo),
             query_gsi_page_by_pk_with_sk_between(role, lo, hi, NoText, limit, lo # hi)
      PROVE  Asked
  <2> DEFINE ascending == lo # hi
             b == key_names(use_index(with_table, "gsi"), "gpk", "gsk")
             r == go(settings(hash_key_with_sort_key_between(b, role, lo, hi), ascending, limit, NoText))
             wants == {i \in WithRole(role) : ~Less(i.gsk, lo) /\ ~Less(hi, i.gsk)}
  <2>1. Ask("query_gsi_page_by_pk_with_sk_between", r, ascending, wants, more)
    BY <1>8 DEF query_gsi_page_by_pk_with_sk_between
  <2>2. ascending \in BOOLEAN
    OBVIOUS
  <2> HIDE DEF ascending, b
  <2>3. Setting(ascending, limit) /\ b = key_names(use_index(with_table, "gsi"), "gpk", "gsk")
    BY <1>2, <2>2 DEF Setting, b
  <2>4. Meant("query_gsi_page_by_pk_with_sk_between", r, wants)
    BY <1>8, <2>3, QueryByRoleBetween
  <2>9. r.forward = ascending
    BY <2>4, BuildersAscend, SettingsAscend, GoHeads DEF hash_key_with_sort_key_between, b
  <2> HIDE DEF r, wants, more
  <2> QED BY <2>1, <2>4, <2>9, AskIsAsked
<1>9. ASSUME NEW pk \in Pks, NEW f \in Filters, query_page_by_pk_with_filter(pk, NoText, limit, FALSE, f)
      PROVE  Asked
  <2> DEFINE ascending == FALSE
             r == go(set_filter(settings(hash_key(with_table, pk), ascending, limit, NoText), f))
             wants == In(pk) \cap Tagged(f.tag)
  <2>1. Ask("query_page_by_pk_with_filter", r, ascending, wants, more)
    BY <1>9 DEF query_page_by_pk_with_filter
  <2>2. ascending \in BOOLEAN
    OBVIOUS
  <2> HIDE DEF ascending
  <2>3. Setting(ascending, limit)
    BY <1>2, <2>2 DEF Setting
  <2>4. Meant("query_page_by_pk_with_filter", r, wants)
    BY <2>3, QueryPageByFilter
  <2>9. r.forward = ascending
    BY <2>4, BuildersAscend, SettingsAscend, GoHeads DEF hash_key
  <2> HIDE DEF r, wants, more
  <2> QED BY <2>1, <2>4, <2>9, AskIsAsked
<1>10. ASSUME NEW pk \in Pks, NEW pfx \in Sks, QueriesBuilder_prefix(pk, pfx, NoText, limit)
       PROVE  Asked
  <2> DEFINE ascending == FALSE
             r == go(settings(hash_key_with_sort_key_prefix(with_table, pk, pfx), ascending, limit, NoText))
             wants == In(pk) \cap Under(pfx)
  <2>1. Ask("QueriesBuilder", r, ascending, wants, more)
    BY <1>10 DEF QueriesBuilder_prefix
  <2>2. ascending \in BOOLEAN
    OBVIOUS
  <2> HIDE DEF ascending
  <2>3. Setting(ascending, limit)
    BY <1>2, <2>2 DEF Setting
  <2>4. Meant("QueriesBuilder", r, wants)
    BY <2>3, QueryByBuilderPrefix
  <2>9. r.forward = ascending
    BY <2>4, BuildersAscend, SettingsAscend, GoHeads DEF hash_key_with_sort_key_prefix
  <2> HIDE DEF r, wants, more
  <2> QED BY <2>1, <2>4, <2>9, AskIsAsked
<1>11. ASSUME NEW f \in Filters, scan_with_filter2(f, NoText) PROVE Asked
  <2> DEFINE names == IF f.names = None THEN EmptyMap ELSE f.names
             r == [ScanWith(f) EXCEPT !.names = names, !.start = make_start_key(NoText)]
             wants == Tagged(f.tag)
  <2>1. Ask("scan_with_filter2", r, up, wants, more)
    BY <1>11 DEF scan_with_filter2
  <2>2. Meant("scan_with_filter2", r, wants)
    BY ScanPage
  <2>9. r.forward = up
    BY BegunHeads, PutHeads DEF PutNames, PutStart, Headed
  <2> HIDE DEF r, wants, more, up
  <2> QED BY <2>1, <2>2, <2>9, AskIsAsked
<1>12. CASE \E pk \in Pks, pfx \in Sks : query_page_by_pk_with_sk_prefix(pk, pfx, NoText, limit)
  BY <1>3, <1>12
<1>13. CASE \E pk \in Pks : query_page_by_pk(pk, NoText, limit)
  BY <1>4, <1>13
<1>14. CASE \E role \in Roles, forward \in BOOLEAN : query_gsi_page_by_pk(role, forward, NoText, limit)
  BY <1>5, <1>14
<1>15. CASE \E pk \in Pks, val \in Sks, op \in {"=", "<", ">", "<=", ">="} :
              query_page_by_pk_with_sk_expr(pk, NoText, limit, op \in {">", "="}, op, val)
  BY <1>6, <1>15
<1>16. CASE \E pk \in Pks, lo, hi \in Sks : ~Less(hi, lo) /\
              query_page_by_pk_with_sk_between(pk, NoText, limit, lo = hi, lo, hi)
  BY <1>7, <1>16
<1>17. CASE \E role \in Roles, lo, hi \in Sks : ~Less(hi, lo) /\
              query_gsi_page_by_pk_with_sk_between(role, lo, hi, NoText, limit, lo # hi)
  BY <1>8, <1>17
<1>18. CASE \E pk \in Pks, f \in Filters : query_page_by_pk_with_filter(pk, NoText, limit, FALSE, f)
  BY <1>9, <1>18
<1>19. CASE \E pk \in Pks, pfx \in Sks : QueriesBuilder_prefix(pk, pfx, NoText, limit)
  BY <1>10, <1>19
<1>20. CASE \E f \in Filters : scan_with_filter2(f, NoText)
  BY <1>11, <1>20
<1> QED BY <1>1, <1>12, <1>13, <1>14, <1>15, <1>16, <1>17, <1>18, <1>19, <1>20

\* Whatever function is called, with whatever arguments, the items its request
\* selects are those its caller means, and DynamoDB takes it unless Meant
\* names the cause (get*, query*, scan* and QueriesBuilder).
THEOREM AskedIsMeant == AskOnce \/ AskPaged => Asked
BY AskedOnce, AskedPaged

=============================================================================
