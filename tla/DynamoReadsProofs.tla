------------------------- MODULE DynamoReadsProofs --------------------------
(***************************************************************************)
(* Proofs about DynamoReads, for any items, tables, arguments, page sizes  *)
(* and writers: its safety, and that it keeps the promise of Listing.      *)
(***************************************************************************)
EXTENDS ReadRequestsProofs

-----------------------------------------------------------------------------
(* The invariant *)

Statuses == {NotAsked, "asking", "page", "all", "part", "refused", "Err"}

\* The tables, and what has been there since the reading began.  What was
\* there all the while was the only version of its key.
TablesInv ==
  /\ table \in SUBSET Items /\ copy \in SUBSET Items /\ Unique(table) /\ Unique(copy)
  /\ lasting \subseteq table \cap copy /\ ever \in SUBSET Items
  /\ Reading => table \cup copy \subseteq ever
  /\ \A i \in ever, j \in lasting : KeyOf(i) = KeyOf(j) => i = j

\* The place of an item in the list a request is for, or none.
Place(index, key) == key = NoKey \/ \E i \in Items : key = KeyIn(index, i)

\* The request, from its first page on, is what the caller means, in the
\* caller's order; but for the order of query_by_pk, of which there is only one
\* page.
ReadInv ==
  /\ read = [fn |-> read.fn, req |-> read.req, ascending |-> read.ascending,
             wants |-> read.wants,
             paged |-> read.paged, status |-> read.status, last |-> read.last, garbled |-> read.garbled]
  /\ read.wants \in SUBSET Items /\ read.garbled \in 0..MaxGarbled /\ read.status \in Statuses
  /\ Formed(read.req) /\ Place(read.req.index, read.last) /\ Place(read.req.index, read.req.start)
  /\ read.status # NotAsked =>
       /\ Meant(read.fn, First(read.req), read.wants)
       /\ read.fn # "query_by_pk" => read.req.forward = read.ascending
       /\ read.fn = "query_by_pk" => ~read.paged /\ read.req.start = NoKey
  /\ read.status \in {"page", "part", "all"} => Fits(First(read.req))
  /\ read.status = "page" => read.paged /\ read.last # NoKey /\ Listed(read.req)

\* All that was given so far comes before a key, or is the item of that key.
Reached(r, key) == \A i \in Given : Before(r, i, key) \/ KeyIn(r.index, i) = key

\* What was given is wanted and was there, and the reading goes on from its
\* end.
PagesInv ==
  /\ page \in SUBSET Items /\ Given \subseteq ever \cap read.wants
  /\ read.fn = "query_by_pk" => given = {} /\ (read.status = "asking" => page = {})
  /\ Given # {} =>
       /\ read.status # NotAsked /\ Fits(First(read.req))
       /\ read.status = "page" => Reached(read.req, read.last)
       /\ read.status = "asking" =>
            /\ read.req.start # NoKey /\ Listed(read.req)
            /\ Fits(read.req) => Reached(read.req, read.req.start)

\* Nothing is passed over, and all comes in order, as the request has it.
SkippedInv ==
  \A i \in (lasting \cap read.wants) \ Given :
    /\ read.status # "all"
    /\ read.status \in {"page", "part"} /\ Listed(read.req) => Before(read.req, read.last, i)
    /\ read.status = "asking" /\ read.req.start # NoKey /\ Fits(read.req) =>
         Before(read.req, read.req.start, i)
OrderInv == \A i \in given, j \in page : Before(read.req, i, j)

Inv == TablesInv /\ ReadInv /\ PagesInv /\ SkippedInv /\ OrderInv /\ RefusedForCause

-----------------------------------------------------------------------------
(* Steps of others leave the reading alone *)

\* The statuses are not one another.
LEMMA StatusesDiffer ==
  NotAsked # "asking" /\ NotAsked # "page" /\ NotAsked # "all" /\ NotAsked # "part"
  /\ NotAsked # "refused" /\ NotAsked # "Err"
BY StatusAssumption

\* Items differ in more than their keys only if a table holds one of them.
LEMMA PutUnique ==
  ASSUME NEW T \in SUBSET Items, Unique(T), NEW i \in Items
  PROVE  /\ Put(T, i) \in SUBSET Items /\ Unique(Put(T, i))
         /\ T \ {i} \in SUBSET Items /\ Unique(T \ {i})
<1>1. Put(T, i) \in SUBSET Items
  BY DEF Put
<1>2. Unique(Put(T, i))
  BY DEF Put, Unique
<1>3. Unique(T \ {i})
  BY DEF Unique
<1> QED BY <1>1, <1>2, <1>3

\* New contents of the table and of the copy, while the reading goes on.
Changed ==
  /\ Reading /\ UNCHANGED <<read, page, given>>
  /\ table' \in SUBSET Items /\ copy' \in SUBSET Items /\ Unique(table') /\ Unique(copy')
  /\ lasting' = lasting \cap table' \cap copy' /\ ever' = ever \cup table' \cup copy'

\* What others do, and a copy that catches up, is no more than that.
LEMMA OthersChange ==
  ASSUME TablesInv, Others
  PROVE  Changed
<1>1. /\ table \in SUBSET Items /\ copy \in SUBSET Items /\ Unique(table) /\ Unique(copy)
  BY DEF TablesInv
<1>2. ASSUME NEW T \in SUBSET Items, Unique(T), Write(T) PROVE Changed
  <2>1. table' = T /\ copy' = copy
    BY <1>2 DEF Write, Now
  <2> QED BY <1>1, <1>2, <2>1 DEF Write, Now, Changed
<1>3. ASSUME NEW i \in Items, put_over(i) PROVE Changed
  <2>1. Put(table, i) \in SUBSET Items /\ Unique(Put(table, i))
    BY <1>1, PutUnique
  <2> QED BY <1>2, <1>3, <2>1 DEF put_over
<1>4. ASSUME NEW i \in Items, delete(i) PROVE Changed
  <2>1. table \ {i} \in SUBSET Items /\ Unique(table \ {i})
    BY <1>1, PutUnique
  <2> QED BY <1>2, <1>4, <2>1 DEF delete
<1>5. ASSUME NEW key, catch_up(key) PROVE Changed
  <2> DEFINE U == {i \in copy : KeyOf(i) # key} \cup {i \in table : KeyOf(i) = key}
  <2>1. /\ Reading /\ table' = table /\ copy' = U /\ UNCHANGED <<read, page, given>>
        /\ lasting' = lasting \cap table \cap U /\ ever' = ever \cup table \cup U
    BY <1>5 DEF catch_up, Now
  <2>2. \A i \in U : (i \in copy /\ KeyOf(i) # key) \/ (i \in table /\ KeyOf(i) = key)
    OBVIOUS
  <2> HIDE DEF U
  <2>3. U \in SUBSET Items /\ Unique(U)
    BY <1>1, <2>2 DEF Unique
  <2> QED BY <1>1, <2>1, <2>3 DEF Changed
<1>6. Contested \subseteq Items
  BY BoundAssumption
<1> QED BY <1>3, <1>4, <1>5, <1>6 DEF Others

\* It keeps the invariant: what lasted is less, what there was is more.
LEMMA ChangeKeeps ==
  ASSUME Inv, Changed
  PROVE  Inv'
<1>1. read' = read /\ page' = page /\ given' = given /\ Given' = Given /\ Reading' = Reading
  BY DEF Changed, Given, Reading
<1>2. lasting' \subseteq lasting /\ ever \subseteq ever'
  BY DEF Changed
<1>3. TablesInv'
  <2>1. ever \in SUBSET Items /\ \A i \in ever, j \in lasting : KeyOf(i) = KeyOf(j) => i = j
    BY DEF Inv, TablesInv
  <2>2. \A i \in ever', j \in lasting' : KeyOf(i) = KeyOf(j) => i = j
    BY <2>1 DEF Changed, Unique
  <2>3. ever' \in SUBSET Items /\ lasting' \subseteq table' \cap copy'
    BY <2>1 DEF Changed
  <2> QED BY <2>2, <2>3, <1>1 DEF Changed, TablesInv
<1>4. ReadInv'
  BY <1>1 DEF Inv, ReadInv
<1>5. \A r, key : Reached(r, key)' <=> Reached(r, key)
  BY <1>1 DEF Reached
<1>6. PagesInv'
  BY <1>1, <1>2 DEF Inv, PagesInv, Reached
<1>7. SkippedInv'
  BY <1>1, <1>2 DEF Inv, SkippedInv
<1>8. OrderInv'
  BY <1>1 DEF Inv, OrderInv
<1>9. RefusedForCause'
  BY <1>1 DEF Inv, RefusedForCause
<1> QED BY <1>3, <1>4, <1>6, <1>7, <1>8, <1>9 DEF Inv

-----------------------------------------------------------------------------
(* The reading begins *)

\* A request that begins its list.
LEMMA FirstAgain ==
  ASSUME NEW r, Formed(r), r.start = NoKey
  PROVE  First(r) = r
<1>1. r = [op |-> r.op, index |-> r.index, cond |-> r.cond, filter |-> r.filter, names |-> r.names,
           values |-> r.values, forward |-> r.forward, limit |-> r.limit, start |-> r.start,
           keys |-> r.keys]
  BY DEF Formed
<1>2. First(r) =
          [op |-> r.op, index |-> r.index, cond |-> r.cond, filter |-> r.filter, names |-> r.names,
           values |-> r.values, forward |-> r.forward, limit |-> r.limit, start |-> NoKey,
           keys |-> r.keys]
  BY <1>1 DEF First, From
<1> QED BY <1>1, <1>2

\* Before anyone asks.
LEMMA InitInv ==
  ASSUME Init
  PROVE  Inv
<1>1. /\ table \in Tables /\ copy = table /\ page = {} /\ given = {} /\ lasting = {} /\ ever = {}
      /\ read = [fn |-> "none", req |-> Query, ascending |-> TRUE,
                 wants |-> {}, paged |-> FALSE, status |-> NotAsked,
                 last |-> NoKey, garbled |-> 0]
  BY DEF Init
<1>2. /\ read.fn = "none" /\ read.req = Query /\ read.wants = {} /\ read.paged = FALSE
      /\ read.status = NotAsked /\ read.last = NoKey /\ read.garbled = 0
  BY <1>1
<1>3. Given = {}
  BY <1>1 DEF Given
<1>4. ~Reading
  BY <1>2, StatusesDiffer DEF Reading
<1>5. TablesInv
  <2>1. table \in SUBSET Items /\ Unique(table)
    BY <1>1, ItemsAssumption DEF Unique
  <2> QED BY <1>1, <1>4, <2>1 DEF TablesInv
<1>6. ReadInv
  <2>1. Formed(Query) /\ Query.start = NoKey
    BY QueryParts DEF Parts
  <2>2. read = [fn |-> read.fn, req |-> read.req, ascending |-> read.ascending,
                wants |-> read.wants, paged |-> read.paged,
                status |-> read.status, last |-> read.last, garbled |-> read.garbled]
    BY <1>1
  <2> QED BY <1>2, <2>1, <2>2, StatusesDiffer, BoundAssumption DEF ReadInv, Statuses, Place
<1>7. PagesInv
  BY <1>1, <1>2, <1>3 DEF PagesInv
<1>8. SkippedInv
  BY <1>1 DEF SkippedInv
<1>9. OrderInv
  BY <1>1 DEF OrderInv
<1>10. RefusedForCause
  BY <1>2, StatusesDiffer DEF RefusedForCause
<1> QED BY <1>5, <1>6, <1>7, <1>8, <1>9, <1>10 DEF Inv

\* Whoever asks begins with the first page, and has been given nothing.
LEMMA AskedKeeps ==
  ASSUME Inv, Asked
  PROVE  Inv'
<1> DEFINE r == read'.req
<1>1. /\ read' = [fn |-> read'.fn, req |-> read'.req, ascending |-> read'.ascending,
                  wants |-> read'.wants, paged |-> read'.paged,
                  status |-> "asking", last |-> NoKey, garbled |-> 0]
      /\ Meant(read'.fn, read'.req, read'.wants)
      /\ read'.fn # "query_by_pk" => read'.req.forward = read'.ascending
      /\ read'.fn = "query_by_pk" => ~read'.paged
      /\ read.status = NotAsked /\ lasting' = table \cap copy /\ ever' = table \cup copy
      /\ UNCHANGED <<table, copy, page, given>>
  BY DEF Asked
<1>2. read'.status = "asking" /\ read'.last = NoKey /\ read'.garbled = 0
  BY <1>1
<1>3. Formed(read'.req) /\ read'.req.start = NoKey /\ read'.wants \in SUBSET Items
  BY <1>1 DEF Meant
<1>4. First(read'.req) = read'.req
  BY <1>3, FirstAgain
<1>5. Given = {}
  BY <1>1 DEF Inv, PagesInv
<1>6. page' = {} /\ given' = {} /\ Given' = {}
  BY <1>1, <1>5 DEF Given
<1>7. TablesInv'
  BY <1>1 DEF Inv, TablesInv, Unique
<1>8. ReadInv'
  BY <1>1, <1>2, <1>3, <1>4, BoundAssumption DEF ReadInv, Statuses, Place
<1>9. PagesInv'
  BY <1>2, <1>6 DEF PagesInv
<1>10. SkippedInv'
  BY <1>2, <1>3 DEF SkippedInv
<1>11. OrderInv'
  BY <1>6 DEF OrderInv
<1>12. RefusedForCause'
  BY <1>2 DEF RefusedForCause
<1> QED BY <1>7, <1>8, <1>9, <1>10, <1>11, <1>12 DEF Inv

-----------------------------------------------------------------------------
(* DynamoDB answers *)

\* What a page tells of the list: which items are in it, and that all that is
\* still to come is after its key.
Served(r, S, items, last) ==
  /\ items \subseteq S /\ Place(r.index, last)
  /\ \A i \in items : Selects(r, i) /\ (r.start # NoKey => Before(r, r.start, i))
  /\ \A i \in S \ items :
       Selects(r, i) /\ (r.start # NoKey => Before(r, r.start, i)) => last # NoKey /\ Before(r, last, i)
  /\ last # NoKey =>
       /\ \A i \in items : Before(r, i, last) \/ KeyIn(r.index, i) = last
       /\ \E k \in S : last = KeyIn(r.index, k) /\ (r.start # NoKey => Before(r, r.start, k))

\* Every page of DynamoDB does.
LEMMA PageServed ==
  ASSUME NEW r, Formed(r), Listed(r), Fits(r), NEW S \in SUBSET Items, Unique(S)
  PROVE  Served(r, S, Filtered(r, Page(r, S)), LastKey(r, Page(r, S)))
<1> DEFINE P == Page(r, S)
           D == Due(r, S)
           items == Filtered(r, P)
           last == LastKey(r, P)
<1>1. Fits(First(r)) /\ NoLimit \notin Nat
  BY FromFits, LimitsAssumption
<1>2. S \in SUBSET Item /\ IsFiniteSet(S)
  <2>1. Items \subseteq Item /\ IsFiniteSet(Items)
    BY ItemsAssumption DEF Item
  <2> QED BY <2>1, FS_Subset
<1>3. r.index \in {"table", "gsi"}
  BY DEF Formed
<1>4. \A i \in Items : KeyIn(r.index, i) # NoKey
  BY <1>3, KeysAssumption DEF KeyOfIndex
<1>5. /\ P \subseteq D
      /\ last = NoKey => P = D
      /\ last # NoKey => \E i \in P : last = KeyIn(r.index, i) /\ \A j \in P \ {i} : Before(r, j, i)
      /\ \A i \in P, j \in D \ P : Before(r, i, j)
  BY <1>1, <1>2, <1>4, PageIsFront
<1>6. \A i \in items : i \in P /\ Holds(r, r.filter, i)
  BY DEF Filtered
<1>7. \A i \in P : Holds(r, r.filter, i) => i \in items
  BY DEF Filtered
<1>8. \A i : i \in D <=> i \in S /\ Holds(r, r.cond, i) /\ (r.start # NoKey => Before(r, r.start, i))
  BY DEF Due
<1>9. \A i : Selects(r, i) <=> Holds(r, r.cond, i) /\ Holds(r, r.filter, i)
  BY DEF Selects
<1> HIDE DEF P, D, items, last
<1>10. Place(r.index, last)
  BY <1>5, <1>8 DEF Place
<1>11. \A i \in items : i \in S /\ Selects(r, i) /\ (r.start # NoKey => Before(r, r.start, i))
  BY <1>5, <1>6, <1>8, <1>9
<1>12. ASSUME NEW i \in S \ items, Selects(r, i), r.start # NoKey => Before(r, r.start, i)
       PROVE  last # NoKey /\ Before(r, last, i)
  <2>1. i \in D \ P
    BY <1>7, <1>8, <1>9, <1>12
  <2>2. last # NoKey
    BY <1>5, <2>1
  <2>3. PICK k \in P : last = KeyIn(r.index, k)
    BY <1>5, <2>2
  <2>4. Before(r, k, i)
    BY <1>5, <2>1
  <2> QED BY <1>3, <2>2, <2>3, <2>4, KeyBefore
<1>13. ASSUME last # NoKey
       PROVE  /\ \A i \in items : Before(r, i, last) \/ KeyIn(r.index, i) = last
              /\ \E k \in S : last = KeyIn(r.index, k) /\ (r.start # NoKey => Before(r, r.start, k))
  <2>1. PICK k \in P : last = KeyIn(r.index, k) /\ \A j \in P \ {k} : Before(r, j, k)
    BY <1>5, <1>13
  <2>2. \A i \in items : i = k \/ Before(r, i, last)
    BY <1>3, <1>6, <2>1, KeyBefore
  <2>3. k \in S /\ (r.start # NoKey => Before(r, r.start, k))
    BY <1>5, <1>8, <2>1
  <2> QED BY <2>1, <2>2, <2>3
<1>14. Served(r, S, items, last)
  BY <1>10, <1>11, <1>12, <1>13 DEF Served
<1> QED BY <1>14 DEF items, last, P

\* What a request selects does not depend on where it begins.
LEMMA FirstSelects ==
  ASSUME NEW r, Formed(r)
  PROVE  /\ \A i : Selects(First(r), i) <=> Selects(r, i)
         /\ First(r).limit = r.limit
         /\ Listed(First(r)) <=> Listed(r)
<1>1. /\ First(r).op = r.op /\ First(r).cond = r.cond /\ First(r).filter = r.filter
      /\ First(r).keys = r.keys /\ First(r).limit = r.limit
  BY FromFormed DEF First
<1>2. \A e, i : Holds(First(r), e, i) <=> Holds(r, e, i)
  BY FromHolds DEF First
<1> QED BY <1>1, <1>2 DEF Selects, Listed

\* What is known of a request that DynamoDB takes.
LEMMA Taken ==
  ASSUME ReadInv, read.status = "asking", Fits(read.req)
  PROVE  /\ Formed(read.req) /\ Fits(First(read.req))
         /\ \A i \in Items : i \in read.wants <=> Selects(read.req, i)
<1>1. Formed(read.req) /\ Meant(read.fn, First(read.req), read.wants)
  BY StatusesDiffer DEF ReadInv
<1>2. Fits(First(read.req))
  BY <1>1, FromFits
<1> QED BY <1>1, <1>2, FirstSelects DEF Meant

\* The read with another last key and status.
ReadLast(r, x)   == [r EXCEPT !.last = x]
ReadStatus(r, x) == [r EXCEPT !.status = x]

\* Nothing else of the read changes.
LEMMA ReadEnds ==
  ASSUME ReadInv, NEW last, NEW status
  PROVE  /\ [read EXCEPT !.status = status] =
              [fn |-> read.fn, req |-> read.req, ascending |-> read.ascending,
               wants |-> read.wants, paged |-> read.paged,
               status |-> status, last |-> read.last, garbled |-> read.garbled]
         /\ [read EXCEPT !.last = last, !.status = status] =
              [fn |-> read.fn, req |-> read.req, ascending |-> read.ascending,
               wants |-> read.wants, paged |-> read.paged,
               status |-> status, last |-> last, garbled |-> read.garbled]
<1>1. read = [fn |-> read.fn, req |-> read.req, ascending |-> read.ascending,
              wants |-> read.wants, paged |-> read.paged,
              status |-> read.status, last |-> read.last, garbled |-> read.garbled]
  BY DEF ReadInv
<1>2. [read EXCEPT !.status = status] =
        [fn |-> read.fn, req |-> read.req, ascending |-> read.ascending,
         wants |-> read.wants, paged |-> read.paged,
         status |-> status, last |-> read.last, garbled |-> read.garbled]
  BY <1>1
<1>3. [read EXCEPT !.last = last, !.status = status] =
        [fn |-> read.fn, req |-> read.req, ascending |-> read.ascending,
         wants |-> read.wants, paged |-> read.paged,
         status |-> status, last |-> last, garbled |-> read.garbled]
  <2>1. [read EXCEPT !.last = last, !.status = status] = ReadStatus(ReadLast(read, last), status)
    BY DEF ReadStatus, ReadLast
  <2>2. ReadLast(read, last) =
          [fn |-> read.fn, req |-> read.req, ascending |-> read.ascending,
           wants |-> read.wants, paged |-> read.paged,
           status |-> read.status, last |-> last, garbled |-> read.garbled]
    BY <1>1 DEF ReadLast
  <2>3. ReadStatus(ReadLast(read, last), status) =
          [fn |-> read.fn, req |-> read.req, ascending |-> read.ascending,
           wants |-> read.wants, paged |-> read.paged,
           status |-> status, last |-> last, garbled |-> read.garbled]
    BY <2>2 DEF ReadStatus
  <2> QED BY <2>1, <2>3
<1> QED BY <1>2, <1>3

\* A page, as the caller hears of it.
Heard(S, items, last) ==
  /\ S \in {table, copy} /\ Served(read.req, S, items, last) /\ Listed(read.req)
  /\ read.status = "asking" /\ Fits(read.req)
  /\ page' = items /\ given' = Given
  /\ read' = [fn |-> read.fn, req |-> read.req, ascending |-> read.ascending,
              wants |-> read.wants, paged |-> read.paged,
              status |-> read'.status, last |-> last, garbled |-> read.garbled]
  /\ read'.status \in {"all", "page", "part"} /\ (read'.status = "all" <=> last = NoKey)
  /\ read'.status = "page" => read.paged
  /\ UNCHANGED <<table, copy, lasting, ever>>

\* serve_page is that.
LEMMA PageHeard ==
  ASSUME Inv, serve_page
  PROVE  \E S, items, last : Heard(S, items, last)
<1>1. PICK S \in {table, copy} :
        Hear(Filtered(read.req, Page(read.req, S)), LastKey(read.req, Page(read.req, S)))
  BY DEF serve_page
<1> DEFINE items == Filtered(read.req, Page(read.req, S))
           last == LastKey(read.req, Page(read.req, S))
           status == IF last = NoKey THEN "all" ELSE IF read.paged THEN "page" ELSE "part"
<1>2. /\ read.status = "asking" /\ Listed(read.req) /\ Fits(read.req)
      /\ UNCHANGED <<table, copy, lasting, ever>>
  BY DEF serve_page, Listed
<1>3. S \in SUBSET Items /\ Unique(S)
  BY DEF Inv, TablesInv
<1>4. Formed(read.req)
  BY DEF Inv, ReadInv
<1>5. Served(read.req, S, items, last)
  BY <1>2, <1>3, <1>4, PageServed
<1>6. page' = items /\ given' = Given /\ read' = [read EXCEPT !.last = last, !.status = status]
  BY <1>1 DEF Hear
<1>7. /\ status \in {"all", "page", "part"} /\ (status = "all" <=> last = NoKey)
      /\ status = "page" => read.paged
  OBVIOUS
<1> HIDE DEF items, last, status
<1>8. read' = [fn |-> read.fn, req |-> read.req, ascending |-> read.ascending,
               wants |-> read.wants, paged |-> read.paged,
               status |-> status, last |-> last, garbled |-> read.garbled]
  BY <1>6, ReadEnds DEF Inv
<1>9. read'.status = status
  BY <1>8
<1>10. Heard(S, items, last)
  BY <1>2, <1>5, <1>6, <1>7, <1>8, <1>9 DEF Heard
<1> QED BY <1>10

\* What comes after a page comes after all that was given before.
LEMMA HeardFollows ==
  ASSUME Inv, NEW S, NEW items, NEW last, Heard(S, items, last),
         NEW i \in Given, NEW j \in Items, read.req.start # NoKey => Before(read.req, read.req.start, j)
  PROVE  Before(read.req, i, j)
<1> DEFINE r == read.req
           start == r.start
<1>1. start # NoKey /\ Reached(r, start)
  BY DEF Inv, PagesInv, Heard
<1>2. Before(r, i, start) \/ KeyIn(r.index, i) = start
  BY <1>1 DEF Reached
<1>3. PICK k \in Items : start = KeyIn(r.index, k)
  BY <1>1 DEF Inv, ReadInv, Place
<1>4. r.index \in {"table", "gsi"}
  BY DEF Inv, ReadInv, Formed
<1>5. i \in Item /\ j \in Item /\ k \in Item
  <2>1. Items \subseteq Item
    BY ItemsAssumption DEF Item
  <2>2. i \in Items
    BY DEF Inv, PagesInv, TablesInv
  <2> QED BY <2>1, <2>2
<1>6. Before(r, start, j)
  BY <1>1
<1> HIDE DEF r, start
<1>7. Before(r, k, j)
  BY <1>3, <1>4, <1>6, KeyBefore
<1>8. CASE Before(r, i, start)
  <2>1. Before(r, i, k)
    BY <1>3, <1>4, <1>8, KeyBefore
  <2> QED BY <1>4, <1>5, <1>7, <2>1, BeforeOrder DEF r
<1>9. CASE KeyIn(r.index, i) = start
  <2>1. KeyIn(r.index, i) = KeyIn(r.index, k)
    BY <1>3, <1>9
  <2>2. Before(r, i, j)
    BY <1>4, <1>7, <2>1, SameBefore
  <2> QED BY <2>2 DEF r
<1> QED BY <1>2, <1>8, <1>9

\* A page keeps the invariant: nothing is passed over, all is in order.
LEMMA HeardKeeps ==
  ASSUME Inv, NEW S, NEW items, NEW last, Heard(S, items, last)
  PROVE  Inv'
<1> DEFINE r == read.req
<1>1. /\ S \in {table, copy} /\ Served(r, S, items, last) /\ Listed(r)
      /\ read.status = "asking" /\ Fits(r)
      /\ page' = items /\ given' = Given
      /\ read' = [fn |-> read.fn, req |-> read.req, ascending |-> read.ascending,
                  wants |-> read.wants, paged |-> read.paged,
                  status |-> read'.status, last |-> last, garbled |-> read.garbled]
      /\ read'.status \in {"all", "page", "part"} /\ (read'.status = "all" <=> last = NoKey)
      /\ read'.status = "page" => read.paged
      /\ UNCHANGED <<table, copy, lasting, ever>>
  BY DEF Heard
<1>2. /\ read'.fn = read.fn /\ read'.req = r /\ read'.wants = read.wants /\ read'.paged = read.paged
      /\ read'.last = last /\ read'.garbled = read.garbled /\ read'.ascending = read.ascending
  BY <1>1
<1>3. Formed(r) /\ Fits(First(r)) /\ \A i \in Items : i \in read.wants <=> Selects(r, i)
  BY <1>1, Taken DEF Inv
<1>4. /\ Given \subseteq ever \cap read.wants
      /\ read.fn = "query_by_pk" => Given = {}
  BY <1>1 DEF Inv, PagesInv, Given
<1>5. Given' = Given \cup items
  BY <1>1 DEF Given
<1>6. S \in SUBSET Items /\ S \subseteq ever /\ lasting \subseteq S
  <2>1. Reading
    BY <1>1 DEF Reading
  <2> QED BY <1>1, <2>1 DEF Inv, TablesInv
<1>7. /\ items \subseteq S /\ Place(r.index, last)
      /\ \A i \in items : Selects(r, i) /\ (r.start # NoKey => Before(r, r.start, i))
      /\ \A i \in S \ items :
           Selects(r, i) /\ (r.start # NoKey => Before(r, r.start, i)) => last # NoKey /\ Before(r, last, i)
      /\ last # NoKey =>
           /\ \A i \in items : Before(r, i, last) \/ KeyIn(r.index, i) = last
           /\ \E k \in S : last = KeyIn(r.index, k) /\ (r.start # NoKey => Before(r, r.start, k))
  BY <1>1 DEF Served
<1>8. items \subseteq Items /\ items \subseteq ever \cap read.wants
  BY <1>3, <1>6, <1>7
<1>9. page' \in SUBSET Items
  BY <1>1, <1>8
<1>10. read'.status # NotAsked /\ read'.status # "asking" /\ read'.status # "refused"
  BY <1>1, StatusesDiffer
<1>11. r.index \in {"table", "gsi"}
  BY <1>3 DEF Formed
<1> HIDE DEF r
<1>12. TablesInv'
  <2>1. Reading
    BY <1>1 DEF Reading
  <2> QED BY <1>1, <2>1 DEF Inv, TablesInv
<1>13. ReadInv'
  <2>1. /\ Place(r.index, r.start) /\ Meant(read.fn, First(r), read.wants) /\ read.wants \in SUBSET Items
        /\ read.garbled \in 0..MaxGarbled
        /\ read.fn # "query_by_pk" => r.forward = read.ascending
        /\ read.fn = "query_by_pk" => ~read.paged /\ r.start = NoKey
    BY <1>1, StatusesDiffer DEF Inv, ReadInv, r
  <2>2. read' = [fn |-> read'.fn, req |-> read'.req, ascending |-> read'.ascending,
                 wants |-> read'.wants, paged |-> read'.paged,
                 status |-> read'.status, last |-> read'.last, garbled |-> read'.garbled]
    BY <1>1, <1>2
  <2>3. read'.status \in Statuses
    BY <1>1 DEF Statuses
  <2>4. read'.status = "page" => read'.paged /\ read'.last # NoKey /\ Listed(read'.req)
    BY <1>1, <1>2
  <2> QED BY <1>2, <1>3, <1>7, <2>1, <2>2, <2>3, <2>4 DEF ReadInv
<1>14. PagesInv'
  <2>1. ASSUME read'.status = "page", NEW i \in Given'
        PROVE  Before(r, i, last) \/ KeyIn(r.index, i) = last
    <3>1. last # NoKey
      BY <1>1, <2>1
    <3>2. CASE i \in items
      BY <1>7, <3>1, <3>2
    <3>3. CASE i \in Given
      <4>2. PICK k \in S : last = KeyIn(r.index, k) /\ (r.start # NoKey => Before(r, r.start, k))
        BY <1>7, <3>1
      <4>3. k \in Items
        BY <1>6
      <4>4. Before(r, i, k)
        BY <3>3, <4>2, <4>3, HeardFollows DEF r
      <4> QED BY <1>11, <4>2, <4>4, KeyBefore
    <3> QED BY <1>5, <2>1, <3>2, <3>3
  <2>2. read'.status = "page" => Reached(read.req, read.last)'
    BY <1>2, <2>1 DEF Reached
  <2>3. Given' \subseteq ever' \cap read'.wants
    BY <1>1, <1>2, <1>4, <1>5, <1>8
  <2> QED BY <1>1, <1>2, <1>3, <1>4, <1>9, <1>10, <2>2, <2>3 DEF PagesInv
<1>15. SkippedInv'
  <2> SUFFICES ASSUME NEW i \in (lasting \cap read.wants) \ Given'
               PROVE  last # NoKey /\ Before(r, last, i)
    BY <1>1, <1>2, <1>10 DEF SkippedInv
  <2>1. i \in S \ items /\ i \in (lasting \cap read.wants) \ Given /\ Selects(r, i)
    BY <1>3, <1>5, <1>6
  <2>2. r.start # NoKey => Before(r, r.start, i)
    BY <1>1, <2>1 DEF Inv, SkippedInv, r
  <2> QED BY <1>7, <2>1, <2>2
<1>16. OrderInv'
  <2> SUFFICES ASSUME NEW i \in Given, NEW j \in items
               PROVE  Before(r, i, j)
    BY <1>1, <1>2 DEF OrderInv
  <2>1. j \in Items /\ (r.start # NoKey => Before(r, r.start, j))
    BY <1>7, <1>8
  <2> QED BY <2>1, HeardFollows DEF r
<1>17. RefusedForCause'
  BY <1>10 DEF RefusedForCause
<1> QED BY <1>12, <1>13, <1>14, <1>15, <1>16, <1>17 DEF Inv

\* Reading by keys gives what there is of them.
LEMMA GetKeeps ==
  ASSUME Inv, serve_get
  PROVE  /\ Inv' /\ read'.wants = read.wants
         /\ read'.status \in {"all", "part"}
<1> DEFINE r == read.req
<1>1. PICK S \in {table, copy}, K \in SUBSET ToSet(r.keys) :
        /\ page' = {i \in S : KeyOf(i) \in K}
        /\ read' = [read EXCEPT !.status = IF K = ToSet(r.keys) THEN "all" ELSE "part"]
  BY DEF serve_get
<1> DEFINE items == {i \in S : KeyOf(i) \in K}
           status == IF K = ToSet(r.keys) THEN "all" ELSE "part"
<1>2. /\ read.status = "asking" /\ ~Listed(r) /\ Fits(r)
      /\ UNCHANGED <<table, copy, given, lasting, ever>>
  BY DEF serve_get, Listed
<1>3. Formed(r) /\ Fits(First(r)) /\ \A i \in Items : i \in read.wants <=> Selects(r, i)
  BY <1>2, Taken DEF Inv
<1>4. \A i : Selects(r, i) <=> KeyOf(i) \in ToSet(r.keys)
  BY <1>2 DEF Selects
<1>5. \A i : i \in items <=> i \in S /\ KeyOf(i) \in K
  OBVIOUS
<1>6. page' = items /\ read' = [read EXCEPT !.status = status]
  BY <1>1
<1>7. status \in {"all", "part"} /\ (status = "all" => K = ToSet(r.keys))
  OBVIOUS
<1> HIDE DEF items, status
<1>8. read' = [fn |-> read.fn, req |-> read.req, ascending |-> read.ascending,
               wants |-> read.wants, paged |-> read.paged,
               status |-> status, last |-> read.last, garbled |-> read.garbled]
  BY <1>6, ReadEnds DEF Inv
<1>9. /\ read'.fn = read.fn /\ read'.req = r /\ read'.wants = read.wants /\ read'.status = status
      /\ read'.last = read.last /\ read'.garbled = read.garbled /\ read'.paged = read.paged
      /\ read'.ascending = read.ascending
  BY <1>8
<1>10. S \in SUBSET Items /\ S \subseteq ever /\ lasting \subseteq S
  <2>1. Reading
    BY <1>2 DEF Reading
  <2> QED BY <2>1 DEF Inv, TablesInv
<1>11. K \subseteq ToSet(r.keys)
  OBVIOUS
<1> HIDE DEF r
<1>12. items \subseteq Items /\ items \subseteq ever \cap read.wants
  BY <1>3, <1>4, <1>5, <1>10, <1>11
<1>13. given = {} /\ given' = {} /\ Given' = items
  <2>1. Given = {}
    BY <1>2 DEF Inv, PagesInv, r
  <2> QED BY <1>2, <1>6, <2>1 DEF Given
<1>14. read'.status # NotAsked /\ read'.status \notin {"asking", "page", "refused"}
  BY <1>7, <1>9, StatusesDiffer
<1>15. TablesInv'
  <2>1. Reading
    BY <1>2 DEF Reading
  <2> QED BY <1>2, <2>1 DEF Inv, TablesInv
<1>16. ReadInv'
  <2>1. /\ Place(r.index, r.start) /\ Place(r.index, read.last) /\ Meant(read.fn, First(r), read.wants)
        /\ read.wants \in SUBSET Items /\ read.garbled \in 0..MaxGarbled
        /\ read.fn # "query_by_pk" => r.forward = read.ascending
        /\ read.fn = "query_by_pk" => ~read.paged /\ r.start = NoKey
    BY <1>2, StatusesDiffer DEF Inv, ReadInv, r
  <2>2. read' = [fn |-> read'.fn, req |-> read'.req, ascending |-> read'.ascending,
                 wants |-> read'.wants, paged |-> read'.paged,
                 status |-> read'.status, last |-> read'.last, garbled |-> read'.garbled]
    BY <1>8, <1>9
  <2>3. read'.status \in Statuses
    BY <1>7, <1>9 DEF Statuses
  <2> QED BY <1>3, <1>9, <1>14, <2>1, <2>2, <2>3 DEF ReadInv
<1>17. PagesInv'
  <2>1. page' \in SUBSET Items
    BY <1>6, <1>12
  <2>2. Given' \subseteq ever' \cap read'.wants
    BY <1>2, <1>9, <1>12, <1>13
  <2> QED BY <1>3, <1>9, <1>13, <1>14, <2>1, <2>2 DEF PagesInv
<1>18. SkippedInv'
  <2> SUFFICES ASSUME NEW i \in (lasting \cap read.wants) \ Given'
               PROVE  status # "all"
    BY <1>2, <1>9, <1>14 DEF SkippedInv, Listed
  <2>1. i \in S /\ KeyOf(i) \in ToSet(r.keys)
    BY <1>3, <1>4, <1>10
  <2> QED BY <1>5, <1>7, <1>13, <2>1
<1>19. OrderInv'
  BY <1>13 DEF OrderInv
<1>20. RefusedForCause'
  BY <1>14 DEF RefusedForCause
<1> QED BY <1>7, <1>9, <1>15, <1>16, <1>17, <1>18, <1>19, <1>20 DEF Inv

\* A request that is refused, or fails, ends the reading.
LEMMA EndKeeps ==
  ASSUME Inv, read.status = "asking", NEW status \in {"refused", "Err"}, End(status),
         status = "refused" => ~Fits(read.req)
  PROVE  Inv'
<1> DEFINE r == read.req
<1>1. read' = [fn |-> read.fn, req |-> read.req, ascending |-> read.ascending,
               wants |-> read.wants, paged |-> read.paged,
               status |-> status, last |-> read.last, garbled |-> read.garbled]
      /\ UNCHANGED <<table, copy, page, given, lasting, ever>>
  BY ReadEnds DEF Inv, End
<1>2. /\ read'.fn = read.fn /\ read'.req = r /\ read'.wants = read.wants /\ read'.status = status
      /\ read'.last = read.last /\ read'.garbled = read.garbled /\ read'.paged = read.paged
      /\ read'.ascending = read.ascending
  BY <1>1
<1>3. Given' = Given
  BY <1>1 DEF Given
<1>4. read'.status # NotAsked /\ read'.status \notin {"asking", "page", "all", "part"}
  BY <1>2, StatusesDiffer
<1>5. /\ Formed(r) /\ Meant(read.fn, First(r), read.wants) /\ Place(r.index, r.start)
      /\ read.fn # "query_by_pk" => r.forward = read.ascending
      /\ read.fn = "query_by_pk" => ~read.paged /\ r.start = NoKey
  BY StatusesDiffer DEF Inv, ReadInv
<1>6. ~Reading'
  BY <1>4 DEF Reading
<1> HIDE DEF r
<1>7. TablesInv'
  BY <1>1, <1>6 DEF Inv, TablesInv
<1>8. ReadInv'
  <2>1. read' = [fn |-> read'.fn, req |-> read'.req, ascending |-> read'.ascending,
                 wants |-> read'.wants, paged |-> read'.paged,
                 status |-> read'.status, last |-> read'.last, garbled |-> read'.garbled]
    BY <1>1, <1>2
  <2>2. read'.status \in Statuses
    BY <1>2 DEF Statuses
  <2>3. Place(r.index, read.last) /\ read.wants \in SUBSET Items /\ read.garbled \in 0..MaxGarbled
    BY DEF Inv, ReadInv, r
  <2> QED BY <1>2, <1>4, <1>5, <2>1, <2>2, <2>3 DEF ReadInv
<1>9. PagesInv'
  <2>1. /\ page \in SUBSET Items /\ Given \subseteq ever \cap read.wants
        /\ Given # {} => Fits(First(r))
        /\ read.fn = "query_by_pk" => given = {}
    BY DEF Inv, PagesInv, r
  <2> QED BY <1>1, <1>2, <1>3, <1>4, <2>1 DEF PagesInv
<1>10. SkippedInv'
  BY <1>4 DEF SkippedInv
<1>11. OrderInv'
  BY <1>1, <1>2 DEF Inv, OrderInv, r
<1>12. RefusedForCause'
  <2> SUFFICES ASSUME status = "refused", read.fn # "query_gsi_by_pksk", read.fn # "batch_get",
                      ~(read.fn = "scan_with_filter2" /\ r.names = EmptyMap), r.limit # 0
               PROVE  r.start # NoKey /\ ~Holds(r, r.cond, r.start)
    BY <1>2 DEF RefusedForCause
  <2>1. Fits(First(r))
    <3>1. First(r).names = r.names
      BY <1>5, FromFormed DEF First
    <3> QED BY <1>5, <3>1, FirstSelects DEF Meant
  <2>2. ~Starts(r)
    BY <1>5, <2>1, FromFits DEF r
  <2>3. r.start # NoKey => DOMAIN r.start = KeyAttributes(r.index)
    BY <1>5 DEF Place, KeyIn
  <2> QED BY <2>2, <2>3 DEF Starts
<1> QED BY <1>7, <1>8, <1>9, <1>10, <1>11, <1>12 DEF Inv

\* A page key comes back as it was, unless it was garbled.
LEMMA KeyComesBack ==
  ASSUME NEW index \in {"table", "gsi"}, NEW i \in Items
  PROVE  LET text == last_evaluated_key_to_base64(KeyIn(index, i))
         IN  make_start_key(text) = KeyIn(index, i) /\ text # Garbled
<1> DEFINE key == KeyIn(index, i)
           text == last_evaluated_key_to_base64(key)
<1>1. index \in DOMAIN KeyOfIndex
  BY DEF KeyOfIndex
<1>2. [base64 |-> key] \notin {NoText, Garbled}
  BY <1>1, KeysAssumption
<1> HIDE DEF key
<1>3. text = [base64 |-> key] /\ text.base64 = key
  BY DEF last_evaluated_key_to_base64
<1>4. make_start_key(text) = key /\ text # Garbled
  BY <1>2, <1>3 DEF make_start_key
<1> QED BY <1>4 DEF key

\* The next page is asked for.
ReadStart(r, x)   == [r EXCEPT !.req.start = x]
ReadGarbled(r, x) == [r EXCEPT !.garbled = x]

\* Nothing but the place in the list, and the count of garbled keys.
LEMMA ReadFollows ==
  ASSUME ReadInv, NEW text, follow(text), NEW start, start = make_start_key(text)
  PROVE  read' = [fn |-> read.fn, req |-> From(read.req, start), ascending |-> read.ascending,
                  wants |-> read.wants,
                  paged |-> read.paged, status |-> "asking", last |-> read.last,
                  garbled |-> IF text = Garbled THEN read.garbled + 1 ELSE read.garbled]
<1> DEFINE g == IF text = Garbled THEN read.garbled + 1 ELSE read.garbled
           asking == "asking"
           q == From(read.req, start)
<1>1. read = [fn |-> read.fn, req |-> read.req, ascending |-> read.ascending,
              wants |-> read.wants, paged |-> read.paged,
              status |-> read.status, last |-> read.last, garbled |-> read.garbled]
  BY DEF ReadInv
<1>2. ReadStatus(read, asking) =
        [fn |-> read.fn, req |-> read.req, ascending |-> read.ascending,
         wants |-> read.wants, paged |-> read.paged,
         status |-> asking, last |-> read.last, garbled |-> read.garbled]
  BY <1>1 DEF ReadStatus
<1>3. ReadStart(ReadStatus(read, asking), start) =
        [fn |-> read.fn, req |-> q, ascending |-> read.ascending,
         wants |-> read.wants, paged |-> read.paged,
         status |-> asking, last |-> read.last, garbled |-> read.garbled]
  BY <1>2 DEF ReadStart, From
<1>4. ReadGarbled(ReadStart(ReadStatus(read, asking), start), g) =
        [fn |-> read.fn, req |-> q, ascending |-> read.ascending,
         wants |-> read.wants, paged |-> read.paged,
         status |-> asking, last |-> read.last, garbled |-> g]
  <2> HIDE DEF g, q, asking
  <2> QED BY <1>3 DEF ReadGarbled
<1>5. ReadStart(ReadStatus(read, asking), start).garbled = read.garbled
  BY <1>3
<1>6. read' = ReadGarbled(ReadStart(ReadStatus(read, asking), start), g)
  BY <1>5 DEF follow, ReadGarbled, ReadStart, ReadStatus
<1> QED BY <1>4, <1>6

\* The reading goes on from the last page's key, or begins again.
LEMMA FollowKeeps ==
  ASSUME Inv, NEW text \in PageKeys, follow(text)
  PROVE  Inv'
<1> DEFINE r == read.req
           start == make_start_key(text)
           g == IF text = Garbled THEN read.garbled + 1 ELSE read.garbled
           s == From(r, start)
<1>1. /\ read.status = "page" /\ (text = Garbled => read.garbled < MaxGarbled)
      /\ text = Garbled => page' = {} /\ given' = {}
      /\ text # Garbled => page' = page /\ given' = given
      /\ UNCHANGED <<table, copy, lasting, ever>>
  BY DEF follow
<1>2. /\ Formed(r) /\ Meant(read.fn, First(r), read.wants) /\ Fits(First(r)) /\ Listed(r)
      /\ Place(r.index, read.last) /\ read.last # NoKey
      /\ read.wants \in SUBSET Items /\ read.garbled \in 0..MaxGarbled
      /\ r.forward = read.ascending /\ read.fn # "query_by_pk" /\ read.paged
  BY <1>1, StatusesDiffer DEF Inv, ReadInv
<1>3. r.index \in {"table", "gsi"}
  BY <1>2 DEF Formed
<1>4. read' = [fn |-> read.fn, req |-> s, ascending |-> read.ascending,
               wants |-> read.wants,
               paged |-> read.paged, status |-> "asking", last |-> read.last, garbled |-> g]
  BY ReadFollows DEF Inv
<1>5. g \in 0..MaxGarbled
  BY <1>1, <1>2, BoundAssumption
<1>6. \/ text = Garbled /\ start = NoKey
      \/ start = read.last
      \/ \E j \in Items : start = KeyIn(r.index, j) /\ ~Holds(r, r.cond, j)
  <2>1. CASE text = Garbled
    BY <2>1 DEF make_start_key
  <2>2. CASE text = last_evaluated_key_to_base64(read.last)
    <3>1. PICK i \in Items : read.last = KeyIn(r.index, i)
      BY <1>2 DEF Place
    <3> QED BY <1>3, <2>2, <3>1, KeyComesBack
  <2>3. CASE \E j \in Items : ~Holds(r, r.cond, j) /\ text = last_evaluated_key_to_base64(KeyIn(r.index, j))
    BY <1>3, <2>3, KeyComesBack
  <2> QED BY <2>1, <2>2, <2>3 DEF PageKeys
<1> HIDE DEF g, start
<1>7. /\ Formed(s) /\ s.start = start /\ s.op = r.op /\ s.index = r.index /\ s.cond = r.cond
      /\ s.limit = r.limit /\ s.forward = r.forward /\ First(s) = First(r)
  BY <1>2, FromFormed
<1>8. /\ \A i, j : Before(s, i, j) <=> Before(r, i, j)
      /\ \A e, i : Holds(s, e, i) <=> Holds(r, e, i)
  BY <1>2, FromBefore, FromHolds
<1> HIDE DEF s
<1>9. Fits(s) /\ start # NoKey => start = read.last
  <2> SUFFICES ASSUME Fits(s), start # NoKey, start # read.last PROVE FALSE
    OBVIOUS
  <2>1. PICK j \in Items : start = KeyIn(r.index, j) /\ ~Holds(r, r.cond, j)
    BY <1>6
  <2>2. r.op = "Query"
    <3>1. r.op = "Scan" => r.cond = <<>>
      BY <1>2 DEF Formed
    <3> QED BY <1>2, <2>1, <3>1, HoldsNone DEF Listed
  <2>3. Holds(s, s.cond, s.start)
    BY <1>7, <2>2, FromFits DEF Starts
  <2> HIDE DEF r
  <2>4. Holds(r, r.cond, KeyIn(r.index, j))
    BY <1>7, <1>8, <2>1, <2>3
  <2> QED BY <1>2, <2>1, <2>2, <2>4, KeyHolds
<1>10. /\ read'.fn = read.fn /\ read'.req = s /\ read'.wants = read.wants /\ read'.status = "asking"
       /\ read'.last = read.last /\ read'.garbled = g /\ read'.paged = read.paged
       /\ read'.ascending = read.ascending
  BY <1>4
<1>11. /\ text = Garbled => Given' = {} /\ start = NoKey
       /\ text # Garbled => Given' = Given /\ start # NoKey
  <2>1. \A i \in Items : KeyIn(r.index, i) # NoKey
    BY <1>3, KeysAssumption DEF KeyOfIndex
  <2>2. text = Garbled => start = NoKey
    BY DEF make_start_key, start
  <2> HIDE DEF r
  <2> QED BY <1>1, <1>2, <1>6, <2>1, <2>2 DEF Given
<1>12. TablesInv'
  <2>1. Reading
    BY <1>1 DEF Reading
  <2> QED BY <1>1, <2>1 DEF Inv, TablesInv
<1>13. ReadInv'
  <2>1. read' = [fn |-> read'.fn, req |-> read'.req, ascending |-> read'.ascending,
                 wants |-> read'.wants, paged |-> read'.paged,
                 status |-> read'.status, last |-> read'.last, garbled |-> read'.garbled]
    BY <1>4, <1>10
  <2>2. read'.status \in Statuses
    BY <1>10 DEF Statuses
  <2>3. Place(r.index, start)
    BY <1>2, <1>6 DEF Place
  <2> HIDE DEF r
  <2> QED BY <1>2, <1>5, <1>7, <1>10, <2>1, <2>2, <2>3 DEF ReadInv
<1>14. PagesInv'
  <2>1. page \in SUBSET Items /\ Given \subseteq ever \cap read.wants
    BY DEF Inv, PagesInv
  <2>2. ASSUME Given' # {}
        PROVE  start # NoKey /\ (Fits(s) => Reached(read.req, read.req.start)')
    <3>1. start # NoKey /\ Given' = Given
      BY <1>11, <2>2
    <3>2. Reached(r, read.last)
      BY <1>1, <2>2, <3>1 DEF Inv, PagesInv
    <3>3. ASSUME Fits(s) PROVE Reached(read.req, read.req.start)'
      <4>1. start = read.last
        BY <1>9, <3>1, <3>3
      <4> HIDE DEF r
      <4>2. \A i \in Given : Before(s, i, start) \/ KeyIn(s.index, i) = start
        BY <1>7, <1>8, <3>2, <4>1 DEF Reached
      <4> QED BY <1>7, <1>10, <3>1, <4>2 DEF Reached
    <3> QED BY <3>1, <3>3
  <2>3. Listed(s) /\ Fits(First(s))
    BY <1>2, <1>7 DEF Listed
  <2>4. page' \in SUBSET Items /\ Given' \subseteq ever' \cap read'.wants
    BY <1>1, <1>10, <1>11, <2>1
  <2> HIDE DEF r
  <2> QED BY <1>2, <1>7, <1>10, <2>2, <2>3, <2>4, StatusesDiffer DEF PagesInv
<1>15. SkippedInv'
  <2> SUFFICES ASSUME NEW i \in (lasting \cap read.wants) \ Given', start # NoKey, Fits(s)
               PROVE  Before(s, start, i)
    BY <1>1, <1>7, <1>10 DEF SkippedInv
  <2>1. i \notin Given
    BY <1>11
  <2>2. Before(r, read.last, i)
    BY <1>1, <1>2, <2>1 DEF Inv, SkippedInv
  <2>3. start = read.last
    BY <1>9
  <2> HIDE DEF r
  <2> QED BY <1>8, <2>2, <2>3
<1>16. OrderInv'
  <2>1. \A i \in given, j \in page : Before(r, i, j)
    BY DEF Inv, OrderInv
  <2>2. \A i \in given', j \in page' : i \in given /\ j \in page
    BY <1>1
  <2> HIDE DEF r
  <2> QED BY <1>8, <1>10, <2>1, <2>2 DEF OrderInv
<1>17. RefusedForCause'
  BY <1>10 DEF RefusedForCause
<1> QED BY <1>12, <1>13, <1>14, <1>15, <1>16, <1>17 DEF Inv

-----------------------------------------------------------------------------
(* The theorems *)

\* Every step keeps the invariant.
LEMMA StepKeeps ==
  ASSUME Inv, [Next]_vars
  PROVE  Inv'
<1>1. CASE UNCHANGED vars
  <2>1. /\ table' = table /\ copy' = copy /\ read' = read /\ page' = page /\ given' = given
        /\ lasting' = lasting /\ ever' = ever
    BY <1>1 DEF vars
  <2>2. Given' = Given /\ Reading' = Reading
    BY <2>1 DEF Given, Reading
  <2>3. TablesInv'
    BY <2>1, <2>2 DEF Inv, TablesInv
  <2>4. ReadInv'
    BY <2>1 DEF Inv, ReadInv
  <2>5. PagesInv'
    BY <2>1, <2>2 DEF Inv, PagesInv, Reached
  <2>6. SkippedInv' /\ OrderInv' /\ RefusedForCause'
    BY <2>1, <2>2 DEF Inv, SkippedInv, OrderInv, RefusedForCause
  <2> QED BY <2>3, <2>4, <2>5, <2>6 DEF Inv
<1>2. CASE AskOnce \/ AskPaged
  BY <1>2, AskedOnce, AskedPaged, AskedKeeps
<1>3. CASE serve_page
  BY <1>3, PageHeard, HeardKeeps
<1>4. CASE serve_get
  BY <1>4, GetKeeps
<1>5. CASE refuse
  BY <1>5, EndKeeps DEF refuse
<1>6. CASE fail
  BY <1>6, EndKeeps DEF fail
<1>7. CASE Follow
  BY <1>7, FollowKeeps DEF Follow
<1>8. CASE Others
  BY <1>8, OthersChange, ChangeKeeps DEF Inv
<1> QED BY <1>1, <1>2, <1>3, <1>4, <1>5, <1>6, <1>7, <1>8 DEF Next, Serve

\* The invariant holds always.
THEOREM Invariance == Spec => []Inv
<1>1. Init => Inv
  BY InitInv
<1>2. Inv /\ [Next]_vars => Inv'
  BY StepKeeps
<1> QED BY <1>1, <1>2, PTL DEF Spec

\* The tables, the request and the pages are what they should be.
THEOREM TypeCorrect == Spec => []TypeOK
<1>1. ASSUME Inv PROVE TypeOK
  <2>1. \A key \in {read.last, read.req.start} \ {NoKey} :
          key \in {KeyIn(read.req.index, i) : i \in Items}
    BY <1>1 DEF Inv, ReadInv, Place
  <2>2. lasting \in SUBSET Items
    BY <1>1 DEF Inv, TablesInv
  <2>3. given \in SUBSET Items
    BY <1>1 DEF Inv, TablesInv, PagesInv, Given
  <2> QED BY <1>1, <2>1, <2>2, <2>3 DEF Inv, TablesInv, ReadInv, PagesInv, TypeOK, Statuses
<1> QED BY <1>1, Invariance, PTL

\* The request in the caller's order is the request, but for query_by_pk.
ReadForward(r, x) == [r EXCEPT !.forward = x]
LEMMA MeantIsAsked ==
  ASSUME Inv, read.status # NotAsked, read.fn # "query_by_pk"
  PROVE  AsMeant = read.req
<1> DEFINE r == read.req
<1>1. Formed(r) /\ r.forward = read.ascending
  BY DEF Inv, ReadInv
<1>2. AsMeant = ReadForward(r, r.forward)
  BY <1>1 DEF AsMeant, ReadForward
<1> HIDE DEF r
<1>3. r = [op |-> r.op, index |-> r.index, cond |-> r.cond, filter |-> r.filter, names |-> r.names,
           values |-> r.values, forward |-> r.forward, limit |-> r.limit, start |-> r.start,
           keys |-> r.keys]
  BY <1>1 DEF Formed
<1>4. ReadForward(r, r.forward) =
          [op |-> r.op, index |-> r.index, cond |-> r.cond, filter |-> r.filter, names |-> r.names,
           values |-> r.values, forward |-> r.forward, limit |-> r.limit, start |-> r.start,
           keys |-> r.keys]
  BY <1>3 DEF ReadForward
<1> QED BY <1>2, <1>3, <1>4 DEF r

\* A reading does not pass over an item that was left alone (follow and the
\* page keys, filters, copies that lag, writers).
THEOREM SkippedCorrect == Spec => []NothingSkipped
<1>1. ASSUME Inv PROVE NothingSkipped
  <2> SUFFICES ASSUME NEW i \in (lasting \cap read.wants) \ Given
               PROVE  /\ read.status # "all"
                      /\ read.status \in {"page", "part"} /\ Listed(read.req) =>
                           read.fn = "query_by_pk" \/ Before(AsMeant, read.last, i)
                      /\ read.status = "asking" /\ read.req.start # NoKey /\ Fits(read.req) =>
                           Before(AsMeant, read.req.start, i)
    BY DEF NothingSkipped, Listed
  <2>1. /\ read.status # "all"
        /\ read.status \in {"page", "part"} /\ Listed(read.req) => Before(read.req, read.last, i)
        /\ read.status = "asking" /\ read.req.start # NoKey /\ Fits(read.req) =>
             Before(read.req, read.req.start, i)
    BY <1>1 DEF Inv, SkippedInv
  <2>2. read.status \in {"page", "part", "asking"} /\ read.fn # "query_by_pk" => AsMeant = read.req
    BY <1>1, StatusesDiffer, MeantIsAsked
  <2>3. read.status = "asking" /\ read.fn = "query_by_pk" => read.req.start = NoKey
    BY <1>1, StatusesDiffer DEF Inv, ReadInv
  <2> QED BY <2>1, <2>2, <2>3
<1> QED BY <1>1, Invariance, PTL

\* Pages come in the caller's order, and an item comes twice only if others
\* moved it in the index (follow, the page keys, writers, copies that lag).
THEOREM OrderCorrect == Spec => []InOrder
<1>1. ASSUME Inv PROVE InOrder
  <2> SUFFICES ASSUME NEW i \in given, NEW j \in page
               PROVE  /\ Before(AsMeant, i, j)
                      /\ KeyOf(i) = KeyOf(j) => read.req.index = "gsi" /\ {i, j} \cap lasting = {}
    BY DEF InOrder
  <2> DEFINE r == read.req
  <2>1. /\ i \in Given /\ j \in Given /\ read.status # NotAsked /\ read.fn # "query_by_pk"
    BY <1>1 DEF Inv, PagesInv, Given
  <2>2. AsMeant = r
    BY <1>1, <2>1, MeantIsAsked
  <2>3. Before(r, i, j)
    BY <1>1 DEF Inv, OrderInv
  <2>4. r.index \in {"table", "gsi"}
    BY <1>1 DEF Inv, ReadInv, Formed
  <2>5. i \in ever /\ j \in ever /\ i \in Item /\ j \in Item
    <3>1. ever \subseteq Items /\ Given \subseteq ever
      BY <1>1 DEF Inv, TablesInv, PagesInv
    <3> QED BY <2>1, <3>1, ItemsAssumption DEF Item
  <2> HIDE DEF r
  <2>6. KeyIn(r.index, i) # KeyIn(r.index, j)
    <3> SUFFICES ASSUME KeyIn(r.index, i) = KeyIn(r.index, j) PROVE FALSE
      OBVIOUS
    <3>1. Before(r, j, j)
      BY <2>3, <2>4, SameBefore
    <3> QED BY <2>4, <2>5, <3>1, BeforeOrder
  <2>7. KeyOf(i) = KeyOf(j) => r.index = "gsi"
    <3>1. KeyAttributes("table") = {"pk", "sk"}
      <4>1. ToSet(<<"pk", "sk">>) = {"pk", "sk"}
        BY DEF ToSet
      <4> QED BY <4>1 DEF KeyAttributes, KeyOfIndex, PrimaryKey
    <3>2. ASSUME KeyOf(i) = KeyOf(j)
          PROVE  \A a \in {"pk", "sk"} : i[a] = j[a]
      <4>1. i.pk = j.pk /\ i.sk = j.sk
        BY <3>2 DEF KeyOf, Key
      <4> QED BY <4>1
    <3>3. ASSUME KeyOf(i) = KeyOf(j) PROVE KeyIn("table", i) = KeyIn("table", j)
      BY <3>1, <3>2, <3>3 DEF KeyIn
    <3> QED BY <2>4, <2>6, <3>3
  <2>8. KeyOf(i) = KeyOf(j) => i \notin lasting /\ j \notin lasting
    <3>1. KeyOf(i) = KeyOf(j) /\ (i \in lasting \/ j \in lasting) => i = j
      BY <1>1, <2>5 DEF Inv, TablesInv
    <3> QED BY <2>6, <3>1
  <2> QED BY <2>2, <2>3, <2>7, <2>8 DEF r
<1> QED BY <1>1, Invariance, PTL

\* DynamoDB refuses what the functions ask only for what their caller got
\* wrong, but for query_gsi_by_pksk and a scan_with_filter2 without names.
THEOREM RefusedCorrect == Spec => []RefusedForCause
<1>1. Inv => RefusedForCause
  BY DEF Inv
<1> QED BY <1>1, Invariance, PTL

-----------------------------------------------------------------------------
(* The promise of Listing *)

\* What the caller has been told, case by case.
LEMMA ToldIs ==
  /\ read.status = NotAsked => Told = NotAsked
  /\ read.status \in {"asking", "page"} => Told = Pending
  /\ read.status = "all" => Told = Given
  /\ read.status \in {"part", "refused", "Err"} => Told = Unfinished
BY StatusesDiffer DEF Told, Reading

\* The same after a step.
LEMMA ToldNext ==
  /\ read'.status = NotAsked => Told' = NotAsked
  /\ read'.status \in {"asking", "page"} => Told' = Pending
  /\ read'.status = "all" => Told' = Given'
  /\ read'.status \in {"part", "refused", "Err"} => Told' = Unfinished
BY StatusesDiffer DEF Told, Reading

\* A step that ends a reading tells the caller of it.
LEMMA EndIsTold ==
  ASSUME Inv, Inv', read.status = "asking", read'.status \in {"all", "part", "refused", "Err"},
         read'.wants = read.wants, UNCHANGED <<lasting, ever>>
  PROVE  L!Next
<1>1. Told = Pending
  BY ToldIs
<1>2. CASE read'.status = "all"
  <2>1. Told' = Given'
    BY <1>2, ToldNext
  <2>2. Given' \subseteq ever \cap read.wants
    BY DEF Inv, PagesInv
  <2>3. lasting \cap read.wants \subseteq Given'
    BY <1>2 DEF Inv, SkippedInv
  <2>4. L!Answer
    BY <1>1, <2>1, <2>2, <2>3 DEF L!Answer
  <2> QED BY <2>4 DEF L!Next
<1>3. CASE read'.status \in {"part", "refused", "Err"}
  <2>1. Told' = Unfinished
    BY <1>3, ToldNext
  <2>2. L!StopShort
    BY <1>1, <2>1 DEF L!StopShort
  <2> QED BY <2>2 DEF L!Next
<1> QED BY <1>2, <1>3

\* Every step of a reading is a step of Listing, or none at all.
LEMMA StepKeepsPromise ==
  ASSUME Inv, Inv', [Next]_vars
  PROVE  L!Next \/ UNCHANGED <<lasting, ever, read.wants, Told>>
<1>1. CASE UNCHANGED vars
  BY <1>1 DEF vars, Told, Reading, Given
<1>2. CASE AskOnce \/ AskPaged
  <2>1. Asked
    BY <1>2, AskedOnce, AskedPaged
  <2>2. read.status = NotAsked /\ read'.status = "asking"
    BY <2>1 DEF Asked
  <2>3. Told = NotAsked /\ Told' = Pending
    BY <2>2, ToldIs, ToldNext
  <2>4. lasting' \in SUBSET Items /\ ever' \in SUBSET Items /\ read'.wants \in SUBSET Items
    BY DEF Inv, TablesInv, ReadInv
  <2>5. L!Begin
    BY <2>3, <2>4 DEF L!Begin
  <2> QED BY <2>5 DEF L!Next
<1>3. CASE serve_page
  <2>1. PICK S, items, last : Heard(S, items, last)
    BY <1>3, PageHeard
  <2>2. /\ read.status = "asking" /\ read'.status \in {"all", "page", "part"}
        /\ read'.wants = read.wants /\ UNCHANGED <<lasting, ever>>
    BY <2>1 DEF Heard
  <2>3. CASE read'.status = "page"
    BY <2>2, <2>3, ToldIs, ToldNext
  <2>4. CASE read'.status # "page"
    BY <2>2, <2>4, EndIsTold
  <2> QED BY <2>3, <2>4
<1>4. CASE serve_get
  <2>1. read.status = "asking" /\ UNCHANGED <<lasting, ever>>
    BY <1>4 DEF serve_get
  <2>2. read'.wants = read.wants /\ read'.status \in {"all", "part"}
    BY <1>4, GetKeeps
  <2> QED BY <2>1, <2>2, EndIsTold
<1>5. ASSUME NEW status \in {"refused", "Err"}, read.status = "asking", End(status)
      PROVE  L!Next
  <2>1. /\ read' = [fn |-> read.fn, req |-> read.req, ascending |-> read.ascending,
                    wants |-> read.wants, paged |-> read.paged,
                    status |-> status, last |-> read.last, garbled |-> read.garbled]
        /\ UNCHANGED <<lasting, ever>>
    BY <1>5, ReadEnds DEF Inv, End
  <2>2. read'.wants = read.wants /\ read'.status = status
    BY <2>1
  <2> QED BY <1>5, <2>1, <2>2, EndIsTold
<1>6. CASE refuse \/ fail
  BY <1>5, <1>6 DEF refuse, fail
<1>7. CASE Follow
  <2>1. PICK text \in PageKeys : follow(text)
    BY <1>7 DEF Follow
  <2> DEFINE start == make_start_key(text)
             q == From(read.req, start)
             g == IF text = Garbled THEN read.garbled + 1 ELSE read.garbled
  <2>2. read' = [fn |-> read.fn, req |-> q, ascending |-> read.ascending,
                 wants |-> read.wants,
                 paged |-> read.paged, status |-> "asking", last |-> read.last, garbled |-> g]
    BY <2>1, ReadFollows DEF Inv
  <2>3. read.status = "page" /\ UNCHANGED <<lasting, ever>>
    BY <2>1 DEF follow
  <2> HIDE DEF q, g
  <2>4. read'.wants = read.wants /\ read'.status = "asking"
    BY <2>2
  <2> QED BY <2>3, <2>4, ToldIs, ToldNext
<1>8. CASE Others
  <2>1. Changed
    BY <1>8, OthersChange DEF Inv
  <2>2. Told' = Told
    BY <2>1 DEF Changed, Told, Reading, Given
  <2>3. lasting' \in SUBSET lasting /\ ever' \in SUBSET Items /\ ever \subseteq ever'
        /\ read'.wants = read.wants
    BY <2>1 DEF Changed, Inv, TablesInv
  <2>4. L!Change
    BY <2>2, <2>3 DEF L!Change
  <2> QED BY <2>4 DEF L!Next
<1> QED BY <1>1, <1>2, <1>3, <1>4, <1>6, <1>7, <1>8 DEF Next, Serve

\* The reads implement Listing: a reading that gets to its end, in however
\* many pages, is one reading of the list.
THEOREM ListKept == Spec => ReadsList
<1>1. Init => L!Init
  <2> SUFFICES ASSUME Init PROVE L!Init
    OBVIOUS
  <2>1. read = [fn |-> "none", req |-> Query, ascending |-> TRUE,
                wants |-> {}, paged |-> FALSE, status |-> NotAsked,
                last |-> NoKey, garbled |-> 0]
    BY DEF Init
  <2>2. read.status = NotAsked /\ read.wants = {}
    BY <2>1
  <2>3. Told = NotAsked
    BY <2>2, ToldIs
  <2> QED BY <2>2, <2>3 DEF Init, L!Init
<1>2. Inv /\ Inv' /\ [Next]_vars => [L!Next]_(L!vars)
  BY StepKeepsPromise DEF L!vars
<1> QED BY <1>1, <1>2, Invariance, PTL DEF Spec, ReadsList, L!Spec

=============================================================================
