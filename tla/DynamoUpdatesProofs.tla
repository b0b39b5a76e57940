------------------------ MODULE DynamoUpdatesProofs ------------------------
(***************************************************************************)
(* Proofs about DynamoUpdates for any items, updates, conditions, calls    *)
(* and attempts: first what the answer to a call says of its effects, from *)
(* Inv, which is about the calls and their requests; then what the item    *)
(* holds, from IInv, which adds the item.  At the end, what the chains of  *)
(* calls of UpdatesBuilder build and what DynamoDB makes of it.            *)
(***************************************************************************)
EXTENDS DynamoUpdates, FiniteSetTheorems, SequenceTheorems, TLAPS

-----------------------------------------------------------------------------
(* The inductive invariant *)

Fields == {"op", "req", "attempt", "reply", "status", "effects", "before"}

Elements(s) == {s[k] : k \in DOMAIN s}

\* The calls are a sequence of records.
Recorded ==
  /\ calls \in Seq(Elements(calls))
  /\ \A k \in DOMAIN calls : DOMAIN calls[k] = Fields

\* The attempts of a call that have not taken effect.
Pending(k) == {a \in 1..MaxAttempts : <<k, a>> \in wire}

\* A call has taken effect at most once for each attempt whose request is
\* gone; none is on its way that was not sent.
Counted(k) ==
  /\ \A a \in Pending(k) : a <= calls[k].attempt
  /\ calls[k].effects + Cardinality(Pending(k)) <= calls[k].attempt

\* The answer heard, or about to be, is true; at the first attempt nothing
\* comes behind it.
Honest(k) ==
  /\ "Ok" \in {calls[k].status, calls[k].reply} => calls[k].effects >= 1
  /\ calls[k].attempt = 1 /\ "refused" \in {calls[k].status, calls[k].reply} =>
       calls[k].effects = 0
  /\ calls[k].attempt = 1 /\ (Answered(k) \/ calls[k].reply # "none") => <<k, 1>> \notin wire

\* What was settled stays so.
Settled ==
  \A k \in settled : Answered(k) /\ calls[k].attempt = 1

Inv ==
  /\ CallsTyped
  /\ Recorded
  /\ \A k \in DOMAIN calls : Counted(k) /\ Honest(k)
  /\ Settled

-----------------------------------------------------------------------------
(* The calls as a sequence *)

\* A sequence is one of its own elements.
LEMMA OfItsOwn ==
  ASSUME NEW T, NEW s \in Seq(T)
  PROVE  s \in Seq(Elements(s))
<1> DEFINE U == Elements(s)
<1>1. DOMAIN s = 1..Len(s) /\ Len(s) \in Nat /\ s \in [1..Len(s) -> T]
  BY LenProperties
<1>2. s \in [1..Len(s) -> U]
  BY <1>1 DEF Elements
<1>3. s \in UNION {[1..n -> U] : n \in Nat}
  BY <1>1, <1>2
<1> QED
  BY <1>3, SeqDef, Zenon

\* What a sequence is to those that look at its length and elements.
LEMMA CallsAre ==
  ASSUME Recorded
  PROVE  Len(calls) \in Nat /\ DOMAIN calls = 1..Len(calls)
<1>1. calls \in Seq(Elements(calls))
  BY DEF Recorded
<1> QED
  BY <1>1, LenProperties

\* A call begins behind the others.
LEMMA Begun ==
  ASSUME Recorded, NEW r, DOMAIN r = Fields, calls' = Append(calls, r)
  PROVE  /\ Recorded'
         /\ Len(calls') = Len(calls) + 1
         /\ DOMAIN calls' = 1..(Len(calls) + 1)
         /\ calls'[Len(calls) + 1] = r
         /\ \A k \in DOMAIN calls : calls'[k] = calls[k]
<1> DEFINE T == Elements(calls) \cup {r}
<1>1. calls \in Seq(T)
  <2>1. calls \in Seq(Elements(calls))
    BY DEF Recorded
  <2> QED
    BY <2>1, SeqMonotonic
<1>2. Len(calls) \in Nat /\ DOMAIN calls = 1..Len(calls)
  BY CallsAre
<1>3. /\ Append(calls, r) \in Seq(T)
      /\ Len(Append(calls, r)) = Len(calls) + 1
      /\ \A k \in 1..Len(calls) : Append(calls, r)[k] = calls[k]
      /\ Append(calls, r)[Len(calls) + 1] = r
  <2> HIDE DEF T
  <2>1. r \in T
    BY DEF T
  <2> QED
    BY <1>1, <1>2, <2>1, AppendProperties
<1>4. calls' \in Seq(T)
  BY <1>3
<1>5. calls' \in Seq(Elements(calls'))
  <2> HIDE DEF T
  <2> QED
    BY <1>4, OfItsOwn
<1>6. DOMAIN calls' = 1..(Len(calls) + 1)
  BY <1>3, <1>4, LenProperties
<1>7. \A k \in DOMAIN calls' : DOMAIN calls'[k] = Fields
  <2> TAKE k \in DOMAIN calls'
  <2>1. k \in 1..Len(calls) \/ k = Len(calls) + 1
    BY <1>2, <1>6
  <2>2. CASE k \in 1..Len(calls)
    BY <1>2, <1>3, <2>2 DEF Recorded
  <2>3. CASE k = Len(calls) + 1
    BY <1>3, <2>3
  <2> QED
    BY <2>1, <2>2, <2>3
<1>8. Recorded'
  BY <1>5, <1>7 DEF Recorded
<1> QED
  BY <1>2, <1>3, <1>6, <1>8

\* One call changes.
LEMMA Changed ==
  ASSUME Recorded, NEW k \in DOMAIN calls, NEW r, DOMAIN r = Fields,
         calls' = [calls EXCEPT ![k] = r]
  PROVE  /\ Recorded'
         /\ Len(calls') = Len(calls)
         /\ DOMAIN calls' = DOMAIN calls
         /\ calls'[k] = r
         /\ \A j \in DOMAIN calls : j # k => calls'[j] = calls[j]
<1> DEFINE T == Elements(calls) \cup {r}
<1>1. calls \in Seq(T)
  <2>1. calls \in Seq(Elements(calls))
    BY DEF Recorded
  <2> QED
    BY <2>1, SeqMonotonic
<1>2. Len(calls) \in Nat /\ DOMAIN calls = 1..Len(calls)
  BY CallsAre
<1>3. /\ calls' \in Seq(T)
      /\ Len(calls') = Len(calls)
      /\ \A j \in 1..Len(calls) : calls'[j] = IF j = k THEN r ELSE calls[j]
  <2>1. r \in T
    OBVIOUS
  <2> HIDE DEF T
  <2>2. k \in 1..Len(calls)
    BY <1>2
  <2> QED
    BY <1>1, <2>1, <2>2, ExceptSeq
<1>4. calls' \in Seq(Elements(calls'))
  <2>1. calls' \in Seq(T)
    BY <1>3
  <2> HIDE DEF T
  <2> QED
    BY <2>1, OfItsOwn
<1>5. DOMAIN calls' = DOMAIN calls
  BY <1>2, <1>3, LenProperties
<1>6. \A j \in DOMAIN calls' : DOMAIN calls'[j] = Fields
  BY <1>2, <1>3, <1>5 DEF Recorded
<1>7. Recorded'
  BY <1>4, <1>6 DEF Recorded
<1> QED
  BY <1>2, <1>3, <1>5, <1>7

-----------------------------------------------------------------------------
(* The steps, as far as calls and requests are concerned *)

\* The requests on their way for one call: none joins them, one leaves, one
\* is sent.
LEMMA PendingFinite ==
  ASSUME NEW k
  PROVE  IsFiniteSet(Pending(k)) /\ Cardinality(Pending(k)) \in Nat
<1>1. IsFiniteSet(1..MaxAttempts)
  BY BoundAssumption, FS_Interval
<1>2. Pending(k) \subseteq 1..MaxAttempts
  BY DEF Pending
<1>3. IsFiniteSet(Pending(k))
  BY <1>1, <1>2, FS_Subset
<1> QED
  BY <1>3, FS_CardinalityType

\* A request gone is one fewer, ...
LEMMA FewerPending ==
  ASSUME NEW k, NEW a \in 1..MaxAttempts, <<k, a>> \in wire, wire' = wire \ {<<k, a>>}
  PROVE  /\ Pending(k)' = Pending(k) \ {a}
         /\ Cardinality(Pending(k)') = Cardinality(Pending(k)) - 1
<1>1. Pending(k)' = Pending(k) \ {a} /\ a \in Pending(k)
  BY DEF Pending
<1> QED
  BY <1>1, PendingFinite, FS_RemoveElement

\* ... and one sent is one more.
LEMMA MorePending ==
  ASSUME NEW k, NEW a \in 1..MaxAttempts, wire' = wire \cup {<<k, a>>}
  PROVE  /\ Pending(k)' = Pending(k) \cup {a}
         /\ Cardinality(Pending(k)') <= Cardinality(Pending(k)) + 1
<1>1. Pending(k)' = Pending(k) \cup {a}
  BY DEF Pending
<1>2. Cardinality(Pending(k) \cup {a}) \in {Cardinality(Pending(k)), Cardinality(Pending(k)) + 1}
  BY PendingFinite, FS_AddElement
<1> QED
  BY <1>1, <1>2, PendingFinite

\* A call begins.
LEMMA CallKeeps ==
  ASSUME Inv, NEW op, NEW req, NEW status \in {"running", "refused"}, Call(op, req, status)
  PROVE  Inv'
<1> DEFINE r == [op |-> op, req |-> req, attempt |-> 1, reply |-> "none", status |-> status,
                 effects |-> 0, before |-> {k \in DOMAIN calls : calls[k].status = "Ok"}]
<1>1. /\ DOMAIN r = Fields
      /\ calls' = Append(calls, r)
      /\ Len(calls) < MaxCalls
      /\ wire' = IF status = "running" THEN wire \cup {<<Len(calls) + 1, 1>>} ELSE wire
      /\ held' = held /\ cut' = cut /\ settled' = settled
  BY DEF Call, New, Fields
<1>2. /\ r.attempt = 1 /\ r.reply = "none" /\ r.status = status /\ r.effects = 0
      /\ r.before = {k \in DOMAIN calls : calls[k].status = "Ok"}
  OBVIOUS
<1> HIDE DEF r
<1>3. /\ Len(calls) \in Nat
      /\ DOMAIN calls = 1..Len(calls)
      /\ Recorded'
      /\ Len(calls') = Len(calls) + 1
      /\ DOMAIN calls' = 1..(Len(calls) + 1)
      /\ calls'[Len(calls) + 1] = r
      /\ \A k \in DOMAIN calls : calls'[k] = calls[k]
  BY <1>1, CallsAre, Begun DEF Inv
<1>4. CallsTyped'
  <2>1. Len(calls)' \in 0..MaxCalls
    BY <1>1, <1>3, BoundAssumption
  <2>2. \A k \in DOMAIN calls' :
          /\ calls'[k].attempt \in 1..MaxAttempts /\ calls'[k].effects \in 0..MaxAttempts
          /\ calls'[k].reply \in Replies
          /\ calls'[k].status \in Statuses
          /\ calls'[k].before \subseteq 1..(k - 1)
    BY <1>2, <1>3, BoundAssumption DEF Inv, CallsTyped, Replies, Statuses
  <2>3. wire' \subseteq (DOMAIN calls') \X (1..MaxAttempts)
    BY <1>1, <1>3, BoundAssumption DEF Inv, CallsTyped
  <2>4. (held \cup cut \cup settled)' \subseteq DOMAIN calls'
    BY <1>1, <1>3 DEF Inv, CallsTyped
  <2> QED
    BY <2>1, <2>2, <2>3, <2>4 DEF CallsTyped
<1>5. ASSUME NEW k \in DOMAIN calls PROVE Counted(k)' /\ Honest(k)'
  <2>1. k # Len(calls) + 1 /\ calls'[k] = calls[k] /\ Counted(k) /\ Honest(k)
    BY <1>3 DEF Inv
  <2>2. \A a : <<k, a>> \in wire' <=> <<k, a>> \in wire
    BY <1>1, <2>1
  <2>3. Pending(k)' = Pending(k)
    BY <2>2 DEF Pending
  <2>4. Counted(k)'
    BY <2>1, <2>3 DEF Counted
  <2>5. Honest(k)'
    BY <2>1, <2>2 DEF Honest, Answered
  <2> QED
    BY <2>4, <2>5
<1>6. ASSUME NEW n, n = Len(calls) + 1 PROVE Counted(n)' /\ Honest(n)'
  <2>1. \A a : <<n, a>> \notin wire
    BY <1>3, <1>6 DEF Inv, CallsTyped
  <2>2. Pending(n)' \subseteq {1} /\ (status # "running" => Pending(n)' = {})
    BY <1>1, <1>6, <2>1 DEF Pending
  <2>3. Pending(n)' = {} \/ Pending(n)' = {1}
    BY <2>2
  <2>4. Cardinality({}) = 0 /\ Cardinality({1}) = 1
    BY FS_EmptySet, FS_Singleton
  <2>5. Cardinality(Pending(n)') <= 1
    BY <2>3, <2>4
  <2>6. calls'[n] = r
    BY <1>3, <1>6
  <2>7. \A a \in Pending(n)' : a <= 1
    BY <2>2
  <2>8. Cardinality(Pending(n)') \in Nat
    BY <2>3, <2>4
  <2>9. Counted(n)'
    BY <1>2, <2>5, <2>6, <2>7, <2>8 DEF Counted
  <2>10. Honest(n)'
    BY <1>1, <1>2, <1>6, <2>1, <2>6 DEF Honest, Answered
  <2> QED
    BY <2>9, <2>10
<1>7. Settled'
  BY <1>1, <1>3 DEF Inv, CallsTyped, Settled, Answered
<1>8. \A k \in DOMAIN calls' : Counted(k)' /\ Honest(k)'
  <2> TAKE k \in DOMAIN calls'
  <2>1. k \in DOMAIN calls \/ k = Len(calls) + 1
    BY <1>3
  <2> QED
    BY <1>5, <1>6, <2>1
<1> QED
  BY <1>3, <1>4, <1>7, <1>8 DEF Inv

\* A step of one call or of DynamoDB that leaves the other calls alone and
\* their requests where they are.
LEMMA OthersKeep ==
  ASSUME Inv, NEW k \in DOMAIN calls, NEW r, DOMAIN r = Fields,
         calls' = [calls EXCEPT ![k] = r],
         r.attempt \in 1..MaxAttempts, r.effects \in 0..MaxAttempts,
         r.reply \in Replies, r.status \in Statuses, r.before = calls[k].before,
         wire' \subseteq (DOMAIN calls) \X (1..MaxAttempts),
         \A j \in DOMAIN calls, a \in 1..MaxAttempts :
           j # k => (<<j, a>> \in wire' <=> <<j, a>> \in wire),
         held' \cup cut' \cup settled' \subseteq DOMAIN calls,
         Counted(k)', Honest(k)', Settled'
  PROVE  Inv'
<1>1. /\ Recorded'
      /\ Len(calls') = Len(calls)
      /\ DOMAIN calls' = DOMAIN calls
      /\ calls'[k] = r
      /\ \A j \in DOMAIN calls : j # k => calls'[j] = calls[j]
  BY Changed DEF Inv
<1>2. CallsTyped'
  BY <1>1 DEF Inv, CallsTyped
<1>3. ASSUME NEW j \in DOMAIN calls, j # k PROVE Counted(j)' /\ Honest(j)'
  <2>1. calls'[j] = calls[j] /\ Counted(j) /\ Honest(j)
    BY <1>1, <1>3 DEF Inv
  <2>2. Pending(j)' = Pending(j)
    BY <1>3 DEF Pending
  <2>3. <<j, 1>> \in wire' <=> <<j, 1>> \in wire
    BY <1>3, BoundAssumption
  <2>4. Counted(j)'
    BY <2>1, <2>2 DEF Counted
  <2>5. Honest(j)'
    BY <2>1, <2>3 DEF Honest, Answered
  <2> QED
    BY <2>4, <2>5
<1>4. \A j \in DOMAIN calls' : Counted(j)' /\ Honest(j)'
  BY <1>1, <1>3
<1> QED
  BY <1>1, <1>2, <1>4 DEF Inv

\* A request takes effect.
LEMMA TakeKeeps ==
  ASSUME Inv, NEW k, NEW attempt, take(k, attempt)
  PROVE  Inv'
<1> DEFINE heard == Running(k) /\ calls[k].attempt = attempt
           r == [calls[k] EXCEPT !.reply = IF heard THEN "Ok" ELSE @, !.effects = @ + 1]
<1>1. /\ k \in DOMAIN calls /\ attempt \in 1..MaxAttempts /\ <<k, attempt>> \in wire
      /\ wire' = wire \ {<<k, attempt>>}
  BY DEF take, Inv, CallsTyped
<1>2. /\ DOMAIN calls[k] = Fields
      /\ calls[k].attempt \in 1..MaxAttempts /\ calls[k].effects \in 0..MaxAttempts
      /\ calls[k].reply \in Replies /\ calls[k].status \in Statuses
      /\ Counted(k) /\ Honest(k)
  BY <1>1 DEF Inv, Recorded, CallsTyped
<1>3. calls' = [calls EXCEPT ![k] = r]
  BY <1>1, <1>2 DEF take, Reply, Fields
<1>4. /\ DOMAIN r = Fields
      /\ r.attempt = calls[k].attempt /\ r.status = calls[k].status /\ r.before = calls[k].before
      /\ r.reply = IF heard THEN "Ok" ELSE calls[k].reply
      /\ r.effects = calls[k].effects + 1
  BY <1>2 DEF Fields
<1>5. calls'[k] = r /\ DOMAIN calls' = DOMAIN calls
  <2>1. Recorded
    BY DEF Inv
  <2> HIDE DEF r
  <2> QED
    BY <2>1, <1>1, <1>3, <1>4, Changed
<1> HIDE DEF r
<1>6. /\ Pending(k)' = Pending(k) \ {attempt}
      /\ Cardinality(Pending(k)') = Cardinality(Pending(k)) - 1
      /\ Cardinality(Pending(k)) \in Nat
      /\ Cardinality(Pending(k)') \in Nat
  <2>1. attempt \in Pending(k)
    BY <1>1 DEF Pending
  <2>2. /\ Pending(k)' = Pending(k) \ {attempt}
        /\ Cardinality(Pending(k)') = Cardinality(Pending(k)) - 1
    BY <1>1, FewerPending
  <2>3. IsFiniteSet(Pending(k) \ {attempt}) /\ Cardinality(Pending(k)) \in Nat
    BY PendingFinite, FS_RemoveElement
  <2> QED
    BY <2>2, <2>3, FS_CardinalityType
<1>7. Counted(k)'
  BY <1>2, <1>4, <1>5, <1>6, BoundAssumption DEF Counted
<1>8. r.effects \in 0..MaxAttempts
  BY <1>2, <1>4, <1>6, <1>7, <1>5, BoundAssumption DEF Counted
<1>9. Honest(k)'
  <2>1. "Ok" \in {r.status, r.reply} => r.effects >= 1
    BY <1>2, <1>4
  <2>2. ASSUME calls[k].attempt = 1 PROVE attempt = 1
    BY <1>1, <1>2, <2>2 DEF Counted, Pending
  <2>3. ASSUME calls[k].attempt = 1 PROVE ~Answered(k) /\ calls[k].reply = "none"
    BY <1>1, <1>2, <2>2, <2>3 DEF Honest
  <2>4. r.attempt = 1 => "refused" \notin {r.status, r.reply}
    BY <1>4, <2>3 DEF Answered
  <2>5. r.attempt = 1 => <<k, 1>> \notin wire'
    BY <1>1, <1>4, <2>2
  <2> QED
    BY <1>5, <2>1, <2>4, <2>5 DEF Honest
<1>10. settled' \subseteq DOMAIN calls /\ \A j \in settled' : Answered(j) /\ calls[j].attempt = 1
  BY DEF take, Inv, Settled, CallsTyped
<1>11. Settled'
  <2> SUFFICES ASSUME NEW j \in settled' PROVE Answered(j)' /\ calls'[j].attempt = 1
    BY DEF Settled
  <2>1. j \in DOMAIN calls /\ Answered(j) /\ calls[j].attempt = 1
    BY <1>10
  <2>2. calls'[j].attempt = calls[j].attempt /\ calls'[j].status = calls[j].status
    <3>1. CASE j = k
      BY <1>4, <1>5, <3>1
    <3>2. CASE j # k
      BY <1>3, <2>1, <3>2
    <3> QED
      BY <3>1, <3>2
  <2> QED
    BY <2>1, <2>2 DEF Answered
<1>12. held' \cup cut' \cup settled' \subseteq DOMAIN calls
  BY <1>10 DEF take, Inv, CallsTyped
<1>13. wire' \subseteq (DOMAIN calls) \X (1..MaxAttempts)
  BY <1>1 DEF Inv, CallsTyped
<1>14. r.reply \in Replies
  BY <1>2, <1>4 DEF Replies
<1>15. \A j \in DOMAIN calls, a \in 1..MaxAttempts :
         j # k => (<<j, a>> \in wire' <=> <<j, a>> \in wire)
  BY <1>1
<1> QED
  BY <1>1, <1>2, <1>3, <1>4, <1>7, <1>8, <1>9, <1>11, <1>12, <1>13, <1>14, <1>15, OthersKeep

\* A request is turned down.
LEMMA TurnDownKeeps ==
  ASSUME Inv, NEW k, NEW attempt, turn_down(k, attempt)
  PROVE  Inv'
<1> DEFINE heard == Running(k) /\ calls[k].attempt = attempt
           r == [calls[k] EXCEPT !.reply = IF heard THEN "refused" ELSE @, !.effects = @ + 0]
<1>1. /\ k \in DOMAIN calls /\ attempt \in 1..MaxAttempts /\ <<k, attempt>> \in wire
      /\ wire' = wire \ {<<k, attempt>>}
      /\ held' = held /\ cut' = cut /\ settled' = settled
  BY DEF turn_down, Inv, CallsTyped
<1>2. /\ DOMAIN calls[k] = Fields
      /\ calls[k].attempt \in 1..MaxAttempts /\ calls[k].effects \in 0..MaxAttempts
      /\ calls[k].reply \in Replies /\ calls[k].status \in Statuses
      /\ Counted(k) /\ Honest(k)
  BY <1>1 DEF Inv, Recorded, CallsTyped
<1>3. calls' = [calls EXCEPT ![k] = r]
  BY <1>1, <1>2 DEF turn_down, Reply, Fields
<1>4. /\ DOMAIN r = Fields
      /\ r.attempt = calls[k].attempt /\ r.status = calls[k].status /\ r.before = calls[k].before
      /\ r.reply = IF heard THEN "refused" ELSE calls[k].reply
      /\ r.effects = calls[k].effects
  BY <1>2, BoundAssumption DEF Fields
<1>5. calls'[k] = r /\ DOMAIN calls' = DOMAIN calls
  <2>1. Recorded
    BY DEF Inv
  <2> HIDE DEF r
  <2> QED
    BY <2>1, <1>1, <1>3, <1>4, Changed
<1> HIDE DEF r
<1>6. /\ Pending(k)' = Pending(k) \ {attempt}
      /\ Cardinality(Pending(k)') = Cardinality(Pending(k)) - 1
      /\ Cardinality(Pending(k)) \in Nat
  <2>1. /\ Pending(k)' = Pending(k) \ {attempt}
        /\ Cardinality(Pending(k)') = Cardinality(Pending(k)) - 1
    BY <1>1, FewerPending
  <2> QED
    BY <2>1, PendingFinite
<1>7. Counted(k)'
  BY <1>2, <1>4, <1>5, <1>6, BoundAssumption DEF Counted
<1>9. Honest(k)'
  <2>1. "Ok" \in {r.status, r.reply} => r.effects >= 1
    BY <1>2, <1>4 DEF Honest
  <2>2. ASSUME calls[k].attempt = 1
        PROVE  attempt = 1 /\ Pending(k) = {1} /\ Cardinality(Pending(k)) = 1
    <3>1. attempt = 1 /\ Pending(k) = {1}
      BY <1>1, <1>2, <2>2 DEF Counted, Pending
    <3> QED
      BY <3>1, FS_Singleton
  <2>3. r.attempt = 1 => r.effects = 0
    BY <1>2, <1>4, <2>2 DEF Counted
  <2>4. r.attempt = 1 => <<k, 1>> \notin wire'
    BY <1>1, <1>4, <2>2
  <2> QED
    BY <1>5, <2>1, <2>3, <2>4 DEF Honest
<1>10. Settled'
  <2> SUFFICES ASSUME NEW j \in settled' PROVE Answered(j)' /\ calls'[j].attempt = 1
    BY DEF Settled
  <2>1. j \in DOMAIN calls /\ Answered(j) /\ calls[j].attempt = 1
    BY <1>1 DEF Inv, Settled, CallsTyped
  <2>2. calls'[j].attempt = calls[j].attempt /\ calls'[j].status = calls[j].status
    <3>1. CASE j = k
      BY <1>4, <1>5, <3>1
    <3>2. CASE j # k
      BY <1>3, <2>1, <3>2
    <3> QED
      BY <3>1, <3>2
  <2> QED
    BY <2>1, <2>2 DEF Answered
<1>11. held' \cup cut' \cup settled' \subseteq DOMAIN calls
  BY <1>1 DEF Inv, CallsTyped
<1>12. wire' \subseteq (DOMAIN calls) \X (1..MaxAttempts)
  BY <1>1 DEF Inv, CallsTyped
<1>13. r.reply \in Replies
  BY <1>2, <1>4 DEF Replies
<1>14. \A j \in DOMAIN calls, a \in 1..MaxAttempts :
         j # k => (<<j, a>> \in wire' <=> <<j, a>> \in wire)
  BY <1>1
<1> QED
  BY <1>1, <1>2, <1>3, <1>4, <1>7, <1>9, <1>10, <1>11, <1>12, <1>13, <1>14, OthersKeep

\* A call that is under way is not settled; what it becomes disturbs none that is.
LEMMA SettledStay ==
  ASSUME Inv, NEW k \in DOMAIN calls, Running(k), NEW r,
         calls' = [calls EXCEPT ![k] = r], settled' = settled
  PROVE  Settled'
<1> SUFFICES ASSUME NEW j \in settled PROVE Answered(j)' /\ calls'[j].attempt = 1
  BY DEF Settled
<1>1. j \in DOMAIN calls /\ Answered(j) /\ calls[j].attempt = 1
  BY DEF Inv, Settled, CallsTyped
<1>2. j # k
  BY <1>1 DEF Running, Answered
<1>3. calls'[j] = calls[j]
  BY <1>1, <1>2
<1> QED
  BY <1>1, <1>3 DEF Answered

\* A call takes its answer.
LEMMA HearKeeps ==
  ASSUME Inv, NEW k \in DOMAIN calls, hear(k)
  PROVE  Inv'
<1> DEFINE r == [calls[k] EXCEPT !.status = calls[k].reply]
<1>1. /\ Running(k) /\ calls[k].reply # "none"
      /\ wire' = wire /\ settled' = settled /\ cut' = cut
      /\ calls' = [calls EXCEPT ![k] = r]
  BY DEF hear
<1>2. /\ DOMAIN calls[k] = Fields
      /\ calls[k].attempt \in 1..MaxAttempts /\ calls[k].effects \in 0..MaxAttempts
      /\ calls[k].reply \in Replies /\ calls[k].status \in Statuses
      /\ Counted(k) /\ Honest(k)
  BY DEF Inv, Recorded, CallsTyped
<1>3. /\ DOMAIN r = Fields
      /\ r.attempt = calls[k].attempt /\ r.status = calls[k].reply /\ r.before = calls[k].before
      /\ r.reply = calls[k].reply /\ r.effects = calls[k].effects
  BY <1>2 DEF Fields
<1>4. calls'[k] = r
  BY <1>1
<1> HIDE DEF r
<1>5. Pending(k)' = Pending(k)
  BY <1>1 DEF Pending
<1>6. Counted(k)'
  BY <1>2, <1>3, <1>4, <1>5 DEF Counted
<1>7. Honest(k)'
  BY <1>1, <1>2, <1>3, <1>4 DEF Honest
<1>8. Settled'
  BY <1>1, SettledStay
<1>9. held' \cup cut' \cup settled' \subseteq DOMAIN calls
  BY <1>1 DEF hear, Inv, CallsTyped
<1>10. wire' \subseteq (DOMAIN calls) \X (1..MaxAttempts)
  BY <1>1 DEF Inv, CallsTyped
<1>11. r.status \in Statuses
  BY <1>1, <1>2, <1>3 DEF Replies, Statuses
<1>12. \A j \in DOMAIN calls, a \in 1..MaxAttempts :
         j # k => (<<j, a>> \in wire' <=> <<j, a>> \in wire)
  BY <1>1
<1> QED
  BY <1>1, <1>2, <1>3, <1>6, <1>7, <1>8, <1>9, <1>10, <1>11, <1>12, OthersKeep

\* A request is sent again.
LEMMA RetryKeeps ==
  ASSUME Inv, NEW k \in DOMAIN calls, retry(k)
  PROVE  Inv'
<1> DEFINE r == [calls[k] EXCEPT !.attempt = @ + 1, !.reply = "none"]
           n == calls[k].attempt + 1
<1>1. /\ DOMAIN calls[k] = Fields
      /\ calls[k].attempt \in 1..MaxAttempts /\ calls[k].effects \in 0..MaxAttempts
      /\ calls[k].reply \in Replies /\ calls[k].status \in Statuses
      /\ Counted(k) /\ Honest(k)
  BY DEF Inv, Recorded, CallsTyped
<1>2. /\ Running(k) /\ calls[k].attempt # MaxAttempts
      /\ wire' = wire \cup {<<k, n>>}
      /\ held' = held /\ cut' = cut /\ settled' = settled
  BY DEF retry, LastAttempt
<1>3. calls' = [calls EXCEPT ![k] = r]
  BY <1>1 DEF retry, Fields
<1>4. /\ DOMAIN r = Fields
      /\ r.attempt = n /\ r.status = "running" /\ r.before = calls[k].before
      /\ r.reply = "none" /\ r.effects = calls[k].effects
  BY <1>1, <1>2 DEF Fields, Running
<1>5. calls'[k] = r
  BY <1>3
<1>6. n \in 2..MaxAttempts /\ calls[k].attempt = n - 1
  BY <1>1, <1>2, BoundAssumption
<1> HIDE DEF r, n
<1>7. Settled'
  BY <1>2, <1>3, SettledStay
<1>8. /\ Pending(k)' = Pending(k) \cup {n}
      /\ Cardinality(Pending(k)') <= Cardinality(Pending(k)) + 1
      /\ Cardinality(Pending(k)) \in Nat /\ Cardinality(Pending(k)') \in Nat
  <2>1. n \in 1..MaxAttempts
    BY <1>6
  <2>2. /\ Pending(k)' = Pending(k) \cup {n}
        /\ Cardinality(Pending(k)') <= Cardinality(Pending(k)) + 1
    BY <1>2, <2>1, MorePending
  <2>3. IsFiniteSet(Pending(k) \cup {n}) /\ Cardinality(Pending(k)) \in Nat
    BY PendingFinite, FS_AddElement
  <2> QED
    BY <2>2, <2>3, FS_CardinalityType
<1>9. Counted(k)'
  <2>1. \A a \in Pending(k)' : a <= r.attempt
    BY <1>1, <1>4, <1>6, <1>8 DEF Counted, Pending
  <2>2. r.effects + Cardinality(Pending(k)') <= r.attempt
    BY <1>1, <1>4, <1>6, <1>8 DEF Counted
  <2> QED
    BY <1>5, <2>1, <2>2 DEF Counted
<1>10. Honest(k)'
  BY <1>4, <1>5, <1>6 DEF Honest
<1>11. held' \cup cut' \cup settled' \subseteq DOMAIN calls
  BY <1>2 DEF Inv, CallsTyped
<1>12. wire' \subseteq (DOMAIN calls) \X (1..MaxAttempts)
  BY <1>2, <1>6 DEF Inv, CallsTyped
<1>13. \A j \in DOMAIN calls, a \in 1..MaxAttempts :
         j # k => (<<j, a>> \in wire' <=> <<j, a>> \in wire)
  BY <1>2
<1>14. r.status \in Statuses /\ r.reply \in Replies /\ r.attempt \in 1..MaxAttempts
  BY <1>4, <1>6 DEF Replies, Statuses
<1> QED
  BY <1>1, <1>3, <1>4, <1>7, <1>9, <1>10, <1>11, <1>12, <1>13, <1>14, OthersKeep

\* A call gives up.
LEMMA GiveUpKeeps ==
  ASSUME Inv, NEW k \in DOMAIN calls, give_up(k)
  PROVE  Inv'
<1> DEFINE r == [calls[k] EXCEPT !.status = "timed_out"]
<1>1. /\ Running(k)
      /\ wire' = wire /\ settled' = settled /\ cut' = cut /\ held' = held
      /\ calls' = [calls EXCEPT ![k] = r]
  BY DEF give_up
<1>2. /\ DOMAIN calls[k] = Fields
      /\ calls[k].attempt \in 1..MaxAttempts /\ calls[k].effects \in 0..MaxAttempts
      /\ calls[k].reply \in Replies /\ calls[k].status \in Statuses
      /\ Counted(k) /\ Honest(k)
  BY DEF Inv, Recorded, CallsTyped
<1>3. /\ DOMAIN r = Fields
      /\ r.attempt = calls[k].attempt /\ r.status = "timed_out" /\ r.before = calls[k].before
      /\ r.reply = calls[k].reply /\ r.effects = calls[k].effects
  BY <1>2 DEF Fields
<1>4. calls'[k] = r
  BY <1>1
<1> HIDE DEF r
<1>5. Pending(k)' = Pending(k)
  BY <1>1 DEF Pending
<1>6. Counted(k)'
  BY <1>2, <1>3, <1>4, <1>5 DEF Counted
<1>7. Honest(k)'
  BY <1>1, <1>2, <1>3, <1>4 DEF Honest, Answered
<1>8. Settled'
  BY <1>1, SettledStay
<1>9. held' \cup cut' \cup settled' \subseteq DOMAIN calls
  BY <1>1 DEF Inv, CallsTyped
<1>10. wire' \subseteq (DOMAIN calls) \X (1..MaxAttempts)
  BY <1>1 DEF Inv, CallsTyped
<1>11. r.status \in Statuses
  BY <1>3 DEF Statuses
<1>12. \A j \in DOMAIN calls, a \in 1..MaxAttempts :
         j # k => (<<j, a>> \in wire' <=> <<j, a>> \in wire)
  BY <1>1
<1> QED
  BY <1>1, <1>2, <1>3, <1>6, <1>7, <1>8, <1>9, <1>10, <1>11, <1>12, OthersKeep

-----------------------------------------------------------------------------
(* The theorems about answers *)

\* Whichever call begins, it is one request, or none.
LEMMA CallsBegin ==
  ASSUME CallNext
  PROVE  \E op, req : \E status \in {"running", "refused"} : Call(op, req, status)
<1>1. ASSUME NEW steps, NEW given, update(given, steps)
      PROVE  \E req : \E status \in {"running", "refused"} : Call("update", req, status)
  <2>1. \/ Call("update", Updates, "refused")
        \/ Call("update", Built(given, steps), "running")
    BY <1>1 DEF update
  <2> QED
    BY <2>1
<1>2. CASE \E steps \in StepLists(Me), given \in {PrimaryKey, {"sk"}} : update(given, steps)
  BY <1>1, <1>2
<1>3. CASE \E condition \in Conditions : delete(condition)
  BY <1>3 DEF delete
<1>4. CASE update_s(Mark, Me) \/ update_n(Mark, N(New))
  BY <1>4 DEF update_s, update_n
<1>5. CASE update_add_list(List, N(New)) \/ update_add_list_str(List, New)
  BY <1>5 DEF update_add_list, update_add_list_str
<1>6. CASE update_add(Counter, 1)
  BY <1>6 DEF update_add
<1>7. CASE update_add_ts(Counter, 1, Stamp, Me)
  BY <1>7 DEF update_add_ts
<1>8. CASE update_remove_attr(Counter)
  BY <1>8 DEF update_remove_attr
<1> QED
  BY <1>2, <1>3, <1>4, <1>5, <1>6, <1>7, <1>8 DEF CallNext

\* Inv holds at first, ...
LEMMA InitInv == Init => Inv
<1> SUFFICES ASSUME Init PROVE Inv
  OBVIOUS
<1>1. calls = <<>> /\ wire = {} /\ held = {} /\ cut = {} /\ settled = {}
  BY DEF Init
<1>2. Len(calls) = 0 /\ DOMAIN calls = {} /\ calls \in Seq(Elements(calls))
  BY <1>1, EmptySeq
<1> QED
  BY <1>1, <1>2, BoundAssumption DEF Inv, CallsTyped, Recorded, Settled

\* ... and every step keeps it.
LEMMA NextInv == Inv /\ [Next]_vars => Inv'
<1> SUFFICES ASSUME Inv, [Next]_vars PROVE Inv'
  OBVIOUS
<1>1. CASE CallNext
  BY <1>1, CallsBegin, CallKeeps
<1>2. CASE \E m \in wire : take(m[1], m[2]) \/ turn_down(m[1], m[2])
  BY <1>2, TakeKeeps, TurnDownKeeps
<1>3. CASE \E k \in DOMAIN calls : Sdk(k)
  BY <1>3, HearKeeps, RetryKeeps, GiveUpKeeps DEF Sdk
<1>4. CASE UNCHANGED vars
  BY <1>4 DEF vars, Inv, CallsTyped, Recorded, Counted, Honest, Settled, Pending, Answered
<1> QED
  BY <1>1, <1>2, <1>3, <1>4 DEF Next

\* The calls and what became of their requests fit each other in every state
\* that clients, the SDK and DynamoDB reach.
THEOREM Invariance == Spec => []Inv
<1> QED
  BY InitInv, NextInv, PTL DEF Spec

\* Ok means that the call took effect, and an error at its first attempt that
\* it did not (lib.rs: "Returns nothing if successfully deleted, else error"),
\* whatever the calls beside it do.
THEOREM OutcomeCorrect == Spec => []OutcomeTrue
<1>1. Inv => OutcomeTrue
  BY DEF Inv, Honest, OutcomeTrue
<1> QED
  BY <1>1, Invariance, PTL

\* The half of NoComeback that is about requests: of the calls that had been
\* answered at their first attempt when the item was last deleted, none has a
\* request left that could take effect.
NothingComes == \A k \in settled, a \in 1..MaxAttempts : <<k, a>> \notin wire

\* So it is, of any calls and any attempts.
THEOREM NothingComesBack == Spec => []NothingComes
<1>1. Inv => NothingComes
  <2> SUFFICES ASSUME Inv, NEW k \in settled, NEW a \in 1..MaxAttempts, <<k, a>> \in wire
               PROVE  FALSE
    BY DEF NothingComes
  <2>1. k \in DOMAIN calls /\ Answered(k) /\ calls[k].attempt = 1
    BY DEF Inv, Settled, CallsTyped
  <2>2. Counted(k) /\ Honest(k)
    BY <2>1 DEF Inv
  <2>3. a = 1
    BY <2>1, <2>2 DEF Counted, Pending
  <2> QED
    BY <2>1, <2>2, <2>3 DEF Honest
<1> QED
  BY <1>1, Invariance, PTL

-----------------------------------------------------------------------------
(* What an update does to an item *)

\* One of some clauses.
LEMMA OneOfThem ==
  ASSUME NEW set, set # {}
  PROVE  One(set) \in set
BY DEF One

\* Which attributes there are afterwards.
LEMMA AttributesAfter ==
  ASSUME NEW u, NEW i, NEW attr
  PROVE  attr \in DOMAIN Apply(u, i) <=>
           /\ attr \in DOMAIN i \/ About(u, u.ues, attr) # {} \/ About(u, u.uea, attr) # {}
           /\ 0 \notin Cut(u, attr)
<1> DEFINE named == {u.ean[c.name] : c \in ToSet(u.ues) \cup ToSet(u.uea)}
<1>1. attr \in named <=> About(u, u.ues, attr) # {} \/ About(u, u.uea, attr) # {}
  BY DEF About
<1>2. DOMAIN Apply(u, i) = {a \in DOMAIN i \cup named : 0 \notin Cut(u, a)}
  BY DEF Apply
<1> QED
  BY <1>1, <1>2

\* What an attribute that is there afterwards is.
LEMMA ValueAfter ==
  ASSUME NEW u, NEW i, NEW attr \in DOMAIN Apply(u, i)
  PROVE  Apply(u, i)[attr] = After(u, i, attr)
BY DEF Apply

\* Mark and Stamp: a value of the call, or what was there.
LEMMA SetOwned ==
  ASSUME NEW u, NEW n, Owned(u, n), NEW i, NEW attr \in {Mark, Stamp}, attr \in DOMAIN Apply(u, i)
  PROVE  \/ Apply(u, i)[attr] \in Own(n)
         \/ /\ About(u, u.ues, attr) = {} /\ About(u, u.uea, attr) = {} /\ About(u, u.uer, attr) = {}
            /\ attr \in DOMAIN i /\ Apply(u, i)[attr] = i[attr]
<1> DEFINE ups == About(u, u.ues, attr)
           c == One(ups)
<1>1. Apply(u, i)[attr] = After(u, i, attr)
  BY ValueAfter
<1>2. About(u, u.uea, attr) = {}
  BY DEF Owned, About
<1>3. 0 \notin Cut(u, attr) /\ \A d \in About(u, u.uer, attr) : d.at = 0
  BY AttributesAfter DEF Owned, About
<1>4. About(u, u.uer, attr) = {} /\ Cut(u, attr) = {}
  BY <1>3 DEF Cut
<1>5. CASE ups # {}
  <2>1. c \in ups
    BY <1>5, OneOfThem
  <2>2. c \in ToSet(u.ues) /\ u.ean[c.name] = attr
    BY <2>1 DEF About
  <2> HIDE DEF c
  <2>3. c.key = NoKeyName /\ c.fn = "value" /\ u.eav[c.args[1]] \in Own(n)
    BY <2>2 DEF Owned
  <2>4. Value(u, i, attr, c) = u.eav[c.args[1]]
    BY <2>3 DEF Value
  <2>5. After(u, i, attr) = Value(u, i, attr, c)
    BY <1>5, <2>3 DEF After, c
  <2> QED
    BY <1>1, <2>3, <2>4, <2>5
<1>6. CASE ups = {}
  <2>1. After(u, i, attr) = i[attr]
    BY <1>2, <1>4, <1>6 DEF After
  <2>2. attr \in DOMAIN i
    BY <1>2, <1>6, AttributesAfter
  <2> QED
    BY <1>1, <1>2, <1>4, <1>6, <2>1, <2>2
<1> QED
  BY <1>5, <1>6

\* Counter: one more, or what was there.
LEMMA CounterOwned ==
  ASSUME NEW u, NEW n, Owned(u, n), NEW i, Counter \in DOMAIN Apply(u, i)
  PROVE  \/ /\ Adds(u, Counter)
            /\ Apply(u, i)[Counter] = Plus(Or(i, Counter, N(0)), N(1))
         \/ /\ ~Adds(u, Counter)
            /\ Counter \in DOMAIN i /\ Apply(u, i)[Counter] = i[Counter]
<1> DEFINE ups  == About(u, u.ues, Counter)
           adds == About(u, u.uea, Counter)
<1>1. Apply(u, i)[Counter] = After(u, i, Counter)
  BY ValueAfter
<1>2. 0 \notin Cut(u, Counter) /\ \A d \in About(u, u.uer, Counter) : d.at = 0
  BY AttributesAfter DEF Owned, About
<1>3. Cut(u, Counter) = {}
  BY <1>2 DEF Cut
<1>4. CASE ups # {}
  <2> DEFINE c == One(ups)
  <2>1. c \in ups
    BY <1>4, OneOfThem
  <2>2. c \in ToSet(u.ues) /\ u.ean[c.name] = Counter
    BY <2>1 DEF About
  <2> HIDE DEF c
  <2>3. c.key = NoKeyName /\ c.fn = "plus" /\ u.eav[c.args[1]] = N(0) /\ u.eav[c.args[2]] = N(1)
    BY <2>2 DEF Owned
  <2>4. Value(u, i, Counter, c) = Plus(Or(i, Counter, N(0)), N(1))
    BY <2>3 DEF Value
  <2>5. After(u, i, Counter) = Value(u, i, Counter, c)
    BY <1>4, <2>3 DEF After, c
  <2>6. Adds(u, Counter)
    BY <2>2, <2>3 DEF Adds
  <2> QED
    BY <1>1, <2>4, <2>5, <2>6
<1>5. CASE ups = {} /\ adds # {}
  <2> DEFINE c == One(adds)
  <2>1. c \in adds
    BY <1>5, OneOfThem
  <2>2. c \in ToSet(u.uea) /\ u.ean[c.name] = Counter
    BY <2>1 DEF About
  <2> HIDE DEF c
  <2>3. u.eav[c.val] = N(1)
    BY <2>2 DEF Owned
  <2>4. After(u, i, Counter) = Plus(Or(i, Counter, N(0)), u.eav[c.val])
    BY <1>5 DEF After, c
  <2>5. Adds(u, Counter)
    BY <2>2 DEF Adds
  <2> QED
    BY <1>1, <2>3, <2>4, <2>5
<1>6. CASE ups = {} /\ adds = {}
  <2>1. After(u, i, Counter) = i[Counter]
    BY <1>3, <1>6 DEF After
  <2>2. Counter \in DOMAIN i
    BY <1>6, AttributesAfter
  <2>3. ~Adds(u, Counter)
    BY <1>6 DEF Adds, About
  <2> QED
    BY <1>1, <2>1, <2>2, <2>3
<1> QED
  BY <1>4, <1>5, <1>6

\* List: one element more at its end, or less, or what was there.
LEMMA ListOwned ==
  ASSUME NEW u, NEW n, Owned(u, n), NEW i, List \in DOMAIN Apply(u, i)
  PROVE  \/ /\ Adds(u, List)
            /\ \E v \in Own(n) : Apply(u, i)[List] = L(Or(i, List, L(<<>>)).L \o <<v>>)
         \/ /\ ~Adds(u, List) /\ List \in DOMAIN i
            /\ \/ Cut(u, List) = {} /\ Apply(u, i)[List] = i[List]
               \/ Cut(u, List) # {} /\ Apply(u, i)[List] = L(Left(i[List].L, Cut(u, List)))
<1> DEFINE ups == About(u, u.ues, List)
           c == One(ups)
<1>1. Apply(u, i)[List] = After(u, i, List)
  BY ValueAfter
<1>2. About(u, u.uea, List) = {}
  BY DEF Owned, About
<1>3. CASE ups # {}
  <2>1. c \in ups
    BY <1>3, OneOfThem
  <2>2. c \in ToSet(u.ues) /\ u.ean[c.name] = List
    BY <2>1 DEF About
  <2> HIDE DEF c
  <2>3. c.key = NoKeyName /\ c.fn = "append" /\ u.eav[c.args[1]] = L(<<>>)
    BY <2>2 DEF Owned
  <2>4. PICK v \in Own(n) : u.eav[c.args[2]] = L(<<v>>)
    BY <2>2 DEF Owned
  <2>5. Value(u, i, List, c) = L(Or(i, List, L(<<>>)).L \o L(<<v>>).L)
    BY <2>3, <2>4 DEF Value
  <2>6. L(<<v>>).L = <<v>>
    BY DEF L
  <2>7. After(u, i, List) = Value(u, i, List, c)
    BY <1>3, <2>3 DEF After, c
  <2>8. Adds(u, List)
    BY <2>2, <2>3 DEF Adds
  <2> QED
    BY <1>1, <2>5, <2>6, <2>7, <2>8
<1>4. CASE ups = {}
  <2>1. List \in DOMAIN i
    BY <1>2, <1>4, AttributesAfter
  <2>2. ~Adds(u, List)
    BY <1>2, <1>4 DEF Adds, About
  <2>3. After(u, i, List) = IF Cut(u, List) # {} THEN L(Left(i[List].L, Cut(u, List))) ELSE i[List]
    BY <1>2, <1>4 DEF After
  <2> QED
    BY <1>1, <2>1, <2>2, <2>3
<1> QED
  BY <1>3, <1>4

\* An update that DynamoDB takes and that resets nothing cuts nothing from the
\* counter or the list: that would overlap with the addition.
LEMMA NotReset ==
  ASSUME NEW call, NEW n, NEW attr \in {Counter, List},
         call.op = "update", Owned(call.req, n), WellFormed(call.req), ~Resets(call)
  PROVE  About(call.req, call.req.uer, attr) = {}
<1> DEFINE u == call.req
<1> SUFFICES ASSUME NEW d \in About(u, u.uer, attr) PROVE FALSE
  OBVIOUS
<1>1. PICK m \in DOMAIN u.uer : d = u.uer[m] /\ u.ean[u.uer[m].name] = attr
  BY DEF About, ToSet
<1> DEFINE t == [clause |-> <<"REMOVE", m>>, attr |-> attr, key |-> NoKey, at |-> u.uer[m].at]
<1>2. t \in Targets(u) /\ t.attr = attr
  BY <1>1 DEF Targets
<1>3. Adds(u, attr)
  BY <1>2 DEF Resets
<1>4. ASSUME NEW s \in Targets(u), s.attr = attr, s.key = NoKey, s.at = 0, s # t PROVE FALSE
  <2>1. Part(s) = <<NoKey, 0>>
    BY <1>4 DEF Part
  <2>2. Overlap(s, t)
    BY <1>2, <1>4, <2>1 DEF Overlap
  <2> QED
    BY <1>2, <1>4, <2>2 DEF WellFormed
<1>5. CASE \E c \in ToSet(u.ues) : u.ean[c.name] = attr
  <2>1. PICK k \in DOMAIN u.ues : u.ean[u.ues[k].name] = attr
    BY <1>5 DEF ToSet
  <2>2. u.ues[k].key = NoKeyName
    BY <2>1 DEF Owned, ToSet
  <2> DEFINE s == [clause |-> <<"SET", k>>, attr |-> attr, key |-> NoKey, at |-> 0]
  <2>3. s \in Targets(u)
    BY <2>1, <2>2 DEF Targets
  <2>4. s.clause # t.clause
    OBVIOUS
  <2> QED
    BY <1>4, <2>3, <2>4
<1>6. CASE \E c \in ToSet(u.uea) : u.ean[c.name] = attr
  <2>1. PICK k \in DOMAIN u.uea : u.ean[u.uea[k].name] = attr
    BY <1>6 DEF ToSet
  <2> DEFINE s == [clause |-> <<"ADD", k>>, attr |-> attr, key |-> NoKey, at |-> 0]
  <2>2. s \in Targets(u)
    BY <2>1 DEF Targets
  <2>3. s.clause # t.clause
    OBVIOUS
  <2> QED
    BY <1>4, <2>2, <2>3
<1> QED
  BY <1>3, <1>5, <1>6 DEF Adds

\* What is not a target of an update that DynamoDB takes is in none of its clauses.
LEMMA TargetsAbout ==
  ASSUME NEW u, WellFormed(u), NEW attr,
         About(u, u.ues, attr) = {}, About(u, u.uea, attr) = {}, About(u, u.uer, attr) = {}
  PROVE  attr \notin {t.attr : t \in Targets(u)}
<1> SUFFICES ASSUME NEW t \in Targets(u), t.attr = attr PROVE FALSE
  OBVIOUS
<1>1. u.ued = <<>>
  BY DEF WellFormed
<1>2. DOMAIN u.ued = {}
  BY <1>1
<1>3. \/ \E n \in DOMAIN u.ues : t.attr = u.ean[u.ues[n].name]
      \/ \E n \in DOMAIN u.uer : t.attr = u.ean[u.uer[n].name]
      \/ \E n \in DOMAIN u.uea : t.attr = u.ean[u.uea[n].name]
  BY <1>2 DEF Targets
<1> QED
  BY <1>3 DEF About, ToSet

\* How many of a set of places come up to one of them: each number of them is
\* that of one place.
Upto(kept, p) == {q \in kept : q <= p}

\* Each place has a number of its own, from one to how many there are.
LEMMA UptoGrows ==
  ASSUME NEW kept, kept \subseteq Nat, IsFiniteSet(kept)
  PROVE  /\ \A p \in kept : Cardinality(Upto(kept, p)) \in 1..Cardinality(kept)
         /\ \A p, q \in kept : p < q => Cardinality(Upto(kept, p)) < Cardinality(Upto(kept, q))
<1>1. ASSUME NEW p \in kept
      PROVE  /\ IsFiniteSet(Upto(kept, p)) /\ Cardinality(Upto(kept, p)) \in Nat
             /\ Cardinality(Upto(kept, p)) <= Cardinality(kept)
             /\ Cardinality(Upto(kept, p)) # 0
  <2>1. Upto(kept, p) \in SUBSET kept
    BY DEF Upto
  <2>2. IsFiniteSet(Upto(kept, p)) /\ Cardinality(Upto(kept, p)) <= Cardinality(kept)
    BY <2>1, FS_Subset
  <2>3. p \in Upto(kept, p)
    BY DEF Upto
  <2>4. Upto(kept, p) # {}
    BY <2>3
  <2>5. Cardinality(Upto(kept, p)) \in Nat
    BY <2>2, FS_CardinalityType
  <2>6. Cardinality(Upto(kept, p)) # 0
    BY <2>2, <2>4, FS_EmptySet
  <2> QED
    BY <2>2, <2>5, <2>6
<1>2. Cardinality(kept) \in Nat
  BY FS_CardinalityType
<1>3. ASSUME NEW p \in kept, NEW q \in kept, p < q
      PROVE  Cardinality(Upto(kept, p)) < Cardinality(Upto(kept, q))
  <2>0. \A r \in kept : r <= p => r <= q
    <3> TAKE r \in kept
    <3>1. r \in Nat /\ p \in Nat /\ q \in Nat
      OBVIOUS
    <3> QED BY <1>3, <3>1
  <2>1. Upto(kept, p) \in SUBSET Upto(kept, q)
    BY <2>0 DEF Upto
  <2>2. q \in Upto(kept, q) /\ q \notin Upto(kept, p)
    BY <1>3 DEF Upto
  <2>3. Upto(kept, p) # Upto(kept, q)
    BY <2>2
  <2>4. /\ Cardinality(Upto(kept, p)) <= Cardinality(Upto(kept, q))
        /\ Cardinality(Upto(kept, q)) # Cardinality(Upto(kept, p))
    BY <1>1, <2>1, <2>3, FS_Subset
  <2> QED
    BY <1>1, <2>4
<1> QED
  BY <1>1, <1>2, <1>3

\* Each number up to the size of the set is that of one of them.
LEMMA PlaceTaken ==
  ASSUME NEW kept, kept \subseteq Nat, IsFiniteSet(kept), NEW n \in 1..Cardinality(kept)
  PROVE  \E p \in kept : Cardinality(Upto(kept, p)) = n
<1> SUFFICES ASSUME \A p \in kept : Cardinality(Upto(kept, p)) # n PROVE FALSE
  OBVIOUS
<1> DEFINE R == 1..Cardinality(kept)
           f == [p \in kept |-> Cardinality(Upto(kept, p))]
<1>1. Cardinality(kept) \in Nat
  BY FS_CardinalityType
<1>2. IsFiniteSet(R) /\ Cardinality(R) = Cardinality(kept)
  <2>1. 1 \in Int /\ Cardinality(kept) \in Int
    BY <1>1
  <2>2. IsFiniteSet(R) /\ Cardinality(R) = IF 1 > Cardinality(kept) THEN 0 ELSE Cardinality(kept) - 1 + 1
    BY <2>1, FS_Interval
  <2> QED BY <1>1, <2>2
<1>3. IsFiniteSet(R \ {n}) /\ Cardinality(R \ {n}) = Cardinality(kept) - 1
  BY <1>2, FS_RemoveElement
<1>4. Cardinality(R \ {n}) < Cardinality(kept)
  BY <1>1, <1>3
<1>5. f \in [kept -> R \ {n}]
  BY UptoGrows
<1> HIDE DEF f, R
<1>6. PICK p \in kept, q \in kept : p # q /\ f[p] = f[q]
  BY <1>3, <1>4, <1>5, FS_PigeonHole
<1>7. Cardinality(Upto(kept, p)) = Cardinality(Upto(kept, q))
  BY <1>6 DEF f
<1>8. /\ Cardinality(Upto(kept, p)) \in 1..Cardinality(kept)
      /\ Cardinality(Upto(kept, q)) \in 1..Cardinality(kept)
  BY UptoGrows
<1>9. p \in Nat /\ q \in Nat
  OBVIOUS
<1>10. p < q \/ q < p
  BY <1>6, <1>9
<1>11. \A a, b \in kept : a < b => Cardinality(Upto(kept, a)) < Cardinality(Upto(kept, b))
  BY UptoGrows
<1> QED
  BY <1>1, <1>7, <1>8, <1>10, <1>11

\* A list with some elements left out: each one that stays has a place of its
\* own among the former ones.
LEMMA LeftOf ==
  ASSUME NEW T, NEW s \in Seq(T), NEW places
  PROVE  /\ Left(s, places) \in Seq(T)
         /\ \E f \in [DOMAIN Left(s, places) -> DOMAIN s] :
              /\ \A n \in DOMAIN Left(s, places) : Left(s, places)[n] = s[f[n]]
              /\ \A m, n \in DOMAIN Left(s, places) : f[m] = f[n] => m = n
<1> DEFINE kept == DOMAIN s \ places
           f == [n \in 1..Cardinality(kept) |-> CHOOSE p \in kept : Cardinality(Upto(kept, p)) = n]
<1>1. Len(s) \in Nat /\ DOMAIN s = 1..Len(s) /\ \A p \in DOMAIN s : s[p] \in T
  BY LenProperties, ElementOfSeq
<1>2. kept \subseteq Nat /\ kept \subseteq DOMAIN s
  BY <1>1
<1>3. IsFiniteSet(kept)
  <2>1. IsFiniteSet(1..Len(s))
    BY <1>1, FS_Interval
  <2>2. kept \in SUBSET (1..Len(s))
    BY <1>1
  <2> HIDE DEF kept
  <2> QED BY <2>1, <2>2, FS_Subset
<1>4. Cardinality(kept) \in Nat
  BY <1>3, FS_CardinalityType
<1>5. Left(s, places) = [n \in 1..Cardinality(kept) |-> s[f[n]]]
  BY DEF Left, Upto
<1> DEFINE Q == 1..Cardinality(kept)
<1>6. \A n \in Q : f[n] \in kept /\ Cardinality(Upto(kept, f[n])) = n
  <2> HIDE DEF kept
  <2> TAKE n \in Q
  <2>1. \E p \in kept : Cardinality(Upto(kept, p)) = n
    BY <1>2, <1>3, PlaceTaken
  <2>2. f[n] = CHOOSE p \in kept : Cardinality(Upto(kept, p)) = n
    OBVIOUS
  <2> QED BY <2>1, <2>2
<1>7. f \in [Q -> DOMAIN s]
  BY <1>2, <1>6
<1> HIDE DEF f, kept
<1>8. DOMAIN Left(s, places) = Q
  BY <1>5
<1>9. Left(s, places) \in [Q -> T]
  BY <1>1, <1>5, <1>7
<1>10. Left(s, places) \in Seq(T)
  BY <1>4, <1>9, SeqDef
<1>11. \A n \in Q : Left(s, places)[n] = s[f[n]]
  BY <1>5
<1>12. \A m, n \in Q : f[m] = f[n] => m = n
  BY <1>6
<1> QED
  BY <1>7, <1>8, <1>10, <1>11, <1>12

\* The places of the values of a call.
PlacesIn(s, k) == {n \in DOMAIN s : s[n] \in Own(k)}

\* They are finitely many.
LEMMA PlacesFinite ==
  ASSUME NEW T, NEW s \in Seq(T), NEW k
  PROVE  IsFiniteSet(PlacesIn(s, k)) /\ Cardinality(PlacesIn(s, k)) \in Nat
<1>1. Len(s) \in Nat /\ DOMAIN s = 1..Len(s)
  BY LenProperties
<1>2. IsFiniteSet(1..Len(s))
  BY <1>1, FS_Interval
<1>3. PlacesIn(s, k) \in SUBSET (1..Len(s))
  BY <1>1 DEF PlacesIn
<1>4. IsFiniteSet(PlacesIn(s, k))
  BY <1>2, <1>3, FS_Subset
<1> QED
  BY <1>4, FS_CardinalityType

\* What is left out of a list adds no place.
LEMMA PlacesLeft ==
  ASSUME NEW T, NEW s \in Seq(T), NEW places, NEW k
  PROVE  Cardinality(PlacesIn(Left(s, places), k)) <= Cardinality(PlacesIn(s, k))
<1> DEFINE t == Left(s, places)
           A == PlacesIn(t, k)
           B == PlacesIn(s, k)
<1>1. t \in Seq(T)
  BY LeftOf
<1>2. PICK f \in [DOMAIN t -> DOMAIN s] :
        /\ \A n \in DOMAIN t : t[n] = s[f[n]]
        /\ \A m, n \in DOMAIN t : f[m] = f[n] => m = n
  BY LeftOf
<1> HIDE DEF t
<1>3. A \subseteq DOMAIN t
  BY DEF PlacesIn
<1>4. \A n \in A : f[n] \in B
  BY <1>2 DEF PlacesIn
<1>5. /\ IsFiniteSet(A) /\ Cardinality(A) \in Nat
      /\ IsFiniteSet(B) /\ Cardinality(B) \in Nat
  BY <1>1, PlacesFinite
<1> DEFINE g == [n \in A |-> f[n]]
<1>6. g \in [A -> B] /\ \A m, n \in A : g[m] = g[n] => m = n
  BY <1>2, <1>3, <1>4
<1> HIDE DEF A, B, g
<1>7. ASSUME Cardinality(B) < Cardinality(A) PROVE FALSE
  <2>1. \E m, n \in A : m # n /\ g[m] = g[n]
    BY <1>5, <1>6, <1>7, FS_PigeonHole
  <2> QED BY <1>6, <2>1
<1>8. Cardinality(A) <= Cardinality(B)
  BY <1>5, <1>7
<1> QED
  BY <1>8 DEF A, B, t

\* What is appended has the place at the end.
LEMMA PlacesAppended ==
  ASSUME NEW T, NEW s \in Seq(T), NEW v \in T, NEW k
  PROVE  /\ s \o <<v>> \in Seq(T)
         /\ Len(s) \in Nat /\ DOMAIN s = 1..Len(s) /\ DOMAIN (s \o <<v>>) = 1..(Len(s) + 1)
         /\ \A n \in DOMAIN s : (s \o <<v>>)[n] = s[n]
         /\ (s \o <<v>>)[Len(s) + 1] = v
         /\ v \in Own(k) => PlacesIn(s \o <<v>>, k) = PlacesIn(s, k) \cup {Len(s) + 1}
         /\ v \notin Own(k) => PlacesIn(s \o <<v>>, k) = PlacesIn(s, k)
<1> DEFINE t == s \o <<v>>
<1>1. Len(s) \in Nat /\ DOMAIN s = 1..Len(s)
  BY LenProperties
<1>2. t = Append(s, v)
  BY AppendIsConcat
<1>3. /\ t \in Seq(T) /\ Len(t) = Len(s) + 1
      /\ \A n \in 1..Len(s) : t[n] = s[n]
      /\ t[Len(s) + 1] = v
  BY <1>2, AppendProperties
<1> HIDE DEF t
<1>4. DOMAIN t = 1..(Len(s) + 1)
  BY <1>3, LenProperties
<1>5. \A n : n \in DOMAIN t <=> n \in DOMAIN s \/ n = Len(s) + 1
  BY <1>1, <1>4
<1>6. v \in Own(k) => PlacesIn(t, k) = PlacesIn(s, k) \cup {Len(s) + 1}
  BY <1>1, <1>3, <1>5 DEF PlacesIn
<1>7. v \notin Own(k) => PlacesIn(t, k) = PlacesIn(s, k)
  BY <1>1, <1>3, <1>5 DEF PlacesIn
<1> QED
  BY <1>1, <1>3, <1>4, <1>6, <1>7 DEF t

-----------------------------------------------------------------------------
(* The invariant of the item *)

\* What a call is, from its beginning on; one that took effect was well formed.
CallsOwned ==
  \A k \in DOMAIN calls :
    /\ calls[k].op \in {"update", "delete"}
    /\ calls[k].op = "update" =>
         Owned(calls[k].req, k) /\ (calls[k].effects >= 1 => WellFormed(calls[k].req))
    /\ \A a \in calls[k].before : calls[a].status = "Ok"

\* The values of the calls so far, and of none.
Borne(n) == UNION {Own(k) : k \in 0..n}

Setting(attr) == Or(item, attr, S(0))
Count         == Or(item, Counter, N(0)).N

\* What the attributes may hold: values of calls made so far, or none.
ItemOwned ==
  /\ \A attr \in {Mark, Stamp} : Setting(attr) \in Borne(Len(calls))
  /\ Or(item, Counter, N(0)) \in [N : Nat]
  /\ \E s \in Seq(Borne(Len(calls))) : Or(item, List, L(<<>>)) = L(s)

\* The attempts at additions to the counter that have taken effect, or were refused.
Spent == {m \in (DOMAIN calls) \X (1..MaxAttempts) :
            Adding(m[1], Counter) /\ m[2] <= calls[m[1]].attempt /\ m \notin wire}

\* The calls that took effect and that nothing has reset since they began,
\* whether they know it yet or not.
Standing == {k \in DOMAIN calls : k \in held \/ (Running(k) /\ k \notin cut /\ calls[k].effects >= 1)}
Counting == {k \in Standing : Adding(k, Counter)}

\* The counter has every standing addition once, and no more than the attempts
\* spent, and the list has every standing append, no value more often than it
\* took effect.
Additions ==
  /\ Cardinality(Counting) <= Count /\ Count <= Cardinality(Spent)
  /\ \A k \in Standing : Adding(k, List) => Places(k) # {}
  /\ \A k \in DOMAIN calls : Cardinality(Places(k)) <= calls[k].effects
  /\ \A k \in held : calls[k].status = "Ok"

\* What was told Ok before a call began stands in the list before all of that call.
InOrder ==
  \A b \in DOMAIN calls : \A a \in held \cap calls[b].before :
    Adding(a, List) => \E n \in Places(a) : \A m \in Places(b) : n < m

\* Where an update took effect on a set attribute, no earlier call that was sent
\* once has left its value there.
Stuck ==
  \A b \in DOMAIN calls : \A a \in calls[b].before, attr \in {Mark, Stamp} :
    (/\ calls[b].op = "update" /\ calls[b].effects >= 1
     /\ attr \in {t.attr : t \in Targets(calls[b].req)} /\ calls[a].attempt = 1)
    => Setting(attr) \notin Own(a)

\* Of a settled call nothing is in the item.
Gone ==
  \A k \in settled :
    /\ \A attr \in {Mark, Stamp} : Setting(attr) \notin Own(k)
    /\ Places(k) = {}

IInv == Inv /\ CallsOwned /\ ItemOwned /\ Additions /\ InOrder /\ Stuck /\ Gone

-----------------------------------------------------------------------------
(* The item after an update *)

\* No two calls write the same value.
LEMMA OwnApart ==
  ASSUME NEW m, NEW n, m # n
  PROVE  Own(m) \cap Own(n) = {}
<1>1. S(m).S = m /\ S(n).S = n /\ N(m).N = m /\ N(n).N = n
  BY DEF S, N
<1>2. DOMAIN S(m) = {"S"} /\ DOMAIN S(n) = {"S"} /\ DOMAIN N(m) = {"N"} /\ DOMAIN N(n) = {"N"}
  BY DEF S, N
<1>3. "S" # "N"
  OBVIOUS
<1>4. S(m) # S(n) /\ N(m) # N(n)
  BY <1>1
<1>5. S(m) # N(n) /\ N(m) # S(n)
  BY <1>2, <1>3
<1> QED
  BY <1>4, <1>5 DEF Own

\* Mark and Stamp.
LEMMA SettingAfter ==
  ASSUME NEW u, NEW n, Owned(u, n), WellFormed(u), NEW i, NEW attr \in {Mark, Stamp}
  PROVE  \/ Or(Apply(u, i), attr, S(0)) \in Own(n) \cup {S(0)}
         \/ /\ Or(Apply(u, i), attr, S(0)) = Or(i, attr, S(0))
            /\ attr \notin {t.attr : t \in Targets(u)}
<1>1. CASE attr \notin DOMAIN Apply(u, i)
  BY <1>1 DEF Or
<1>2. CASE attr \in DOMAIN Apply(u, i)
  <2>1. CASE Apply(u, i)[attr] \in Own(n)
    BY <1>2, <2>1 DEF Or
  <2>2. CASE /\ About(u, u.ues, attr) = {} /\ About(u, u.uea, attr) = {} /\ About(u, u.uer, attr) = {}
             /\ attr \in DOMAIN i /\ Apply(u, i)[attr] = i[attr]
    <3>1. attr \notin {t.attr : t \in Targets(u)}
      BY <2>2, TargetsAbout
    <3>2. Or(Apply(u, i), attr, S(0)) = Or(i, attr, S(0))
      BY <1>2, <2>2 DEF Or
    <3> QED
      BY <3>1, <3>2
  <2> QED
    BY <1>2, <2>1, <2>2, SetOwned
<1> QED
  BY <1>1, <1>2

\* Something that an update does not cut stays, or is made if it is added.
LEMMA StaysThere ==
  ASSUME NEW call, NEW n, NEW i, NEW attr \in {Counter, List},
         call.op = "update", Owned(call.req, n), WellFormed(call.req), ~Resets(call),
         attr \in DOMAIN i \/ Adds(call.req, attr)
  PROVE  attr \in DOMAIN Apply(call.req, i) /\ Cut(call.req, attr) = {}
<1> DEFINE u == call.req
<1>1. About(u, u.uer, attr) = {}
  BY NotReset
<1>2. Cut(u, attr) = {}
  BY <1>1 DEF Cut
<1>3. Adds(u, attr) => About(u, u.ues, attr) # {} \/ About(u, u.uea, attr) # {}
  BY DEF Adds, About
<1> HIDE DEF u
<1> QED
  BY <1>2, <1>3, AttributesAfter DEF u

\* Counter, whether there or not: a step forward or a reset.
LEMMA CountAfter ==
  ASSUME NEW call, NEW n, NEW i, call.op = "update", Owned(call.req, n), WellFormed(call.req),
         NEW c, c = Or(i, Counter, N(0)), c \in [N : Nat],
         NEW d, d = Or(Apply(call.req, i), Counter, N(0))
  PROVE  /\ d \in [N : Nat]
         /\ d.N = c.N + 1 \/ d.N <= c.N
         /\ ~Adds(call.req, Counter) => d.N <= c.N
         /\ ~Resets(call) /\ Adds(call.req, Counter) => d.N = c.N + 1
         /\ ~Resets(call) /\ ~Adds(call.req, Counter) => d.N = c.N
<1> DEFINE u == call.req
<1>1. /\ c.N \in Nat
      /\ N(0) \in [N : Nat] /\ N(0).N = 0 /\ N(1).N = 1
      /\ \A m : N(m).N = m
      /\ \A m \in Nat : N(m) \in [N : Nat]
  BY DEF N
<1>2. CASE Counter \notin DOMAIN Apply(u, i)
  <2>1. d = N(0)
    BY <1>2 DEF Or
  <2>2. ~Resets(call) => Counter \notin DOMAIN i /\ ~Adds(u, Counter)
    BY <1>2, StaysThere
  <2>3. ~Resets(call) => c = N(0)
    BY <2>2 DEF Or
  <2> QED
    BY <1>1, <2>1, <2>2, <2>3
<1>3. CASE Counter \in DOMAIN Apply(u, i)
  <2>1. d = Apply(u, i)[Counter]
    BY <1>3 DEF Or
  <2>2. CASE Adds(u, Counter) /\ Apply(u, i)[Counter] = Plus(Or(i, Counter, N(0)), N(1))
    <3>1. d = Plus(c, N(1))
      BY <2>1, <2>2
    <3>2. Plus(c, N(1)) = N(c.N + 1)
      BY <1>1 DEF Plus
    <3>3. d.N = c.N + 1 /\ d \in [N : Nat]
      BY <1>1, <3>1, <3>2
    <3> QED
      BY <1>1, <2>2, <3>3
  <2>3. CASE ~Adds(u, Counter) /\ Counter \in DOMAIN i /\ Apply(u, i)[Counter] = i[Counter]
    <3>1. d = c
      BY <2>1, <2>3 DEF Or
    <3> QED
      BY <1>1, <2>3, <3>1
  <2> QED
    BY <1>3, <2>2, <2>3, CounterOwned
<1> QED
  BY <1>2, <1>3

\* What became of a list: nothing, one element more, or a part of it.
Grown(s, t, n) == \E v \in Own(n) : t = s \o <<v>>
Shrunk(s, t)   == t = <<>> \/ \E places : t = Left(s, places)

Becomes(call, n, s, t) ==
  /\ t = s \/ (Adds(call.req, List) /\ Grown(s, t, n)) \/ Shrunk(s, t)
  /\ ~Resets(call) => IF Adds(call.req, List) THEN Grown(s, t, n) ELSE t = s

\* What an update makes of the list.
LEMMA ListAfter ==
  ASSUME NEW call, NEW n, NEW i, call.op = "update", Owned(call.req, n), WellFormed(call.req),
         NEW T, Own(n) \subseteq T, NEW s \in Seq(T), Or(i, List, L(<<>>)) = L(s)
  PROVE  \E t \in Seq(T) :
           Or(Apply(call.req, i), List, L(<<>>)) = L(t) /\ Becomes(call, n, s, t)
<1> SUFFICES \E t \in Seq(T) :
               /\ Or(Apply(call.req, i), List, L(<<>>)) = L(t)
               /\ t = s \/ (Adds(call.req, List) /\ Grown(s, t, n)) \/ Shrunk(s, t)
               /\ ~Resets(call) => IF Adds(call.req, List) THEN Grown(s, t, n) ELSE t = s
  BY DEF Becomes
<1> DEFINE u == call.req
<1>1. s = Or(i, List, L(<<>>)).L /\ L(<<>>).L = <<>> /\ <<>> \in Seq(T)
  BY EmptySeq DEF L
<1>2. CASE List \notin DOMAIN Apply(u, i)
  <2>1. Or(Apply(u, i), List, L(<<>>)) = L(<<>>)
    BY <1>2 DEF Or
  <2>2. ~Resets(call) => List \notin DOMAIN i /\ ~Adds(u, List)
    BY <1>2, StaysThere
  <2>3. ~Resets(call) => s = <<>>
    BY <1>1, <2>2 DEF Or
  <2>4. Shrunk(s, <<>>)
    BY DEF Shrunk
  <2> QED
    BY <1>1, <2>1, <2>2, <2>3, <2>4
<1>3. CASE List \in DOMAIN Apply(u, i)
  <2>1. Or(Apply(u, i), List, L(<<>>)) = Apply(u, i)[List]
    BY <1>3 DEF Or
  <2>2. CASE Adds(u, List) /\ \E v \in Own(n) : Apply(u, i)[List] = L(Or(i, List, L(<<>>)).L \o <<v>>)
    <3>1. PICK v \in Own(n) : Apply(u, i)[List] = L(s \o <<v>>)
      BY <1>1, <2>2
    <3>2. s \o <<v>> \in Seq(T)
      BY PlacesAppended
    <3>3. Grown(s, s \o <<v>>, n)
      BY DEF Grown
    <3> QED
      BY <2>1, <2>2, <3>1, <3>2, <3>3
  <2>3. CASE ~Adds(u, List) /\ List \in DOMAIN i /\ Cut(u, List) = {} /\ Apply(u, i)[List] = i[List]
    <3>1. Apply(u, i)[List] = L(s)
      BY <2>3 DEF Or
    <3> QED
      BY <2>1, <2>3, <3>1
  <2>4. CASE /\ ~Adds(u, List) /\ List \in DOMAIN i /\ Cut(u, List) # {}
             /\ Apply(u, i)[List] = L(Left(i[List].L, Cut(u, List)))
    <3>1. i[List].L = s
      BY <1>1, <2>4 DEF Or
    <3>2. Left(s, Cut(u, List)) \in Seq(T)
      BY LeftOf
    <3>3. Shrunk(s, Left(s, Cut(u, List)))
      BY DEF Shrunk
    <3>4. Resets(call)
      BY <2>4, StaysThere
    <3> QED
      BY <2>1, <2>4, <3>1, <3>2, <3>3, <3>4
  <2> QED
    BY <1>3, <2>2, <2>3, <2>4, ListOwned
<1> QED
  BY <1>2, <1>3

\* The places of a call's values then.
LEMMA PlacesGrown ==
  ASSUME NEW T, NEW s \in Seq(T), NEW t, NEW n, Own(n) \subseteq T, Grown(s, t, n)
  PROVE  /\ Len(s) \in Nat /\ DOMAIN s = 1..Len(s)
         /\ PlacesIn(t, n) = PlacesIn(s, n) \cup {Len(s) + 1}
         /\ \A k : k # n => PlacesIn(t, k) = PlacesIn(s, k)
         /\ Cardinality(PlacesIn(t, n)) = Cardinality(PlacesIn(s, n)) + 1
<1>1. PICK v \in Own(n) : t = s \o <<v>>
  BY DEF Grown
<1>2. v \in T /\ \A k : k # n => v \notin Own(k)
  BY OwnApart
<1>3. /\ Len(s) \in Nat /\ DOMAIN s = 1..Len(s)
      /\ PlacesIn(t, n) = PlacesIn(s, n) \cup {Len(s) + 1}
  BY <1>1, <1>2, PlacesAppended
<1>4. ASSUME NEW k, k # n PROVE PlacesIn(t, k) = PlacesIn(s, k)
  BY <1>1, <1>2, <1>4, PlacesAppended
<1>5. Len(s) + 1 \notin PlacesIn(s, n)
  BY <1>3 DEF PlacesIn
<1>6. IsFiniteSet(PlacesIn(s, n))
  BY PlacesFinite
<1>7. Cardinality(PlacesIn(t, n)) = Cardinality(PlacesIn(s, n)) + 1
  BY <1>3, <1>5, <1>6, FS_AddElement
<1> QED
  BY <1>3, <1>4, <1>7

\* A part of a list has no more of them.
LEMMA PlacesShrunk ==
  ASSUME NEW T, NEW s \in Seq(T), NEW t, Shrunk(s, t), NEW k
  PROVE  Cardinality(PlacesIn(t, k)) <= Cardinality(PlacesIn(s, k))
<1>1. CASE t = <<>>
  <2>1. PlacesIn(t, k) = {}
    BY <1>1 DEF PlacesIn
  <2> QED
    BY <2>1, PlacesFinite, FS_EmptySet
<1>2. CASE \E places : t = Left(s, places)
  BY <1>2, PlacesLeft
<1> QED
  BY <1>1, <1>2 DEF Shrunk

-----------------------------------------------------------------------------
(* The item when a request takes effect *)

\* What was appended, as a sequence of values.
LEMMA AppendedIs ==
  ASSUME NEW s, Or(item, List, L(<<>>)) = L(s)
  PROVE  Appended = s /\ \A k : Places(k) = PlacesIn(s, k)
<1>1. Appended = s
  BY DEF Appended, L
<1> QED
  BY <1>1 DEF Places, PlacesIn

\* A call writes among the values so far, and absence is one of them.
LEMMA BorneOwn ==
  ASSUME NEW n \in Nat
  PROVE  /\ \A k \in 0..n : Own(k) \subseteq Borne(n)
         /\ S(0) \in Borne(n)
         /\ \A m \in Nat : m <= n => Borne(m) \subseteq Borne(n)
<1>1. \A k \in 0..n : Own(k) \subseteq Borne(n)
  BY DEF Borne
<1>2. S(0) \in Own(0) /\ 0 \in 0..n
  BY DEF Own
<1>3. ASSUME NEW m \in Nat, m <= n PROVE 0..m \subseteq 0..n
  BY <1>3
<1> QED
  BY <1>1, <1>2, <1>3 DEF Borne

\* Its attributes: those that are set, ...
LEMMA TakenSettings ==
  ASSUME Inv, CallsOwned, NEW k, NEW attempt, take(k, attempt), NEW attr \in {Mark, Stamp}
  PROVE  \/ Setting(attr)' \in Own(k) \cup {S(0)}
         \/ /\ Setting(attr)' = Setting(attr)
            /\ ~(calls[k].op = "update" /\ attr \in {t.attr : t \in Targets(calls[k].req)})
<1>1. k \in DOMAIN calls
  BY DEF take, Inv, CallsTyped
<1>2. CASE calls[k].op = "delete"
  <2>1. item' = Empty /\ DOMAIN Empty = {}
    BY <1>2 DEF take, Empty
  <2> QED
    BY <2>1 DEF Setting, Or
<1>3. CASE calls[k].op = "update"
  <2>1. /\ item' = Apply(calls[k].req, item)
        /\ WellFormed(calls[k].req) /\ Owned(calls[k].req, k)
    BY <1>1, <1>3 DEF take, CanDo, Accepted, CallsOwned
  <2>2. \/ Or(item', attr, S(0)) \in Own(k) \cup {S(0)}
        \/ /\ Or(item', attr, S(0)) = Or(item, attr, S(0))
           /\ attr \notin {t.attr : t \in Targets(calls[k].req)}
    BY <2>1, SettingAfter
  <2> QED
    BY <2>2 DEF Setting
<1> QED
  BY <1>1, <1>2, <1>3 DEF CallsOwned

\* ... the counter, ...
LEMMA TakenCount ==
  ASSUME Inv, CallsOwned, ItemOwned, NEW k, NEW attempt, take(k, attempt)
  PROVE  /\ Or(item, Counter, N(0))' \in [N : Nat]
         /\ Count \in Nat /\ Count' \in Nat
         /\ Count' <= Count \/ (Adding(k, Counter) /\ Count' = Count + 1)
         /\ ~Resets(calls[k]) => Count' = IF Adding(k, Counter) THEN Count + 1 ELSE Count
<1> DEFINE call == calls[k]
<1>1. k \in DOMAIN calls
  BY DEF take, Inv, CallsTyped
<1>2. Or(item, Counter, N(0)) \in [N : Nat] /\ Count \in Nat
  BY DEF ItemOwned, Count
<1>3. CASE call.op = "delete"
  <2>1. item' = Empty /\ DOMAIN Empty = {} /\ Resets(call)
    BY <1>3 DEF take, Empty, Resets
  <2>2. Or(item, Counter, N(0))' = N(0)
    BY <2>1 DEF Or
  <2>3. N(0) \in [N : Nat] /\ N(0).N = 0
    BY DEF N
  <2> QED
    BY <1>2, <2>1, <2>2, <2>3 DEF Count
<1>4. CASE call.op = "update"
  <2>1. /\ item' = Apply(call.req, item)
        /\ WellFormed(call.req) /\ Owned(call.req, k)
    BY <1>1, <1>4 DEF take, CanDo, Accepted, CallsOwned
  <2>2. Adding(k, Counter) <=> Adds(call.req, Counter)
    BY <1>4 DEF Adding
  <2> DEFINE c == Or(item, Counter, N(0))
             d == Or(item', Counter, N(0))
  <2>3. d = Or(Apply(call.req, item), Counter, N(0)) /\ c \in [N : Nat]
    BY <1>2, <2>1
  <2>4. Count = c.N /\ Count' = d.N /\ Or(item, Counter, N(0))' = d
    BY DEF Count
  <2> HIDE DEF c, d, call
  <2>5. c = Or(item, Counter, N(0))
    BY DEF c
  <2>6. /\ d \in [N : Nat]
        /\ d.N = c.N + 1 \/ d.N <= c.N
        /\ ~Adds(call.req, Counter) => d.N <= c.N
        /\ ~Resets(call) /\ Adds(call.req, Counter) => d.N = c.N + 1
        /\ ~Resets(call) /\ ~Adds(call.req, Counter) => d.N = c.N
    BY <1>4, <2>1, <2>3, <2>5, CountAfter
  <2>7. d.N \in Nat
    BY <2>6
  <2> QED
    BY <1>2, <2>2, <2>4, <2>6, <2>7 DEF call
<1> QED
  BY <1>1, <1>3, <1>4 DEF CallsOwned

\* ... and the list.
LEMMA TakenList ==
  ASSUME Inv, CallsOwned, ItemOwned, NEW k, NEW attempt, take(k, attempt)
  PROVE  \E s, t \in Seq(Borne(Len(calls))) :
           /\ Or(item, List, L(<<>>)) = L(s) /\ Or(item, List, L(<<>>))' = L(t)
           /\ Own(k) \subseteq Borne(Len(calls))
           /\ t = s \/ (Adding(k, List) /\ Grown(s, t, k)) \/ Shrunk(s, t)
           /\ ~Resets(calls[k]) => IF Adding(k, List) THEN Grown(s, t, k) ELSE t = s
<1> DEFINE T == Borne(Len(calls))
           call == calls[k]
<1>1. k \in DOMAIN calls
  BY DEF take, Inv, CallsTyped
<1>2. Own(k) \subseteq T
  BY <1>1, CallsAre, BorneOwn DEF Inv
<1>3. PICK s \in Seq(T) : Or(item, List, L(<<>>)) = L(s)
  BY DEF ItemOwned
<1>4. CASE call.op = "delete"
  <2>1. item' = Empty /\ DOMAIN Empty = {} /\ Resets(call)
    BY <1>4 DEF take, Empty, Resets
  <2>2. Or(item, List, L(<<>>))' = L(<<>>) /\ <<>> \in Seq(T) /\ Shrunk(s, <<>>)
    BY <2>1, EmptySeq DEF Or, Shrunk
  <2> QED
    BY <1>2, <1>3, <2>1, <2>2
<1>5. CASE call.op = "update"
  <2>1. /\ item' = Apply(call.req, item)
        /\ WellFormed(call.req) /\ Owned(call.req, k)
    BY <1>1, <1>5 DEF take, CanDo, Accepted, CallsOwned
  <2>2. Adding(k, List) <=> Adds(call.req, List)
    BY <1>5 DEF Adding
  <2> HIDE DEF T, call
  <2>3. PICK t \in Seq(T) :
           Or(Apply(call.req, item), List, L(<<>>)) = L(t) /\ Becomes(call, k, s, t)
    BY <1>2, <1>3, <1>5, <2>1, ListAfter
  <2>4. Or(item, List, L(<<>>))' = L(t)
    BY <2>1, <2>3
  <2> QED
    BY <1>2, <1>3, <2>2, <2>3, <2>4 DEF T, call, Becomes
<1> QED
  BY <1>1, <1>4, <1>5 DEF CallsOwned

-----------------------------------------------------------------------------
(* Steps that leave the item as it is *)

\* What no step takes back.
Continues ==
  /\ DOMAIN calls \subseteq DOMAIN calls'
  /\ \A k \in DOMAIN calls :
       /\ calls'[k].op = calls[k].op /\ calls'[k].req = calls[k].req
       /\ calls'[k].before = calls[k].before
       /\ calls'[k].attempt >= calls[k].attempt
       /\ calls[k].status = "Ok" => calls'[k].status = "Ok" /\ calls'[k].attempt = calls[k].attempt
  /\ \A k \in DOMAIN calls, a \in 1..MaxAttempts :
       <<k, a>> \in wire' /\ <<k, a>> \notin wire => a > calls[k].attempt

\* A call that begins: it has done nothing, and comes after those told Ok.
Fresh(k) ==
  /\ calls[k].op \in {"update", "delete"} /\ calls[k].effects = 0
  /\ calls[k].op = "update" => Owned(calls[k].req, k)

\* Calls with attempts, and calls, are finite sets.
LEMMA PairsFinite ==
  ASSUME NEW n \in Nat, NEW X, X \subseteq (1..n) \X (1..MaxAttempts)
  PROVE  IsFiniteSet(X) /\ Cardinality(X) \in Nat
<1>1. IsFiniteSet(1..n) /\ IsFiniteSet(1..MaxAttempts)
  BY BoundAssumption, FS_Interval
<1>2. IsFiniteSet((1..n) \X (1..MaxAttempts))
  BY <1>1, FS_Product
<1>3. IsFiniteSet(X)
  BY <1>2, FS_Subset
<1> QED
  BY <1>3, FS_CardinalityType

\* Sets of calls are finite.
LEMMA CallSetFinite ==
  ASSUME NEW n \in Nat, NEW X, X \subseteq 1..n
  PROVE  IsFiniteSet(X) /\ Cardinality(X) \in Nat
<1>1. IsFiniteSet(1..n)
  BY FS_Interval
<1>2. IsFiniteSet(X)
  BY <1>1, FS_Subset
<1> QED
  BY <1>2, FS_CardinalityType

\* An attempt that is spent stays so.
LEMMA SpentGrows ==
  ASSUME Inv, Inv', Continues
  PROVE  /\ Spent \subseteq Spent'
         /\ IsFiniteSet(Spent) /\ Cardinality(Spent) \in Nat
         /\ IsFiniteSet(Spent') /\ Cardinality(Spent') \in Nat
         /\ Cardinality(Spent) <= Cardinality(Spent')
<1>1. /\ Len(calls) \in Nat /\ DOMAIN calls = 1..Len(calls)
  BY CallsAre DEF Inv
<1>2. Len(calls') \in Nat /\ DOMAIN calls' = 1..Len(calls')
  <2>1. calls' \in Seq(Elements(calls'))
    BY DEF Inv, Recorded
  <2> QED
    BY <2>1, LenProperties
<1>3. ASSUME NEW m \in Spent PROVE m \in Spent'
  <2>1. /\ m \in (DOMAIN calls) \X (1..MaxAttempts) /\ Adding(m[1], Counter)
        /\ m[2] <= calls[m[1]].attempt /\ m \notin wire
    BY DEF Spent
  <2>2. PICK k \in DOMAIN calls, a \in 1..MaxAttempts : m = <<k, a>>
    BY <2>1
  <2>3. Adding(k, Counter) /\ a <= calls[k].attempt /\ <<k, a>> \notin wire
    BY <2>1, <2>2
  <2>4. k \in DOMAIN calls' /\ Adding(k, Counter)'
    BY <2>2, <2>3 DEF Adding, Continues
  <2>5. calls[k].attempt \in Nat /\ calls'[k].attempt \in Nat /\ calls'[k].attempt >= calls[k].attempt
    BY <2>2, <2>4, BoundAssumption DEF Inv, CallsTyped, Continues
  <2>6. a \in Nat
    BY <2>2
  <2>7. a <= calls'[k].attempt
    BY <2>3, <2>5, <2>6
  <2>8. <<k, a>> \notin wire'
    BY <2>2, <2>3, <2>5, <2>6 DEF Continues
  <2> QED
    BY <2>2, <2>4, <2>7, <2>8 DEF Spent
<1>4. Spent \subseteq (1..Len(calls)) \X (1..MaxAttempts)
  BY <1>1 DEF Spent
<1>5. Spent' \subseteq (1..Len(calls')) \X (1..MaxAttempts)
  BY <1>2 DEF Spent
<1>6. IsFiniteSet(Spent) /\ Cardinality(Spent) \in Nat
  BY <1>1, <1>4, PairsFinite
<1>7. IsFiniteSet(Spent') /\ Cardinality(Spent') \in Nat
  BY <1>2, <1>5, PairsFinite
<1> QED
  BY <1>3, <1>6, <1>7, FS_Subset

\* So are the calls that stand.
LEMMA StandingFinite ==
  ASSUME Inv, NEW X, X \subseteq Standing
  PROVE  IsFiniteSet(X) /\ Cardinality(X) \in Nat
<1>1. Len(calls) \in Nat /\ X \subseteq 1..Len(calls)
  BY CallsAre DEF Inv, Standing
<1> QED
  BY <1>1, CallSetFinite

\* What nobody has written is not in the list.
LEMMA NotBorne ==
  ASSUME Inv, ItemOwned, NEW k \in Nat, k > Len(calls)
  PROVE  Places(k) = {}
<1> DEFINE T == Borne(Len(calls))
<1>1. PICK s \in Seq(T) : Or(item, List, L(<<>>)) = L(s)
  BY DEF ItemOwned
<1>2. Places(k) = PlacesIn(s, k)
  BY <1>1, AppendedIs
<1>3. Own(k) \cap T = {}
  <2>1. Len(calls) \in Nat
    BY CallsAre DEF Inv
  <2>2. \A j \in 0..Len(calls) : Own(k) \cap Own(j) = {}
    <3> TAKE j \in 0..Len(calls)
    <3>1. j # k
      BY <2>1
    <3> QED BY <3>1, OwnApart
  <2> QED
    BY <2>2 DEF Borne
<1>4. \A n \in DOMAIN s : s[n] \in T
  <2> HIDE DEF T
  <2> QED
    BY LenProperties, ElementOfSeq
<1> QED
  BY <1>2, <1>3, <1>4 DEF PlacesIn

Still ==
  /\ item' = item /\ settled' = settled
  /\ \A k \in DOMAIN calls : calls'[k].effects = calls[k].effects
  /\ \A k \in DOMAIN calls' : k \notin DOMAIN calls =>
       Fresh(k)' /\ calls'[k].before = {a \in DOMAIN calls : calls[a].status = "Ok"}
  /\ Standing' \subseteq Standing
  /\ \A k \in held' : (k \in held \/ (k \in DOMAIN calls /\ Running(k))) /\ calls'[k].status = "Ok"

\* Each part of the invariant is kept when the item is left as it is.
LEMMA StillCalls ==
  ASSUME IInv, Inv', Continues, Still
  PROVE  CallsOwned'
<1> SUFFICES ASSUME NEW k \in DOMAIN calls'
             PROVE  /\ calls'[k].op \in {"update", "delete"}
                    /\ calls'[k].op = "update" =>
                         Owned(calls'[k].req, k) /\ (calls'[k].effects >= 1 => WellFormed(calls'[k].req))
                    /\ \A a \in calls'[k].before : calls'[a].status = "Ok"
  BY DEF CallsOwned
<1>1. CASE k \in DOMAIN calls
  <2>1. /\ calls'[k].op = calls[k].op /\ calls'[k].req = calls[k].req
        /\ calls'[k].before = calls[k].before /\ calls'[k].effects = calls[k].effects
    BY <1>1 DEF Continues, Still
  <2>2. ASSUME NEW a \in calls[k].before PROVE calls'[a].status = "Ok"
    <3>1. a \in DOMAIN calls /\ calls[a].status = "Ok"
      <4>1. Len(calls) \in Nat /\ DOMAIN calls = 1..Len(calls)
        BY CallsAre DEF IInv, Inv
      <4>2. a \in 1..(k - 1) /\ calls[a].status = "Ok"
        BY <1>1 DEF IInv, Inv, CallsTyped, CallsOwned
      <4> QED
        BY <1>1, <4>1, <4>2
    <3> QED
      BY <3>1 DEF Continues
  <2> QED
    BY <1>1, <2>1, <2>2 DEF IInv, CallsOwned
<1>2. CASE k \notin DOMAIN calls
  <2>1. Fresh(k)' /\ calls'[k].before = {a \in DOMAIN calls : calls[a].status = "Ok"}
    BY <1>2 DEF Still
  <2>2. \A a \in calls'[k].before : calls'[a].status = "Ok"
    BY <2>1 DEF Continues
  <2> QED
    BY <2>1, <2>2 DEF Fresh
<1> QED
  BY <1>1, <1>2

\* What the item holds is of the calls there are, ...
LEMMA StillItem ==
  ASSUME IInv, Inv', Continues, Still
  PROVE  ItemOwned'
<1>1. item' = item
  BY DEF Still
<1>2. /\ Len(calls) \in Nat /\ Len(calls') \in Nat /\ Len(calls) <= Len(calls')
  <2>1. Len(calls) \in Nat /\ DOMAIN calls = 1..Len(calls)
    BY CallsAre DEF IInv, Inv
  <2>2. calls' \in Seq(Elements(calls'))
    BY DEF Inv, Recorded
  <2>3. Len(calls') \in Nat /\ DOMAIN calls' = 1..Len(calls')
    BY <2>2, LenProperties
  <2>4. Len(calls) = 0 \/ Len(calls) \in 1..Len(calls')
    BY <2>1, <2>3 DEF Continues
  <2> QED
    BY <2>1, <2>3, <2>4
<1>3. Borne(Len(calls)) \subseteq Borne(Len(calls'))
  BY <1>2, BorneOwn
<1>4. \A attr \in {Mark, Stamp} : Setting(attr)' \in Borne(Len(calls'))
  BY <1>1, <1>3 DEF IInv, ItemOwned, Setting
<1>5. PICK s \in Seq(Borne(Len(calls))) : Or(item, List, L(<<>>)) = L(s)
  BY DEF IInv, ItemOwned
<1>6. s \in Seq(Borne(Len(calls')))
  BY <1>3, SeqMonotonic
<1>7. Or(item', Counter, N(0)) \in [N : Nat] /\ Or(item', List, L(<<>>)) = L(s)
  BY <1>1, <1>5 DEF IInv, ItemOwned
<1> QED
  BY <1>4, <1>6, <1>7 DEF ItemOwned

\* What is seen of the item, and what the calls are, stays.
LEMMA StillSame ==
  ASSUME IInv, Continues, Still
  PROVE  /\ \A attr : Setting(attr)' = Setting(attr)
         /\ Count' = Count
         /\ \A k : Places(k)' = Places(k)
         /\ \A k \in DOMAIN calls : \A attr : Adding(k, attr)' <=> Adding(k, attr)
<1>1. item' = item
  BY DEF Still
<1>2. \A k \in DOMAIN calls : \A attr : Adding(k, attr)' <=> Adding(k, attr)
  BY DEF Continues, Adding
<1> QED
  BY <1>1, <1>2 DEF Setting, Count, Places, Appended

\* ... as many additions stand as before, ...
LEMMA StillAdditions ==
  ASSUME IInv, Inv', Continues, Still
  PROVE  Additions'
<1>1. /\ Count' = Count /\ \A k : Places(k)' = Places(k)
      /\ \A k \in DOMAIN calls : \A attr : Adding(k, attr)' <=> Adding(k, attr)
  BY StillSame
<1>2. \A k \in Standing' : k \in Standing /\ k \in DOMAIN calls
  BY DEF Still, Standing
<1>3. Cardinality(Counting') <= Count'
  <2>1. Counting' \in SUBSET Counting
    BY <1>1, <1>2 DEF Counting
  <2>2. IsFiniteSet(Counting) /\ Cardinality(Counting) \in Nat
    BY StandingFinite DEF IInv, Counting
  <2>3. Cardinality(Counting') <= Cardinality(Counting)
    BY <2>1, <2>2, FS_Subset
  <2>4. Cardinality(Counting') \in Nat
    BY <2>1, <2>2, FS_Subset, FS_CardinalityType
  <2>5. Count \in Nat /\ Cardinality(Counting) <= Count
    BY DEF IInv, Additions, ItemOwned, Count
  <2> QED
    BY <1>1, <2>2, <2>3, <2>4, <2>5
<1>4. Count' <= Cardinality(Spent')
  <2>1. Count \in Nat /\ Count <= Cardinality(Spent)
    BY DEF IInv, Additions, ItemOwned, Count
  <2>2. Cardinality(Spent) \in Nat /\ Cardinality(Spent') \in Nat /\ Cardinality(Spent) <= Cardinality(Spent')
    BY SpentGrows DEF IInv
  <2> QED
    BY <1>1, <2>1, <2>2
<1>5. \A k \in Standing' : Adding(k, List)' => Places(k)' # {}
  BY <1>1, <1>2 DEF IInv, Additions
<1>6. ASSUME NEW k \in DOMAIN calls' PROVE Cardinality(Places(k)') <= calls'[k].effects
  <2>1. CASE k \in DOMAIN calls
    <3>1. Cardinality(Places(k)) <= calls[k].effects /\ calls'[k].effects = calls[k].effects
      BY <2>1 DEF IInv, Additions, Still
    <3> QED
      BY <1>1, <3>1
  <2>2. CASE k \notin DOMAIN calls
    <3>1. k \in Nat /\ k > Len(calls)
      <4>1. calls' \in Seq(Elements(calls'))
        BY DEF Inv, Recorded
      <4>2. DOMAIN calls' = 1..Len(calls') /\ Len(calls') \in Nat
        BY <4>1, LenProperties
      <4>3. DOMAIN calls = 1..Len(calls) /\ Len(calls) \in Nat
        BY CallsAre DEF IInv, Inv
      <4> QED
        BY <2>2, <4>2, <4>3
    <3>2. Places(k) = {}
      BY <3>1, NotBorne DEF IInv
    <3>3. calls'[k].effects = 0
      BY <2>2 DEF Still, Fresh
    <3> QED
      BY <1>1, <3>2, <3>3, FS_EmptySet
  <2> QED
    BY <2>1, <2>2
<1>7. \A k \in held' : calls'[k].status = "Ok"
  BY DEF Still
<1> QED
  BY <1>3, <1>4, <1>5, <1>6, <1>7 DEF Additions

\* ... in the order they had, ...
LEMMA StillOrder ==
  ASSUME IInv, Inv', Continues, Still
  PROVE  InOrder'
<1> SUFFICES ASSUME NEW b \in DOMAIN calls', NEW a \in held', a \in calls'[b].before, Adding(a, List)'
             PROVE  \E n \in Places(a)' : \A m \in Places(b)' : n < m
  BY DEF InOrder
<1>1. \A k : Places(k)' = Places(k)
  BY StillSame
<1>2. Len(calls) \in Nat /\ DOMAIN calls = 1..Len(calls)
  BY CallsAre DEF IInv, Inv
<1>3. CASE b \in DOMAIN calls
  <2>1. a \in calls[b].before
    BY <1>3 DEF Continues
  <2>2. a \in 1..(b - 1) /\ calls[a].status = "Ok"
    BY <1>3, <2>1 DEF IInv, Inv, CallsTyped, CallsOwned
  <2>3. a \in DOMAIN calls
    BY <1>2, <1>3, <2>2
  <2>4. a \in held
    BY <2>2 DEF Still, Running
  <2>5. Adding(a, List)
    BY <2>3, StillSame
  <2> QED
    BY <1>1, <1>3, <2>1, <2>4, <2>5 DEF IInv, InOrder
<1>4. CASE b \notin DOMAIN calls
  <2>1. a \in DOMAIN calls /\ calls[a].status = "Ok"
    BY <1>4 DEF Still
  <2>2. a \in held
    BY <2>1 DEF Still, Running
  <2>3. Adding(a, List) /\ a \in Standing
    BY <2>1, <2>2, StillSame DEF Standing
  <2>4. Places(a) # {}
    BY <2>3 DEF IInv, Additions
  <2>5. Places(b) = {}
    <3>1. calls' \in Seq(Elements(calls'))
      BY DEF Inv, Recorded
    <3>2. DOMAIN calls' = 1..Len(calls') /\ Len(calls') \in Nat
      BY <3>1, LenProperties
    <3>3. b \in Nat /\ b > Len(calls)
      BY <1>2, <1>4, <3>2
    <3> QED
      BY <3>3, NotBorne DEF IInv
  <2> QED
    BY <1>1, <2>4, <2>5
<1> QED
  BY <1>3, <1>4

\* ... the settings are the same, ...
LEMMA StillStuck ==
  ASSUME IInv, Inv', Continues, Still
  PROVE  Stuck'
<1> SUFFICES ASSUME NEW b \in DOMAIN calls', NEW a \in calls'[b].before, NEW attr \in {Mark, Stamp},
                    calls'[b].op = "update", calls'[b].effects >= 1,
                    attr \in {t.attr : t \in Targets(calls'[b].req)}, calls'[a].attempt = 1
             PROVE  Setting(attr)' \notin Own(a)
  BY DEF Stuck
<1>1. b \in DOMAIN calls
  BY DEF Still, Fresh
<1>2. /\ a \in calls[b].before /\ calls[b].op = "update" /\ calls[b].effects >= 1
      /\ attr \in {t.attr : t \in Targets(calls[b].req)}
  BY <1>1 DEF Continues, Still
<1>3. calls[a].attempt = 1
  <2>1. Len(calls) \in Nat /\ DOMAIN calls = 1..Len(calls)
    BY CallsAre DEF IInv, Inv
  <2>2. a \in 1..(b - 1) /\ calls[a].status = "Ok"
    BY <1>1, <1>2 DEF IInv, Inv, CallsTyped, CallsOwned
  <2>3. a \in DOMAIN calls
    BY <1>1, <2>1, <2>2
  <2> QED
    BY <2>2, <2>3 DEF Continues
<1>4. Setting(attr) \notin Own(a)
  BY <1>1, <1>2, <1>3 DEF IInv, Stuck
<1> QED
  BY <1>4, StillSame

\* ... and what was gone is.
LEMMA StillGone ==
  ASSUME IInv, Continues, Still
  PROVE  Gone'
<1>1. settled' = settled
  BY DEF Still
<1> QED
  BY <1>1, StillSame DEF IInv, Gone

\* A step that leaves the item keeps what IInv says of it.
LEMMA StillKeeps ==
  ASSUME IInv, Inv', Continues, Still
  PROVE  IInv'
BY StillCalls, StillItem, StillAdditions, StillOrder, StillStuck, StillGone DEF IInv

-----------------------------------------------------------------------------
(* What the operations ask is for their own values *)

\* The parts of a request that sets a field.
LEMMA RequestIs ==
  ASSUME NEW clauses, NEW names, NEW values, NEW u, u = Request(clauses, names, values)
  PROVE  /\ u.ues = clauses /\ u.ean = names /\ u.eav = values
         /\ ToSet(u.uer) = {} /\ ToSet(u.uea) = {}
<1>1. u.ues = clauses /\ u.ean = names /\ u.eav = values /\ u.uer = <<>> /\ u.uea = <<>>
  BY DEF Request, Updates
<1> QED
  BY <1>1 DEF ToSet

\* The parts of a clause that sets.
LEMMA SetIs ==
  ASSUME NEW name, NEW key, NEW fn, NEW args
  PROVE  /\ Set(name, key, fn, args).name = name /\ Set(name, key, fn, args).key = key
         /\ Set(name, key, fn, args).fn = fn /\ Set(name, key, fn, args).args = args
BY DEF Set

\* A placeholder stands for what it was bound to.
LEMMA BindIs ==
  ASSUME NEW a, NEW v, NEW b, NEW w
  PROVE  /\ Bind(a, v)[a] = v
         /\ (Bind(a, v) ++ Bind(b, w))[a] = v
         /\ a # b => (Bind(a, v) ++ Bind(b, w))[b] = w
BY DEF Bind, ++

\* The clauses of a request of one or two of them.
LEMMA OneSet ==
  ASSUME NEW c
  PROVE  ToSet(<<c>>) = {c}
<1>1. DOMAIN <<c>> = {1} /\ <<c>>[1] = c
  OBVIOUS
<1> QED
  BY <1>1 DEF ToSet

\* Two clauses are a set of two.
LEMMA TwoSet ==
  ASSUME NEW c, NEW d
  PROVE  ToSet(<<c, d>>) = {c, d}
<1>1. DOMAIN <<c, d>> = {1, 2} /\ <<c, d>>[1] = c /\ <<c, d>>[2] = d
  OBVIOUS
<1> QED
  BY <1>1 DEF ToSet

\* No two placeholders of the same request are the same.
LEMMA PlaceholdersDiffer ==
  /\ V("zero") # V("one") /\ V("one") # V("tsv") /\ V("zero") # V("tsv") /\ V("val") # V("elst")
  /\ Fld # P("ts")
<1>1. "zero" # "one" /\ "one" # "tsv" /\ "zero" # "tsv" /\ "val" # "elst" /\ "fld" # "ts"
  OBVIOUS
<1> QED
  BY <1>1 DEF V, P, Fld

\* The requests of update_s and update_n, ...
LEMMA SetsOwn ==
  ASSUME NEW n, NEW v \in Own(n), NEW u,
         u = Request(<<Field("value", <<V("sval")>>)>>, Bind(Fld, Mark), Bind(V("sval"), v))
  PROVE  Owned(u, n)
<1> DEFINE c == Field("value", <<V("sval")>>)
<1>1. ToSet(u.ues) = {c} /\ ToSet(u.uer) = {} /\ ToSet(u.uea) = {}
  <2>1. u.ues = <<c>> /\ ToSet(u.uer) = {} /\ ToSet(u.uea) = {}
    BY RequestIs
  <2> QED
    BY <2>1, OneSet
<1>2. c.name = Fld /\ c.key = NoKeyName /\ c.fn = "value" /\ c.args = <<V("sval")>>
  BY SetIs DEF Field
<1>3. c.args[1] = V("sval")
  BY <1>2
<1> HIDE DEF c
<1>4. u.ean[c.name] = Mark /\ u.eav[c.args[1]] = v
  BY <1>2, <1>3, RequestIs, BindIs
<1> QED
  BY <1>1, <1>2, <1>4, NamesAssumption DEF Owned

\* ... of update_add_list, ...
LEMMA AppendsOwn ==
  ASSUME NEW n, NEW v \in Own(n), NEW u,
         u = Request(<<Field("append", <<V("elst"), V("val")>>)>>, Bind(Fld, List),
                     Bind(V("val"), L(<<v>>)) ++ Bind(V("elst"), L(<<>>)))
  PROVE  Owned(u, n)
<1> DEFINE c == Field("append", <<V("elst"), V("val")>>)
<1>1. ToSet(u.ues) = {c} /\ ToSet(u.uer) = {} /\ ToSet(u.uea) = {}
  <2>1. u.ues = <<c>> /\ ToSet(u.uer) = {} /\ ToSet(u.uea) = {}
    BY RequestIs
  <2> QED
    BY <2>1, OneSet
<1>2. c.name = Fld /\ c.key = NoKeyName /\ c.fn = "append" /\ c.args = <<V("elst"), V("val")>>
  BY SetIs DEF Field
<1>3. c.args[1] = V("elst") /\ c.args[2] = V("val")
  BY <1>2
<1> HIDE DEF c
<1>4. u.ean[c.name] = List /\ u.eav[c.args[1]] = L(<<>>) /\ u.eav[c.args[2]] = L(<<v>>)
  BY <1>2, <1>3, RequestIs, BindIs, PlaceholdersDiffer
<1> QED
  BY <1>1, <1>2, <1>4, NamesAssumption DEF Owned

\* What update_add adds, and to what if there is nothing.
LEMMA AmountIs == Amount(1)[V("zero")] = N(0) /\ Amount(1)[V("one")] = N(1)
BY BindIs, PlaceholdersDiffer DEF Amount

\* ... of update_add, ...
LEMMA AddsOwn ==
  ASSUME NEW n, NEW u, u = Request(<<Added>>, Bind(Fld, Counter), Amount(1))
  PROVE  Owned(u, n)
<1>1. ToSet(u.ues) = {Added} /\ ToSet(u.uer) = {} /\ ToSet(u.uea) = {}
  <2>1. u.ues = <<Added>> /\ ToSet(u.uer) = {} /\ ToSet(u.uea) = {}
    BY RequestIs
  <2> QED
    BY <2>1, OneSet
<1>2. /\ Added.name = Fld /\ Added.key = NoKeyName /\ Added.fn = "plus"
      /\ Added.args = <<V("zero"), V("one")>>
  BY SetIs DEF Field, Added
<1>3. Added.args[1] = V("zero") /\ Added.args[2] = V("one")
  BY <1>2
<1>4. u.ean[Added.name] = Counter /\ u.eav[Added.args[1]] = N(0) /\ u.eav[Added.args[2]] = N(1)
  BY <1>2, <1>3, RequestIs, BindIs, AmountIs
<1> QED
  BY <1>1, <1>2, <1>4, NamesAssumption DEF Owned

\* ... of update_add_ts, ...
LEMMA StampsOwn ==
  ASSUME NEW n, NEW v \in Own(n), NEW u,
         u = Request(<<Added, Set(P("ts"), NoKeyName, "value", <<V("tsv")>>)>>,
                     Bind(Fld, Counter) ++ Bind(P("ts"), Stamp), Amount(1) ++ Bind(V("tsv"), v))
  PROVE  Owned(u, n)
<1> DEFINE c == Set(P("ts"), NoKeyName, "value", <<V("tsv")>>)
<1>1. ToSet(u.ues) = {Added, c} /\ ToSet(u.uer) = {} /\ ToSet(u.uea) = {}
  <2>1. u.ues = <<Added, c>> /\ ToSet(u.uer) = {} /\ ToSet(u.uea) = {}
    BY RequestIs
  <2> QED
    BY <2>1, TwoSet
<1>2. /\ Added.name = Fld /\ Added.key = NoKeyName /\ Added.fn = "plus"
      /\ Added.args = <<V("zero"), V("one")>>
  BY SetIs DEF Field, Added
<1>3. Added.args[1] = V("zero") /\ Added.args[2] = V("one")
  BY <1>2
<1>4. c.name = P("ts") /\ c.key = NoKeyName /\ c.fn = "value" /\ c.args = <<V("tsv")>>
  BY SetIs
<1>5. c.args[1] = V("tsv")
  BY <1>4
<1> HIDE DEF c
<1>6. u.ean[Added.name] = Counter /\ u.ean[c.name] = Stamp
  BY <1>2, <1>4, RequestIs, BindIs, PlaceholdersDiffer
<1> DEFINE values == Amount(1) ++ Bind(V("tsv"), v)
<1>7. values[V("zero")] = N(0) /\ values[V("one")] = N(1) /\ values[V("tsv")] = v
  <2>1. DOMAIN Amount(1) = {V("zero"), V("one")} /\ DOMAIN Bind(V("tsv"), v) = {V("tsv")}
    BY DEF Amount, Bind, ++
  <2>2. Bind(V("tsv"), v)[V("tsv")] = v
    BY BindIs
  <2> QED
    BY <2>1, <2>2, AmountIs, PlaceholdersDiffer DEF ++
<1>8. /\ u.eav[Added.args[1]] = N(0) /\ u.eav[Added.args[2]] = N(1) /\ u.eav[c.args[1]] = v
  BY <1>3, <1>5, <1>7, RequestIs
<1> QED
  BY <1>1, <1>2, <1>4, <1>6, <1>8, NamesAssumption DEF Owned

\* ... of update_remove_attr, ...
LEMMA RemovesOwn ==
  ASSUME NEW n, NEW u,
         u = [Updates EXCEPT !.key = make_key, !.uer = <<[name |-> Fld, at |-> 0]>>,
                             !.ean = Bind(Fld, Counter)]
  PROVE  Owned(u, n)
<1> DEFINE c == [name |-> Fld, at |-> 0]
<1>1. u.ues = <<>> /\ u.uea = <<>> /\ u.uer = <<c>> /\ u.ean = Bind(Fld, Counter)
  BY DEF Updates
<1>2. ToSet(u.ues) = {} /\ ToSet(u.uea) = {} /\ ToSet(u.uer) = {c}
  <2>1. ToSet(<<>>) = {}
    BY DEF ToSet
  <2> QED
    BY <1>1, <2>1, OneSet
<1> QED
  BY <1>2 DEF Owned

\* ... and that of a builder that refuses.
LEMMA NothingOwned ==
  ASSUME NEW n
  PROVE  Owned(Updates, n)
<1>1. Updates.ues = <<>> /\ Updates.uea = <<>> /\ Updates.uer = <<>>
  BY DEF Updates
<1>2. ToSet(<<>>) = {}
  BY DEF ToSet
<1> QED
  BY <1>1, <1>2 DEF Owned

-----------------------------------------------------------------------------
(* The steps of the calls and the SDK *)

\* A call begins.
LEMMA CallStays ==
  ASSUME IInv, NEW op \in {"update", "delete"}, NEW req, NEW status \in {"running", "refused"},
         Call(op, req, status), op = "update" => Owned(req, New)
  PROVE  IInv'
<1> DEFINE r == [op |-> op, req |-> req, attempt |-> 1, reply |-> "none", status |-> status,
                 effects |-> 0, before |-> {k \in DOMAIN calls : calls[k].status = "Ok"}]
<1>0. PICK n : n = Len(calls) + 1 /\ n = New
  BY DEF New
<1>1. /\ DOMAIN r = Fields
      /\ calls' = Append(calls, r)
      /\ wire' = IF status = "running" THEN wire \cup {<<n, 1>>} ELSE wire
      /\ item' = item /\ held' = held /\ cut' = cut /\ settled' = settled
  BY <1>0 DEF Call, Fields
<1>2. /\ r.op = op /\ r.req = req /\ r.status = status /\ r.effects = 0 /\ r.attempt = 1
      /\ r.before = {k \in DOMAIN calls : calls[k].status = "Ok"}
  OBVIOUS
<1>3. Inv'
  BY CallKeeps DEF IInv
<1> HIDE DEF r
<1>4. /\ Len(calls) \in Nat /\ DOMAIN calls = 1..Len(calls)
      /\ DOMAIN calls' = 1..n
      /\ calls'[n] = r
      /\ \A k \in DOMAIN calls : calls'[k] = calls[k]
  BY <1>0, <1>1, CallsAre, Begun DEF IInv, Inv
<1>5. Continues
  <2>1. ASSUME NEW k \in DOMAIN calls, NEW a \in 1..MaxAttempts, <<k, a>> \in wire', <<k, a>> \notin wire
        PROVE  FALSE
    <3>1. k # n
      BY <1>0, <1>4
    <3> QED
      BY <1>1, <2>1, <3>1
  <2>2. \A k \in DOMAIN calls : k \in DOMAIN calls' /\ calls'[k].attempt >= calls[k].attempt
    <3> TAKE k \in DOMAIN calls
    <3>1. calls[k].attempt \in Nat
      BY BoundAssumption DEF IInv, Inv, CallsTyped
    <3>2. k \in DOMAIN calls' /\ calls'[k] = calls[k]
      BY <1>0, <1>4
    <3> QED
      BY <3>1, <3>2
  <2> QED
    BY <1>4, <2>1, <2>2 DEF Continues
<1>6. Still
  <2>1. \A k \in DOMAIN calls' : k \notin DOMAIN calls => k = n
    BY <1>0, <1>4
  <2>2. Fresh(n)' /\ calls'[n].before = {a \in DOMAIN calls : calls[a].status = "Ok"}
    BY <1>0, <1>2, <1>4 DEF Fresh
  <2>3. ASSUME NEW k \in Standing' PROVE k \in Standing
    <3>1. k \in DOMAIN calls
      <4>1. CASE k = n
        <5>1. n \notin DOMAIN calls
          BY <1>0, <1>4
        <5>2. n \notin held /\ calls'[n].effects = 0
          BY <1>2, <1>4, <5>1 DEF IInv, Inv, CallsTyped
        <5> QED
          BY <1>1, <2>3, <4>1, <5>2 DEF Standing
      <4> QED
        BY <2>1, <2>3, <4>1 DEF Standing
    <3> QED
      BY <1>1, <1>4, <2>3, <3>1 DEF Standing, Running
  <2>4. \A k \in held : k \in DOMAIN calls /\ calls[k].status = "Ok"
    BY DEF IInv, Inv, CallsTyped, Additions
  <2>5. \A k \in held' : k \in held /\ calls'[k].status = "Ok"
    BY <1>1, <1>4, <2>4
  <2>6. \A k \in DOMAIN calls : calls'[k].effects = calls[k].effects
    BY <1>4
  <2>7. \A k \in DOMAIN calls' : k \notin DOMAIN calls =>
          Fresh(k)' /\ calls'[k].before = {a \in DOMAIN calls : calls[a].status = "Ok"}
    BY <2>1, <2>2
  <2>8. Standing' \subseteq Standing
    BY <2>3
  <2> QED
    BY <1>1, <2>5, <2>6, <2>7, <2>8 DEF Still
<1> QED
  BY <1>3, <1>5, <1>6, StillKeeps

\* Whichever call begins.
LEMMA CallNextStays ==
  ASSUME IInv, CallNext
  PROVE  IInv'
<1>0. ASSUME NEW req, NEW status \in {"running", "refused"},
             Call("update", req, status), Owned(req, New)
      PROVE  IInv'
  BY <1>0, CallStays
<1>1. Me \in Own(New) /\ N(New) \in Own(New) /\ S(New) \in Own(New)
  BY DEF Me, Own
<1>2. CASE \E steps \in StepLists(Me), given \in {PrimaryKey, {"sk"}} : update(given, steps)
  <2>1. PICK steps \in StepLists(Me), given \in {PrimaryKey, {"sk"}} : update(given, steps)
    BY <1>2
  <2>2. CASE Call("update", Updates, "refused")
    BY <1>0, <2>2, NothingOwned
  <2>3. CASE Call("update", Built(given, steps), "running")
    <3>1. New \in 1..MaxCalls
      BY <2>3, CallsAre, BoundAssumption DEF IInv, Inv, Call, New
    <3>2. Owned(Built(given, steps), New)
      BY <2>1, <3>1, StepsAssumption DEF Me
    <3> QED
      BY <1>0, <2>3, <3>2
  <2> QED
    BY <2>1, <2>2, <2>3 DEF update
<1>3. CASE \E condition \in Conditions : delete(condition)
  BY <1>3, CallStays DEF delete
<1>4. CASE update_s(Mark, Me) \/ update_n(Mark, N(New))
  <2>1. PICK v \in Own(New) : update_s(Mark, v)
    BY <1>1, <1>4 DEF update_n
  <2> DEFINE u == Request(<<Field("value", <<V("sval")>>)>>, Bind(Fld, Mark), Bind(V("sval"), v))
  <2>2. Call("update", u, "running")
    BY <2>1 DEF update_s
  <2>3. Owned(u, New)
    BY SetsOwn
  <2> QED
    BY <1>0, <2>2, <2>3
<1>5. CASE update_add_list(List, N(New)) \/ update_add_list_str(List, New)
  <2>1. PICK v \in Own(New) : update_add_list(List, v)
    BY <1>1, <1>5 DEF update_add_list_str
  <2> DEFINE u == Request(<<Field("append", <<V("elst"), V("val")>>)>>, Bind(Fld, List),
                          Bind(V("val"), L(<<v>>)) ++ Bind(V("elst"), L(<<>>)))
  <2>2. Call("update", u, "running")
    BY <2>1 DEF update_add_list
  <2>3. Owned(u, New)
    BY AppendsOwn
  <2> QED
    BY <1>0, <2>2, <2>3
<1>6. CASE update_add(Counter, 1)
  BY <1>0, <1>6, AddsOwn DEF update_add
<1>7. CASE update_add_ts(Counter, 1, Stamp, Me)
  <2> DEFINE u == Request(<<Added, Set(P("ts"), NoKeyName, "value", <<V("tsv")>>)>>,
                          Bind(Fld, Counter) ++ Bind(P("ts"), Stamp), Amount(1) ++ Bind(V("tsv"), Me))
  <2>1. Call("update", u, "running")
    BY <1>7 DEF update_add_ts
  <2>2. Owned(u, New)
    BY <1>1, StampsOwn
  <2> QED
    BY <1>0, <2>1, <2>2
<1>8. CASE update_remove_attr(Counter)
  BY <1>0, <1>8, RemovesOwn DEF update_remove_attr
<1> QED
  BY <1>2, <1>3, <1>4, <1>5, <1>6, <1>7, <1>8 DEF CallNext

\* One call goes on.
LEMMA OneStays ==
  ASSUME IInv, Inv', NEW k \in DOMAIN calls, NEW r, calls' = [calls EXCEPT ![k] = r],
         r.op = calls[k].op, r.req = calls[k].req, r.before = calls[k].before,
         r.effects = calls[k].effects, r.attempt >= calls[k].attempt,
         calls[k].status = "Ok" => r.status = "Ok" /\ r.attempt = calls[k].attempt,
         r.status = "running" => Running(k),
         \A a \in 1..MaxAttempts : <<k, a>> \in wire' /\ <<k, a>> \notin wire => a > calls[k].attempt,
         \A j \in DOMAIN calls, a \in 1..MaxAttempts :
           j # k /\ <<j, a>> \in wire' => <<j, a>> \in wire,
         item' = item, settled' = settled, cut' = cut,
         \/ held' = held
         \/ /\ held' = held \cup {k} /\ Running(k) /\ r.status = "Ok"
            /\ k \notin cut /\ calls[k].effects >= 1
  PROVE  IInv'
<1>1. calls'[k] = r /\ \A j \in DOMAIN calls : j # k => calls'[j] = calls[j]
  OBVIOUS
<1>2. DOMAIN calls' = DOMAIN calls
  OBVIOUS
<1>3. Continues
  <2>1. ASSUME NEW j \in DOMAIN calls
        PROVE  /\ calls'[j].op = calls[j].op /\ calls'[j].req = calls[j].req
               /\ calls'[j].before = calls[j].before
               /\ calls'[j].attempt >= calls[j].attempt
               /\ calls[j].status = "Ok" =>
                    calls'[j].status = "Ok" /\ calls'[j].attempt = calls[j].attempt
    <3>1. CASE j = k
      BY <1>1, <3>1
    <3>2. CASE j # k
      <4>1. calls[j].attempt \in Nat
        BY BoundAssumption DEF IInv, Inv, CallsTyped
      <4> QED
        BY <1>1, <3>2, <4>1
    <3> QED
      BY <3>1, <3>2
  <2>2. \A j \in DOMAIN calls, a \in 1..MaxAttempts :
          <<j, a>> \in wire' /\ <<j, a>> \notin wire => a > calls[j].attempt
    OBVIOUS
  <2> QED
    BY <1>2, <2>1, <2>2 DEF Continues
<1>4. \A j \in DOMAIN calls : calls'[j].effects = calls[j].effects
  BY <1>1
<1>5. ASSUME NEW j \in Standing' PROVE j \in Standing
  <2>1. j \in DOMAIN calls /\ (j \in held' \/ (Running(j)' /\ j \notin cut /\ calls'[j].effects >= 1))
    BY <1>2, <1>5 DEF Standing
  <2>2. CASE j \in held
    BY <2>1, <2>2 DEF Standing
  <2>3. CASE j \notin held /\ j \in held'
    BY <2>1, <2>3 DEF Standing
  <2>4. CASE Running(j)' /\ j \notin cut /\ calls'[j].effects >= 1
    <3>1. Running(j)
      BY <1>1, <2>1, <2>4 DEF Running
    <3> QED
      BY <1>4, <2>1, <2>4, <3>1 DEF Standing
  <2> QED
    BY <2>1, <2>2, <2>3, <2>4
<1>6. ASSUME NEW j \in held' PROVE (j \in held \/ (j \in DOMAIN calls /\ Running(j))) /\ calls'[j].status = "Ok"
  <2>1. CASE j \in held
    <3>1. j \in DOMAIN calls /\ calls[j].status = "Ok"
      BY <2>1 DEF IInv, Inv, CallsTyped, Additions
    <3> QED
      BY <1>3, <2>1, <3>1 DEF Continues
  <2>2. CASE j \notin held
    BY <1>1, <1>6, <2>2
  <2> QED
    BY <2>1, <2>2
<1>7. Standing' \subseteq Standing
  BY <1>5
<1>8. Still
  BY <1>2, <1>4, <1>6, <1>7 DEF Still
<1> QED
  BY <1>3, <1>8, StillKeeps

\* A request is turned down.
LEMMA TurnDownStays ==
  ASSUME IInv, NEW k, NEW attempt, turn_down(k, attempt)
  PROVE  IInv'
<1> DEFINE r == [calls[k] EXCEPT !.reply = IF Running(k) /\ calls[k].attempt = attempt THEN "refused" ELSE @,
                                 !.effects = @ + 0]
<1>1. k \in DOMAIN calls /\ wire' \subseteq wire
  BY DEF turn_down, IInv, Inv, CallsTyped
<1>2. DOMAIN calls[k] = Fields /\ calls[k].attempt \in Nat /\ calls[k].effects \in Nat
  BY <1>1, BoundAssumption DEF IInv, Inv, Recorded, CallsTyped
<1>3. calls' = [calls EXCEPT ![k] = r]
  BY <1>1, <1>2 DEF turn_down, Reply, Fields
<1>4. /\ r.op = calls[k].op /\ r.req = calls[k].req /\ r.before = calls[k].before
      /\ r.effects = calls[k].effects /\ r.attempt = calls[k].attempt /\ r.status = calls[k].status
  BY <1>2 DEF Fields
<1>5. Inv'
  BY TurnDownKeeps DEF IInv
<1>6. item' = item /\ settled' = settled /\ cut' = cut /\ held' = held
  BY DEF turn_down
<1> HIDE DEF r
<1>7. r.attempt >= calls[k].attempt
  BY <1>2, <1>4
<1>8. r.status = "running" => Running(k)
  BY <1>4 DEF Running
<1> QED
  BY <1>1, <1>3, <1>4, <1>5, <1>6, <1>7, <1>8, OneStays

\* A call takes its answer.
LEMMA HearStays ==
  ASSUME IInv, NEW k \in DOMAIN calls, hear(k)
  PROVE  IInv'
<1> DEFINE r == [calls[k] EXCEPT !.status = calls[k].reply]
<1>1. /\ Running(k) /\ wire' = wire /\ calls' = [calls EXCEPT ![k] = r]
      /\ item' = item /\ settled' = settled /\ cut' = cut
      /\ held' = IF calls[k].reply = "Ok" /\ k \notin cut THEN held \cup {k} ELSE held
  BY DEF hear
<1>2. /\ DOMAIN calls[k] = Fields /\ calls[k].attempt \in Nat
      /\ calls[k].reply = "Ok" => calls[k].effects >= 1
  <2>1. DOMAIN calls[k] = Fields /\ calls[k].attempt \in Nat /\ Honest(k)
    BY BoundAssumption DEF IInv, Inv, Recorded, CallsTyped
  <2> QED
    BY <2>1 DEF Honest
<1>3. /\ r.op = calls[k].op /\ r.req = calls[k].req /\ r.before = calls[k].before
      /\ r.effects = calls[k].effects /\ r.attempt = calls[k].attempt /\ r.status = calls[k].reply
  BY <1>2 DEF Fields
<1>4. Inv'
  BY HearKeeps DEF IInv
<1>5. calls[k].status # "Ok"
  BY <1>1 DEF Running
<1> HIDE DEF r
<1>6. r.attempt >= calls[k].attempt
  BY <1>2, <1>3
<1>7. r.status = "running" => Running(k)
  BY <1>1
<1>8. \/ held' = held
      \/ /\ held' = held \cup {k} /\ Running(k) /\ r.status = "Ok"
         /\ k \notin cut /\ calls[k].effects >= 1
  BY <1>1, <1>2, <1>3
<1> QED
  BY <1>1, <1>3, <1>4, <1>5, <1>6, <1>7, <1>8, OneStays

\* A request is sent again.
LEMMA RetryStays ==
  ASSUME IInv, NEW k \in DOMAIN calls, retry(k)
  PROVE  IInv'
<1> DEFINE r == [calls[k] EXCEPT !.attempt = @ + 1, !.reply = "none"]
<1>1. DOMAIN calls[k] = Fields /\ calls[k].attempt \in Nat
  BY BoundAssumption DEF IInv, Inv, Recorded, CallsTyped
<1>2. /\ Running(k) /\ wire' = wire \cup {<<k, calls[k].attempt + 1>>}
      /\ item' = item /\ settled' = settled /\ cut' = cut /\ held' = held
  BY DEF retry
<1>3. calls' = [calls EXCEPT ![k] = r]
  BY <1>1 DEF retry, Fields
<1>4. /\ r.op = calls[k].op /\ r.req = calls[k].req /\ r.before = calls[k].before
      /\ r.effects = calls[k].effects /\ r.attempt = calls[k].attempt + 1 /\ r.status = calls[k].status
  BY <1>1 DEF Fields
<1>5. Inv'
  BY RetryKeeps DEF IInv
<1>6. calls[k].status # "Ok"
  BY <1>2 DEF Running
<1> HIDE DEF r
<1>7. r.attempt >= calls[k].attempt
  BY <1>1, <1>4
<1>8. \A a \in 1..MaxAttempts : <<k, a>> \in wire' /\ <<k, a>> \notin wire => a > calls[k].attempt
  BY <1>1, <1>2
<1>9. \A j \in DOMAIN calls, a \in 1..MaxAttempts : j # k /\ <<j, a>> \in wire' => <<j, a>> \in wire
  BY <1>2
<1> QED
  BY <1>2, <1>3, <1>4, <1>5, <1>6, <1>7, <1>8, <1>9, OneStays

\* A call gives up.
LEMMA GiveUpStays ==
  ASSUME IInv, NEW k \in DOMAIN calls, give_up(k)
  PROVE  IInv'
<1> DEFINE r == [calls[k] EXCEPT !.status = "timed_out"]
<1>1. /\ Running(k) /\ wire' = wire /\ calls' = [calls EXCEPT ![k] = r]
      /\ item' = item /\ settled' = settled /\ cut' = cut /\ held' = held
  BY DEF give_up
<1>2. DOMAIN calls[k] = Fields /\ calls[k].attempt \in Nat
  BY BoundAssumption DEF IInv, Inv, Recorded, CallsTyped
<1>3. /\ r.op = calls[k].op /\ r.req = calls[k].req /\ r.before = calls[k].before
      /\ r.effects = calls[k].effects /\ r.attempt = calls[k].attempt /\ r.status = "timed_out"
  BY <1>2 DEF Fields
<1>4. Inv'
  BY GiveUpKeeps DEF IInv
<1>5. calls[k].status # "Ok"
  BY <1>1 DEF Running
<1> HIDE DEF r
<1>6. r.attempt >= calls[k].attempt
  BY <1>2, <1>3
<1> QED
  BY <1>1, <1>3, <1>4, <1>5, <1>6, OneStays

-----------------------------------------------------------------------------
(* A request takes effect *)

\* What becomes of the calls when the request of one takes effect.
LEMMA TakenCalls ==
  ASSUME IInv, NEW k, NEW attempt, take(k, attempt)
  PROVE  /\ k \in DOMAIN calls /\ attempt \in 1..calls[k].attempt
         /\ <<k, attempt>> \in wire /\ wire' = wire \ {<<k, attempt>>}
         /\ Inv' /\ Continues
         /\ Len(calls') = Len(calls) /\ DOMAIN calls' = DOMAIN calls
         /\ \A j \in DOMAIN calls :
              /\ calls'[j].attempt = calls[j].attempt /\ calls'[j].status = calls[j].status
              /\ calls'[j].effects = IF j = k THEN calls[j].effects + 1 ELSE calls[j].effects
              /\ calls[j].effects \in Nat
              /\ \A attr : Adding(j, attr)' <=> Adding(j, attr)
<1> DEFINE r == [calls[k] EXCEPT !.reply = IF Running(k) /\ calls[k].attempt = attempt THEN "Ok" ELSE @,
                                 !.effects = @ + 1]
<1>1. /\ k \in DOMAIN calls /\ attempt \in 1..MaxAttempts
      /\ <<k, attempt>> \in wire /\ wire' = wire \ {<<k, attempt>>}
  BY DEF take, IInv, Inv, CallsTyped
<1>2. DOMAIN calls[k] = Fields /\ Counted(k)
  BY <1>1 DEF IInv, Inv, Recorded
<1>3. calls' = [calls EXCEPT ![k] = r]
  BY <1>1, <1>2 DEF take, Reply, Fields
<1>4. /\ r.op = calls[k].op /\ r.req = calls[k].req /\ r.before = calls[k].before
      /\ r.effects = calls[k].effects + 1 /\ r.attempt = calls[k].attempt /\ r.status = calls[k].status
      /\ DOMAIN r = Fields
  BY <1>2 DEF Fields
<1>5. Inv'
  BY TakeKeeps DEF IInv
<1>6. attempt <= calls[k].attempt
  BY <1>1, <1>2 DEF Counted, Pending
<1>7. \A j \in DOMAIN calls : calls[j].effects \in Nat /\ calls[j].attempt \in Nat
  BY BoundAssumption DEF IInv, Inv, CallsTyped
<1>8. calls'[k] = r /\ \A j \in DOMAIN calls : j # k => calls'[j] = calls[j]
  BY <1>1, <1>3
<1>9. Len(calls') = Len(calls) /\ DOMAIN calls' = DOMAIN calls
  <2>1. Recorded
    BY DEF IInv, Inv
  <2> HIDE DEF r
  <2> QED
    BY <1>1, <1>3, <1>4, <2>1, Changed
<1> HIDE DEF r
<1>10. \A j \in DOMAIN calls :
         /\ calls'[j].op = calls[j].op /\ calls'[j].req = calls[j].req
         /\ calls'[j].before = calls[j].before
         /\ calls'[j].attempt = calls[j].attempt /\ calls'[j].status = calls[j].status
         /\ calls'[j].effects = IF j = k THEN calls[j].effects + 1 ELSE calls[j].effects
  <2> TAKE j \in DOMAIN calls
  <2>1. CASE j = k
    BY <1>4, <1>8, <2>1
  <2>2. CASE j # k
    BY <1>8, <2>2
  <2> QED
    BY <2>1, <2>2
<1>11. \A j \in DOMAIN calls : calls'[j].attempt >= calls[j].attempt
  BY <1>7, <1>10
<1>12. Continues
  BY <1>1, <1>9, <1>10, <1>11 DEF Continues
<1>13. \A j \in DOMAIN calls : \A attr : Adding(j, attr)' <=> Adding(j, attr)
  BY <1>10 DEF Adding
<1>14. attempt \in 1..calls[k].attempt
  BY <1>1, <1>6, <1>7
<1> QED
  BY <1>1, <1>5, <1>7, <1>9, <1>10, <1>12, <1>13, <1>14

\* The parts of the invariant, one by one.
LEMMA TakeCallsOwned ==
  ASSUME IInv, NEW k, NEW attempt, take(k, attempt)
  PROVE  CallsOwned'
<1> SUFFICES ASSUME NEW j \in DOMAIN calls'
             PROVE  /\ calls'[j].op \in {"update", "delete"}
                    /\ calls'[j].op = "update" =>
                         Owned(calls'[j].req, j) /\ (calls'[j].effects >= 1 => WellFormed(calls'[j].req))
                    /\ \A a \in calls'[j].before : calls'[a].status = "Ok"
  BY DEF CallsOwned
<1>1. /\ j \in DOMAIN calls
      /\ calls'[j].op = calls[j].op /\ calls'[j].req = calls[j].req /\ calls'[j].before = calls[j].before
  BY TakenCalls DEF Continues
<1>2. /\ calls[j].op \in {"update", "delete"}
      /\ calls[j].op = "update" =>
           Owned(calls[j].req, j) /\ (calls[j].effects >= 1 => WellFormed(calls[j].req))
      /\ \A a \in calls[j].before : calls[a].status = "Ok"
  BY <1>1 DEF IInv, CallsOwned
<1>3. ASSUME NEW a \in calls[j].before PROVE calls'[a].status = "Ok"
  <2>1. a \in 1..(j - 1) /\ Len(calls) \in Nat /\ DOMAIN calls = 1..Len(calls)
    BY <1>1, CallsAre DEF IInv, Inv, CallsTyped
  <2>2. a \in DOMAIN calls
    BY <1>1, <2>1
  <2> QED
    BY <1>2, <2>2, TakenCalls
<1>4. calls[j].op = "update" /\ calls'[j].effects >= 1 => WellFormed(calls[j].req)
  <2>1. CASE j = k
    <3>1. calls[k].op = "update" => Accepted(calls[k].req, item)
      BY DEF take, CanDo
    <3> QED
      BY <2>1, <3>1 DEF Accepted
  <2>2. CASE j # k
    BY <1>1, <1>2, <2>2, TakenCalls
  <2> QED
    BY <2>1, <2>2
<1> QED
  BY <1>1, <1>2, <1>3, <1>4

\* What a request leaves in the item is of a call.
LEMMA TakeItemOwned ==
  ASSUME IInv, NEW k, NEW attempt, take(k, attempt)
  PROVE  ItemOwned'
<1>1. /\ k \in DOMAIN calls /\ Len(calls') = Len(calls)
      /\ Len(calls) \in Nat /\ DOMAIN calls = 1..Len(calls)
  BY TakenCalls, CallsAre DEF IInv, Inv
<1>2. Own(k) \subseteq Borne(Len(calls)) /\ S(0) \in Borne(Len(calls))
  BY <1>1, BorneOwn
<1>3. \A attr \in {Mark, Stamp} : Setting(attr)' \in Borne(Len(calls))
  BY <1>2, TakenSettings DEF IInv, ItemOwned
<1>4. Or(item, Counter, N(0))' \in [N : Nat]
  BY TakenCount DEF IInv
<1>5. \E t \in Seq(Borne(Len(calls))) : Or(item, List, L(<<>>))' = L(t)
  BY TakenList DEF IInv
<1> QED
  BY <1>1, <1>3, <1>4, <1>5 DEF ItemOwned

\* The places of each call's values then.
LEMMA TakenPlaces ==
  ASSUME IInv, NEW k, NEW attempt, take(k, attempt)
  PROVE  /\ \A j : /\ Cardinality(Places(j)) \in Nat /\ Cardinality(Places(j)') \in Nat
                   /\ j # k => Cardinality(Places(j)') <= Cardinality(Places(j))
                   /\ IsFiniteSet(Places(j)) /\ IsFiniteSet(Places(j)')
         /\ Cardinality(Places(k)') <= Cardinality(Places(k)) + 1
         /\ ~Resets(calls[k]) =>
              /\ \A j : j # k => Places(j)' = Places(j)
              /\ ~Adding(k, List) => Places(k)' = Places(k)
              /\ Adding(k, List) =>
                   \E n \in Nat : /\ Places(k)' = Places(k) \cup {n}
                                  /\ \A j : \A m \in Places(j) : m < n
<1>1. PICK s \in Seq(Borne(Len(calls))), t \in Seq(Borne(Len(calls))) :
           /\ Or(item, List, L(<<>>)) = L(s) /\ Or(item, List, L(<<>>))' = L(t)
           /\ Own(k) \subseteq Borne(Len(calls))
           /\ t = s \/ (Adding(k, List) /\ Grown(s, t, k)) \/ Shrunk(s, t)
           /\ ~Resets(calls[k]) => IF Adding(k, List) THEN Grown(s, t, k) ELSE t = s
  BY TakenList DEF IInv
<1>2. \A j : Places(j) = PlacesIn(s, j)
  BY <1>1, AppendedIs
<1>3. \A j : Places(j)' = PlacesIn(t, j)
  <2>1. Appended' = t
    BY <1>1 DEF Appended, L
  <2> QED
    BY <2>1 DEF Places, PlacesIn
<1>4. ASSUME NEW j
      PROVE  /\ Cardinality(Places(j)) \in Nat /\ Cardinality(Places(j)') \in Nat
             /\ IsFiniteSet(Places(j)) /\ IsFiniteSet(Places(j)')
  BY <1>2, <1>3, PlacesFinite
<1>5. CASE t = s
  <2>1. \A j : Places(j)' = Places(j)
    BY <1>2, <1>3, <1>5
  <2>2. ~Resets(calls[k]) => ~Adding(k, List)
    <3>1. ASSUME Grown(s, t, k) PROVE FALSE
      <4>1. /\ PlacesIn(t, k) = PlacesIn(s, k) \cup {Len(s) + 1}
            /\ Len(s) \in Nat /\ DOMAIN s = 1..Len(s)
        BY <1>1, <3>1, PlacesGrown
      <4>2. Len(s) + 1 \in PlacesIn(s, k)
        BY <1>5, <4>1
      <4> QED
        BY <4>1, <4>2 DEF PlacesIn
    <3> QED
      BY <1>1, <3>1
  <2> QED
    BY <1>4, <2>1, <2>2
<1>6. CASE Adding(k, List) /\ Grown(s, t, k)
  <2>1. /\ Len(s) \in Nat /\ DOMAIN s = 1..Len(s)
        /\ PlacesIn(t, k) = PlacesIn(s, k) \cup {Len(s) + 1}
        /\ \A j : j # k => PlacesIn(t, j) = PlacesIn(s, j)
        /\ Cardinality(PlacesIn(t, k)) = Cardinality(PlacesIn(s, k)) + 1
    BY <1>1, <1>6, PlacesGrown
  <2>2. \A j : \A m \in PlacesIn(s, j) : m < Len(s) + 1
    BY <2>1 DEF PlacesIn
  <2>3. \A j : j # k => Places(j)' = Places(j)
    BY <1>2, <1>3, <2>1
  <2>4. Cardinality(Places(k)') = Cardinality(Places(k)) + 1
    BY <1>2, <1>3, <2>1
  <2>5. Places(k)' = Places(k) \cup {Len(s) + 1} /\ \A j : \A m \in Places(j) : m < Len(s) + 1
    BY <1>2, <1>3, <2>1, <2>2
  <2>6. \A j : j # k => Cardinality(Places(j)') <= Cardinality(Places(j))
    BY <1>4, <2>3
  <2>7. Len(s) + 1 \in Nat
    BY <2>1
  <2> QED
    BY <1>4, <1>6, <2>3, <2>4, <2>5, <2>6, <2>7
<1>7. CASE Shrunk(s, t) /\ Resets(calls[k])
  <2>1. \A j : Cardinality(Places(j)') <= Cardinality(Places(j))
    <3> TAKE j
    <3>1. Cardinality(PlacesIn(t, j)) <= Cardinality(PlacesIn(s, j))
      BY <1>7, PlacesShrunk
    <3> QED
      BY <1>2, <1>3, <3>1
  <2> QED
    BY <1>4, <1>7, <2>1
<1> QED
  BY <1>1, <1>5, <1>6, <1>7

\* After a step that resets something, nothing stands; after another, what
\* stood and perhaps the call whose request it was.
LEMMA TakeStanding ==
  ASSUME IInv, NEW k, NEW attempt, take(k, attempt)
  PROVE  /\ Resets(calls[k]) => held' = {} /\ Standing' = {}
         /\ ~Resets(calls[k]) => held' = held /\ Standing' \subseteq Standing \cup {k}
<1>1. /\ k \in DOMAIN calls /\ DOMAIN calls' = DOMAIN calls
      /\ \A j \in DOMAIN calls :
           /\ calls'[j].status = calls[j].status
           /\ j # k => calls'[j].effects = calls[j].effects
  BY TakenCalls
<1>2. \A j \in DOMAIN calls : Running(j)' <=> Running(j)
  BY <1>1 DEF Running
<1>3. CASE Resets(calls[k])
  <2>1. held' = {} /\ cut' = {j \in DOMAIN calls : Running(j)}
    BY <1>3 DEF take
  <2> QED
    BY <1>1, <1>2, <1>3, <2>1 DEF Standing
<1>4. CASE ~Resets(calls[k])
  <2>1. held' = held /\ cut' = cut
    BY <1>4 DEF take
  <2> QED
    BY <1>1, <1>2, <1>4, <2>1 DEF Standing
<1> QED
  BY <1>3, <1>4

\* The counter is at least the additions that stand, ...
LEMMA TakeCounting ==
  ASSUME IInv, NEW k, NEW attempt, take(k, attempt)
  PROVE  Cardinality(Counting') <= Count'
<1>1. /\ k \in DOMAIN calls /\ DOMAIN calls' = DOMAIN calls
      /\ \A j \in DOMAIN calls : Adding(j, Counter)' <=> Adding(j, Counter)
  BY TakenCalls
<1>2. /\ Count \in Nat /\ Count' \in Nat
      /\ ~Resets(calls[k]) => Count' = IF Adding(k, Counter) THEN Count + 1 ELSE Count
  BY TakenCount DEF IInv
<1>3. IsFiniteSet(Counting) /\ Cardinality(Counting) \in Nat /\ Cardinality(Counting) <= Count
  BY StandingFinite DEF IInv, Counting, Additions
<1>4. CASE Resets(calls[k])
  <2>1. Counting' = {}
    BY <1>4, TakeStanding DEF Counting
  <2> QED
    BY <1>2, <2>1, FS_EmptySet
<1>5. CASE ~Resets(calls[k]) /\ Adding(k, Counter)
  <2>1. Counting' \subseteq Counting \cup {k}
    <3> SUFFICES ASSUME NEW j \in Counting' PROVE j \in Counting \cup {k}
      OBVIOUS
    <3>1. j \in Standing \cup {k} /\ j \in DOMAIN calls /\ Adding(j, Counter)
      BY <1>1, <1>5, TakeStanding DEF Counting, Standing
    <3> QED
      BY <3>1 DEF Counting
  <2>2. /\ IsFiniteSet(Counting \cup {k})
        /\ Cardinality(Counting \cup {k}) \in {Cardinality(Counting), Cardinality(Counting) + 1}
    BY <1>3, FS_AddElement
  <2>3. IsFiniteSet(Counting') /\ Cardinality(Counting') <= Cardinality(Counting \cup {k})
    BY <2>1, <2>2, FS_Subset
  <2>4. Cardinality(Counting') \in Nat
    BY <2>3, FS_CardinalityType
  <2> QED
    BY <1>2, <1>3, <1>5, <2>2, <2>3, <2>4
<1>6. CASE ~Resets(calls[k]) /\ ~Adding(k, Counter)
  <2>1. Counting' \subseteq Counting
    <3> SUFFICES ASSUME NEW j \in Counting' PROVE j \in Counting
      OBVIOUS
    <3>1. j \in Standing \cup {k} /\ j \in DOMAIN calls /\ Adding(j, Counter)
      BY <1>1, <1>6, TakeStanding DEF Counting, Standing
    <3> QED
      BY <1>6, <3>1 DEF Counting
  <2>2. IsFiniteSet(Counting') /\ Cardinality(Counting') <= Cardinality(Counting)
    BY <1>3, <2>1, FS_Subset
  <2>3. Cardinality(Counting') \in Nat
    BY <2>2, FS_CardinalityType
  <2> QED
    BY <1>2, <1>3, <1>6, <2>2, <2>3
<1> QED
  BY <1>4, <1>5, <1>6

\* ... and at most the attempts at additions that are spent.
LEMMA TakeSpent ==
  ASSUME IInv, NEW k, NEW attempt, take(k, attempt)
  PROVE  Count' <= Cardinality(Spent')
<1>1. /\ k \in DOMAIN calls /\ attempt \in 1..calls[k].attempt
      /\ <<k, attempt>> \in wire /\ wire' = wire \ {<<k, attempt>>}
      /\ Inv' /\ Continues /\ DOMAIN calls' = DOMAIN calls
      /\ calls'[k].attempt = calls[k].attempt
      /\ Adding(k, Counter)' <=> Adding(k, Counter)
  BY TakenCalls
<1>2. /\ Count \in Nat /\ Count' \in Nat
      /\ Count' <= Count \/ (Adding(k, Counter) /\ Count' = Count + 1)
  BY TakenCount DEF IInv
<1>3. /\ Spent \subseteq Spent'
      /\ IsFiniteSet(Spent) /\ Cardinality(Spent) \in Nat
      /\ IsFiniteSet(Spent') /\ Cardinality(Spent') \in Nat
      /\ Cardinality(Spent) <= Cardinality(Spent')
  BY <1>1, SpentGrows DEF IInv
<1>4. Count <= Cardinality(Spent)
  BY DEF IInv, Additions
<1>5. CASE Count' <= Count
  BY <1>2, <1>3, <1>4, <1>5
<1>6. CASE Adding(k, Counter) /\ Count' = Count + 1
  <2> DEFINE m == <<k, attempt>>
  <2>1. calls[k].attempt \in 1..MaxAttempts
    BY <1>1 DEF IInv, Inv, CallsTyped
  <2>2. attempt \in 1..MaxAttempts /\ attempt <= calls[k].attempt
    BY <1>1, <2>1, BoundAssumption
  <2>3. m \notin Spent
    BY <1>1 DEF Spent
  <2>4. m \in Spent'
    BY <1>1, <1>6, <2>2 DEF Spent
  <2> HIDE DEF m
  <2>5. IsFiniteSet(Spent \cup {m}) /\ Cardinality(Spent \cup {m}) = Cardinality(Spent) + 1
    BY <1>3, <2>3, FS_AddElement
  <2>6. Spent \cup {m} \subseteq Spent'
    BY <1>3, <2>4
  <2>7. Cardinality(Spent \cup {m}) <= Cardinality(Spent')
    BY <1>3, <2>6, FS_Subset
  <2> QED
    BY <1>2, <1>3, <1>4, <1>6, <2>5, <2>7
<1> QED
  BY <1>2, <1>5, <1>6

\* A request that takes effect adds one at most, and so does its call stand for one.
LEMMA TakeAdditions ==
  ASSUME IInv, NEW k, NEW attempt, take(k, attempt)
  PROVE  Additions'
<1>1. /\ k \in DOMAIN calls /\ DOMAIN calls' = DOMAIN calls
      /\ \A j \in DOMAIN calls :
           /\ calls'[j].status = calls[j].status
           /\ calls'[j].effects = IF j = k THEN calls[j].effects + 1 ELSE calls[j].effects
           /\ calls[j].effects \in Nat
           /\ Adding(j, List)' <=> Adding(j, List)
  BY TakenCalls
<1>2. ASSUME NEW j \in Standing', Adding(j, List)' PROVE Places(j)' # {}
  <2>1. ~Resets(calls[k]) /\ j \in Standing \cup {k} /\ j \in DOMAIN calls /\ Adding(j, List)
    BY <1>1, <1>2, TakeStanding DEF Standing
  <2>2. CASE j = k
    <3>1. PICK n \in Nat : Places(k)' = Places(k) \cup {n}
      BY <2>1, <2>2, TakenPlaces
    <3> QED
      BY <2>2, <3>1
  <2>3. CASE j # k
    <3>1. Places(j)' = Places(j) /\ j \in Standing
      BY <2>1, <2>3, TakenPlaces
    <3>2. Places(j) # {}
      BY <2>1, <3>1 DEF IInv, Additions
    <3> QED
      BY <3>1, <3>2
  <2> QED
    BY <2>2, <2>3
<1>3. ASSUME NEW j \in DOMAIN calls' PROVE Cardinality(Places(j)') <= calls'[j].effects
  <2>1. j \in DOMAIN calls /\ calls[j].effects \in Nat
    BY <1>1
  <2>2. Cardinality(Places(j)) <= calls[j].effects
    BY <2>1 DEF IInv, Additions
  <2>3. Cardinality(Places(j)) \in Nat /\ Cardinality(Places(j)') \in Nat
    BY TakenPlaces
  <2>4. Cardinality(Places(j)') <= Cardinality(Places(j)) + (IF j = k THEN 1 ELSE 0)
    <3>1. CASE j = k
      BY <3>1, TakenPlaces
    <3>2. CASE j # k
      <4>1. Cardinality(Places(j)') <= Cardinality(Places(j))
        BY <3>2, TakenPlaces
      <4> QED
        BY <2>3, <3>2, <4>1
    <3> QED
      BY <3>1, <3>2
  <2> QED
    BY <1>1, <2>1, <2>2, <2>3, <2>4
<1>4. ASSUME NEW j \in held' PROVE calls'[j].status = "Ok"
  <2>1. j \in held
    BY TakeStanding
  <2>2. j \in DOMAIN calls /\ calls[j].status = "Ok"
    BY <2>1 DEF IInv, Inv, CallsTyped, Additions
  <2> QED
    BY <1>1, <2>2
<1>5. Cardinality(Counting') <= Count' /\ Count' <= Cardinality(Spent')
  BY TakeCounting, TakeSpent
<1> QED
  BY <1>2, <1>3, <1>4, <1>5 DEF Additions

\* What is appended comes behind everything.
LEMMA TakeOrder ==
  ASSUME IInv, NEW k, NEW attempt, take(k, attempt)
  PROVE  InOrder'
<1> SUFFICES ASSUME NEW b \in DOMAIN calls', NEW a \in held', a \in calls'[b].before, Adding(a, List)'
             PROVE  \E n \in Places(a)' : \A m \in Places(b)' : n < m
  BY DEF InOrder
<1>1. ~Resets(calls[k]) /\ a \in held
  BY TakeStanding
<1>2. b \in DOMAIN calls /\ a \in calls[b].before /\ a \in DOMAIN calls /\ Adding(a, List)
  <2>1. b \in DOMAIN calls /\ a \in DOMAIN calls
    BY <1>1, TakenCalls DEF IInv, Inv, CallsTyped
  <2> QED
    BY <2>1, TakenCalls DEF Continues
<1>3. PICK n \in Places(a) : \A m \in Places(b) : n < m
  BY <1>1, <1>2 DEF IInv, InOrder
<1>4. CASE ~Adding(k, List)
  <2>1. Places(a)' = Places(a) /\ Places(b)' = Places(b)
    BY <1>1, <1>4, TakenPlaces
  <2> QED
    BY <1>3, <2>1
<1>5. CASE Adding(k, List)
  <2>1. PICK last \in Nat : Places(k)' = Places(k) \cup {last} /\ \A j : \A m \in Places(j) : m < last
    BY <1>1, <1>5, TakenPlaces
  <2>2. \A j : j # k => Places(j)' = Places(j)
    BY <1>1, TakenPlaces
  <2>3. n \in Places(a)'
    BY <2>1, <2>2
  <2>4. \A m \in Places(b)' : m \in Places(b) \/ m = last
    BY <2>1, <2>2
  <2> QED
    BY <1>3, <2>1, <2>3, <2>4
<1> QED
  BY <1>4, <1>5

\* A call that was answered at its first attempt is not the one whose request
\* takes effect.
LEMMA TakenAnother ==
  ASSUME Inv, NEW k, NEW attempt, attempt \in 1..calls[k].attempt, <<k, attempt>> \in wire,
         NEW a \in DOMAIN calls, Answered(a), calls[a].attempt = 1
  PROVE  a # k /\ a # 0
<1>1. Honest(a) /\ a # 0
  <2>1. DOMAIN calls = 1..Len(calls) /\ Len(calls) \in Nat
    BY CallsAre DEF Inv
  <2> QED
    BY <2>1 DEF Inv
<1>2. <<a, 1>> \notin wire
  BY <1>1 DEF Honest
<1> QED
  BY <1>1, <1>2

\* A value that was set is not replaced by an older one.
LEMMA TakeStuck ==
  ASSUME IInv, NEW k, NEW attempt, take(k, attempt)
  PROVE  Stuck'
<1> SUFFICES ASSUME NEW b \in DOMAIN calls', NEW a \in calls'[b].before, NEW attr \in {Mark, Stamp},
                    calls'[b].op = "update", calls'[b].effects >= 1,
                    attr \in {t.attr : t \in Targets(calls'[b].req)}, calls'[a].attempt = 1
             PROVE  Setting(attr)' \notin Own(a)
  BY DEF Stuck
<1>1. /\ b \in DOMAIN calls /\ a \in calls[b].before /\ calls[b].op = "update"
      /\ attr \in {t.attr : t \in Targets(calls[b].req)}
      /\ b # k => calls[b].effects >= 1
  BY TakenCalls DEF Continues
<1>2. /\ a \in DOMAIN calls /\ calls[a].attempt = 1 /\ calls[a].status = "Ok"
  <2>1. Len(calls) \in Nat /\ DOMAIN calls = 1..Len(calls)
    BY CallsAre DEF IInv, Inv
  <2>2. a \in 1..(b - 1) /\ calls[a].status = "Ok"
    BY <1>1 DEF IInv, Inv, CallsTyped, CallsOwned
  <2>3. a \in DOMAIN calls
    BY <1>1, <2>1, <2>2
  <2> QED
    BY <2>2, <2>3, TakenCalls
<1>3. a # k /\ a # 0
  BY <1>2, TakenCalls, TakenAnother DEF IInv, Answered
<1>4. CASE Setting(attr)' \in Own(k) \cup {S(0)}
  <2>1. Own(k) \cap Own(a) = {} /\ Own(0) \cap Own(a) = {}
    BY <1>3, OwnApart
  <2>2. S(0) \in Own(0)
    BY DEF Own
  <2> QED
    BY <1>4, <2>1, <2>2
<1>5. CASE /\ Setting(attr)' = Setting(attr)
           /\ ~(calls[k].op = "update" /\ attr \in {t.attr : t \in Targets(calls[k].req)})
  <2>1. b # k
    BY <1>1, <1>5
  <2>2. Setting(attr) \notin Own(a)
    BY <1>1, <1>2, <2>1 DEF IInv, Stuck
  <2> QED
    BY <1>5, <2>2
<1> QED
  BY <1>4, <1>5, TakenSettings DEF IInv

\* What was settled when the item was deleted does not come back.
LEMMA TakeGone ==
  ASSUME IInv, NEW k, NEW attempt, take(k, attempt)
  PROVE  Gone'
<1> SUFFICES ASSUME NEW j \in settled'
             PROVE  /\ \A attr \in {Mark, Stamp} : Setting(attr)' \notin Own(j)
                    /\ Places(j)' = {}
  BY DEF Gone
<1>1. CASE calls[k].op = "delete"
  <2>1. item' = Empty /\ DOMAIN Empty = {} /\ j \in DOMAIN calls
    BY <1>1 DEF take, Empty
  <2>2. \A attr : Setting(attr)' = S(0)
    BY <2>1 DEF Setting, Or
  <2>3. j # 0
    BY <2>1, CallsAre DEF IInv, Inv
  <2>4. S(0) \in Own(0) /\ Own(0) \cap Own(j) = {}
    BY <2>3, OwnApart DEF Own
  <2>5. Or(item', List, L(<<>>)) = L(<<>>)
    BY <2>1 DEF Or
  <2>6. Appended' = <<>>
    BY <2>5 DEF Appended, L
  <2>7. Places(j)' = {}
    BY <2>6 DEF Places
  <2> QED
    BY <2>2, <2>4, <2>7
<1>2. CASE calls[k].op # "delete"
  <2>1. j \in settled
    BY <1>2 DEF take
  <2>2. j \in DOMAIN calls /\ Answered(j) /\ calls[j].attempt = 1
    BY <2>1 DEF IInv, Inv, CallsTyped, Settled
  <2>3. j # k /\ j # 0
    BY <2>2, TakenCalls, TakenAnother DEF IInv
  <2>4. Own(k) \cap Own(j) = {} /\ Own(0) \cap Own(j) = {} /\ S(0) \in Own(0)
    BY <2>3, OwnApart DEF Own
  <2>5. ASSUME NEW attr \in {Mark, Stamp} PROVE Setting(attr)' \notin Own(j)
    <3>1. Setting(attr) \notin Own(j)
      BY <2>1 DEF IInv, Gone
    <3>2. Setting(attr)' \in Own(k) \cup {S(0)} \/ Setting(attr)' = Setting(attr)
      BY TakenSettings DEF IInv
    <3> QED
      BY <2>4, <3>1, <3>2
  <2>6. Places(j)' = {}
    <3>1. /\ Cardinality(Places(j)') <= Cardinality(Places(j)) /\ IsFiniteSet(Places(j)')
          /\ Cardinality(Places(j)') \in Nat
      BY <2>3, TakenPlaces
    <3>2. Cardinality(Places(j)) = 0
      BY <2>1, FS_EmptySet DEF IInv, Gone
    <3>3. Cardinality(Places(j)') = 0
      BY <3>1, <3>2
    <3> QED
      BY <3>1, <3>3, FS_EmptySet
  <2> QED
    BY <2>5, <2>6
<1> QED
  BY <1>1, <1>2

\* A request that takes effect keeps IInv.
LEMMA TakeStays ==
  ASSUME IInv, NEW k, NEW attempt, take(k, attempt)
  PROVE  IInv'
<1>1. Inv'
  BY TakenCalls
<1> QED
  BY <1>1, TakeCallsOwned, TakeItemOwned, TakeAdditions, TakeOrder, TakeStuck, TakeGone DEF IInv

-----------------------------------------------------------------------------
(* The theorems about the item *)

\* IInv holds at first, ...
LEMMA InitIInv == Init => IInv
<1> SUFFICES ASSUME Init PROVE IInv
  OBVIOUS
<1>1. calls = <<>> /\ wire = {} /\ held = {} /\ cut = {} /\ settled = {} /\ item \in Items
  BY DEF Init
<1>2. Len(calls) = 0 /\ DOMAIN calls = {}
  BY <1>1
<1>3. Own(0) \subseteq Borne(0) /\ S(0) \in Borne(0)
  BY BorneOwn
<1>4. \A attr \in {Mark, Stamp} : Setting(attr) \in Borne(0)
  BY <1>1, <1>3, ItemsAssumption DEF Setting, Or, Own
<1>5. Or(item, Counter, N(0)) = N(0) /\ Or(item, List, L(<<>>)) = L(<<>>)
  BY <1>1, ItemsAssumption DEF Or
<1>6. N(0) \in [N : Nat] /\ N(0).N = 0 /\ <<>> \in Seq(Borne(0))
  BY EmptySeq DEF N
<1>7. ItemOwned
  BY <1>2, <1>4, <1>5, <1>6 DEF ItemOwned
<1>8. Additions
  <2>1. Standing = {} /\ Counting = {} /\ Spent = {}
    BY <1>2 DEF Standing, Counting, Spent
  <2>2. Count = 0 /\ Cardinality({}) = 0
    BY <1>5, <1>6, FS_EmptySet DEF Count
  <2> QED
    BY <1>1, <1>2, <2>1, <2>2 DEF Additions
<1>9. CallsOwned /\ InOrder /\ Stuck /\ Gone
  BY <1>1, <1>2 DEF CallsOwned, InOrder, Stuck, Gone
<1> QED
  BY <1>7, <1>8, <1>9, InitInv DEF IInv

\* ... and every step keeps it.
LEMMA NextIInv == IInv /\ [Next]_vars => IInv'
<1> SUFFICES ASSUME IInv, [Next]_vars PROVE IInv'
  OBVIOUS
<1>1. CASE CallNext
  BY <1>1, CallNextStays
<1>2. CASE \E m \in wire : take(m[1], m[2]) \/ turn_down(m[1], m[2])
  BY <1>2, TakeStays, TurnDownStays
<1>3. CASE \E k \in DOMAIN calls : Sdk(k)
  BY <1>3, HearStays, RetryStays, GiveUpStays DEF Sdk
<1>4. CASE UNCHANGED vars
  <2>1. Inv'
    BY <1>4, NextInv DEF IInv
  <2>2. Continues
    <3>1. \A k \in DOMAIN calls : calls[k].attempt >= calls[k].attempt
      BY BoundAssumption DEF IInv, Inv, CallsTyped
    <3> QED
      BY <1>4, <3>1 DEF vars, Continues
  <2>3. Still
    <3>1. \A k \in held : calls[k].status = "Ok"
      BY DEF IInv, Additions
    <3>2. Standing' = Standing
      BY <1>4 DEF vars, Standing, Running
    <3> QED
      BY <1>4, <3>1, <3>2 DEF vars, Still
  <2> QED
    BY <2>1, <2>2, <2>3, StillKeeps
<1> QED
  BY <1>1, <1>2, <1>3, <1>4 DEF Next

\* What the item holds fits the calls in every state that clients, the SDK and
\* DynamoDB reach.
THEOREM ItemInvariance == Spec => []IInv
<1> QED
  BY InitIInv, NextIInv, PTL DEF Spec

\* An item that was deleted does not come back as what an update makes of
\* nothing that had been answered, at its first attempt, by then.
THEOREM ComebackCorrect == Spec => []NoComeback
<1>1. IInv => NoComeback
  BY DEF IInv, Gone, NoComeback, Setting
<1> QED
  BY <1>1, ItemInvariance, PTL

\* update_s, update_n and the others: a value that was set is not replaced by
\* that of an earlier call, unless the SDK sent that one again.
THEOREM SticksCorrect == Spec => []SetSticks
<1>1. IInv => SetSticks
  <2> SUFFICES ASSUME IInv, NEW attr \in {Mark, Stamp}, NEW a \in DOMAIN calls, NEW b \in DOMAIN calls,
                      Or(item, attr, S(0)) \in Own(a), a \in calls[b].before,
                      calls[b].op = "update", calls[b].status = "Ok",
                      attr \in {t.attr : t \in Targets(calls[b].req)}
               PROVE  calls[a].attempt > 1
    BY DEF SetSticks
  <2>1. calls[a].attempt \in 1..MaxAttempts /\ Honest(b)
    BY DEF IInv, Inv, CallsTyped
  <2>2. calls[b].effects >= 1
    BY <2>1 DEF Honest
  <2>3. calls[a].attempt # 1
    BY <2>2 DEF IInv, Stuck, Setting
  <2> QED
    BY <2>1, <2>3, BoundAssumption
<1> QED
  BY <1>1, ItemInvariance, PTL

\* update_add_list: elements are in the order in which they were appended.
THEOREM OrderCorrect == Spec => []AppendsInOrder
<1>1. IInv => AppendsInOrder
  <2> SUFFICES ASSUME IInv, NEW a \in held, NEW b \in held, Adding(a, List), a \in calls[b].before
               PROVE  \E n \in Places(a) : \A m \in Places(b) : n < m
    BY DEF AppendsInOrder
  <2>1. b \in DOMAIN calls
    BY DEF IInv, Inv, CallsTyped
  <2> QED
    BY <2>1 DEF IInv, InOrder
<1> QED
  BY <1>1, ItemInvariance, PTL

\* update_add, update_add_ts and update_add_list: no addition is lost to
\* another, and none counts more often than the SDK sent it.
THEOREM AdditionsCorrect == Spec => []EveryAdditionCounts
<1>1. IInv => EveryAdditionCounts
  <2> SUFFICES ASSUME IInv PROVE EveryAdditionCounts
    OBVIOUS
  <2> DEFINE told == {k \in held : Adding(k, Counter)}
             sent == {m \in (DOMAIN calls) \X (1..MaxAttempts) :
                        Adding(m[1], Counter) /\ m[2] <= calls[m[1]].attempt}
  <2>1. /\ Cardinality(Counting) <= Count /\ Count <= Cardinality(Spent) /\ Count \in Nat
        /\ \A k \in Standing : Adding(k, List) => Places(k) # {}
        /\ \A k \in DOMAIN calls : Cardinality(Places(k)) <= calls[k].effects
    BY DEF IInv, Additions, ItemOwned, Count
  <2>2. held \subseteq Standing
    BY DEF IInv, Inv, CallsTyped, Standing
  <2>3. Cardinality(told) <= Count
    <3>1. told \subseteq Counting
      BY <2>2 DEF Counting
    <3>2. IsFiniteSet(Counting) /\ Cardinality(Counting) \in Nat
      BY StandingFinite DEF IInv, Counting
    <3> HIDE DEF told
    <3>3. IsFiniteSet(told) /\ Cardinality(told) <= Cardinality(Counting)
      BY <3>1, <3>2, FS_Subset
    <3>4. Cardinality(told) \in Nat
      BY <3>3, FS_CardinalityType
    <3> QED
      BY <2>1, <3>2, <3>3, <3>4
  <2>4. Count <= Cardinality(sent)
    <3>1. Spent \subseteq sent
      BY DEF Spent
    <3>2. Len(calls) \in Nat /\ DOMAIN calls = 1..Len(calls)
      BY CallsAre DEF IInv, Inv
    <3>3. sent \subseteq (1..Len(calls)) \X (1..MaxAttempts)
      BY <3>2
    <3> HIDE DEF sent
    <3>4. IsFiniteSet(sent) /\ Cardinality(sent) \in Nat
      BY <3>2, <3>3, PairsFinite
    <3>5. IsFiniteSet(Spent) /\ Cardinality(Spent) <= Cardinality(sent)
      BY <3>1, <3>4, FS_Subset
    <3>6. Cardinality(Spent) \in Nat
      BY <3>5, FS_CardinalityType
    <3> QED
      BY <2>1, <3>4, <3>5, <3>6
  <2>5. ASSUME NEW k \in DOMAIN calls PROVE Cardinality(Places(k)) <= calls[k].attempt
    <3>1. Counted(k) /\ calls[k].effects \in Nat /\ calls[k].attempt \in Nat
      BY BoundAssumption DEF IInv, Inv, CallsTyped
    <3>2. Cardinality(Pending(k)) \in Nat
      BY PendingFinite
    <3>3. calls[k].effects <= calls[k].attempt
      BY <3>1, <3>2 DEF Counted
    <3>4. Cardinality(Places(k)) \in Nat
      <4>1. PICK s \in Seq(Borne(Len(calls))) : Or(item, List, L(<<>>)) = L(s)
        BY DEF IInv, ItemOwned
      <4> QED
        BY <4>1, AppendedIs, PlacesFinite
    <3> QED
      BY <2>1, <3>1, <3>3, <3>4
  <2>6. \A k \in held : Adding(k, List) => Places(k) # {}
    BY <2>1, <2>2
  <2> QED
    BY <2>3, <2>4, <2>5, <2>6 DEF EveryAdditionCounts, Count
<1> QED
  BY <1>1, ItemInvariance, PTL

\* TypeOK: the attributes of the item keep the types of what is set, counted
\* and appended.
THEOREM TypeCorrect == Spec => []TypeOK
<1>1. IInv => TypeOK
  <2> SUFFICES ASSUME IInv PROVE TypeOK
    OBVIOUS
  <2>1. \A n, v : v \in Own(n) => Type(v) \in {"S", "N"}
    <3> TAKE n, v
    <3>1. DOMAIN S(n) = {"S"} /\ DOMAIN N(n) = {"N"}
      BY DEF S, N
    <3>2. Type(S(n)) = "S" /\ Type(N(n)) = "N"
      BY <3>1 DEF Type
    <3> QED
      BY <3>2 DEF Own
  <2>2. \A v \in Borne(Len(calls)) : Type(v) \in {"S", "N"}
    BY <2>1 DEF Borne
  <2>3. \A attr \in {Mark, Stamp} \cap DOMAIN item : Type(item[attr]) \in {"S", "N"}
    <3> TAKE attr \in {Mark, Stamp} \cap DOMAIN item
    <3>1. Setting(attr) \in Borne(Len(calls)) /\ Setting(attr) = item[attr]
      BY DEF IInv, ItemOwned, Setting, Or
    <3> QED
      BY <2>2, <3>1
  <2>4. Counter \in DOMAIN item => item[Counter] \in [N : Nat]
    BY DEF IInv, ItemOwned, Or
  <2>5. ASSUME List \in DOMAIN item, NEW v \in ToSet(item[List].L) PROVE Type(v) \in {"S", "N"}
    <3>1. PICK s \in Seq(Borne(Len(calls))) : Or(item, List, L(<<>>)) = L(s)
      BY DEF IInv, ItemOwned
    <3>2. item[List].L = s
      BY <2>5, <3>1 DEF Or, L
    <3>3. \A n \in DOMAIN s : s[n] \in Borne(Len(calls))
      BY LenProperties, ElementOfSeq
    <3>4. v \in Borne(Len(calls))
      BY <2>5, <3>2, <3>3 DEF ToSet
    <3> QED
      BY <2>2, <3>4
  <2>6. ItemTyped
    BY <2>3, <2>4, <2>5 DEF ItemTyped
  <2> QED
    BY <2>6 DEF IInv, Inv, TypeOK
<1> QED
  BY <1>1, ItemInvariance, PTL

-----------------------------------------------------------------------------
(* What UpdatesBuilder builds, by induction over the calls                 *)

\* A set of numbers that has 0 and what follows its numbers has all.
LEMMA AllNumbers ==
  ASSUME NEW Q, 0 \in Q, \A n \in Nat : n \in Q => n + 1 \in Q
  PROVE  Nat \subseteq Q
<1> DEFINE T == Nat \ Q
           R == {ss \in Nat \X Nat : ss[1] < ss[2]}
<1>0. IsWellFoundedOn(R, Nat)
  BY NatLessThanWellFounded DEF OpToRel
<1>1. SUFFICES ASSUME T # {} PROVE FALSE
  OBVIOUS
<1>2. PICK n \in T : \A m \in T : <<m, n>> \notin R
  <2>1. T \subseteq Nat
    OBVIOUS
  <2> HIDE DEF T, R
  <2> QED
    BY <1>0, <1>1, <2>1, WFMin
<1>3. n \in Nat /\ n \notin Q /\ n # 0
  OBVIOUS
<1>4. n - 1 \in Nat /\ <<n - 1, n>> \in R
  BY <1>3
<1>5. n - 1 \in Q
  BY <1>2, <1>4
<1> QED
  BY <1>3, <1>4, <1>5

-----------------------------------------------------------------------------
(* What a chain of calls builds, and what it means: one call after another *)

BuilderRun(f, given, steps, n) ==
  f = [k \in 0..n |-> IF k = 0 THEN set_pksk(Updates, given) ELSE With(f[k - 1], steps[k])]

\* Any number of calls can be made.
LEMMA BuilderRunExists ==
  ASSUME NEW given, NEW steps, NEW n \in Nat
  PROVE  \E f : BuilderRun(f, given, steps, n)
<1> DEFINE Q == {m \in Nat : \E f : BuilderRun(f, given, steps, m)}
<1>1. 0 \in Q
  <2> DEFINE f == [k \in 0..0 |-> set_pksk(Updates, given)]
  <2>1. BuilderRun(f, given, steps, 0)
    BY DEF BuilderRun
  <2> QED
    BY <2>1
<1>2. ASSUME NEW m \in Nat, m \in Q PROVE m + 1 \in Q
  <2>1. PICK f : BuilderRun(f, given, steps, m)
    BY <1>2
  <2> DEFINE g == [k \in 0..(m + 1) |-> IF k <= m THEN f[k] ELSE With(f[m], steps[m + 1])]
             start == set_pksk(Updates, given)
             h == [k \in 0..(m + 1) |-> IF k = 0 THEN start ELSE With(g[k - 1], steps[k])]
  <2>2. ASSUME NEW k \in 0..(m + 1) PROVE g[k] = IF k = 0 THEN start ELSE With(g[k - 1], steps[k])
    <3>1. CASE k = m + 1
      <4>1. k - 1 = m /\ k # 0 /\ ~(k <= m) /\ m \in 0..(m + 1) /\ m <= m
        BY <3>1
      <4>2. g[k] = With(f[m], steps[m + 1]) /\ g[m] = f[m]
        BY <4>1
      <4> QED
        BY <3>1, <4>1, <4>2
    <3>2. CASE k # m + 1
      <4>1. k \in 0..m /\ k <= m
        BY <3>2
      <4>2. f[k] = IF k = 0 THEN start ELSE With(f[k - 1], steps[k])
        BY <2>1, <4>1 DEF BuilderRun
      <4>3. g[k] = f[k]
        BY <4>1
      <4>4. k # 0 => k - 1 \in 0..(m + 1) /\ k - 1 <= m
        BY <4>1
      <4>5. k # 0 => g[k - 1] = f[k - 1]
        BY <4>4
      <4> QED
        BY <4>2, <4>3, <4>5
    <3> QED
      BY <3>1, <3>2
  <2>3. g = [k \in 0..(m + 1) |-> g[k]]
    OBVIOUS
  <2> HIDE DEF g, start
  <2>4. g = h
    BY <2>2, <2>3
  <2>5. BuilderRun(g, given, steps, m + 1)
    BY <2>4 DEF BuilderRun, start
  <2> QED
    BY <2>5
<1> HIDE DEF Q
<1>3. Nat \subseteq Q
  BY <1>1, <1>2, AllNumbers
<1> QED
  BY <1>3 DEF Q

\* The builder: a state for each number of calls.
LEMMA BuiltRun ==
  ASSUME NEW given, NEW steps, Len(steps) \in Nat
  PROVE  \E f : /\ f[0] = set_pksk(Updates, given)
                /\ \A n \in 1..Len(steps) : f[n] = With(f[n - 1], steps[n])
                /\ Built(given, steps) = f[Len(steps)]
<1> DEFINE start == set_pksk(Updates, given)
           f == CHOOSE g : BuilderRun(g, given, steps, Len(steps))
<1>1. BuilderRun(f, given, steps, Len(steps))
  BY BuilderRunExists
<1>2. Built(given, steps) = f[Len(steps)]
  BY DEF Built, BuilderRun
<1> HIDE DEF f
<1>3. f = [k \in 0..Len(steps) |-> IF k = 0 THEN start ELSE With(f[k - 1], steps[k])]
  BY <1>1 DEF BuilderRun
<1>4. \A n \in 1..Len(steps) : n \in 0..Len(steps) /\ n # 0
  OBVIOUS
<1> HIDE DEF start
<1>5. f[0] = start /\ \A n \in 1..Len(steps) : f[n] = With(f[n - 1], steps[n])
  BY <1>3, <1>4
<1> QED
  BY <1>2, <1>5 DEF start

\* What they mean: an item for each number of calls.
ItemRun(f, i, steps, n) ==
  f = [k \in 0..n |-> IF k = 0 THEN i ELSE Meant(f[k - 1], steps[k])]

\* Any number of calls mean something.
LEMMA ItemRunExists ==
  ASSUME NEW i, NEW steps, NEW n \in Nat
  PROVE  \E f : ItemRun(f, i, steps, n)
<1> DEFINE Q == {m \in Nat : \E f : ItemRun(f, i, steps, m)}
<1>1. 0 \in Q
  <2> DEFINE f == [k \in 0..0 |-> i]
  <2>1. ItemRun(f, i, steps, 0)
    BY DEF ItemRun
  <2> QED
    BY <2>1
<1>2. ASSUME NEW m \in Nat, m \in Q PROVE m + 1 \in Q
  <2>1. PICK f : ItemRun(f, i, steps, m)
    BY <1>2
  <2> DEFINE g == [k \in 0..(m + 1) |-> IF k <= m THEN f[k] ELSE Meant(f[m], steps[m + 1])]
             h == [k \in 0..(m + 1) |-> IF k = 0 THEN i ELSE Meant(g[k - 1], steps[k])]
  <2>2. ASSUME NEW k \in 0..(m + 1) PROVE g[k] = IF k = 0 THEN i ELSE Meant(g[k - 1], steps[k])
    <3>1. CASE k = m + 1
      <4>1. k - 1 = m /\ k # 0 /\ ~(k <= m) /\ m \in 0..(m + 1) /\ m <= m
        BY <3>1
      <4>2. g[k] = Meant(f[m], steps[m + 1]) /\ g[m] = f[m]
        BY <4>1
      <4> QED
        BY <3>1, <4>1, <4>2
    <3>2. CASE k # m + 1
      <4>1. k \in 0..m /\ k <= m
        BY <3>2
      <4>2. f[k] = IF k = 0 THEN i ELSE Meant(f[k - 1], steps[k])
        BY <2>1, <4>1 DEF ItemRun
      <4>3. g[k] = f[k]
        BY <4>1
      <4>4. k # 0 => k - 1 \in 0..(m + 1) /\ k - 1 <= m
        BY <4>1
      <4>5. k # 0 => g[k - 1] = f[k - 1]
        BY <4>4
      <4> QED
        BY <4>2, <4>3, <4>5
    <3> QED
      BY <3>1, <3>2
  <2>3. g = [k \in 0..(m + 1) |-> g[k]]
    OBVIOUS
  <2> HIDE DEF g
  <2>4. g = h
    BY <2>2, <2>3
  <2>5. ItemRun(g, i, steps, m + 1)
    BY <2>4 DEF ItemRun
  <2> QED
    BY <2>5
<1> HIDE DEF Q
<1>3. Nat \subseteq Q
  BY <1>1, <1>2, AllNumbers
<1> QED
  BY <1>3 DEF Q

\* The items that the calls mean, one after another.
LEMMA MeantRun ==
  ASSUME NEW i, NEW steps, Len(steps) \in Nat
  PROVE  \E f : /\ f[0] = i
                /\ \A n \in 1..Len(steps) : f[n] = Meant(f[n - 1], steps[n])
                /\ Together(i, steps) = f[Len(steps)]
<1> DEFINE f == CHOOSE g : ItemRun(g, i, steps, Len(steps))
<1>1. ItemRun(f, i, steps, Len(steps))
  BY ItemRunExists
<1>2. Together(i, steps) = f[Len(steps)]
  BY DEF Together, ItemRun
<1> HIDE DEF f
<1>3. f = [k \in 0..Len(steps) |-> IF k = 0 THEN i ELSE Meant(f[k - 1], steps[k])]
  BY <1>1 DEF ItemRun
<1>4. \A n \in 1..Len(steps) : n \in 0..Len(steps) /\ n # 0
  OBVIOUS
<1>5. f[0] = i /\ \A n \in 1..Len(steps) : f[n] = Meant(f[n - 1], steps[n])
  BY <1>3, <1>4
<1> QED
  BY <1>2, <1>5

-----------------------------------------------------------------------------
(* What the builder holds *)

AllOps == {"set", "element", "append", "remove", "add", "delete"}
SetOps == {"set", "element", "append"}
UpdateFields == {"key", "ues", "uer", "uea", "ued", "ean", "eav"}

\* The clause of a call, and what it binds: names and values.
Clause(step) ==
  CASE step.op = "set"     -> Set(P(step.name), NoKeyName, "value", <<V(step.name)>>)
    [] step.op = "element" -> Set(P("mapName"), P("keyName"), "value", <<V("valueName")>>)
    [] step.op = "append"  -> Set(P(step.name), NoKeyName, "append", <<V("elst"), V("val")>>)
    [] step.op = "remove"  -> [name |-> P(step.name), at |-> step.at]
    [] OTHER               -> [name |-> P(step.name), val |-> V(step.name)]
NamesOf(step) ==
  IF step.op = "element" THEN Bind(P("keyName"), step.key) ++ Bind(P("mapName"), step.name)
  ELSE Bind(P(step.name), step.name)
ValuesOf(step) ==
  CASE step.op = "element" -> Bind(V("valueName"), step.v)
    [] step.op = "append"  -> Bind(V("val"), step.v) ++ Bind(V("elst"), L(<<>>))
    [] step.op = "remove"  -> Empty
    [] OTHER               -> Bind(V(step.name), step.v)

\* One list of clauses has those of the calls of its kind: of each one, at a
\* place of its own.
Of(steps, n, ops) == {j \in 1..n : steps[j].op \in ops}
InList(seq, steps, n, ops, at) ==
  /\ seq \in Seq(ToSet(seq))
  /\ \A j \in Of(steps, n, ops) : at[j] \in DOMAIN seq /\ seq[at[j]] = Clause(steps[j])
  /\ \A m \in DOMAIN seq : \E j \in Of(steps, n, ops) : at[j] = m
  /\ \A j, k \in Of(steps, n, ops) : at[j] = at[k] => j = k

\* Some bindings in one: of those that bind the same placeholder, one holds.
Merged(f, parts) ==
  /\ \A g \in parts : DOMAIN g \subseteq DOMAIN f
  /\ \A p \in DOMAIN f : \E g \in parts : p \in DOMAIN g /\ f[p] = g[p]

Builder(u, given, steps, n, at) ==
  /\ DOMAIN u = UpdateFields /\ u.key = given
  /\ InList(u.ues, steps, n, SetOps, at)
  /\ InList(u.uer, steps, n, {"remove"}, at)
  /\ InList(u.uea, steps, n, {"add"}, at)
  /\ InList(u.ued, steps, n, {"delete"}, at)
  /\ Merged(u.ean, {NamesOf(steps[j]) : j \in 1..n})
  /\ Merged(u.eav, {ValuesOf(steps[j]) : j \in 1..n})

\* Bindings one before another, and before others still.
LEMMA TwoBinds ==
  ASSUME NEW f, NEW g, NEW h
  PROVE  f ++ (g ++ h) = (f ++ g) ++ h
<1>1. DOMAIN (f ++ (g ++ h)) = DOMAIN ((f ++ g) ++ h)
  BY DEF ++
<1>2. \A p \in DOMAIN (f ++ (g ++ h)) : (f ++ (g ++ h))[p] = ((f ++ g) ++ h)[p]
  BY DEF ++
<1> QED
  BY <1>1, <1>2 DEF ++

\* Bindings before others: those that hold are of either.
LEMMA MergedMore ==
  ASSUME NEW f, NEW parts, Merged(f, parts), NEW g
  PROVE  Merged(g ++ f, parts \cup {g})
<1>1. DOMAIN (g ++ f) = DOMAIN g \cup DOMAIN f
  BY DEF ++
<1>2. ASSUME NEW p \in DOMAIN (g ++ f)
      PROVE  \E h \in parts \cup {g} : p \in DOMAIN h /\ (g ++ f)[p] = h[p]
  <2>1. CASE p \in DOMAIN g
    <3>1. (g ++ f)[p] = g[p]
      BY <2>1 DEF ++
    <3> QED
      BY <2>1, <3>1
  <2>2. CASE p \notin DOMAIN g
    <3>1. p \in DOMAIN f /\ (g ++ f)[p] = f[p]
      BY <1>1, <2>2 DEF ++
    <3> QED
      BY <3>1 DEF Merged
  <2> QED
    BY <2>1, <2>2
<1> QED
  BY <1>1, <1>2 DEF Merged

\* What one call does.
LEMMA WithFields ==
  ASSUME NEW u, DOMAIN u = UpdateFields, NEW step, step.op \in AllOps
  PROVE  DOMAIN With(u, step) = UpdateFields /\ With(u, step).key = u.key
<1>1. CASE step.op = "set"
  BY <1>1 DEF With, add_update, SetName, SetValue, UpdateFields
<1>2. CASE step.op = "element"
  BY <1>2 DEF With, add_map_element, SetName, SetValue, UpdateFields
<1>3. CASE step.op = "append"
  BY <1>3 DEF With, append, SetName, SetValue, UpdateFields
<1>4. CASE step.op = "remove"
  BY <1>4 DEF With, remove, SetName, SetValue, UpdateFields
<1>5. CASE step.op = "add"
  BY <1>5 DEF With, add, SetName, SetValue, UpdateFields
<1>6. CASE step.op = "delete"
  BY <1>6 DEF With, Delete, SetName, SetValue, UpdateFields
<1> QED
  BY <1>1, <1>2, <1>3, <1>4, <1>5, <1>6 DEF AllOps

\* It adds one clause, to the list of its kind, ...
LEMMA WithClause ==
  ASSUME NEW u, DOMAIN u = UpdateFields, NEW step, step.op \in AllOps
  PROVE  /\ With(u, step).ues = IF step.op \in SetOps THEN Append(u.ues, Clause(step)) ELSE u.ues
         /\ With(u, step).uer = IF step.op \in {"remove"} THEN Append(u.uer, Clause(step)) ELSE u.uer
         /\ With(u, step).uea = IF step.op \in {"add"} THEN Append(u.uea, Clause(step)) ELSE u.uea
         /\ With(u, step).ued = IF step.op \in {"delete"} THEN Append(u.ued, Clause(step)) ELSE u.ued
<1>1. CASE step.op = "set"
  BY <1>1 DEF With, add_update, SetName, SetValue, UpdateFields, Clause, SetOps
<1>2. CASE step.op = "element"
  BY <1>2 DEF With, add_map_element, SetName, SetValue, UpdateFields, Clause, SetOps
<1>3. CASE step.op = "append"
  BY <1>3 DEF With, append, SetName, SetValue, UpdateFields, Clause, SetOps
<1>4. CASE step.op = "remove"
  BY <1>4 DEF With, remove, SetName, SetValue, UpdateFields, Clause, SetOps
<1>5. CASE step.op = "add"
  BY <1>5 DEF With, add, SetName, SetValue, UpdateFields, Clause, SetOps
<1>6. CASE step.op = "delete"
  BY <1>6 DEF With, Delete, SetName, SetValue, UpdateFields, Clause, SetOps
<1> QED
  BY <1>1, <1>2, <1>3, <1>4, <1>5, <1>6 DEF AllOps

\* ... and binds its names and values before those there are.
LEMMA WithNames ==
  ASSUME NEW u, DOMAIN u = UpdateFields, NEW step, step.op \in AllOps
  PROVE  /\ With(u, step).ean = NamesOf(step) ++ u.ean
         /\ With(u, step).eav = IF step.op = "remove" THEN u.eav ELSE ValuesOf(step) ++ u.eav
<1>1. CASE step.op = "set"
  BY <1>1 DEF With, add_update, SetName, SetValue, UpdateFields, NamesOf, ValuesOf
<1>2. CASE step.op = "element"
  <2>1. /\ With(u, step).ean = Bind(P("keyName"), step.key) ++ (Bind(P("mapName"), step.name) ++ u.ean)
        /\ With(u, step).eav = Bind(V("valueName"), step.v) ++ u.eav
    BY <1>2 DEF With, add_map_element, SetName, SetValue, UpdateFields
  <2> QED
    BY <1>2, <2>1, TwoBinds DEF NamesOf, ValuesOf
<1>3. CASE step.op = "append"
  <2>1. /\ With(u, step).ean = Bind(P(step.name), step.name) ++ u.ean
        /\ With(u, step).eav = Bind(V("val"), step.v) ++ (Bind(V("elst"), L(<<>>)) ++ u.eav)
    BY <1>3 DEF With, append, SetName, SetValue, UpdateFields
  <2> QED
    BY <1>3, <2>1, TwoBinds DEF NamesOf, ValuesOf
<1>4. CASE step.op = "remove"
  BY <1>4 DEF With, remove, SetName, SetValue, UpdateFields, NamesOf, ValuesOf
<1>5. CASE step.op = "add"
  BY <1>5 DEF With, add, SetName, SetValue, UpdateFields, NamesOf, ValuesOf
<1>6. CASE step.op = "delete"
  BY <1>6 DEF With, Delete, SetName, SetValue, UpdateFields, NamesOf, ValuesOf
<1> QED
  BY <1>1, <1>2, <1>3, <1>4, <1>5, <1>6 DEF AllOps

\* A clause more, at the end.
LEMMA ClauseAppended ==
  ASSUME NEW seq, seq \in Seq(ToSet(seq)), NEW c
  PROVE  /\ Append(seq, c) \in Seq(ToSet(Append(seq, c)))
         /\ Len(seq) \in Nat /\ DOMAIN seq = 1..Len(seq)
         /\ DOMAIN Append(seq, c) = 1..(Len(seq) + 1)
         /\ Append(seq, c)[Len(seq) + 1] = c
         /\ \A m \in DOMAIN seq : Append(seq, c)[m] = seq[m]
<1> DEFINE T == ToSet(seq) \cup {c}
           a == Append(seq, c)
<1>0. ToSet(seq) \subseteq T
  OBVIOUS
<1>1. seq \in Seq(T) /\ c \in T
  <2>1. Len(seq) \in Nat /\ DOMAIN seq = 1..Len(seq) /\ seq \in [1..Len(seq) -> ToSet(seq)]
    BY LenProperties
  <2> HIDE DEF T
  <2>2. seq \in [1..Len(seq) -> T]
    BY <1>0, <2>1
  <2>3. seq \in Seq(T)
    BY <2>1, <2>2, SeqDef
  <2>4. c \in T
    BY DEF T
  <2> QED
    BY <2>3, <2>4
<1> HIDE DEF T
<1>2. a \in Seq(T) /\ Len(a) = Len(seq) + 1
      /\ (\A m \in 1..Len(seq) : a[m] = seq[m]) /\ a[Len(seq) + 1] = c
  BY <1>1, AppendProperties
<1>3. Len(seq) \in Nat /\ DOMAIN seq = 1..Len(seq)
  BY <1>1, LenProperties
<1> HIDE DEF a
<1>4. DOMAIN a = 1..Len(a) /\ a \in [1..Len(a) -> T] /\ Len(a) \in Nat
  BY <1>2, LenProperties
<1>5. a \in [1..Len(a) -> ToSet(a)]
  BY <1>4 DEF ToSet
<1>6. a \in Seq(ToSet(a))
  BY <1>4, <1>5, SeqDef
<1> QED
  BY <1>2, <1>3, <1>4, <1>6 DEF a

\* The list of the call's kind grows, ...
LEMMA ListAppends ==
  ASSUME NEW steps, NEW n \in Nat, NEW ops, NEW seq, NEW at, InList(seq, steps, n, ops, at),
         NEW to, \A j \in 1..n : to[j] = at[j],
         steps[n + 1].op \in ops, to[n + 1] = Len(seq) + 1
  PROVE  InList(Append(seq, Clause(steps[n + 1])), steps, n + 1, ops, to)
<1> DEFINE c == Clause(steps[n + 1])
           more == Append(seq, c)
<1> HIDE DEF c
<1>1. seq \in Seq(ToSet(seq))
  BY DEF InList
<1>2. /\ more \in Seq(ToSet(more)) /\ Len(seq) \in Nat /\ DOMAIN seq = 1..Len(seq)
      /\ DOMAIN more = 1..(Len(seq) + 1) /\ more[Len(seq) + 1] = c
      /\ \A m \in DOMAIN seq : more[m] = seq[m]
  BY <1>1, ClauseAppended
<1> HIDE DEF more
<1>3. Of(steps, n + 1, ops) = Of(steps, n, ops) \cup {n + 1}
  BY DEF Of
<1>4. ASSUME NEW j \in Of(steps, n, ops)
      PROVE  j \in 1..n /\ to[j] = at[j] /\ at[j] \in DOMAIN seq /\ seq[at[j]] = Clause(steps[j])
  BY DEF InList, Of
<1>5. ASSUME NEW j \in Of(steps, n + 1, ops)
      PROVE  to[j] \in DOMAIN more /\ more[to[j]] = Clause(steps[j])
  <2>1. CASE j = n + 1
    BY <1>2, <2>1 DEF c
  <2>2. CASE j # n + 1
    <3>1. j \in Of(steps, n, ops)
      BY <1>3, <2>2
    <3>2. to[j] \in DOMAIN seq /\ seq[to[j]] = Clause(steps[j])
      BY <1>4, <3>1
    <3>3. DOMAIN seq \subseteq DOMAIN more
      BY <1>2
    <3> QED
      BY <1>2, <3>2, <3>3
  <2> QED
    BY <2>1, <2>2
<1>6. ASSUME NEW m \in DOMAIN more PROVE \E j \in Of(steps, n + 1, ops) : to[j] = m
  <2>1. CASE m = Len(seq) + 1
    BY <1>3, <2>1
  <2>2. CASE m # Len(seq) + 1
    <3>1. m \in DOMAIN seq
      BY <1>2, <2>2
    <3>2. PICK j \in Of(steps, n, ops) : at[j] = m
      BY <3>1 DEF InList
    <3> QED
      BY <1>3, <1>4, <3>2
  <2> QED
    BY <2>1, <2>2
<1>7. ASSUME NEW j \in Of(steps, n + 1, ops), NEW k \in Of(steps, n + 1, ops), to[j] = to[k]
      PROVE  j = k
  <2>1. \A q \in Of(steps, n, ops) : to[q] # Len(seq) + 1
    BY <1>2, <1>4
  <2>2. \A q, r \in Of(steps, n, ops) : to[q] = to[r] => q = r
    BY <1>4 DEF InList
  <2> QED
    BY <1>3, <1>7, <2>1, <2>2
<1>8. InList(more, steps, n + 1, ops, to)
  BY <1>2, <1>5, <1>6, <1>7 DEF InList
<1> QED
  BY <1>8 DEF more, c

\* ... the others stay.
LEMMA ListStays ==
  ASSUME NEW steps, NEW n \in Nat, NEW ops, NEW seq, NEW at, InList(seq, steps, n, ops, at),
         NEW to, \A j \in 1..n : to[j] = at[j], steps[n + 1].op \notin ops
  PROVE  InList(seq, steps, n + 1, ops, to)
<1>1. Of(steps, n + 1, ops) = Of(steps, n, ops)
  BY DEF Of
<1>2. \A j \in Of(steps, n, ops) : to[j] = at[j]
  BY DEF Of
<1> QED
  BY <1>1, <1>2 DEF InList

\* One call more.
LEMMA BuilderGrows ==
  ASSUME NEW steps, NEW n \in Nat, steps[n + 1].op \in AllOps,
         NEW u, NEW given, NEW at, Builder(u, given, steps, n, at)
  PROVE  \E to : Builder(With(u, steps[n + 1]), given, steps, n + 1, to)
<1> DEFINE step == steps[n + 1]
           w    == With(u, step)
           seq  == IF step.op \in SetOps THEN u.ues ELSE IF step.op = "remove" THEN u.uer
                   ELSE IF step.op = "add" THEN u.uea ELSE u.ued
           to   == [j \in 1..(n + 1) |-> IF j = n + 1 THEN Len(seq) + 1 ELSE at[j]]
<1>1. (\A j \in 1..n : to[j] = at[j]) /\ to[n + 1] = Len(seq) + 1
  <2>1. n + 1 \in 1..(n + 1) /\ \A j \in 1..n : j \in 1..(n + 1) /\ j # n + 1
    OBVIOUS
  <2> HIDE DEF seq
  <2> QED
    BY <2>1
<1> HIDE DEF to
<1>2. DOMAIN u = UpdateFields /\ u.key = given
  BY DEF Builder
<1>3. DOMAIN w = UpdateFields /\ w.key = given
  BY <1>2, WithFields
<1>4. /\ w.ues = IF step.op \in SetOps THEN Append(u.ues, Clause(step)) ELSE u.ues
      /\ w.uer = IF step.op \in {"remove"} THEN Append(u.uer, Clause(step)) ELSE u.uer
      /\ w.uea = IF step.op \in {"add"} THEN Append(u.uea, Clause(step)) ELSE u.uea
      /\ w.ued = IF step.op \in {"delete"} THEN Append(u.ued, Clause(step)) ELSE u.ued
  BY <1>2, WithClause
<1>5. /\ w.ean = NamesOf(step) ++ u.ean
      /\ w.eav = IF step.op = "remove" THEN u.eav ELSE ValuesOf(step) ++ u.eav
  BY <1>2, WithNames
<1> HIDE DEF w
<1>6. InList(w.ues, steps, n + 1, SetOps, to)
  <2>0. InList(u.ues, steps, n, SetOps, at)
    BY DEF Builder
  <2>1. CASE step.op \in SetOps
    <3>1. seq = u.ues
      BY <2>1
    <3> QED
      BY <1>1, <1>4, <2>0, <2>1, <3>1, ListAppends
  <2>2. CASE step.op \notin SetOps
    BY <1>1, <1>4, <2>0, <2>2, ListStays
  <2> QED
    BY <2>1, <2>2
<1>7. InList(w.uer, steps, n + 1, {"remove"}, to)
  <2>0. InList(u.uer, steps, n, {"remove"}, at)
    BY DEF Builder
  <2>1. CASE step.op \in {"remove"}
    <3>1. seq = u.uer
      BY <2>1 DEF SetOps
    <3> QED
      BY <1>1, <1>4, <2>0, <2>1, <3>1, ListAppends
  <2>2. CASE step.op \notin {"remove"}
    BY <1>1, <1>4, <2>0, <2>2, ListStays
  <2> QED
    BY <2>1, <2>2
<1>8. InList(w.uea, steps, n + 1, {"add"}, to)
  <2>0. InList(u.uea, steps, n, {"add"}, at)
    BY DEF Builder
  <2>1. CASE step.op \in {"add"}
    <3>1. seq = u.uea
      BY <2>1 DEF SetOps
    <3> QED
      BY <1>1, <1>4, <2>0, <2>1, <3>1, ListAppends
  <2>2. CASE step.op \notin {"add"}
    BY <1>1, <1>4, <2>0, <2>2, ListStays
  <2> QED
    BY <2>1, <2>2
<1>9. InList(w.ued, steps, n + 1, {"delete"}, to)
  <2>0. InList(u.ued, steps, n, {"delete"}, at)
    BY DEF Builder
  <2>1. CASE step.op \in {"delete"}
    <3>1. seq = u.ued
      BY <2>1 DEF SetOps
    <3> QED
      BY <1>1, <1>4, <2>0, <2>1, <3>1, ListAppends
  <2>2. CASE step.op \notin {"delete"}
    BY <1>1, <1>4, <2>0, <2>2, ListStays
  <2> QED
    BY <2>1, <2>2
<1> DEFINE names(m) == {NamesOf(steps[j]) : j \in 1..m}
           values(m) == {ValuesOf(steps[j]) : j \in 1..m}
<1>10. names(n + 1) = names(n) \cup {NamesOf(step)} /\ values(n + 1) = values(n) \cup {ValuesOf(step)}
  <2>1. 1..(n + 1) = 1..n \cup {n + 1}
    OBVIOUS
  <2> QED
    BY <2>1
<1>11. Merged(u.ean, names(n)) /\ Merged(u.eav, values(n))
  BY DEF Builder
<1> HIDE DEF names, values
<1>12. Merged(w.ean, names(n + 1))
  BY <1>5, <1>10, <1>11, MergedMore
<1>13. Merged(w.eav, values(n + 1))
  <2>1. CASE step.op = "remove"
    <3>1. ValuesOf(step) = Empty
      BY <2>1 DEF ValuesOf
    <3>2. DOMAIN Empty = {}
      BY DEF Empty
    <3>3. w.eav = u.eav
      BY <1>5, <2>1
    <3> HIDE DEF step
    <3> QED
      BY <1>10, <1>11, <3>1, <3>2, <3>3 DEF Merged
  <2>2. CASE step.op # "remove"
    BY <1>5, <1>10, <1>11, <2>2, MergedMore
  <2> QED
    BY <2>1, <2>2
<1>14. Builder(w, given, steps, n + 1, to)
  BY <1>3, <1>6, <1>7, <1>8, <1>9, <1>12, <1>13 DEF Builder, names, values
<1> QED
  BY <1>14 DEF w

Chain(steps) ==
  /\ steps \in Seq(ToSet(steps))
  /\ \A step \in ToSet(steps) : step.op \in AllOps

\* The calls of a chain.
LEMMA ChainIs ==
  ASSUME NEW steps, Chain(steps)
  PROVE  /\ Len(steps) \in Nat /\ DOMAIN steps = 1..Len(steps)
         /\ \A n \in 1..Len(steps) : steps[n] \in ToSet(steps) /\ steps[n].op \in AllOps
         /\ \A step \in ToSet(steps) : \E n \in 1..Len(steps) : step = steps[n]
<1>1. Len(steps) \in Nat /\ DOMAIN steps = 1..Len(steps)
  BY LenProperties DEF Chain
<1> QED
  BY <1>1 DEF Chain, ToSet

\* What is built of a chain of calls.
LEMMA BuilderIs ==
  ASSUME NEW steps, Chain(steps), NEW given
  PROVE  \E at : Builder(Built(given, steps), given, steps, Len(steps), at)
<1>1. Len(steps) \in Nat
  BY ChainIs
<1>2. PICK f : /\ f[0] = set_pksk(Updates, given)
               /\ \A n \in 1..Len(steps) : f[n] = With(f[n - 1], steps[n])
               /\ Built(given, steps) = f[Len(steps)]
  BY <1>1, BuiltRun
<1> DEFINE Q == {n \in Nat : n <= Len(steps) => \E at : Builder(f[n], given, steps, n, at)}
<1>3. 0 \in Q
  <2> DEFINE u == set_pksk(Updates, given)
  <2>1. /\ DOMAIN u = UpdateFields /\ u.key = given
        /\ u.ues = <<>> /\ u.uer = <<>> /\ u.uea = <<>> /\ u.ued = <<>> /\ u.ean = Empty /\ u.eav = Empty
    BY DEF set_pksk, Updates, UpdateFields
  <2>2. ASSUME NEW ops, NEW at PROVE InList(<<>>, steps, 0, ops, at)
    <3>1. Of(steps, 0, ops) = {}
      BY DEF Of
    <3>2. <<>> \in Seq(ToSet(<<>>)) /\ DOMAIN <<>> = {}
      OBVIOUS
    <3> QED
      BY <3>1, <3>2 DEF InList
  <2>3. 1..0 = {}
    OBVIOUS
  <2>4. Merged(Empty, {NamesOf(steps[j]) : j \in 1..0}) /\ Merged(Empty, {ValuesOf(steps[j]) : j \in 1..0})
    BY <2>3 DEF Merged, Empty
  <2> HIDE DEF u
  <2>5. Builder(u, given, steps, 0, <<>>)
    BY <2>1, <2>2, <2>4 DEF Builder
  <2> QED
    BY <1>2, <2>5 DEF u
<1>4. ASSUME NEW n \in Nat, n \in Q PROVE n + 1 \in Q
  <2> SUFFICES ASSUME n + 1 <= Len(steps) PROVE \E at : Builder(f[n + 1], given, steps, n + 1, at)
    OBVIOUS
  <2>1. n <= Len(steps) /\ n + 1 \in 1..Len(steps) /\ (n + 1) - 1 = n
    BY <1>1
  <2>2. PICK at : Builder(f[n], given, steps, n, at)
    BY <1>4, <2>1
  <2>3. f[n + 1] = With(f[n], steps[n + 1])
    BY <1>2, <2>1
  <2>4. steps[n + 1].op \in AllOps
    BY <2>1, ChainIs
  <2> QED
    BY <2>2, <2>3, <2>4, BuilderGrows
<1>5. Nat \subseteq Q
  <2> HIDE DEF Q
  <2> QED
    BY <1>3, <1>4, AllNumbers
<1> QED
  BY <1>1, <1>2, <1>5

-----------------------------------------------------------------------------
(* What the placeholders stand for *)

\* Calls that share no value: nothing meets the fixed placeholders of one.
LEMMA Unshared ==
  ASSUME NEW steps, Chain(steps), ~SharesValue(steps),
         NEW j \in 1..Len(steps), NEW k \in 1..Len(steps), j # k
  PROVE  /\ steps[j].op = "element" =>
              steps[k].op # "element" /\ steps[k].name \notin {"mapName", "keyName", "valueName"}
         /\ steps[j].op = "append" =>
              steps[k].op # "append" /\ steps[k].name \notin {"val", "elst"}
<1>1. j \in DOMAIN steps /\ k \in DOMAIN steps
  BY ChainIs
<1>2. ~(Fixed(steps[j].op) # {} /\ (steps[k].op = steps[j].op \/ steps[k].name \in Fixed(steps[j].op)))
  BY <1>1 DEF SharesValue
<1>3. steps[j].op = "element" => Fixed(steps[j].op) = {"mapName", "keyName", "valueName"}
  BY DEF Fixed
<1>4. steps[j].op = "append" => Fixed(steps[j].op) = {"val", "elst"}
  BY DEF Fixed
<1> QED
  BY <1>2, <1>3, <1>4

\* The names that a call binds, ...
LEMMA NamesAre ==
  ASSUME NEW step
  PROVE  /\ step.op = "element" =>
              /\ DOMAIN NamesOf(step) = {P("mapName"), P("keyName")}
              /\ NamesOf(step)[P("mapName")] = step.name
              /\ NamesOf(step)[P("keyName")] = step.key
         /\ step.op # "element" =>
              DOMAIN NamesOf(step) = {P(step.name)} /\ NamesOf(step)[P(step.name)] = step.name
<1>1. P("mapName") # P("keyName")
  BY DEF P
<1>2. CASE step.op = "element"
  BY <1>1, <1>2 DEF NamesOf, Bind, ++
<1>3. CASE step.op # "element"
  BY <1>3 DEF NamesOf, Bind
<1> QED
  BY <1>2, <1>3

\* ... and the values.
LEMMA ValuesAre ==
  ASSUME NEW step, step.op \in AllOps
  PROVE  /\ step.op = "element" =>
              DOMAIN ValuesOf(step) = {V("valueName")} /\ ValuesOf(step)[V("valueName")] = step.v
         /\ step.op = "append" =>
              /\ DOMAIN ValuesOf(step) = {V("val"), V("elst")}
              /\ ValuesOf(step)[V("val")] = step.v /\ ValuesOf(step)[V("elst")] = L(<<>>)
         /\ step.op = "remove" => DOMAIN ValuesOf(step) = {}
         /\ step.op \in {"set", "add", "delete"} =>
              DOMAIN ValuesOf(step) = {V(step.name)} /\ ValuesOf(step)[V(step.name)] = step.v
<1>1. V("val") # V("elst")
  BY DEF V
<1>2. CASE step.op = "element"
  BY <1>2 DEF ValuesOf, Bind
<1>3. CASE step.op = "append"
  <2>1. ValuesOf(step) = Bind(V("val"), step.v) ++ Bind(V("elst"), L(<<>>))
    BY <1>3 DEF ValuesOf
  <2> QED
    BY <1>1, <1>3, <2>1 DEF Bind, ++
<1>4. CASE step.op = "remove"
  BY <1>4 DEF ValuesOf, Empty
<1>5. CASE step.op \in {"set", "add", "delete"}
  BY <1>5 DEF ValuesOf, Bind
<1> QED
  BY <1>2, <1>3, <1>4, <1>5 DEF AllOps

\* So each name stands for what the call gave it, ...
LEMMA NamesHold ==
  ASSUME NEW steps, Chain(steps), ~SharesValue(steps), NEW j \in 1..Len(steps),
         NEW u, NEW given, NEW at, Builder(u, given, steps, Len(steps), at)
  PROVE  \A p \in DOMAIN NamesOf(steps[j]) : p \in DOMAIN u.ean /\ u.ean[p] = NamesOf(steps[j])[p]
<1> TAKE p \in DOMAIN NamesOf(steps[j])
<1> DEFINE parts == {NamesOf(steps[k]) : k \in 1..Len(steps)}
<1>1. Merged(u.ean, parts)
  BY DEF Builder
<1>2. NamesOf(steps[j]) \in parts
  OBVIOUS
<1>3. p \in DOMAIN u.ean
  BY <1>1, <1>2 DEF Merged
<1>4. PICK g \in parts : p \in DOMAIN g /\ u.ean[p] = g[p]
  BY <1>1, <1>3 DEF Merged
<1>5. PICK k \in 1..Len(steps) : g = NamesOf(steps[k])
  OBVIOUS
<1>6. CASE k # j
  <2>1. \A a, b : P(a) = P(b) => a = b
    BY DEF P
  <2>2. steps[k].op # "element" \/ steps[j].op # "element"
    BY <1>6, Unshared
  <2>3. CASE steps[k].op = "element"
    <3>1. steps[j].op # "element" /\ steps[j].name \notin {"mapName", "keyName"}
      BY <1>6, <2>3, Unshared
    <3>2. p = P(steps[j].name) /\ p \in {P("mapName"), P("keyName")}
      BY <1>4, <1>5, <2>3, <3>1, NamesAre
    <3> QED
      BY <2>1, <3>1, <3>2
  <2>4. CASE steps[j].op = "element"
    <3>1. steps[k].op # "element" /\ steps[k].name \notin {"mapName", "keyName"}
      BY <1>6, <2>4, Unshared
    <3>2. p = P(steps[k].name) /\ p \in {P("mapName"), P("keyName")}
      BY <1>4, <1>5, <2>4, <3>1, NamesAre
    <3> QED
      BY <2>1, <3>1, <3>2
  <2>5. CASE steps[j].op # "element" /\ steps[k].op # "element"
    <3>1. p = P(steps[j].name) /\ p = P(steps[k].name)
      BY <1>4, <1>5, <2>5, NamesAre
    <3>2. steps[j].name = steps[k].name
      BY <2>1, <3>1
    <3>3. NamesOf(steps[j])[p] = steps[j].name /\ NamesOf(steps[k])[p] = steps[k].name
      BY <2>5, <3>1, NamesAre
    <3> QED
      BY <1>3, <1>4, <1>5, <3>2, <3>3
  <2> QED
    BY <2>2, <2>3, <2>4, <2>5
<1> QED
  BY <1>3, <1>4, <1>5, <1>6

\* ... and so each value, where the calls are for different attributes.
LEMMA ValuesHold ==
  ASSUME NEW steps, Chain(steps), ~SharesValue(steps), Apart(steps), NEW j \in 1..Len(steps),
         NEW u, NEW given, NEW at, Builder(u, given, steps, Len(steps), at)
  PROVE  \A p \in DOMAIN ValuesOf(steps[j]) : p \in DOMAIN u.eav /\ u.eav[p] = ValuesOf(steps[j])[p]
<1> TAKE p \in DOMAIN ValuesOf(steps[j])
<1> DEFINE parts == {ValuesOf(steps[k]) : k \in 1..Len(steps)}
<1>1. Merged(u.eav, parts)
  BY DEF Builder
<1>2. ValuesOf(steps[j]) \in parts
  OBVIOUS
<1>3. p \in DOMAIN u.eav
  BY <1>1, <1>2 DEF Merged
<1>4. PICK g \in parts : p \in DOMAIN g /\ u.eav[p] = g[p]
  BY <1>1, <1>3 DEF Merged
<1>5. PICK k \in 1..Len(steps) : g = ValuesOf(steps[k])
  OBVIOUS
<1>6. ASSUME k # j PROVE FALSE
  <2>1. \A a, b : V(a) = V(b) => a = b
    BY DEF V
  <2>2. steps[k].name # steps[j].name
    BY <1>6, ChainIs DEF Apart
  <2>3. ASSUME NEW a \in 1..Len(steps), NEW b \in 1..Len(steps), a # b, steps[a].name # steps[b].name,
               p \in DOMAIN ValuesOf(steps[a]), p \in DOMAIN ValuesOf(steps[b]),
               steps[a].op \in {"element", "append"}
        PROVE  FALSE
    <3>1. steps[a].op \in AllOps /\ steps[b].op \in AllOps
      BY ChainIs
    <3>2. steps[b].op # "remove"
      BY <2>3, <3>1, ValuesAre
    <3>3. CASE steps[a].op = "element"
      <4>1. p = V("valueName")
        BY <2>3, <3>1, <3>3, ValuesAre
      <4>2. steps[b].op # "element" /\ steps[b].name # "valueName"
        BY <2>3, <3>3, Unshared
      <4>3. steps[b].op = "append" => p \in {V("val"), V("elst")}
        BY <2>3, <3>1, ValuesAre
      <4>4. steps[b].op \in {"set", "add", "delete"} => p = V(steps[b].name)
        BY <2>3, <3>1, ValuesAre
      <4> QED
        BY <2>1, <3>1, <3>2, <4>1, <4>2, <4>3, <4>4 DEF AllOps
    <3>4. CASE steps[a].op = "append"
      <4>1. p \in {V("val"), V("elst")}
        BY <2>3, <3>1, <3>4, ValuesAre
      <4>2. steps[b].op # "append" /\ steps[b].name \notin {"val", "elst"}
        BY <2>3, <3>4, Unshared
      <4>3. steps[b].op = "element" => p = V("valueName")
        BY <2>3, <3>1, ValuesAre
      <4>4. steps[b].op \in {"set", "add", "delete"} => p = V(steps[b].name)
        BY <2>3, <3>1, ValuesAre
      <4> QED
        BY <2>1, <3>1, <3>2, <4>1, <4>2, <4>3, <4>4 DEF AllOps
    <3> QED
      BY <2>3, <3>3, <3>4
  <2>4. steps[j].op \notin {"element", "append"} /\ steps[k].op \notin {"element", "append"}
    BY <1>4, <1>5, <1>6, <2>2, <2>3
  <2>5. steps[j].op \in AllOps /\ steps[k].op \in AllOps
    BY ChainIs
  <2>6. steps[j].op # "remove" /\ steps[k].op # "remove"
    BY <1>4, <1>5, <2>5, ValuesAre
  <2>7. steps[j].op \in {"set", "add", "delete"} /\ steps[k].op \in {"set", "add", "delete"}
    BY <2>4, <2>5, <2>6 DEF AllOps
  <2>8. DOMAIN ValuesOf(steps[j]) = {V(steps[j].name)} /\ DOMAIN ValuesOf(steps[k]) = {V(steps[k].name)}
    BY <2>5, <2>7, ValuesAre
  <2>9. p = V(steps[j].name) /\ p = V(steps[k].name)
    BY <1>4, <1>5, <2>8
  <2> QED
    BY <2>1, <2>2, <2>9
<1> QED
  BY <1>3, <1>4, <1>5, <1>6

-----------------------------------------------------------------------------
(* The clauses and what they are for *)

\* The parts of the clause of a call.
LEMMA ClauseIs ==
  ASSUME NEW step, step.op \in AllOps
  PROVE  /\ step.op = "element" =>
              /\ Clause(step).name = P("mapName") /\ Clause(step).key = P("keyName")
              /\ Clause(step).fn = "value" /\ Clause(step).args = <<V("valueName")>>
         /\ step.op # "element" => Clause(step).name = P(step.name)
         /\ step.op \in {"set", "append"} => Clause(step).key = NoKeyName
         /\ step.op = "set" => Clause(step).fn = "value" /\ Clause(step).args = <<V(step.name)>>
         /\ step.op = "append" => Clause(step).fn = "append" /\ Clause(step).args = <<V("elst"), V("val")>>
         /\ step.op = "remove" => Clause(step).at = step.at
         /\ step.op \in {"add", "delete"} => Clause(step).val = V(step.name)
<1>1. CASE step.op = "set"
  BY <1>1 DEF Clause, Set
<1>2. CASE step.op = "element"
  BY <1>2 DEF Clause, Set
<1>3. CASE step.op = "append"
  BY <1>3 DEF Clause, Set
<1>4. CASE step.op = "remove"
  BY <1>4 DEF Clause
<1>5. CASE step.op \in {"add", "delete"}
  BY <1>5 DEF Clause
<1> QED
  BY <1>1, <1>2, <1>3, <1>4, <1>5 DEF AllOps

\* The name of each clause stands for the call's.
LEMMA ClauseNamed ==
  ASSUME NEW steps, Chain(steps), ~SharesValue(steps), NEW j \in 1..Len(steps),
         NEW u, NEW given, NEW at, Builder(u, given, steps, Len(steps), at)
  PROVE  /\ u.ean[Clause(steps[j]).name] = steps[j].name
         /\ steps[j].op = "element" => u.ean[Clause(steps[j]).key] = steps[j].key
<1>1. steps[j].op \in AllOps
  BY ChainIs
<1>2. \A p \in DOMAIN NamesOf(steps[j]) : p \in DOMAIN u.ean /\ u.ean[p] = NamesOf(steps[j])[p]
  BY NamesHold
<1> DEFINE step == steps[j]
<1> HIDE DEF step
<1>3. CASE step.op = "element"
  <2>1. /\ DOMAIN NamesOf(step) = {P("mapName"), P("keyName")}
        /\ NamesOf(step)[P("mapName")] = step.name /\ NamesOf(step)[P("keyName")] = step.key
    BY <1>3, NamesAre
  <2>2. Clause(step).name = P("mapName") /\ Clause(step).key = P("keyName")
    BY <1>1, <1>3, ClauseIs DEF step
  <2>3. u.ean[P("mapName")] = step.name /\ u.ean[P("keyName")] = step.key
    BY <1>2, <2>1 DEF step
  <2> QED
    BY <2>2, <2>3 DEF step
<1>4. CASE step.op # "element"
  <2>1. DOMAIN NamesOf(step) = {P(step.name)} /\ NamesOf(step)[P(step.name)] = step.name
    BY <1>4, NamesAre
  <2>2. Clause(step).name = P(step.name)
    BY <1>1, <1>4, ClauseIs DEF step
  <2>3. u.ean[P(step.name)] = step.name
    BY <1>2, <2>1 DEF step
  <2> QED
    BY <1>4, <2>2, <2>3 DEF step
<1> QED
  BY <1>3, <1>4 DEF step

\* The clauses of a list are those of the calls of its kind.
LEMMA ListIs ==
  ASSUME NEW seq, NEW steps, NEW n, NEW ops, NEW at, InList(seq, steps, n, ops, at)
  PROVE  ToSet(seq) = {Clause(steps[j]) : j \in Of(steps, n, ops)}
<1>1. ASSUME NEW c \in ToSet(seq) PROVE c \in {Clause(steps[j]) : j \in Of(steps, n, ops)}
  <2>1. PICK m \in DOMAIN seq : c = seq[m]
    BY DEF ToSet
  <2>2. PICK j \in Of(steps, n, ops) : at[j] = m
    BY DEF InList
  <2> QED
    BY <2>1, <2>2 DEF InList
<1>2. ASSUME NEW j \in Of(steps, n, ops) PROVE Clause(steps[j]) \in ToSet(seq)
  BY DEF InList, ToSet
<1> QED
  BY <1>1, <1>2

\* What a call is for.
TagOf(op) ==
  CASE op \in SetOps -> "SET" [] op = "remove" -> "REMOVE" [] op = "add" -> "ADD" [] OTHER -> "DELETE"
TargetOf(step, m) ==
  [clause |-> <<TagOf(step.op), m>>, attr |-> step.name,
   key |-> IF step.op = "element" THEN step.key ELSE NoKey,
   at |-> IF step.op = "remove" THEN step.at ELSE 0]

\* An update is for what its calls are for.
LEMMA TargetsAre ==
  ASSUME NEW steps, Chain(steps), ~SharesValue(steps),
         NEW u, NEW given, NEW at, Builder(u, given, steps, Len(steps), at)
  PROVE  Targets(u) = {TargetOf(steps[j], at[j]) : j \in 1..Len(steps)}
<1> DEFINE last == Len(steps)
<1>0. P("keyName") # NoKeyName
  BY DEF P, NoKeyName, NoKey
<1>1. \A j \in 1..last : steps[j].op \in AllOps /\ u.ean[Clause(steps[j]).name] = steps[j].name
                         /\ (steps[j].op = "element" => u.ean[Clause(steps[j]).key] = steps[j].key)
  BY ChainIs, ClauseNamed
<1>2. /\ InList(u.ues, steps, last, SetOps, at) /\ InList(u.uer, steps, last, {"remove"}, at)
      /\ InList(u.uea, steps, last, {"add"}, at) /\ InList(u.ued, steps, last, {"delete"}, at)
  BY DEF Builder
<1> DEFINE sets == {[clause |-> <<"SET", n>>, attr |-> u.ean[u.ues[n].name],
                     key |-> IF u.ues[n].key = NoKeyName THEN NoKey ELSE u.ean[u.ues[n].key], at |-> 0] :
                      n \in DOMAIN u.ues}
           removes == {[clause |-> <<"REMOVE", n>>, attr |-> u.ean[u.uer[n].name], key |-> NoKey,
                        at |-> u.uer[n].at] : n \in DOMAIN u.uer}
           adds == {[clause |-> <<"ADD", n>>, attr |-> u.ean[u.uea[n].name], key |-> NoKey, at |-> 0] :
                      n \in DOMAIN u.uea}
           deletes == {[clause |-> <<"DELETE", n>>, attr |-> u.ean[u.ued[n].name], key |-> NoKey, at |-> 0] :
                         n \in DOMAIN u.ued}
<1>3. Targets(u) = sets \cup removes \cup adds \cup deletes
  BY DEF Targets
<1>4. ASSUME NEW j \in Of(steps, last, SetOps)
      PROVE  /\ at[j] \in DOMAIN u.ues
             /\ TargetOf(steps[j], at[j]) =
                  [clause |-> <<"SET", at[j]>>, attr |-> u.ean[u.ues[at[j]].name],
                   key |-> IF u.ues[at[j]].key = NoKeyName THEN NoKey ELSE u.ean[u.ues[at[j]].key], at |-> 0]
  <2>1. j \in 1..last /\ steps[j].op \in SetOps
    BY DEF Of
  <2>2. at[j] \in DOMAIN u.ues /\ u.ues[at[j]] = Clause(steps[j])
    BY <1>2 DEF InList
  <2>3. TagOf(steps[j].op) = "SET" /\ steps[j].op # "remove"
    BY <2>1 DEF TagOf, SetOps
  <2>4. (IF u.ues[at[j]].key = NoKeyName THEN NoKey ELSE u.ean[u.ues[at[j]].key])
        = IF steps[j].op = "element" THEN steps[j].key ELSE NoKey
    BY <1>0, <1>1, <2>1, <2>2, ClauseIs DEF SetOps
  <2>5. u.ean[u.ues[at[j]].name] = steps[j].name
    BY <1>1, <2>1, <2>2
  <2> QED
    BY <2>2, <2>3, <2>4, <2>5 DEF TargetOf
<1>5. ASSUME NEW j \in Of(steps, last, {"remove"})
      PROVE  /\ at[j] \in DOMAIN u.uer
             /\ TargetOf(steps[j], at[j]) =
                  [clause |-> <<"REMOVE", at[j]>>, attr |-> u.ean[u.uer[at[j]].name], key |-> NoKey,
                   at |-> u.uer[at[j]].at]
  <2>1. j \in 1..last /\ steps[j].op = "remove"
    BY DEF Of
  <2>2. at[j] \in DOMAIN u.uer /\ u.uer[at[j]] = Clause(steps[j])
    BY <1>2 DEF InList
  <2>3. TagOf(steps[j].op) = "REMOVE"
    BY <2>1 DEF TagOf, SetOps
  <2>4. u.uer[at[j]].at = steps[j].at
    BY <1>1, <2>1, <2>2, ClauseIs
  <2>5. u.ean[u.uer[at[j]].name] = steps[j].name
    BY <1>1, <2>1, <2>2
  <2> QED
    BY <2>1, <2>2, <2>3, <2>4, <2>5 DEF TargetOf
<1>6. ASSUME NEW j \in Of(steps, last, {"add"})
      PROVE  /\ at[j] \in DOMAIN u.uea
             /\ TargetOf(steps[j], at[j]) =
                  [clause |-> <<"ADD", at[j]>>, attr |-> u.ean[u.uea[at[j]].name], key |-> NoKey, at |-> 0]
  <2>1. j \in 1..last /\ steps[j].op = "add"
    BY DEF Of
  <2>2. at[j] \in DOMAIN u.uea /\ u.uea[at[j]] = Clause(steps[j])
    BY <1>2 DEF InList
  <2>3. TagOf(steps[j].op) = "ADD"
    BY <2>1 DEF TagOf, SetOps
  <2>5. u.ean[u.uea[at[j]].name] = steps[j].name
    BY <1>1, <2>1, <2>2
  <2> QED
    BY <2>1, <2>2, <2>3, <2>5 DEF TargetOf
<1>7. ASSUME NEW j \in Of(steps, last, {"delete"})
      PROVE  /\ at[j] \in DOMAIN u.ued
             /\ TargetOf(steps[j], at[j]) =
                  [clause |-> <<"DELETE", at[j]>>, attr |-> u.ean[u.ued[at[j]].name], key |-> NoKey, at |-> 0]
  <2>1. j \in 1..last /\ steps[j].op = "delete"
    BY DEF Of
  <2>2. at[j] \in DOMAIN u.ued /\ u.ued[at[j]] = Clause(steps[j])
    BY <1>2 DEF InList
  <2>3. TagOf(steps[j].op) = "DELETE"
    BY <2>1 DEF TagOf, SetOps
  <2>5. u.ean[u.ued[at[j]].name] = steps[j].name
    BY <1>1, <2>1, <2>2
  <2> QED
    BY <2>1, <2>2, <2>3, <2>5 DEF TargetOf
<1>8. \A j \in 1..last : TargetOf(steps[j], at[j]) \in sets \cup removes \cup adds \cup deletes
  <2> TAKE j \in 1..last
  <2>1. \/ j \in Of(steps, last, SetOps) \/ j \in Of(steps, last, {"remove"})
        \/ j \in Of(steps, last, {"add"}) \/ j \in Of(steps, last, {"delete"})
    BY <1>1 DEF Of, AllOps, SetOps
  <2> QED
    BY <1>4, <1>5, <1>6, <1>7, <2>1
<1>9. ASSUME NEW t \in sets \cup removes \cup adds \cup deletes
      PROVE  \E j \in 1..last : t = TargetOf(steps[j], at[j])
  <2>1. CASE t \in sets
    <3>1. PICK n \in DOMAIN u.ues :
             t = [clause |-> <<"SET", n>>, attr |-> u.ean[u.ues[n].name],
                  key |-> IF u.ues[n].key = NoKeyName THEN NoKey ELSE u.ean[u.ues[n].key], at |-> 0]
      BY <2>1
    <3>2. PICK j \in Of(steps, last, SetOps) : at[j] = n
      BY <1>2 DEF InList
    <3> QED
      BY <1>4, <3>1, <3>2 DEF Of
  <2>2. CASE t \in removes
    <3>1. PICK n \in DOMAIN u.uer :
             t = [clause |-> <<"REMOVE", n>>, attr |-> u.ean[u.uer[n].name], key |-> NoKey, at |-> u.uer[n].at]
      BY <2>2
    <3>2. PICK j \in Of(steps, last, {"remove"}) : at[j] = n
      BY <1>2 DEF InList
    <3> QED
      BY <1>5, <3>1, <3>2 DEF Of
  <2>3. CASE t \in adds
    <3>1. PICK n \in DOMAIN u.uea :
             t = [clause |-> <<"ADD", n>>, attr |-> u.ean[u.uea[n].name], key |-> NoKey, at |-> 0]
      BY <2>3
    <3>2. PICK j \in Of(steps, last, {"add"}) : at[j] = n
      BY <1>2 DEF InList
    <3> QED
      BY <1>6, <3>1, <3>2 DEF Of
  <2>4. CASE t \in deletes
    <3>1. PICK n \in DOMAIN u.ued :
             t = [clause |-> <<"DELETE", n>>, attr |-> u.ean[u.ued[n].name], key |-> NoKey, at |-> 0]
      BY <2>4
    <3>2. PICK j \in Of(steps, last, {"delete"}) : at[j] = n
      BY <1>2 DEF InList
    <3> QED
      BY <1>7, <3>1, <3>2 DEF Of
  <2> QED
    BY <2>1, <2>2, <2>3, <2>4
<1> QED
  BY <1>3, <1>8, <1>9

\* What each call needs of the item.
Fit(step, i) ==
  LET typed(t) == step.name \in DOMAIN i => Type(i[step.name]) = t
  IN  /\ step.op = "element" => step.name \in DOMAIN i /\ typed("M")
      /\ step.op = "append" => typed("L")
      /\ step.op = "remove" /\ step.at # 0 => step.name \in DOMAIN i /\ typed("L")
      /\ step.op = "add" => typed("N")

\* An update suits an item if each of its calls fits.
LEMMA SuitsIs ==
  ASSUME NEW steps, Chain(steps), ~SharesValue(steps),
         NEW u, NEW given, NEW at, Builder(u, given, steps, Len(steps), at), NEW i
  PROVE  Suits(u, i) <=> \A j \in 1..Len(steps) : Fit(steps[j], i)
<1> DEFINE last == Len(steps)
           typed(name, t) == u.ean[name] \in DOMAIN i => Type(i[u.ean[name]]) = t
           has(name) == u.ean[name] \in DOMAIN i
           setting(c) ==
             /\ c.key # NoKeyName => has(c.name) /\ typed(c.name, "M")
             /\ c.fn = "append" => typed(c.name, "L")
             /\ c.fn = "plus"   => typed(c.name, "N")
           removal(c) == c.at # 0 => has(c.name) /\ typed(c.name, "L")
           adding(c) == typed(c.name, "N")
<1>0. P("keyName") # NoKeyName
  BY DEF P, NoKeyName, NoKey
<1>1. Suits(u, i) <=> /\ \A c \in ToSet(u.ues) : setting(c)
                      /\ \A c \in ToSet(u.uer) : removal(c)
                      /\ \A c \in ToSet(u.uea) : adding(c)
  BY DEF Suits
<1>2. \A j \in 1..last : steps[j].op \in AllOps /\ u.ean[Clause(steps[j]).name] = steps[j].name
  BY ChainIs, ClauseNamed
<1>3. /\ ToSet(u.ues) = {Clause(steps[j]) : j \in Of(steps, last, SetOps)}
      /\ ToSet(u.uer) = {Clause(steps[j]) : j \in Of(steps, last, {"remove"})}
      /\ ToSet(u.uea) = {Clause(steps[j]) : j \in Of(steps, last, {"add"})}
  BY ListIs DEF Builder
<1>4. ASSUME NEW j \in 1..last
      PROVE  /\ steps[j].op \in SetOps => (setting(Clause(steps[j])) <=> Fit(steps[j], i))
             /\ steps[j].op = "remove" => (removal(Clause(steps[j])) <=> Fit(steps[j], i))
             /\ steps[j].op = "add" => (adding(Clause(steps[j])) <=> Fit(steps[j], i))
             /\ steps[j].op = "delete" => Fit(steps[j], i)
  <2> DEFINE step == steps[j]
             c == Clause(step)
  <2>1. step.op \in AllOps /\ u.ean[c.name] = step.name
    BY <1>2
  <2>2. /\ step.op = "element" => c.key = P("keyName") /\ c.fn = "value"
        /\ step.op \in {"set", "append"} => c.key = NoKeyName
        /\ step.op = "set" => c.fn = "value"
        /\ step.op = "append" => c.fn = "append"
        /\ step.op = "remove" => c.at = step.at
    BY <2>1, ClauseIs
  <2> HIDE DEF c, step
  <2>3. CASE step.op = "set"
    <3>1. c.key = NoKeyName /\ c.fn = "value"
      BY <2>2, <2>3
    <3> QED
      BY <2>3, <3>1 DEF Fit, step, c, SetOps
  <2>4. CASE step.op = "element"
    <3>1. c.key # NoKeyName /\ c.fn = "value"
      BY <1>0, <2>2, <2>4
    <3>2. setting(c) <=> step.name \in DOMAIN i /\ (step.name \in DOMAIN i => Type(i[step.name]) = "M")
      BY <2>1, <3>1
    <3>3. Fit(step, i) <=> step.name \in DOMAIN i /\ (step.name \in DOMAIN i => Type(i[step.name]) = "M")
      BY <2>4 DEF Fit
    <3> HIDE DEF setting, removal, adding
    <3> QED
      BY <2>4, <3>2, <3>3 DEF step, c
  <2>5. CASE step.op = "append"
    <3>1. c.key = NoKeyName /\ c.fn = "append"
      BY <2>2, <2>5
    <3>2. setting(c) <=> (step.name \in DOMAIN i => Type(i[step.name]) = "L")
      BY <2>1, <3>1
    <3>3. Fit(step, i) <=> (step.name \in DOMAIN i => Type(i[step.name]) = "L")
      BY <2>5 DEF Fit
    <3> HIDE DEF setting, removal, adding
    <3> QED
      BY <2>5, <3>2, <3>3 DEF step, c
  <2>6. CASE step.op = "remove"
    <3>1. removal(c) <=> (step.at # 0 => step.name \in DOMAIN i /\ (step.name \in DOMAIN i => Type(i[step.name]) = "L"))
      BY <2>1, <2>2, <2>6
    <3>2. Fit(step, i) <=>
            (step.at # 0 => step.name \in DOMAIN i /\ (step.name \in DOMAIN i => Type(i[step.name]) = "L"))
      BY <2>6 DEF Fit
    <3> HIDE DEF setting, removal, adding
    <3> QED
      BY <2>6, <3>1, <3>2 DEF step, c, SetOps
  <2>7. CASE step.op = "add"
    <3>1. adding(c) <=> (step.name \in DOMAIN i => Type(i[step.name]) = "N")
      BY <2>1
    <3>2. Fit(step, i) <=> (step.name \in DOMAIN i => Type(i[step.name]) = "N")
      BY <2>7 DEF Fit
    <3> HIDE DEF setting, removal, adding
    <3> QED
      BY <2>7, <3>1, <3>2 DEF step, c, SetOps
  <2>8. CASE step.op = "delete"
    <3>1. Fit(step, i)
      BY <2>8 DEF Fit
    <3> HIDE DEF setting, removal, adding
    <3> QED
      BY <2>8, <3>1 DEF step, c, SetOps
  <2> HIDE DEF setting, removal, adding
  <2> QED
    BY <2>1, <2>3, <2>4, <2>5, <2>6, <2>7, <2>8 DEF AllOps
<1> HIDE DEF setting, removal, adding
<1>5. /\ (\A c \in ToSet(u.ues) : setting(c)) <=> \A j \in Of(steps, last, SetOps) : setting(Clause(steps[j]))
      /\ (\A c \in ToSet(u.uer) : removal(c)) <=> \A j \in Of(steps, last, {"remove"}) : removal(Clause(steps[j]))
      /\ (\A c \in ToSet(u.uea) : adding(c)) <=> \A j \in Of(steps, last, {"add"}) : adding(Clause(steps[j]))
  BY <1>3
<1>6. \A j \in 1..last : steps[j].op \in SetOps \/ steps[j].op \in {"remove", "add", "delete"}
  BY <1>2 DEF AllOps, SetOps
<1> QED
  BY <1>1, <1>4, <1>5, <1>6 DEF Of

\* An update that DynamoDB takes has its calls for different attributes, but
\* for elements taken from one list.
LEMMA AcceptedApart ==
  ASSUME NEW steps, Chain(steps), ~SharesValue(steps), ~TakesTwo(steps),
         NEW u, NEW given, NEW at, Builder(u, given, steps, Len(steps), at),
         NEW i, Accepted(u, i)
  PROVE  Apart(steps) /\ \A j \in 1..Len(steps) : steps[j].op # "delete" /\ Fit(steps[j], i)
<1> DEFINE last == Len(steps)
           target(j) == TargetOf(steps[j], at[j])
<1>1. WellFormed(u) /\ Suits(u, i)
  BY DEF Accepted
<1>2. \A j \in 1..last : Fit(steps[j], i)
  BY <1>1, SuitsIs
<1>3. ASSUME NEW j \in 1..last, steps[j].op = "delete" PROVE FALSE
  <2>1. u.ued = <<>>
    BY <1>1 DEF WellFormed
  <2>2. InList(u.ued, steps, last, {"delete"}, at)
    BY DEF Builder
  <2>3. at[j] \in DOMAIN u.ued
    BY <1>3, <2>2 DEF InList, Of
  <2> QED
    BY <2>1, <2>3
<1>4. \A j \in 1..last : target(j) \in Targets(u)
  BY TargetsAre
<1>5. \A s, t \in Targets(u) : s # t => ~Overlap(s, t)
  BY <1>1 DEF WellFormed
<1>6. ASSUME NEW j \in 1..last, NEW k \in 1..last, j # k PROVE target(j) # target(k)
  <2>1. \A op \in AllOps : op \in SetOps \/ op \in {"remove", "add", "delete"}
    BY DEF AllOps, SetOps
  <2>2. steps[j].op \in AllOps /\ steps[k].op \in AllOps
    BY ChainIs
  <2>3. CASE TagOf(steps[j].op) # TagOf(steps[k].op)
    BY <2>3 DEF TargetOf
  <2>4. CASE TagOf(steps[j].op) = TagOf(steps[k].op)
    <3>1. /\ steps[j].op \in SetOps <=> TagOf(steps[j].op) = "SET"
          /\ steps[k].op \in SetOps <=> TagOf(steps[k].op) = "SET"
          /\ steps[j].op = "remove" <=> TagOf(steps[j].op) = "REMOVE"
          /\ steps[k].op = "remove" <=> TagOf(steps[k].op) = "REMOVE"
          /\ steps[j].op = "add" <=> TagOf(steps[j].op) = "ADD"
          /\ steps[k].op = "add" <=> TagOf(steps[k].op) = "ADD"
      BY DEF TagOf, SetOps
    <3>2. /\ InList(u.ues, steps, last, SetOps, at) /\ InList(u.uer, steps, last, {"remove"}, at)
          /\ InList(u.uea, steps, last, {"add"}, at)
      BY DEF Builder
    <3>3. at[j] # at[k]
      <4>1. CASE steps[j].op \in SetOps
        <5>1. j \in Of(steps, last, SetOps) /\ k \in Of(steps, last, SetOps)
          BY <2>4, <3>1, <4>1 DEF Of
        <5> QED
          BY <1>6, <3>2, <5>1 DEF InList
      <4>2. CASE steps[j].op = "remove"
        <5>1. j \in Of(steps, last, {"remove"}) /\ k \in Of(steps, last, {"remove"})
          BY <2>4, <3>1, <4>2 DEF Of
        <5> QED
          BY <1>6, <3>2, <5>1 DEF InList
      <4>3. CASE steps[j].op = "add"
        <5>1. j \in Of(steps, last, {"add"}) /\ k \in Of(steps, last, {"add"})
          BY <2>4, <3>1, <4>3 DEF Of
        <5> QED
          BY <1>6, <3>2, <5>1 DEF InList
      <4> QED
        BY <1>3, <2>1, <2>2, <4>1, <4>2, <4>3
    <3>4. target(j).clause = <<TagOf(steps[j].op), at[j]>> /\ target(k).clause = <<TagOf(steps[k].op), at[k]>>
      BY DEF TargetOf
    <3> QED
      BY <3>3, <3>4
  <2> QED
    BY <2>3, <2>4
<1>7. ASSUME NEW j \in 1..last, NEW k \in 1..last, j # k, steps[j].name = steps[k].name PROVE FALSE
  <2>1. ~Overlap(target(j), target(k))
    BY <1>4, <1>5, <1>6, <1>7
  <2>2. target(j).attr = target(k).attr
    BY <1>7 DEF TargetOf
  <2>3. <<NoKey, 0>> \notin {Part(target(j)), Part(target(k))}
    BY <2>1, <2>2 DEF Overlap
  <2>4. ASSUME NEW m \in 1..last, <<NoKey, 0>> # Part(target(m))
        PROVE  steps[m].op = "element" \/ (steps[m].op = "remove" /\ steps[m].at # 0)
    <3> SUFFICES ASSUME steps[m].op # "element", steps[m].op = "remove" => steps[m].at = 0 PROVE FALSE
      OBVIOUS
    <3>1. target(m).key = NoKey /\ target(m).at = 0
      BY DEF TargetOf
    <3> QED
      BY <2>4, <3>1 DEF Part
  <2>5. /\ steps[j].op = "element" \/ (steps[j].op = "remove" /\ steps[j].at # 0)
        /\ steps[k].op = "element" \/ (steps[k].op = "remove" /\ steps[k].at # 0)
    BY <2>3, <2>4
  <2>6. ~(steps[j].op = "element" /\ steps[k].op = "element")
    BY <1>7, Unshared
  <2>7. ~(steps[j].op = "remove" /\ steps[k].op = "remove")
    <3>1. j \in DOMAIN steps /\ k \in DOMAIN steps
      BY ChainIs
    <3> QED
      BY <1>7, <3>1 DEF TakesTwo
  <2>8. ASSUME NEW a \in 1..last, NEW b \in 1..last, steps[a].name = steps[b].name,
               steps[a].op = "element", steps[b].op = "remove", steps[b].at # 0
        PROVE  FALSE
    <3>1. Type(i[steps[a].name]) = "M"
      BY <1>2, <2>8 DEF Fit
    <3>2. Type(i[steps[b].name]) = "L"
      BY <1>2, <2>8 DEF Fit
    <3> QED
      BY <2>8, <3>1, <3>2
  <2> QED
    BY <1>7, <2>5, <2>6, <2>7, <2>8
<1>8. Apart(steps)
  BY <1>7, ChainIs DEF Apart
<1> QED
  BY <1>2, <1>3, <1>8

-----------------------------------------------------------------------------
(* One attribute *)

SameAt(f, g, attr) ==
  /\ attr \in DOMAIN f <=> attr \in DOMAIN g
  /\ attr \in DOMAIN f => f[attr] = g[attr]

\* The clauses for an attribute are those of the calls for it.
LEMMA AboutList ==
  ASSUME NEW steps, Chain(steps), ~SharesValue(steps),
         NEW u, NEW given, NEW at, Builder(u, given, steps, Len(steps), at),
         NEW seq, NEW ops, InList(seq, steps, Len(steps), ops, at), NEW attr
  PROVE  About(u, seq, attr) = {Clause(steps[j]) : j \in {k \in Of(steps, Len(steps), ops) : steps[k].name = attr}}
<1>1. ToSet(seq) = {Clause(steps[j]) : j \in Of(steps, Len(steps), ops)}
  BY ListIs
<1>2. \A j \in Of(steps, Len(steps), ops) : u.ean[Clause(steps[j]).name] = steps[j].name
  BY ClauseNamed DEF Of
<1> QED
  BY <1>1, <1>2 DEF About

\* What no call is for stays as it was.
LEMMA OtherAttribute ==
  ASSUME NEW steps, Chain(steps), ~SharesValue(steps),
         NEW u, NEW given, NEW at, Builder(u, given, steps, Len(steps), at), NEW i,
         NEW attr, \A j \in 1..Len(steps) : steps[j].name # attr
  PROVE  SameAt(Apply(u, i), i, attr)
<1>1. \A ops : {k \in Of(steps, Len(steps), ops) : steps[k].name = attr} = {}
  BY DEF Of
<1>2. About(u, u.ues, attr) = {} /\ About(u, u.uer, attr) = {} /\ About(u, u.uea, attr) = {}
  <2>1. /\ InList(u.ues, steps, Len(steps), SetOps, at) /\ InList(u.uer, steps, Len(steps), {"remove"}, at)
        /\ InList(u.uea, steps, Len(steps), {"add"}, at)
    BY DEF Builder
  <2>2. About(u, u.ues, attr) = {Clause(steps[j]) : j \in {k \in Of(steps, Len(steps), SetOps) : steps[k].name = attr}}
    BY <2>1, AboutList
  <2>3. About(u, u.uer, attr) = {Clause(steps[j]) : j \in {k \in Of(steps, Len(steps), {"remove"}) : steps[k].name = attr}}
    BY <2>1, AboutList
  <2>4. About(u, u.uea, attr) = {Clause(steps[j]) : j \in {k \in Of(steps, Len(steps), {"add"}) : steps[k].name = attr}}
    BY <2>1, AboutList
  <2> QED
    BY <1>1, <2>2, <2>3, <2>4
<1>3. Cut(u, attr) = {}
  BY <1>2 DEF Cut
<1>4. attr \in DOMAIN Apply(u, i) <=> attr \in DOMAIN i
  BY <1>2, <1>3, AttributesAfter
<1>5. After(u, i, attr) = i[attr]
  BY <1>2, <1>3 DEF After
<1> QED
  BY <1>4, <1>5, ValueAfter DEF SameAt

\* A list without one of its elements.
LEMMA LeftOne ==
  ASSUME NEW T, NEW list \in Seq(T), NEW p
  PROVE  Left(list, {p}) = IF p \in DOMAIN list THEN RemoveAt(list, p) ELSE list
<1> DEFINE kept == DOMAIN list \ {p}
           size == Cardinality(kept)
           nth(n) == CHOOSE q \in kept : Cardinality({r \in kept : r <= q}) = n
           n0 == Len(list)
<1>1. n0 \in Nat /\ DOMAIN list = 1..n0 /\ \A m \in 1..n0 : list[m] \in T
  BY LenProperties, ElementOfSeq
<1>2. Left(list, {p}) = [n \in 1..size |-> list[nth(n)]]
  BY DEF Left
<1>3. IsFiniteSet(1..n0) /\ \A m \in Nat : IsFiniteSet(1..m) /\ Cardinality(1..m) = m
  <2>1. \A m \in Nat : IsFiniteSet(1..m) /\ Cardinality(1..m) = IF 1 > m THEN 0 ELSE m - 1 + 1
    BY FS_Interval
  <2> QED
    BY <1>1, <2>1
<1>4. CASE p \notin DOMAIN list
  <2>1. kept = 1..n0 /\ size = n0
    <3>1. kept = 1..n0
      BY <1>1, <1>4
    <3> QED
      BY <1>1, <1>3, <3>1
  <2>2. ASSUME NEW q \in 1..n0 PROVE Cardinality({r \in kept : r <= q}) = q
    <3>1. {r \in kept : r <= q} = 1..q /\ q \in Nat
      BY <1>1, <2>1
    <3> QED
      BY <1>3, <3>1
  <2>3. ASSUME NEW n \in 1..n0 PROVE nth(n) = n
    BY <2>1, <2>2
  <2>4. Left(list, {p}) = [n \in 1..n0 |-> list[n]]
    BY <1>2, <2>1, <2>3
  <2>5. list = [n \in 1..n0 |-> list[n]]
    BY <1>1
  <2> QED
    BY <1>4, <2>4, <2>5
<1>5. CASE p \in DOMAIN list
  <2>1. p \in 1..n0 /\ p \in Nat /\ n0 - 1 \in Nat
    BY <1>1, <1>5
  <2>2. kept = 1..n0 \ {p} /\ kept \subseteq Nat
    BY <1>1
  <2>3. size = n0 - 1
    <3>1. Cardinality(1..n0 \ {p}) = Cardinality(1..n0) - 1
      BY <1>3, <2>1, FS_RemoveElement
    <3> QED
      BY <1>1, <1>3, <2>2, <3>1
  <2>4. ASSUME NEW q \in kept PROVE Cardinality({r \in kept : r <= q}) = IF q < p THEN q ELSE q - 1
    <3>0. q \in 1..n0 /\ q \in Nat /\ q # p
      BY <2>2
    <3>1. CASE q < p
      <4>1. {r \in kept : r <= q} = 1..q
        BY <1>1, <2>1, <2>2, <3>0, <3>1
      <4> QED
        BY <1>3, <3>0, <3>1, <4>1
    <3>2. CASE ~(q < p)
      <4>1. {r \in kept : r <= q} = (1..q) \ {p}
        BY <1>1, <2>1, <2>2, <3>0, <3>2
      <4>2. p \in 1..q
        BY <2>1, <3>0, <3>2
      <4>3. IsFiniteSet(1..q) /\ Cardinality(1..q) = q
        BY <1>3, <3>0
      <4>4. Cardinality((1..q) \ {p}) = Cardinality(1..q) - 1
        BY <4>2, <4>3, FS_RemoveElement
      <4> QED
        BY <3>2, <4>1, <4>3, <4>4
    <3> QED
      BY <3>1, <3>2
  <2> DEFINE to(n) == IF n < p THEN n ELSE n + 1
  <2>5. ASSUME NEW n \in 1..(n0 - 1) PROVE nth(n) = to(n)
    <3> DEFINE card(q) == Cardinality({r \in kept : r <= q})
    <3>1. to(n) \in kept
      BY <1>1, <2>1, <2>2
    <3>2. card(to(n)) = n
      <4>1. card(to(n)) = IF to(n) < p THEN to(n) ELSE to(n) - 1
        BY <2>4, <3>1
      <4> HIDE DEF card
      <4> QED
        BY <2>1, <4>1
    <3>3. ASSUME NEW q \in kept, card(q) = n PROVE q = to(n)
      <4>1. n = IF q < p THEN q ELSE q - 1
        BY <2>4, <3>3
      <4>2. q \in Nat /\ q # p /\ n \in Nat
        BY <2>2
      <4> QED
        BY <2>1, <4>1, <4>2
    <3>4. nth(n) = CHOOSE q \in kept : card(q) = n
      OBVIOUS
    <3> HIDE DEF card, to
    <3> QED
      BY <3>1, <3>2, <3>3, <3>4
  <2> HIDE DEF nth, kept, size
  <2>6. Left(list, {p}) = [n \in 1..(n0 - 1) |-> list[to(n)]]
    BY <1>2, <2>3, <2>5
  <2> DEFINE a == SubSeq(list, 1, p - 1)
             b == SubSeq(list, p + 1, n0)
  <2>7. a \in Seq(T) /\ Len(a) = p - 1 /\ \A m \in 1..(p - 1) : a[m] = list[m]
    <3>1. 1 \in Int /\ p - 1 \in Int /\ \A m \in 1..(p - 1) : list[m] \in T
      BY <1>1, <2>1
    <3>2. /\ a \in Seq(T) /\ Len(a) = IF 1 <= p - 1 THEN p - 1 - 1 + 1 ELSE 0
          /\ \A m \in 1..(p - 1 - 1 + 1) : a[m] = list[1 + m - 1]
      BY <3>1, SubSeqProperties
    <3> QED
      BY <2>1, <3>2
  <2>8. b \in Seq(T) /\ Len(b) = n0 - p /\ \A m \in 1..(n0 - p) : b[m] = list[p + m]
    <3>1. p + 1 \in Int /\ n0 \in Int /\ \A m \in (p + 1)..n0 : list[m] \in T
      BY <1>1, <2>1
    <3> DEFINE from == p + 1
    <3>2. from \in Int /\ n0 \in Int /\ \A m \in from..n0 : list[m] \in T
      BY <3>1
    <3>3. b = SubSeq(list, from, n0)
      OBVIOUS
    <3> HIDE DEF b, from
    <3>4. /\ b \in Seq(T) /\ Len(b) = IF from <= n0 THEN n0 - from + 1 ELSE 0
          /\ \A m \in 1..(n0 - from + 1) : b[m] = list[from + m - 1]
      BY <3>2, <3>3, SubSeqProperties
    <3>5. \A m \in 1..(n0 - p) : m \in 1..(n0 - from + 1) /\ from + m - 1 = p + m
      BY <1>1, <2>1 DEF from
    <3>6. (IF from <= n0 THEN n0 - from + 1 ELSE 0) = n0 - p
      <4>1. p \in Int /\ n0 \in Int /\ p <= n0 /\ from = p + 1
        BY <1>1, <2>1 DEF from
      <4> HIDE DEF n0
      <4>2. CASE from <= n0
        BY <4>1, <4>2
      <4>3. CASE ~(from <= n0)
        <5>1. n0 = p
          BY <4>1, <4>3
        <5> QED
          BY <4>1, <4>3, <5>1
      <4> QED
        BY <4>2, <4>3
    <3>7. \A m \in 1..(n0 - p) : b[m] = list[p + m]
      <4> TAKE m \in 1..(n0 - p)
      <4>1. m \in 1..(n0 - from + 1) /\ from + m - 1 = p + m
        BY <3>5
      <4>2. b[m] = list[from + m - 1]
        BY <3>4, <4>1
      <4> QED
        BY <4>1, <4>2
    <3> QED
      BY <3>4, <3>6, <3>7
  <2> HIDE DEF a, b
  <2>9. a \o b \in Seq(T) /\ Len(a \o b) = n0 - 1
        /\ \A m \in 1..(n0 - 1) : (a \o b)[m] = IF m <= p - 1 THEN a[m] ELSE b[m - (p - 1)]
    <3>1. /\ a \o b \in Seq(T) /\ Len(a \o b) = Len(a) + Len(b)
          /\ \A m \in 1..(Len(a) + Len(b)) : (a \o b)[m] = IF m <= Len(a) THEN a[m] ELSE b[m - Len(a)]
      BY <2>7, <2>8, ConcatProperties
    <3>2. Len(a) + Len(b) = n0 - 1
      BY <1>1, <2>1, <2>7, <2>8
    <3> QED
      BY <2>7, <3>1, <3>2
  <2>10. ASSUME NEW m \in 1..(n0 - 1) PROVE (a \o b)[m] = list[to(m)]
    <3>1. CASE m < p
      <4>1. m \in 1..(p - 1) /\ m <= p - 1 /\ to(m) = m
        BY <2>1, <3>1
      <4> QED
        BY <2>7, <2>9, <4>1
    <3>2. CASE ~(m < p)
      <4>1. m - (p - 1) \in 1..(n0 - p) /\ ~(m <= p - 1) /\ to(m) = m + 1 /\ p + (m - (p - 1)) = m + 1
        BY <1>1, <2>1, <3>2
      <4> QED
        BY <2>8, <2>9, <4>1
    <3> QED
      BY <3>1, <3>2
  <2>11. DOMAIN (a \o b) = 1..(n0 - 1) /\ a \o b = [m \in 1..(n0 - 1) |-> (a \o b)[m]]
    <3>1. DOMAIN (a \o b) = 1..Len(a \o b) /\ a \o b \in [1..Len(a \o b) -> T]
      BY <2>9, LenProperties
    <3> QED
      BY <2>9, <3>1
  <2>12. RemoveAt(list, p) = a \o b
    BY DEF RemoveAt, a, b
  <2> HIDE DEF to
  <2> QED
    BY <1>5, <2>6, <2>10, <2>11, <2>12
<1> QED
  BY <1>4, <1>5

\* What a call means, by its kind.
LEMMA MeantIs ==
  ASSUME NEW i, NEW step
  PROVE  /\ step.op = "set" => Meant(i, step) = Bind(step.name, step.v) ++ i
         /\ step.op = "element" =>
              Meant(i, step) = Bind(step.name, M(Bind(step.key, step.v) ++ i[step.name].M)) ++ i
         /\ step.op = "append" =>
              Meant(i, step) = Bind(step.name, L(Or(i, step.name, L(<<>>)).L \o step.v.L)) ++ i
         /\ step.op = "add" =>
              Meant(i, step) = Bind(step.name, Plus(Or(i, step.name, N(0)), step.v)) ++ i
         /\ step.op = "remove" /\ step.at = 0 => Meant(i, step) = Without(i, step.name)
         /\ step.op = "remove" /\ step.at # 0 =>
              Meant(i, step) =
                Bind(step.name, L(IF step.at \in DOMAIN i[step.name].L THEN RemoveAt(i[step.name].L, step.at)
                                  ELSE i[step.name].L)) ++ i
<1>1. CASE step.op = "set"
  BY <1>1 DEF Meant
<1>2. CASE step.op = "element"
  BY <1>2 DEF Meant
<1>3. CASE step.op = "append"
  BY <1>3 DEF Meant
<1>4. CASE step.op = "add"
  BY <1>4 DEF Meant
<1>5. CASE step.op = "remove" /\ step.at = 0
  BY <1>5 DEF Meant
<1>6. CASE step.op = "remove" /\ step.at # 0
  BY <1>6 DEF Meant
<1> QED
  BY <1>1, <1>2, <1>3, <1>4, <1>5, <1>6

Sample(i) ==
  /\ i = [attr \in DOMAIN i |-> i[attr]]
  /\ \A attr \in DOMAIN i : Type(i[attr]) = "L" => i[attr].L \in Seq(ToSet(i[attr].L))

\* What an update makes of the attribute of one of its calls is what the call
\* means.
LEMMA OneAttribute ==
  ASSUME NEW steps, Chain(steps), ~SharesValue(steps), Apart(steps),
         NEW u, NEW given, NEW at, Builder(u, given, steps, Len(steps), at),
         NEW i, Sample(i), NEW j \in 1..Len(steps), Fit(steps[j], i), steps[j].op # "delete"
  PROVE  SameAt(Apply(u, i), Meant(i, steps[j]), steps[j].name)
<1> DEFINE step == steps[j]
           a == step.name
           c == Clause(step)
           u1 == u.ues
<1>1. step.op \in AllOps /\ step.op # "delete"
  BY ChainIs
<1>2. /\ step.op \in SetOps => {k \in Of(steps, Len(steps), SetOps) : steps[k].name = a} = {j}
      /\ step.op \notin SetOps => {k \in Of(steps, Len(steps), SetOps) : steps[k].name = a} = {}
      /\ step.op = "remove" => {k \in Of(steps, Len(steps), {"remove"}) : steps[k].name = a} = {j}
      /\ step.op # "remove" => {k \in Of(steps, Len(steps), {"remove"}) : steps[k].name = a} = {}
      /\ step.op = "add" => {k \in Of(steps, Len(steps), {"add"}) : steps[k].name = a} = {j}
      /\ step.op # "add" => {k \in Of(steps, Len(steps), {"add"}) : steps[k].name = a} = {}
  <2>1. \A k \in 1..Len(steps) : steps[k].name = a => k = j
    BY ChainIs DEF Apart
  <2> QED
    BY <2>1 DEF Of
<1>3. /\ About(u, u.ues, a) = {Clause(steps[m]) : m \in {k \in Of(steps, Len(steps), SetOps) : steps[k].name = a}}
      /\ About(u, u.uer, a) = {Clause(steps[m]) : m \in {k \in Of(steps, Len(steps), {"remove"}) : steps[k].name = a}}
      /\ About(u, u.uea, a) = {Clause(steps[m]) : m \in {k \in Of(steps, Len(steps), {"add"}) : steps[k].name = a}}
  <2>1. /\ InList(u.ues, steps, Len(steps), SetOps, at) /\ InList(u.uer, steps, Len(steps), {"remove"}, at)
        /\ InList(u.uea, steps, Len(steps), {"add"}, at)
    BY DEF Builder
  <2> QED
    BY <2>1, AboutList
<1>4. /\ About(u, u.ues, a) = IF step.op \in SetOps THEN {c} ELSE {}
      /\ About(u, u.uer, a) = IF step.op = "remove" THEN {c} ELSE {}
      /\ About(u, u.uea, a) = IF step.op = "add" THEN {c} ELSE {}
  BY <1>2, <1>3
<1>5. \A p \in DOMAIN ValuesOf(step) : u.eav[p] = ValuesOf(step)[p]
  BY ValuesHold
<1>6. u.ean[c.name] = a /\ (step.op = "element" => u.ean[c.key] = step.key)
  BY ClauseNamed
<1>7. One({c}) = c
  BY DEF One
<1>8. Fit(step, i)
  OBVIOUS
<1> HIDE DEF step, c
<1>9. step.op # "remove" => Cut(u, a) = {}
  BY <1>4 DEF Cut
<1>10. CASE step.op = "set"
  <2>1. About(u, u.ues, a) = {c} /\ Cut(u, a) = {}
    BY <1>4, <1>9, <1>10 DEF SetOps
  <2>2. c.key = NoKeyName /\ c.fn = "value" /\ c.args = <<V(a)>>
    BY <1>1, <1>10, ClauseIs DEF c
  <2>3. c.args[1] = V(a)
    BY <2>2
  <2>4. u.eav[V(a)] = step.v
    <3>1. V(a) \in DOMAIN ValuesOf(step) /\ ValuesOf(step)[V(a)] = step.v
      BY <1>1, <1>10, ValuesAre
    <3> QED
      BY <1>5, <3>1
  <2>5. a \in DOMAIN Apply(u, i)
    BY <2>1, AttributesAfter
  <2>6. Value(u, i, a, c) = u.eav[c.args[1]]
    BY <2>2 DEF Value
  <2>7. After(u, i, a) = Value(u, i, a, c)
    BY <1>7, <2>1, <2>2 DEF After
  <2>8. Apply(u, i)[a] = step.v
    BY <2>3, <2>4, <2>5, <2>6, <2>7, ValueAfter
  <2>9. Meant(i, step) = Bind(a, step.v) ++ i
    BY <1>10, MeantIs
  <2>10. a \in DOMAIN Meant(i, step) /\ Meant(i, step)[a] = step.v
    BY <2>9 DEF Bind, ++
  <2> QED
    BY <2>5, <2>8, <2>10 DEF SameAt, step
<1>11. CASE step.op = "element"
  <2>1. About(u, u.ues, a) = {c} /\ Cut(u, a) = {}
    BY <1>4, <1>9, <1>11 DEF SetOps
  <2>2. c.key = P("keyName") /\ c.args = <<V("valueName")>>
    BY <1>1, <1>11, ClauseIs DEF c
  <2>3. c.args[1] = V("valueName") /\ c.key # NoKeyName
    BY <2>2 DEF P, NoKeyName, NoKey
  <2>4. u.eav[V("valueName")] = step.v
    <3>1. V("valueName") \in DOMAIN ValuesOf(step) /\ ValuesOf(step)[V("valueName")] = step.v
      BY <1>1, <1>11, ValuesAre
    <3> QED
      BY <1>5, <3>1
  <2>5. a \in DOMAIN Apply(u, i)
    BY <2>1, AttributesAfter
  <2>6. Entries(u, {c}) = Bind(step.key, step.v)
    <3>1. {u.ean[d.key] : d \in {c}} = {step.key}
      BY <1>6, <1>11
    <3>2. {d \in {c} : u.ean[d.key] = step.key} = {c}
      BY <1>6, <1>11
    <3>3. Entries(u, {c}) = [key \in {step.key} |-> u.eav[One({d \in {c} : u.ean[d.key] = key}).args[1]]]
      BY <3>1 DEF Entries
    <3>4. u.eav[One({d \in {c} : u.ean[d.key] = step.key}).args[1]] = step.v
      BY <1>7, <2>3, <2>4, <3>2
    <3>5. \A key \in {step.key} : u.eav[One({d \in {c} : u.ean[d.key] = key}).args[1]] = step.v
      BY <3>4
    <3>6. Entries(u, {c}) = [key \in {step.key} |-> step.v]
      BY <3>3, <3>5
    <3> QED
      BY <3>6 DEF Bind
  <2>7. After(u, i, a) = M(Entries(u, {c}) ++ i[a].M)
    BY <1>7, <2>1, <2>3 DEF After
  <2>8. Apply(u, i)[a] = M(Bind(step.key, step.v) ++ i[a].M)
    BY <2>5, <2>6, <2>7, ValueAfter
  <2>9. Meant(i, step) = Bind(a, M(Bind(step.key, step.v) ++ i[a].M)) ++ i
    BY <1>11, MeantIs
  <2>10. a \in DOMAIN Meant(i, step) /\ Meant(i, step)[a] = M(Bind(step.key, step.v) ++ i[a].M)
    BY <2>9 DEF Bind, ++
  <2> QED
    BY <2>5, <2>8, <2>10 DEF SameAt, step
<1>12. CASE step.op = "append"
  <2>1. About(u, u.ues, a) = {c} /\ Cut(u, a) = {}
    BY <1>4, <1>9, <1>12 DEF SetOps
  <2>2. c.key = NoKeyName /\ c.fn = "append" /\ c.args = <<V("elst"), V("val")>>
    BY <1>1, <1>12, ClauseIs DEF c
  <2>3. c.args[1] = V("elst") /\ c.args[2] = V("val")
    BY <2>2
  <2>4. u.eav[V("elst")] = L(<<>>) /\ u.eav[V("val")] = step.v
    <3>1. /\ DOMAIN ValuesOf(step) = {V("val"), V("elst")}
          /\ ValuesOf(step)[V("val")] = step.v /\ ValuesOf(step)[V("elst")] = L(<<>>)
      BY <1>1, <1>12, ValuesAre
    <3> QED
      BY <1>5, <3>1
  <2>5. a \in DOMAIN Apply(u, i)
    BY <2>1, AttributesAfter
  <2>6. Value(u, i, a, c) = L(Or(i, a, u.eav[c.args[1]]).L \o u.eav[c.args[2]].L)
    BY <2>2 DEF Value
  <2>7. After(u, i, a) = Value(u, i, a, c)
    BY <1>7, <2>1, <2>2 DEF After
  <2>8. Apply(u, i)[a] = L(Or(i, a, L(<<>>)).L \o step.v.L)
    BY <2>3, <2>4, <2>5, <2>6, <2>7, ValueAfter
  <2>9. Meant(i, step) = Bind(a, L(Or(i, a, L(<<>>)).L \o step.v.L)) ++ i
    BY <1>12, MeantIs
  <2>10. a \in DOMAIN Meant(i, step) /\ Meant(i, step)[a] = L(Or(i, a, L(<<>>)).L \o step.v.L)
    BY <2>9 DEF Bind, ++
  <2> QED
    BY <2>5, <2>8, <2>10 DEF SameAt, step
<1>13. CASE step.op = "add"
  <2>1. About(u, u.ues, a) = {} /\ About(u, u.uea, a) = {c} /\ Cut(u, a) = {}
    BY <1>4, <1>9, <1>13 DEF SetOps
  <2>2. c.val = V(a)
    BY <1>1, <1>13, ClauseIs DEF c
  <2>4. u.eav[V(a)] = step.v
    <3>1. V(a) \in DOMAIN ValuesOf(step) /\ ValuesOf(step)[V(a)] = step.v
      BY <1>1, <1>13, ValuesAre
    <3> QED
      BY <1>5, <3>1
  <2>5. a \in DOMAIN Apply(u, i)
    BY <2>1, AttributesAfter
  <2>7. After(u, i, a) = Plus(Or(i, a, N(0)), u.eav[c.val])
    BY <1>7, <2>1 DEF After
  <2>8. Apply(u, i)[a] = Plus(Or(i, a, N(0)), step.v)
    BY <2>2, <2>4, <2>5, <2>7, ValueAfter
  <2>9. Meant(i, step) = Bind(a, Plus(Or(i, a, N(0)), step.v)) ++ i
    BY <1>13, MeantIs
  <2>10. a \in DOMAIN Meant(i, step) /\ Meant(i, step)[a] = Plus(Or(i, a, N(0)), step.v)
    BY <2>9 DEF Bind, ++
  <2> QED
    BY <2>5, <2>8, <2>10 DEF SameAt, step
<1>14. CASE step.op = "remove"
  <2>1. About(u, u.ues, a) = {} /\ About(u, u.uea, a) = {} /\ About(u, u.uer, a) = {c}
    BY <1>4, <1>14 DEF SetOps
  <2>2. c.at = step.at
    BY <1>1, <1>14, ClauseIs DEF c
  <2>3. Cut(u, a) = {step.at}
    BY <2>1, <2>2 DEF Cut
  <2>4. CASE step.at = 0
    <3>1. a \notin DOMAIN Apply(u, i)
      BY <2>3, <2>4, AttributesAfter
    <3>2. Meant(i, step) = Without(i, a)
      BY <1>14, <2>4, MeantIs
    <3>3. a \notin DOMAIN Meant(i, step)
      BY <3>2 DEF Without
    <3> QED
      BY <3>1, <3>3 DEF SameAt, step
  <2>5. CASE step.at # 0
    <3>1. a \in DOMAIN i /\ Type(i[a]) = "L"
      BY <1>8, <1>14, <2>5 DEF Fit
    <3>2. a \in DOMAIN Apply(u, i)
      BY <2>3, <2>5, <3>1, AttributesAfter
    <3>3. After(u, i, a) = L(Left(i[a].L, {step.at}))
      BY <2>1, <2>3 DEF After
    <3>4. i[a].L \in Seq(ToSet(i[a].L))
      BY <3>1 DEF Sample
    <3> DEFINE list == i[a].L
               left == IF step.at \in DOMAIN list THEN RemoveAt(list, step.at) ELSE list
    <3>5. Left(list, {step.at}) = left
      BY <3>4, LeftOne
    <3>6. Apply(u, i)[a] = L(left)
      BY <3>2, <3>3, <3>5, ValueAfter
    <3>7. Meant(i, step) = Bind(a, L(left)) ++ i
      BY <1>14, <2>5, MeantIs
    <3> HIDE DEF left
    <3>8. a \in DOMAIN Meant(i, step) /\ Meant(i, step)[a] = L(left)
      BY <3>7 DEF Bind, ++
    <3> QED
      BY <3>2, <3>6, <3>8 DEF SameAt, step
  <2> QED
    BY <2>4, <2>5
<1> QED
  BY <1>1, <1>10, <1>11, <1>12, <1>13, <1>14 DEF AllOps

-----------------------------------------------------------------------------
(* What the calls mean together *)

\* A call is about its own attribute, and what it makes of that depends on
\* nothing else.
LEMMA MeantOne ==
  ASSUME NEW f, NEW i, NEW step, step.op \in AllOps, step.op # "delete", Fit(step, i),
         SameAt(f, i, step.name), f = [attr \in DOMAIN f |-> f[attr]]
  PROVE  /\ Meant(f, step) = [attr \in DOMAIN Meant(f, step) |-> Meant(f, step)[attr]]
         /\ \A attr : attr # step.name => SameAt(Meant(f, step), f, attr)
         /\ SameAt(Meant(f, step), Meant(i, step), step.name)
<1> DEFINE a == step.name
<1>1. ASSUME NEW v, NEW w, v = w, Meant(f, step) = Bind(a, v) ++ f, Meant(i, step) = Bind(a, w) ++ i
      PROVE  /\ Meant(f, step) = [attr \in DOMAIN Meant(f, step) |-> Meant(f, step)[attr]]
             /\ \A attr : attr # a => SameAt(Meant(f, step), f, attr)
             /\ SameAt(Meant(f, step), Meant(i, step), a)
  <2>1. /\ DOMAIN (Bind(a, v) ++ f) = {a} \cup DOMAIN f /\ (Bind(a, v) ++ f)[a] = v
        /\ \A b \in DOMAIN f \ {a} : (Bind(a, v) ++ f)[b] = f[b]
        /\ Bind(a, v) ++ f = [b \in DOMAIN (Bind(a, v) ++ f) |-> (Bind(a, v) ++ f)[b]]
    BY DEF Bind, ++
  <2>2. DOMAIN (Bind(a, w) ++ i) = {a} \cup DOMAIN i /\ (Bind(a, w) ++ i)[a] = w
    BY DEF Bind, ++
  <2>3. Meant(f, step) = [attr \in DOMAIN Meant(f, step) |-> Meant(f, step)[attr]]
    BY <1>1, <2>1
  <2>4. \A attr : attr # a => SameAt(Meant(f, step), f, attr)
    BY <1>1, <2>1 DEF SameAt
  <2>5. SameAt(Meant(f, step), Meant(i, step), a)
    BY <1>1, <2>1, <2>2 DEF SameAt
  <2> QED
    BY <2>3, <2>4, <2>5
<1>2. \A v : Or(f, a, v) = Or(i, a, v)
  BY DEF SameAt, Or
<1>3. a \in DOMAIN i => f[a] = i[a]
  BY DEF SameAt
<1>4. CASE step.op = "set"
  <2>1. Meant(f, step) = Bind(a, step.v) ++ f /\ Meant(i, step) = Bind(a, step.v) ++ i
    BY <1>4, MeantIs
  <2> QED
    BY <1>1, <2>1
<1>5. CASE step.op = "element"
  <2> DEFINE v == M(Bind(step.key, step.v) ++ f[a].M)
             w == M(Bind(step.key, step.v) ++ i[a].M)
  <2>1. f[a] = i[a]
    BY <1>3, <1>5 DEF Fit
  <2>2. Meant(f, step) = Bind(a, v) ++ f /\ Meant(i, step) = Bind(a, w) ++ i
    BY <1>5, MeantIs
  <2>3. v = w
    BY <2>1
  <2> HIDE DEF v, w
  <2> QED
    BY <1>1, <2>2, <2>3
<1>6. CASE step.op = "append"
  <2> DEFINE v == L(Or(f, a, L(<<>>)).L \o step.v.L)
             w == L(Or(i, a, L(<<>>)).L \o step.v.L)
  <2>2. Meant(f, step) = Bind(a, v) ++ f /\ Meant(i, step) = Bind(a, w) ++ i
    BY <1>6, MeantIs
  <2>3. v = w
    BY <1>2
  <2> HIDE DEF v, w
  <2> QED
    BY <1>1, <2>2, <2>3
<1>7. CASE step.op = "add"
  <2> DEFINE v == Plus(Or(f, a, N(0)), step.v)
             w == Plus(Or(i, a, N(0)), step.v)
  <2>2. Meant(f, step) = Bind(a, v) ++ f /\ Meant(i, step) = Bind(a, w) ++ i
    BY <1>7, MeantIs
  <2>3. v = w
    BY <1>2
  <2> HIDE DEF v, w
  <2> QED
    BY <1>1, <2>2, <2>3
<1>8. CASE step.op = "remove" /\ step.at # 0
  <2> DEFINE left(list) == L(IF step.at \in DOMAIN list THEN RemoveAt(list, step.at) ELSE list)
             v == left(f[a].L)
             w == left(i[a].L)
  <2>1. f[a] = i[a]
    BY <1>3, <1>8 DEF Fit
  <2>2. Meant(f, step) = Bind(a, v) ++ f /\ Meant(i, step) = Bind(a, w) ++ i
    BY <1>8, MeantIs
  <2>3. v = w
    BY <2>1
  <2> HIDE DEF v, w
  <2> QED
    BY <1>1, <2>2, <2>3
<1>9. CASE step.op = "remove" /\ step.at = 0
  <2>1. Meant(f, step) = Without(f, a) /\ Meant(i, step) = Without(i, a)
    BY <1>9, MeantIs
  <2> HIDE DEF a
  <2>2. /\ Without(f, a) = [attr \in DOMAIN Without(f, a) |-> Without(f, a)[attr]]
        /\ \A attr : attr # a => SameAt(Without(f, a), f, attr)
        /\ SameAt(Without(f, a), Without(i, a), a)
    BY DEF Without, SameAt
  <2> QED
    BY <2>1, <2>2 DEF a
<1> QED
  BY <1>4, <1>5, <1>6, <1>7, <1>8, <1>9 DEF AllOps

\* So of calls for different attributes each has made of its own what it means.
LEMMA MeantTogether ==
  ASSUME NEW steps, Chain(steps), Apart(steps), NEW i, Sample(i),
         \A j \in 1..Len(steps) : steps[j].op # "delete" /\ Fit(steps[j], i)
  PROVE  /\ Together(i, steps) = [attr \in DOMAIN Together(i, steps) |-> Together(i, steps)[attr]]
         /\ \A j \in 1..Len(steps) : SameAt(Together(i, steps), Meant(i, steps[j]), steps[j].name)
         /\ \A attr : (\A j \in 1..Len(steps) : steps[j].name # attr) => SameAt(Together(i, steps), i, attr)
<1> DEFINE last == Len(steps)
<1>1. last \in Nat
  BY ChainIs
<1>2. PICK f : /\ f[0] = i
               /\ \A n \in 1..last : f[n] = Meant(f[n - 1], steps[n])
               /\ Together(i, steps) = f[last]
  BY <1>1, MeantRun
<1> DEFINE Is(n) == /\ f[n] = [attr \in DOMAIN f[n] |-> f[n][attr]]
                    /\ \A j \in 1..n : SameAt(f[n], Meant(i, steps[j]), steps[j].name)
                    /\ \A attr : (\A j \in 1..n : steps[j].name # attr) => SameAt(f[n], i, attr)
           Q == {n \in Nat : n <= last => Is(n)}
<1>3. 0 \in Q
  <2>1. 1..0 = {}
    OBVIOUS
  <2>2. \A attr : SameAt(i, i, attr)
    BY DEF SameAt
  <2>3. Is(0)
    BY <1>2, <2>1, <2>2 DEF Sample
  <2> QED
    BY <2>3
<1>4. ASSUME NEW n \in Nat, n \in Q PROVE n + 1 \in Q
  <2> SUFFICES ASSUME n + 1 <= last PROVE Is(n + 1)
    OBVIOUS
  <2> DEFINE step == steps[n + 1]
             g == f[n]
             h == f[n + 1]
  <2>1. Is(n) /\ n + 1 \in 1..last /\ (n + 1) - 1 = n
    BY <1>1, <1>4
  <2>2. h = Meant(g, step)
    BY <1>2, <2>1
  <2>3. step.op \in AllOps /\ step.op # "delete" /\ Fit(step, i)
    BY <2>1, ChainIs
  <2>4. \A j \in 1..n : steps[j].name # step.name
    <3> TAKE j \in 1..n
    <3>1. j \in DOMAIN steps /\ n + 1 \in DOMAIN steps /\ j # n + 1
      BY <1>1, <2>1, ChainIs
    <3> QED
      BY <3>1 DEF Apart
  <2>5. SameAt(g, i, step.name)
    BY <2>1, <2>4
  <2>6. g = [attr \in DOMAIN g |-> g[attr]]
    BY <2>1
  <2> HIDE DEF step, g, h
  <2>7. /\ h = [attr \in DOMAIN h |-> h[attr]]
        /\ \A attr : attr # step.name => SameAt(h, g, attr)
        /\ SameAt(h, Meant(i, step), step.name)
    BY <2>2, <2>3, <2>5, <2>6, MeantOne
  <2>8. ASSUME NEW j \in 1..(n + 1) PROVE SameAt(h, Meant(i, steps[j]), steps[j].name)
    <3>1. CASE j = n + 1
      BY <2>7, <3>1 DEF step
    <3>2. CASE j # n + 1
      <4>1. j \in 1..n
        BY <3>2
      <4>2. SameAt(g, Meant(i, steps[j]), steps[j].name)
        BY <2>1, <4>1 DEF g
      <4>3. SameAt(h, g, steps[j].name)
        BY <2>4, <2>7, <4>1
      <4> QED
        BY <4>2, <4>3 DEF SameAt
    <3> QED
      BY <3>1, <3>2
  <2>9. ASSUME NEW attr, \A j \in 1..(n + 1) : steps[j].name # attr PROVE SameAt(h, i, attr)
    <3>1. \A j \in 1..n : j \in 1..(n + 1)
      OBVIOUS
    <3>2. SameAt(g, i, attr)
      BY <2>1, <2>9, <3>1 DEF g
    <3>3. attr # step.name
      <4>1. n + 1 \in 1..(n + 1)
        OBVIOUS
      <4> QED
        BY <2>9, <4>1 DEF step
    <3>4. SameAt(h, g, attr)
      BY <2>7, <3>3
    <3> QED
      BY <3>2, <3>4 DEF SameAt
  <2> QED
    BY <2>7, <2>8, <2>9 DEF h
<1>5. Nat \subseteq Q
  <2> HIDE DEF Q
  <2> QED
    BY <1>3, <1>4, AllNumbers
<1>6. Is(last)
  BY <1>1, <1>5
<1> QED
  BY <1>2, <1>6

-----------------------------------------------------------------------------
(* Built as meant *)

\* What DynamoDB makes of the item is what the calls mean one by one.
LEMMA AppliesAsMeant ==
  ASSUME NEW steps, Chain(steps), ~SharesValue(steps), ~TakesTwo(steps), NEW i, Sample(i),
         NEW given, Accepted(Built(given, steps), i)
  PROVE  Apply(Built(given, steps), i) = Together(i, steps)
<1> DEFINE u == Built(given, steps)
           last == Len(steps)
           f == Apply(u, i)
           g == Together(i, steps)
<1>1. PICK at : Builder(u, given, steps, last, at)
  BY BuilderIs
<1> HIDE DEF u
<1>2. Accepted(u, i)
  BY DEF u
<1>3. Apart(steps) /\ \A j \in 1..last : steps[j].op # "delete" /\ Fit(steps[j], i)
  BY <1>1, <1>2, AcceptedApart
<1>4. /\ g = [attr \in DOMAIN g |-> g[attr]]
      /\ \A j \in 1..last : SameAt(g, Meant(i, steps[j]), steps[j].name)
      /\ \A attr : (\A j \in 1..last : steps[j].name # attr) => SameAt(g, i, attr)
  BY <1>3, MeantTogether
<1>5. f = [attr \in DOMAIN f |-> f[attr]]
  BY DEF Apply
<1> HIDE DEF f, g
<1>6. ASSUME NEW attr PROVE SameAt(f, g, attr)
  <2>1. CASE \E j \in 1..last : steps[j].name = attr
    <3>1. PICK j \in 1..last : steps[j].name = attr
      BY <2>1
    <3>2. SameAt(f, Meant(i, steps[j]), attr)
      BY <1>1, <1>3, <3>1, OneAttribute DEF f
    <3>3. SameAt(g, Meant(i, steps[j]), attr)
      BY <1>4, <3>1
    <3> QED
      BY <3>2, <3>3 DEF SameAt
  <2>2. CASE \A j \in 1..last : steps[j].name # attr
    <3>1. SameAt(f, i, attr)
      BY <1>1, <2>2, OtherAttribute DEF f
    <3>2. SameAt(g, i, attr)
      BY <1>4, <2>2
    <3> QED
      BY <3>1, <3>2 DEF SameAt
  <2> QED
    BY <2>1, <2>2
<1>7. DOMAIN f = DOMAIN g /\ \A attr \in DOMAIN f : f[attr] = g[attr]
  BY <1>6 DEF SameAt
<1>8. f = g
  BY <1>4, <1>5, <1>7
<1> QED
  BY <1>8 DEF f, g, u

\* What each call binds is used by its clause, and the other way round.
LEMMA NamesUsed ==
  ASSUME NEW step, step.op \in AllOps
  PROVE  /\ DOMAIN NamesOf(step) =
              {Clause(step).name} \cup (IF step.op \in SetOps THEN {Clause(step).key} \ {NoKeyName} ELSE {})
         /\ DOMAIN ValuesOf(step) =
              (IF step.op \in SetOps THEN ToSet(Clause(step).args) ELSE {}) \cup
              (IF step.op \in {"add", "delete"} THEN {Clause(step).val} ELSE {})
<1>0. P("keyName") # NoKeyName
  BY DEF P, NoKeyName, NoKey
<1>1. CASE step.op = "set"
  <2>1. Clause(step).name = P(step.name) /\ Clause(step).key = NoKeyName /\ Clause(step).args = <<V(step.name)>>
    BY <1>1, ClauseIs
  <2>2. DOMAIN NamesOf(step) = {P(step.name)} /\ DOMAIN ValuesOf(step) = {V(step.name)}
    BY <1>1, NamesAre, ValuesAre
  <2>3. ToSet(<<V(step.name)>>) = {V(step.name)}
    BY OneSet
  <2> QED
    BY <1>1, <2>1, <2>2, <2>3 DEF SetOps
<1>2. CASE step.op = "element"
  <2>1. /\ Clause(step).name = P("mapName") /\ Clause(step).key = P("keyName")
        /\ Clause(step).args = <<V("valueName")>>
    BY <1>2, ClauseIs
  <2>2. DOMAIN NamesOf(step) = {P("mapName"), P("keyName")} /\ DOMAIN ValuesOf(step) = {V("valueName")}
    BY <1>2, NamesAre, ValuesAre
  <2>3. ToSet(<<V("valueName")>>) = {V("valueName")}
    BY OneSet
  <2> QED
    BY <1>0, <1>2, <2>1, <2>2, <2>3 DEF SetOps
<1>3. CASE step.op = "append"
  <2>1. /\ Clause(step).name = P(step.name) /\ Clause(step).key = NoKeyName
        /\ Clause(step).args = <<V("elst"), V("val")>>
    BY <1>3, ClauseIs
  <2>2. DOMAIN NamesOf(step) = {P(step.name)} /\ DOMAIN ValuesOf(step) = {V("val"), V("elst")}
    BY <1>3, NamesAre, ValuesAre
  <2>3. ToSet(<<V("elst"), V("val")>>) = {V("elst"), V("val")}
    BY TwoSet
  <2> QED
    BY <1>3, <2>1, <2>2, <2>3 DEF SetOps
<1>4. CASE step.op = "remove"
  <2>1. Clause(step).name = P(step.name)
    BY <1>4, ClauseIs
  <2>2. DOMAIN NamesOf(step) = {P(step.name)} /\ DOMAIN ValuesOf(step) = {}
    BY <1>4, NamesAre, ValuesAre
  <2> QED
    BY <1>4, <2>1, <2>2 DEF SetOps
<1>5. CASE step.op \in {"add", "delete"}
  <2>1. Clause(step).name = P(step.name) /\ Clause(step).val = V(step.name)
    BY <1>5, ClauseIs
  <2>2. DOMAIN NamesOf(step) = {P(step.name)} /\ DOMAIN ValuesOf(step) = {V(step.name)}
    BY <1>5, NamesAre, ValuesAre
  <2> QED
    BY <1>5, <2>1, <2>2 DEF SetOps
<1> QED
  BY <1>1, <1>2, <1>3, <1>4, <1>5 DEF AllOps

\* No placeholder is left over, none is missing.
LEMMA PlaceholdersUsed ==
  ASSUME NEW steps, Chain(steps),
         NEW u, NEW given, NEW at, Builder(u, given, steps, Len(steps), at)
  PROVE  /\ DOMAIN u.ean = {c.name : c \in ToSet(u.ues) \cup ToSet(u.uer) \cup ToSet(u.uea) \cup ToSet(u.ued)}
                           \cup ({c.key : c \in ToSet(u.ues)} \ {NoKeyName})
         /\ DOMAIN u.eav = (UNION {ToSet(c.args) : c \in ToSet(u.ues)})
                           \cup {c.val : c \in ToSet(u.uea) \cup ToSet(u.ued)}
<1> DEFINE last == Len(steps)
           clause(j) == Clause(steps[j])
           of(ops) == Of(steps, last, ops)
           names == {c.name : c \in ToSet(u.ues) \cup ToSet(u.uer) \cup ToSet(u.uea) \cup ToSet(u.ued)}
                    \cup ({c.key : c \in ToSet(u.ues)} \ {NoKeyName})
           args == (UNION {ToSet(c.args) : c \in ToSet(u.ues)})
           operands == {c.val : c \in ToSet(u.uea) \cup ToSet(u.ued)}
           values == args \cup operands
<1>1. /\ ToSet(u.ues) = {clause(j) : j \in of(SetOps)} /\ ToSet(u.uer) = {clause(j) : j \in of({"remove"})}
      /\ ToSet(u.uea) = {clause(j) : j \in of({"add"})} /\ ToSet(u.ued) = {clause(j) : j \in of({"delete"})}
  BY ListIs DEF Builder
<1>2. \A j \in 1..last :
        /\ steps[j].op \in AllOps
        /\ DOMAIN NamesOf(steps[j]) =
             {clause(j).name} \cup (IF steps[j].op \in SetOps THEN {clause(j).key} \ {NoKeyName} ELSE {})
        /\ DOMAIN ValuesOf(steps[j]) =
             (IF steps[j].op \in SetOps THEN ToSet(clause(j).args) ELSE {}) \cup
             (IF steps[j].op \in {"add", "delete"} THEN {clause(j).val} ELSE {})
  BY ChainIs, NamesUsed
<1> HIDE DEF clause
<1>3. /\ Merged(u.ean, {NamesOf(steps[j]) : j \in 1..last})
      /\ Merged(u.eav, {ValuesOf(steps[j]) : j \in 1..last})
  BY DEF Builder
<1>4. /\ DOMAIN u.ean = UNION {DOMAIN NamesOf(steps[j]) : j \in 1..last}
      /\ DOMAIN u.eav = UNION {DOMAIN ValuesOf(steps[j]) : j \in 1..last}
  BY <1>3 DEF Merged
<1>5. \A j \in 1..last : \/ j \in of(SetOps) \/ j \in of({"remove"}) \/ j \in of({"add"}) \/ j \in of({"delete"})
  BY <1>2 DEF AllOps, SetOps, Of
<1>6. \A j \in 1..last : /\ j \in of(SetOps) <=> steps[j].op \in SetOps
                         /\ j \in of({"add"}) \/ j \in of({"delete"}) <=> steps[j].op \in {"add", "delete"}
  BY DEF Of
<1>7. \A ops : of(ops) \subseteq 1..last
  BY DEF Of
<1> HIDE DEF of
<1>8. DOMAIN u.ean \subseteq names
  <2> SUFFICES ASSUME NEW p \in DOMAIN u.ean PROVE p \in names
    OBVIOUS
  <2>1. PICK j \in 1..last : p \in DOMAIN NamesOf(steps[j])
    BY <1>4
  <2>2. clause(j) \in ToSet(u.ues) \cup ToSet(u.uer) \cup ToSet(u.uea) \cup ToSet(u.ued)
    BY <1>1, <1>5
  <2>3. steps[j].op \in SetOps => clause(j) \in ToSet(u.ues)
    BY <1>1, <1>6
  <2> QED
    BY <1>2, <2>1, <2>2, <2>3
<1>9. names \subseteq DOMAIN u.ean
  <2> SUFFICES ASSUME NEW p \in names PROVE p \in DOMAIN u.ean
    OBVIOUS
  <2>1. CASE p \in {c.name : c \in ToSet(u.ues) \cup ToSet(u.uer) \cup ToSet(u.uea) \cup ToSet(u.ued)}
    <3>1. PICK j \in 1..last : p = clause(j).name
      BY <1>1, <1>7, <2>1
    <3> QED
      BY <1>2, <1>4, <3>1
  <2>2. CASE p \in {c.key : c \in ToSet(u.ues)} \ {NoKeyName}
    <3>1. PICK j \in of(SetOps) : p = clause(j).key
      BY <1>1, <2>2
    <3>2. j \in 1..last /\ steps[j].op \in SetOps
      BY <1>6, <1>7
    <3>3. p \in DOMAIN NamesOf(steps[j])
      BY <1>2, <2>2, <3>1, <3>2
    <3> QED
      BY <1>4, <3>2, <3>3
  <2> QED
    BY <2>1, <2>2
<1>10. DOMAIN u.eav \subseteq values
  <2> SUFFICES ASSUME NEW p \in DOMAIN u.eav PROVE p \in values
    OBVIOUS
  <2>1. PICK j \in 1..last : p \in DOMAIN ValuesOf(steps[j])
    BY <1>4
  <2>2. CASE steps[j].op \in SetOps /\ p \in ToSet(clause(j).args)
    <3>1. clause(j) \in ToSet(u.ues)
      BY <1>1, <1>6, <2>2
    <3> QED
      BY <2>2, <3>1
  <2>3. CASE steps[j].op \in {"add", "delete"} /\ p = clause(j).val
    <3>1. clause(j) \in ToSet(u.uea) \cup ToSet(u.ued)
      BY <1>1, <1>6, <2>3
    <3>2. p \in operands
      BY <2>3, <3>1
    <3> HIDE DEF operands, args
    <3> QED
      BY <3>2
  <2> QED
    BY <1>2, <2>1, <2>2, <2>3
<1>11. values \subseteq DOMAIN u.eav
  <2> SUFFICES ASSUME NEW p \in values PROVE p \in DOMAIN u.eav
    OBVIOUS
  <2>1. CASE p \in args
    <3>1. PICK j \in of(SetOps) : p \in ToSet(clause(j).args)
      BY <1>1, <2>1
    <3>2. j \in 1..last /\ steps[j].op \in SetOps
      BY <1>6, <1>7
    <3>3. p \in DOMAIN ValuesOf(steps[j])
      BY <1>2, <3>1, <3>2
    <3> QED
      BY <1>4, <3>2, <3>3
  <2>2. CASE p \in operands
    <3>1. PICK j \in 1..last : (j \in of({"add"}) \/ j \in of({"delete"})) /\ p = clause(j).val
      BY <1>1, <1>7, <2>2
    <3>2. p \in DOMAIN ValuesOf(steps[j])
      BY <1>2, <1>6, <3>1
    <3> QED
      BY <1>4, <3>2
  <2> HIDE DEF operands, args
  <2> QED
    BY <2>1, <2>2
<1>12. DOMAIN u.ean = names /\ DOMAIN u.eav = values
  <2> HIDE DEF names, values
  <2> QED
    BY <1>8, <1>9, <1>10, <1>11
<1> QED
  BY <1>12

\* Calls for different attributes, each of which can be done, can be done at
\* once.
LEMMA PossibleTogether ==
  ASSUME NEW steps, Chain(steps), ~SharesValue(steps), Apart(steps), NEW i,
         \A j \in 1..Len(steps) : Possible(i, steps[j])
  PROVE  Accepted(Built(PrimaryKey, steps), i)
<1> DEFINE u == Built(PrimaryKey, steps)
           last == Len(steps)
<1>1. PICK at : Builder(u, PrimaryKey, steps, last, at)
  BY BuilderIs
<1> HIDE DEF u
<1>2. \A j \in 1..last :
        /\ steps[j].op \in AllOps /\ steps[j].op # "delete" /\ steps[j].name \notin PrimaryKey
        /\ Fit(steps[j], i)
        /\ steps[j].op = "append" => Type(steps[j].v) = "L"
        /\ steps[j].op = "add" => Type(steps[j].v) = "N"
  <2> TAKE j \in 1..last
  <2> DEFINE step == steps[j]
  <2>1. Possible(i, step)
    OBVIOUS
  <2> HIDE DEF step
  <2>2. step.op # "delete" /\ step.name \notin PrimaryKey
    BY <2>1 DEF Possible
  <2>3. Fit(step, i)
    BY <2>1 DEF Possible, Fit
  <2>4. (step.op = "append" => Type(step.v) = "L") /\ (step.op = "add" => Type(step.v) = "N")
    BY <2>1 DEF Possible
  <2> QED
    BY <2>2, <2>3, <2>4, ChainIs DEF step
<1>3. Suits(u, i)
  BY <1>1, <1>2, SuitsIs
<1>4. Targets(u) = {TargetOf(steps[j], at[j]) : j \in 1..last}
  BY <1>1, TargetsAre
<1>5. \A s, t \in Targets(u) : s # t => ~Overlap(s, t)
  <2> TAKE s, t \in Targets(u)
  <2>1. PICK j \in 1..last : s = TargetOf(steps[j], at[j])
    BY <1>4
  <2>2. PICK k \in 1..last : t = TargetOf(steps[k], at[k])
    BY <1>4
  <2>3. s.attr = steps[j].name /\ t.attr = steps[k].name
    BY <2>1, <2>2 DEF TargetOf
  <2>4. j # k => steps[j].name # steps[k].name
    BY ChainIs DEF Apart
  <2> QED
    BY <2>1, <2>2, <2>3, <2>4 DEF Overlap
<1>6. \A t \in Targets(u) : t.attr \notin PrimaryKey
  BY <1>2, <1>4 DEF TargetOf
<1>7. u.key = PrimaryKey
  BY <1>1 DEF Builder
<1>8. /\ InList(u.ues, steps, last, SetOps, at) /\ InList(u.uea, steps, last, {"add"}, at)
      /\ InList(u.ued, steps, last, {"delete"}, at)
  BY <1>1 DEF Builder
<1>9. u.ued = <<>>
  <2>1. Of(steps, last, {"delete"}) = {}
    BY <1>2 DEF Of
  <2>2. DOMAIN u.ued = {} /\ u.ued \in Seq(ToSet(u.ued))
    BY <1>8, <2>1 DEF InList
  <2>3. Len(u.ued) = 0
    <3>1. Len(u.ued) \in Nat /\ DOMAIN u.ued = 1..Len(u.ued)
      BY <2>2, LenProperties
    <3>2. Len(u.ued) # 0 => 1 \in 1..Len(u.ued)
      BY <3>1
    <3> QED
      BY <2>2, <3>1, <3>2
  <2> QED
    BY <2>2, <2>3, EmptySeq
<1>10. \A j \in 1..last : \A p \in DOMAIN ValuesOf(steps[j]) : u.eav[p] = ValuesOf(steps[j])[p]
  BY <1>1, ValuesHold
<1>11. \A c \in ToSet(u.ues) : \A v \in ToSet(c.args) :
         /\ c.fn = "append" => Type(u.eav[v]) = "L"
         /\ c.fn = "plus"   => Type(u.eav[v]) = "N"
  <2> TAKE c \in ToSet(u.ues)
  <2> TAKE v \in ToSet(c.args)
  <2>1. PICK j \in Of(steps, last, SetOps) : c = Clause(steps[j])
    BY <1>8, ListIs
  <2> DEFINE step == steps[j]
  <2>2. j \in 1..last /\ step.op \in SetOps
    BY DEF Of
  <2>3. step.op \in AllOps /\ (step.op = "append" => Type(step.v) = "L")
        /\ \A p \in DOMAIN ValuesOf(step) : u.eav[p] = ValuesOf(step)[p]
    BY <1>2, <1>10, <2>2
  <2>4. c = Clause(step)
    BY <2>1
  <2> HIDE DEF step
  <2>5. CASE step.op \in {"set", "element"}
    <3>1. c.fn = "value"
      BY <2>3, <2>4, <2>5, ClauseIs
    <3> QED
      BY <3>1
  <2>6. CASE step.op = "append"
    <3>1. c.fn = "append" /\ c.args = <<V("elst"), V("val")>>
      BY <2>3, <2>4, <2>6, ClauseIs
    <3>2. v \in {V("elst"), V("val")}
      BY <3>1, TwoSet
    <3>3. u.eav[V("elst")] = L(<<>>) /\ u.eav[V("val")] = step.v
      <4>1. /\ DOMAIN ValuesOf(step) = {V("val"), V("elst")}
            /\ ValuesOf(step)[V("val")] = step.v /\ ValuesOf(step)[V("elst")] = L(<<>>)
        BY <2>3, <2>6, ValuesAre
      <4> QED
        BY <2>3, <4>1
    <3>4. Type(L(<<>>)) = "L"
      BY DEF Type, L
    <3> QED
      BY <2>3, <2>6, <3>1, <3>2, <3>3, <3>4
  <2> QED
    BY <2>2, <2>5, <2>6 DEF SetOps
<1>12. \A c \in ToSet(u.uea) : Type(u.eav[c.val]) = "N"
  <2> TAKE c \in ToSet(u.uea)
  <2>1. PICK j \in Of(steps, last, {"add"}) : c = Clause(steps[j])
    BY <1>8, ListIs
  <2> DEFINE step == steps[j]
  <2>2. j \in 1..last /\ step.op = "add"
    BY DEF Of
  <2>3. step.op \in AllOps /\ Type(step.v) = "N"
        /\ \A p \in DOMAIN ValuesOf(step) : u.eav[p] = ValuesOf(step)[p]
    BY <1>2, <1>10, <2>2
  <2>4. c = Clause(step)
    BY <2>1
  <2> HIDE DEF step
  <2>5. c.val = V(step.name)
    BY <2>2, <2>3, <2>4, ClauseIs
  <2>6. DOMAIN ValuesOf(step) = {V(step.name)} /\ ValuesOf(step)[V(step.name)] = step.v
    BY <2>2, <2>3, ValuesAre
  <2> QED
    BY <2>3, <2>5, <2>6
<1>13. WellFormed(u)
  BY <1>1, <1>5, <1>6, <1>7, <1>9, <1>11, <1>12, PlaceholdersUsed DEF WellFormed
<1> QED
  BY <1>3, <1>13 DEF Accepted, u

\* For any chains of calls and any items: an update made by UpdatesBuilder that
\* DynamoDB takes does what the calls say, and it takes one whose parts fit.
THEOREM BuilderCorrect == Spec => []BuiltAsMeant
<1>1. ASSUME NEW steps \in Builds, NEW i \in Samples, ~SharesValue(steps)
      PROVE  LET u == Built(PrimaryKey, steps) IN
             /\ Accepted(u, i) /\ ~TakesTwo(steps) => Apply(u, i) = Together(i, steps)
             /\ Apart(steps) /\ (\A step \in ToSet(steps) : Possible(i, step)) => (Accepted(u, i) \/ steps = <<>>)
  <2>1. Chain(steps)
    BY BuildsAssumption DEF Chain, AllOps
  <2>2. Sample(i)
    BY SamplesAssumption DEF Sample
  <2>3. ASSUME Accepted(Built(PrimaryKey, steps), i), ~TakesTwo(steps)
        PROVE  Apply(Built(PrimaryKey, steps), i) = Together(i, steps)
    BY <1>1, <2>1, <2>2, <2>3, AppliesAsMeant
  <2>4. ASSUME Apart(steps), \A step \in ToSet(steps) : Possible(i, step)
        PROVE  Accepted(Built(PrimaryKey, steps), i)
    <3>1. \A j \in 1..Len(steps) : Possible(i, steps[j])
      BY <2>1, <2>4, ChainIs
    <3> QED
      BY <1>1, <2>1, <2>4, <3>1, PossibleTogether
  <2> QED
    BY <2>3, <2>4
<1>2. BuiltAsMeant
  BY <1>1 DEF BuiltAsMeant
<1>3. []BuiltAsMeant
  BY <1>2, PTL
<1> QED
  BY <1>3
=============================================================================
