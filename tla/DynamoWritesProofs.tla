------------------------- MODULE DynamoWritesProofs -------------------------
(***************************************************************************)
(* Proofs about DynamoWrites for any clients, keys, arguments, chunk and   *)
(* page sizes, attempts and calls: its safety.                             *)
(***************************************************************************)
EXTENDS DynamoWrites, TLAPS

-----------------------------------------------------------------------------
(* The inductive invariant *)

\* What a client waits for fits the call it has under way.
Fitting(c) ==
  /\ op[c].status = "running" <=> req[c].kind # "none"
  /\ req[c].kind = "query" =>
       op[c].name = "delete_by_pk" /\ op[c].items = <<>> /\ op[c].from = 0
  /\ req[c].kind = "none" => req[c].reply = "none"

\* An item bears a call that has been made and an attempt whose turn to take
\* effect is over: none like it is ever written again.
Spent(c, i) ==
  \A n \in 0..MaxCalls : i # NoItem /\ i.by = <<c, n>> =>
    /\ n <= made[c]
    /\ n = made[c] =>
         /\ op[c].name \in Inserts
         /\ \/ req[c].kind = "none"
            \/ i.attempt < req[c].attempt
            \/ i.attempt = req[c].attempt /\ req[c].reply # "none"

AllSpent ==
  \A c \in Clients, k \in Keys :
    Spent(c, table[k]) /\ \A d \in Clients : Spent(c, op[d].seen[k])

\* The item that a call has seen under a key is not there any more.
Gone(c, k) == op[c].seen[k] = NoItem \/ table[k] # op[c].seen[k]

\* So it is for what is behind a delete, and for what a reply has just
\* confirmed, but for what was left unprocessed.
DeletedSoFar(c) ==
  op[c].name \in Deletes =>
    /\ \A k \in Confirmed(c) \ op[c].unprocessed : Gone(c, k)
    /\ req[c].kind = "write" /\ req[c].reply = "Ok" =>
         \A k \in Sent(c) \ req[c].left : Gone(c, k)

\* A removal bears a call that has been made; one of the latest call of its
\* client, if that is a delete, was sent.
Removed(c, k) ==
  \A n \in 0..MaxCalls : remover[k] = <<c, n>> =>
    /\ n <= made[c]
    /\ n = made[c] /\ op[c].name \in Deletes =>
         \E i \in DOMAIN op[c].items : op[c].items[i] = k /\ i <= op[c].from + ChunkSize

\* What an accepted put wrote is there, or a call came that may replace it.
Stuck(c, k) ==
  \/ table[k] # NoItem /\ table[k].by = Id(c)
  \/ remover[k] # NoCall
  \/ table[k] # NoItem /\ table[k].how \in {"put_over", "batch_put"}

PutSoFar(c) ==
  op[c].name = "put" /\ (op[c].status = "Ok" \/ req[c].reply = "Ok") =>
    \A k \in KeysOf(op[c].items) : Stuck(c, k)

IInv ==
  /\ TypeOK
  /\ \A c \in Clients : Fitting(c)
  /\ AllSpent
  /\ \A c \in Clients : DeletedSoFar(c)
  /\ \A c \in Clients, k \in Keys : Removed(c, k)
  /\ \A c \in Clients : PutSoFar(c)

-----------------------------------------------------------------------------
(* Lemmas *)

\* The fields of calls and requests have their types.
LEMMA Typed ==
  ASSUME TypeOK, NEW c \in Clients
  PROVE  /\ op[c] \in Calls /\ req[c] \in Requests /\ made[c] \in 0..MaxCalls
         /\ op[c].items \in Seq(Keys) /\ op[c].from \in Nat /\ op[c].unprocessed \subseteq Keys
         /\ op[c].seen \in [Keys -> Items \cup {NoItem}]
         /\ op[c].pk \in Pks \cup {NoPk}
         /\ op[c].status \in {"running", "Ok", "Err"}
         /\ op[c].name \in Inserts \cup Deletes \cup {"delete_by_pksk", "none"}
         /\ req[c].attempt \in 1..MaxAttempts /\ req[c].left \subseteq Keys
         /\ req[c].page \in Seq(Keys) /\ req[c].kind \in {"none", "query", "write"}
         /\ req[c].reply \in {"none", "Ok", "Err"}
         /\ Sent(c) \subseteq Keys /\ KeysOf(op[c].items) \subseteq Keys
         /\ Sent(c) \subseteq KeysOf(op[c].items)
<1>1. op[c] \in Calls /\ req[c] \in Requests /\ made[c] \in 0..MaxCalls
  BY DEF TypeOK
<1>2. op[c].items \in Seq(Keys)
  BY <1>1 DEF Calls
<1>3. KeysOf(op[c].items) \subseteq Keys
  BY <1>2 DEF KeysOf
<1>4. Sent(c) \subseteq KeysOf(op[c].items)
  BY DEF Sent, chunk, KeysOf
<1> QED BY <1>1, <1>2, <1>3, <1>4 DEF Calls, Requests

\* A fresh request is one.
LEMMA RequestTyped ==
  ASSUME NEW kind \in {"none", "query", "write"}, NEW n \in 1..MaxAttempts
  PROVE  /\ Request(kind) \in Requests
         /\ [Request(kind) EXCEPT !.attempt = n] \in Requests
<1>1. <<>> \in Seq(Keys) /\ 1 \in 1..MaxAttempts
  BY BoundAssumption
<1>2. Request(kind) \in Requests
  BY <1>1 DEF Request, Requests
<1> QED BY <1>2 DEF Requests

\* A step of one client that leaves the table alone need only look after what
\* the invariant says of that client.
LEMMA ClientStep ==
  ASSUME IInv, NEW c \in Clients, NEW o \in Calls, NEW r \in Requests, NEW n \in 0..MaxCalls,
         table' = table, remover' = remover,
         op' = [op EXCEPT ![c] = o], req' = [req EXCEPT ![c] = r], made' = [made EXCEPT ![c] = n],
         o.seen = op[c].seen \/ o.seen = table,
         Fitting(c)',
         \A i \in Items : Spent(c, i) => Spent(c, i)',
         DeletedSoFar(c)', \A k \in Keys : Removed(c, k)', PutSoFar(c)'
  PROVE  IInv'
<1>1. TypeOK'
  BY DEF IInv, TypeOK
<1>2. /\ op'[c] = o
      /\ \A d \in Clients \ {c} : op'[d] = op[d] /\ req'[d] = req[d] /\ made'[d] = made[d]
  BY DEF IInv, TypeOK
<1>3. ASSUME NEW d \in Clients \ {c}
      PROVE  /\ Fitting(d)' /\ DeletedSoFar(d)' /\ PutSoFar(d)'
             /\ \A k \in Keys : Removed(d, k)'
  <2>1. Fitting(d) /\ DeletedSoFar(d) /\ PutSoFar(d) /\ \A k \in Keys : Removed(d, k)
    BY DEF IInv
  <2>2. Fitting(d)'
    BY <1>2, <2>1 DEF Fitting
  <2>3. DeletedSoFar(d)'
    BY <1>2, <2>1 DEF DeletedSoFar, Confirmed, Gone, Sent, chunk, KeysOf
  <2>4. PutSoFar(d)'
    BY <1>2, <2>1 DEF PutSoFar, Stuck, Id, KeysOf
  <2>5. \A k \in Keys : Removed(d, k)'
    BY <1>2, <2>1 DEF Removed
  <2> QED BY <2>2, <2>3, <2>4, <2>5
<1>4. AllSpent'
  <2>1. ASSUME NEW d \in Clients, NEW i \in Items \cup {NoItem}, Spent(d, i) PROVE Spent(d, i)'
    <3>1. CASE i = NoItem
      BY <3>1 DEF Spent
    <3>2. CASE i # NoItem /\ d = c
      BY <2>1, <3>2
    <3>3. CASE d # c
      BY <1>2, <2>1, <3>3 DEF Spent
    <3> QED BY <3>1, <3>2, <3>3
  <2>2. ASSUME NEW d \in Clients, NEW k \in Keys, NEW e \in Clients
        PROVE  Spent(d, table[k])' /\ Spent(d, op[e].seen[k])'
    <3>1. /\ table[k] \in Items \cup {NoItem} /\ op[e].seen[k] \in Items \cup {NoItem}
          /\ Spent(d, table[k]) /\ Spent(d, op[e].seen[k])
      BY Typed DEF IInv, AllSpent, TypeOK
    <3>2. table'[k] = table[k] /\ op'[e].seen[k] \in {op[e].seen[k], table[k]}
      BY <1>2
    <3>3. Spent(d, table[k])'
      BY <2>1, <3>1, <3>2 DEF Spent
    <3>4. Spent(d, op[e].seen[k])'
      BY <2>1, <3>1, <3>2 DEF Spent
    <3> QED BY <3>3, <3>4
  <2> QED BY <2>2 DEF AllSpent
<1> QED BY <1>1, <1>3, <1>4 DEF IInv

-----------------------------------------------------------------------------
(* Every step keeps the invariant *)

\* Nobody has called anything yet.
LEMMA InitIInv == Init => IInv
<1> SUFFICES ASSUME Init PROVE IInv
  OBVIOUS
<1>1. table \in [Keys -> Items \cup {NoItem}] /\ \A k \in Keys : table[k] # NoItem => table[k].by = NoCall
  BY BoundAssumption, SentinelAssumption DEF Init, Items, Inserts
<1>2. Request("none") \in Requests
  <2>1. "none" \in {"none", "query", "write"} /\ 1 \in 1..MaxAttempts
    BY BoundAssumption
  <2> QED BY <2>1, RequestTyped
<1>3. \A c \in Clients : op[c] \in Calls
  <2>1. <<>> \in Seq(Keys)
    OBVIOUS
  <2> QED BY <1>1, <2>1 DEF Init, Calls
<1>4. TypeOK
  BY <1>1, <1>2, <1>3, BoundAssumption DEF Init, TypeOK, CallIds
<1>5. \A c \in Clients, n \in 0..MaxCalls : NoCall # <<c, n>>
  BY SentinelAssumption DEF CallIds
<1>6. AllSpent
  <2>1. \A c \in Clients, k \in Keys : op[c].seen[k] = table[k]
    BY DEF Init
  <2>2. \A c \in Clients, k \in Keys : Spent(c, table[k])
    BY <1>1, <1>5 DEF Spent
  <2>3. \A c, d \in Clients, k \in Keys : Spent(c, op[d].seen[k])
    BY <2>1, <2>2
  <2> QED BY <2>2, <2>3 DEF AllSpent
<1>7. ASSUME NEW c \in Clients
      PROVE  Fitting(c) /\ DeletedSoFar(c) /\ PutSoFar(c) /\ \A k \in Keys : Removed(c, k)
  <2>1. op[c].name = "none" /\ op[c].status = "Ok" /\ req[c] = Request("none")
    BY DEF Init
  <2>2. Fitting(c)
    BY <2>1 DEF Fitting, Request
  <2>3. DeletedSoFar(c) /\ PutSoFar(c)
    BY <2>1 DEF DeletedSoFar, PutSoFar, Deletes
  <2>4. \A k \in Keys : Removed(c, k)
    BY <1>5 DEF Removed, Init
  <2> QED BY <2>2, <2>3, <2>4
<1> QED BY <1>4, <1>6, <1>7 DEF IInv

\* A call begins; a delete with nothing to send is over at once.
LEMMA CallIInv ==
  ASSUME IInv, NEW c \in Clients, NEW name, NEW items \in Seq(Keys), NEW pk \in Pks \cup {NoPk},
         NEW kind \in {"none", "query", "write"}, Call(c, name, items, pk, kind),
         name \in Inserts \cup Deletes \cup {"delete_by_pksk"},
         kind = "query" => name = "delete_by_pk" /\ items = <<>>,
         kind = "none" => name = "batch_delete" /\ items = <<>>
  PROVE  IInv'
<1> DEFINE o == [name |-> name, items |-> items, from |-> 0, pk |-> pk, seen |-> table,
                 unprocessed |-> {}, status |-> IF kind = "none" THEN "Ok" ELSE "running"]
           r == Request(kind)
<1>1. o \in Calls /\ r \in Requests
  <2>1. table \in [Keys -> Items \cup {NoItem}]
    BY DEF IInv, TypeOK
  <2>2. o \in Calls
    BY <2>1 DEF Calls
  <2>3. 1 \in 1..MaxAttempts
    BY BoundAssumption
  <2> QED BY <2>2, <2>3, RequestTyped
<1>2. /\ op' = [op EXCEPT ![c] = o] /\ req' = [req EXCEPT ![c] = r]
      /\ made' = [made EXCEPT ![c] = made[c] + 1] /\ made[c] + 1 \in 0..MaxCalls
      /\ table' = table /\ remover' = remover
  BY Typed, BoundAssumption DEF Call, IInv
<1>3. /\ op'[c] = o /\ req'[c] = r /\ made'[c] = made[c] + 1 /\ made[c] \in 0..MaxCalls
  BY <1>2, Typed DEF IInv, TypeOK
<1>4. r.kind = kind /\ r.reply = "none"
  BY DEF Request
<1>5. Fitting(c)'
  BY <1>3, <1>4 DEF Fitting
<1>6. ASSUME NEW i \in Items, Spent(c, i) PROVE Spent(c, i)'
  BY <1>3, <1>6, BoundAssumption DEF Spent
<1>7. DeletedSoFar(c)'
  <2>1. kind = "none" => DOMAIN o.items = {}
    OBVIOUS
  <2>2. Confirmed(c)' = {}
    BY <1>3, <2>1 DEF Confirmed
  <2> QED BY <1>3, <1>4, <2>2 DEF DeletedSoFar
<1>8. ASSUME NEW k \in Keys PROVE Removed(c, k)'
  BY <1>2, <1>3, BoundAssumption DEF IInv, Removed
<1>9. PutSoFar(c)'
  BY <1>3, <1>4 DEF PutSoFar
<1> HIDE DEF o, r
<1>10. o.seen = table
  BY DEF o
<1> QED BY <1>1, <1>2, <1>5, <1>6, <1>7, <1>8, <1>9, <1>10, ClientStep

\* No answer: the request is sent again, as the next attempt.
LEMMA ResendIInv ==
  ASSUME IInv, NEW c \in Clients, resend(c)
  PROVE  IInv'
<1> DEFINE r == [Request(req[c].kind) EXCEPT !.attempt = req[c].attempt + 1]
<1>1. /\ req[c].attempt + 1 \in 1..MaxAttempts /\ r \in Requests
  BY Typed, RequestTyped, BoundAssumption DEF resend, IInv
<1>2. /\ req' = [req EXCEPT ![c] = r] /\ op' = [op EXCEPT ![c] = op[c]]
      /\ made' = [made EXCEPT ![c] = made[c]] /\ table' = table /\ remover' = remover
  BY DEF resend, IInv, TypeOK
<1>3. op'[c] = op[c] /\ req'[c] = r /\ made'[c] = made[c]
  BY <1>2 DEF IInv, TypeOK
<1>4. /\ r.kind = req[c].kind /\ r.reply = "none" /\ r.attempt = req[c].attempt + 1
      /\ req[c].kind # "none" /\ req[c].attempt \in 1..MaxAttempts
  BY Typed DEF Request, resend, IInv
<1>5. Fitting(c)'
  BY <1>3, <1>4 DEF Fitting, IInv
<1>6. ASSUME NEW i \in Items, Spent(c, i) PROVE Spent(c, i)'
  <2>1. i.attempt \in 1..MaxAttempts
    BY DEF Items
  <2> QED BY <1>3, <1>4, <1>6, <2>1, BoundAssumption DEF Spent
<1>7. DeletedSoFar(c)'
  <2>1. DeletedSoFar(c) /\ Confirmed(c)' = Confirmed(c)
    BY <1>3 DEF IInv, Confirmed
  <2> QED BY <1>2, <1>3, <1>4, <2>1 DEF DeletedSoFar, Gone
<1>8. ASSUME NEW k \in Keys PROVE Removed(c, k)'
  BY <1>2, <1>3 DEF IInv, Removed
<1>9. PutSoFar(c)'
  BY <1>2, <1>3, <1>4 DEF PutSoFar, Stuck, Id, IInv
<1> HIDE DEF r
<1>10. op[c] \in Calls /\ made[c] \in 0..MaxCalls
  BY Typed DEF IInv
<1> QED BY <1>1, <1>2, <1>5, <1>6, <1>7, <1>8, <1>9, <1>10, ClientStep

\* A reply ends a call, or the last attempt fails: what an Ok confirms is what
\* was behind the delete and what its last request covered.
LEMMA FinishIInv ==
  ASSUME IInv, NEW c \in Clients, NEW status \in {"Ok", "Err"}, Finish(c, status),
         req[c].kind # "none",
         status = "Ok" => req[c].kind = "write" /\ req[c].reply = "Ok" /\ ~More(op[c])
  PROVE  IInv'
<1> DEFINE o == [op[c] EXCEPT !.status = status, !.unprocessed = @ \cup req[c].left]
           r == Request("none")
<1>1. o \in Calls /\ r \in Requests
  <2>1. op[c] \in Calls /\ req[c].left \subseteq Keys /\ op[c].unprocessed \subseteq Keys
    BY Typed DEF IInv
  <2>2. 1 \in 1..MaxAttempts
    BY BoundAssumption
  <2> QED BY <2>1, <2>2, RequestTyped DEF Calls
<1>2. /\ op' = [op EXCEPT ![c] = o] /\ req' = [req EXCEPT ![c] = r]
      /\ made' = [made EXCEPT ![c] = made[c]] /\ table' = table /\ remover' = remover
  BY DEF Finish, IInv, TypeOK
<1>3. op'[c] = o /\ req'[c] = r /\ made'[c] = made[c] /\ op[c] \in Calls
  BY <1>2 DEF IInv, TypeOK
<1>4. /\ r.kind = "none" /\ r.reply = "none" /\ o.status = status
      /\ o.name = op[c].name /\ o.items = op[c].items /\ o.from = op[c].from
      /\ o.seen = op[c].seen /\ o.unprocessed = op[c].unprocessed \cup req[c].left
  BY <1>3 DEF Request, Calls
<1> HIDE DEF o, r
<1>5. Fitting(c)'
  BY <1>3, <1>4 DEF Fitting
<1>6. ASSUME NEW i \in Items, Spent(c, i) PROVE Spent(c, i)'
  BY <1>3, <1>4, <1>6 DEF Spent
<1>7. DeletedSoFar(c)'
  <2> SUFFICES ASSUME op[c].name \in Deletes, NEW k \in Confirmed(c)' \ o.unprocessed
               PROVE  Gone(c, k)'
    BY <1>3, <1>4 DEF DeletedSoFar
  <2>1. DeletedSoFar(c)
    BY DEF IInv
  <2>2. Gone(c, k)' <=> Gone(c, k)
    BY <1>2, <1>3, <1>4 DEF Gone
  <2>3. PICK j \in DOMAIN op[c].items :
          k = op[c].items[j] /\ (status = "Ok" \/ j <= op[c].from)
    BY <1>3, <1>4 DEF Confirmed
  <2>4. CASE j <= op[c].from
    <3>1. k \in Confirmed(c)
      BY <2>3, <2>4 DEF Confirmed
    <3> QED BY <1>4, <2>1, <2>2, <3>1 DEF DeletedSoFar
  <2>5. CASE status = "Ok" /\ ~(j <= op[c].from)
    <3>1. op[c].items \in Seq(Keys) /\ op[c].from \in Nat
      BY Typed DEF IInv
    <3>2. j \in chunk(op[c])
      BY <2>3, <2>5, <3>1, SizeAssumption DEF chunk, More
    <3>3. k \in Sent(c)
      BY <2>3, <3>2 DEF Sent
    <3> QED BY <1>4, <2>1, <2>2, <2>5, <3>3 DEF DeletedSoFar
  <2> QED BY <2>3, <2>4, <2>5
<1>8. ASSUME NEW k \in Keys PROVE Removed(c, k)'
  BY <1>2, <1>3, <1>4 DEF IInv, Removed
<1>9. PutSoFar(c)'
  <2>1. PutSoFar(c) /\ KeysOf(o.items) = KeysOf(op[c].items)
    BY <1>4 DEF IInv
  <2>2. \A k : Stuck(c, k)' <=> Stuck(c, k)
    BY <1>2, <1>3 DEF Stuck, Id
  <2> QED BY <1>3, <1>4, <2>1, <2>2 DEF PutSoFar
<1>10. made[c] \in 0..MaxCalls
  BY Typed DEF IInv
<1> QED BY <1>1, <1>2, <1>4, <1>5, <1>6, <1>7, <1>8, <1>9, <1>10, ClientStep

\* A reply with more to come: the chunk is behind the delete, and what was
\* left of it goes to what is known to be unprocessed.
LEMMA NextChunkIInv ==
  ASSUME IInv, NEW c \in Clients, next_chunk(c)
  PROVE  IInv'
<1> DEFINE o == [op[c] EXCEPT !.from = @ + ChunkSize, !.unprocessed = @ \cup req[c].left]
           r == Request("write")
<1>1. o \in Calls /\ r \in Requests
  <2>1. /\ op[c] \in Calls /\ req[c].left \subseteq Keys /\ op[c].unprocessed \subseteq Keys
        /\ op[c].from \in Nat
    BY Typed DEF IInv
  <2>2. op[c].from + ChunkSize \in Nat
    BY <2>1, SizeAssumption
  <2>3. o \in Calls
    BY <2>1, <2>2 DEF Calls
  <2>4. 1 \in 1..MaxAttempts
    BY BoundAssumption
  <2> QED BY <2>3, <2>4, RequestTyped
<1>2. /\ op' = [op EXCEPT ![c] = o] /\ req' = [req EXCEPT ![c] = r]
      /\ made' = [made EXCEPT ![c] = made[c]] /\ table' = table /\ remover' = remover
  BY DEF next_chunk, IInv, TypeOK
<1>3. op'[c] = o /\ req'[c] = r /\ made'[c] = made[c] /\ op[c] \in Calls
  BY <1>2 DEF IInv, TypeOK
<1>4. /\ r.kind = "write" /\ r.reply = "none" /\ o.status = op[c].status
      /\ o.name = op[c].name /\ o.items = op[c].items /\ o.from = op[c].from + ChunkSize
      /\ o.seen = op[c].seen /\ o.unprocessed = op[c].unprocessed \cup req[c].left
  BY <1>3 DEF Request, Calls
<1>5. /\ op[c].name \in Deletes /\ op[c].name \notin Inserts /\ op[c].name # "put"
      /\ op[c].status = "running" /\ req[c].kind = "write" /\ req[c].reply = "Ok"
      /\ op[c].items \in Seq(Keys) /\ op[c].from \in Nat
  BY Typed DEF next_chunk, More, IInv, Fitting, Deletes, Inserts
<1> HIDE DEF o, r
<1>6. Fitting(c)'
  BY <1>3, <1>4, <1>5 DEF Fitting
<1>7. ASSUME NEW i \in Items, Spent(c, i) PROVE Spent(c, i)'
  BY <1>3, <1>4, <1>5, <1>7 DEF Spent
<1>8. DeletedSoFar(c)'
  <2> SUFFICES ASSUME NEW k \in Confirmed(c)' \ o.unprocessed
               PROVE  Gone(c, k)'
    BY <1>3, <1>4 DEF DeletedSoFar
  <2>1. DeletedSoFar(c)
    BY DEF IInv
  <2>2. Gone(c, k)' <=> Gone(c, k)
    BY <1>2, <1>3, <1>4 DEF Gone
  <2>3. PICK j \in DOMAIN op[c].items : k = op[c].items[j] /\ j <= op[c].from + ChunkSize
    BY <1>3, <1>4, <1>5 DEF Confirmed
  <2>4. CASE j <= op[c].from
    <3>1. k \in Confirmed(c)
      BY <2>3, <2>4 DEF Confirmed
    <3> QED BY <1>4, <1>5, <2>1, <2>2, <3>1 DEF DeletedSoFar
  <2>5. CASE ~(j <= op[c].from)
    <3>1. j \in chunk(op[c])
      BY <1>5, <2>3, <2>5, SizeAssumption DEF chunk
    <3>2. k \in Sent(c)
      BY <1>5, <2>3, <3>1 DEF Sent
    <3> QED BY <1>4, <1>5, <2>1, <2>2, <3>2 DEF DeletedSoFar
  <2> QED BY <2>4, <2>5
<1>9. ASSUME NEW k \in Keys PROVE Removed(c, k)'
  <2>1. Removed(c, k)
    BY DEF IInv
  <2>2. SUFFICES ASSUME NEW n \in 0..MaxCalls, remover[k] = <<c, n>>, n = made[c]
                 PROVE  \E i \in DOMAIN o.items : o.items[i] = k /\ i <= o.from + ChunkSize
    BY <1>2, <1>3, <2>1 DEF Removed
  <2>3. PICK i \in DOMAIN op[c].items : op[c].items[i] = k /\ i <= op[c].from + ChunkSize
    BY <1>5, <2>1, <2>2 DEF Removed
  <2> QED BY <1>4, <1>5, <2>3, SizeAssumption
<1>10. PutSoFar(c)'
  BY <1>3, <1>4, <1>5 DEF PutSoFar
<1>11. made[c] \in 0..MaxCalls
  BY Typed DEF IInv
<1> QED BY <1>1, <1>2, <1>4, <1>6, <1>7, <1>8, <1>9, <1>10, <1>11, ClientStep

\* delete_by_pk has its page: it goes on to delete it, or there is nothing on
\* it.  No removal bears this call yet.
LEMMA PageReceivedIInv ==
  ASSUME IInv, NEW c \in Clients, page_received(c)
  PROVE  IInv'
<1> DEFINE o == [op[c] EXCEPT !.items = req[c].page,
                              !.status = IF req[c].page = <<>> THEN "Ok" ELSE "running"]
           r == Request(IF req[c].page = <<>> THEN "none" ELSE "write")
<1>1. o \in Calls /\ r \in Requests
  <2>1. op[c] \in Calls /\ req[c].page \in Seq(Keys)
    BY Typed DEF IInv
  <2>2. 1 \in 1..MaxAttempts /\ (IF req[c].page = <<>> THEN "none" ELSE "write") \in {"none", "query", "write"}
    BY BoundAssumption
  <2>3. r \in Requests
    BY <2>2, RequestTyped
  <2> QED BY <2>1, <2>3 DEF Calls
<1>2. /\ op' = [op EXCEPT ![c] = o] /\ req' = [req EXCEPT ![c] = r]
      /\ made' = [made EXCEPT ![c] = made[c]] /\ table' = table /\ remover' = remover
  BY DEF page_received, IInv, TypeOK
<1>3. op'[c] = o /\ req'[c] = r /\ made'[c] = made[c] /\ op[c] \in Calls
  BY <1>2 DEF IInv, TypeOK
<1>4. /\ r.kind = (IF req[c].page = <<>> THEN "none" ELSE "write") /\ r.reply = "none"
      /\ o.status = (IF req[c].page = <<>> THEN "Ok" ELSE "running")
      /\ o.name = op[c].name /\ o.items = req[c].page /\ o.from = op[c].from
      /\ o.seen = op[c].seen /\ o.unprocessed = op[c].unprocessed
  BY <1>3 DEF Request, Calls
<1>5. /\ op[c].name = "delete_by_pk" /\ op[c].items = <<>> /\ op[c].from = 0
      /\ req[c].page \in Seq(Keys)
  BY Typed DEF page_received, IInv, Fitting
<1>6. op[c].name \in Deletes /\ op[c].name \notin Inserts /\ op[c].name # "put"
  BY <1>5 DEF Deletes, Inserts
<1> HIDE DEF o, r
<1>7. Fitting(c)'
  BY <1>3, <1>4 DEF Fitting
<1>8. ASSUME NEW i \in Items, Spent(c, i) PROVE Spent(c, i)'
  BY <1>3, <1>6, <1>8 DEF Spent
<1>9. DeletedSoFar(c)'
  <2>1. Confirmed(c)' = {}
    <3>1. \A j \in DOMAIN o.items : o.status # "Ok" /\ ~(j <= o.from)
      BY <1>4, <1>5
    <3> QED BY <1>3, <3>1 DEF Confirmed
  <2> QED BY <1>3, <1>4, <2>1 DEF DeletedSoFar
<1>10. ASSUME NEW k \in Keys PROVE Removed(c, k)'
  <2>1. Removed(c, k)
    BY DEF IInv
  <2>2. DOMAIN op[c].items = {}
    BY <1>5
  <2> QED BY <1>2, <1>3, <1>6, <2>1, <2>2 DEF Removed
<1>11. PutSoFar(c)'
  BY <1>3, <1>4, <1>6 DEF PutSoFar
<1>12. made[c] \in 0..MaxCalls
  BY Typed DEF IInv
<1> QED BY <1>1, <1>2, <1>4, <1>7, <1>8, <1>9, <1>10, <1>11, <1>12, ClientStep

\* A reply that changes neither the table nor what the call has seen: that a
\* batch is refused, or that put finds its key taken.
LEMMA RefusedIInv ==
  ASSUME IInv, NEW c \in Clients, Pending(c, "write"), Reply(c, "Err", {}, <<>>),
         UNCHANGED <<table, remover, op, made>>
  PROVE  IInv'
<1> DEFINE r == [req[c] EXCEPT !.reply = "Err", !.left = {}, !.page = <<>>]
<1>1. r \in Requests
  <2>1. req[c] \in Requests /\ <<>> \in Seq(Keys)
    BY Typed DEF IInv
  <2> QED BY <2>1 DEF Requests
<1>2. /\ req' = [req EXCEPT ![c] = r] /\ op' = [op EXCEPT ![c] = op[c]]
      /\ made' = [made EXCEPT ![c] = made[c]] /\ table' = table /\ remover' = remover
  <2>1. req' = [req EXCEPT ![c] = r]
    BY DEF Reply, IInv, TypeOK
  <2> QED BY <2>1 DEF IInv, TypeOK
<1>3. op'[c] = op[c] /\ req'[c] = r /\ made'[c] = made[c] /\ req[c] \in Requests
  BY <1>2 DEF IInv, TypeOK
<1>4. /\ r.kind = "write" /\ r.reply = "Err" /\ r.attempt = req[c].attempt
      /\ req[c].kind = "write" /\ req[c].reply = "none"
  BY <1>3 DEF Pending, Requests
<1> HIDE DEF r
<1>5. Fitting(c)'
  BY <1>3, <1>4 DEF Fitting, IInv
<1>6. ASSUME NEW i \in Items, Spent(c, i) PROVE Spent(c, i)'
  BY <1>3, <1>4, <1>6 DEF Spent
<1>7. DeletedSoFar(c)'
  <2>1. DeletedSoFar(c) /\ Confirmed(c)' = Confirmed(c)
    BY <1>3 DEF IInv, Confirmed
  <2> QED BY <1>2, <1>3, <1>4, <2>1 DEF DeletedSoFar, Gone
<1>8. ASSUME NEW k \in Keys PROVE Removed(c, k)'
  BY <1>2, <1>3 DEF IInv, Removed
<1>9. PutSoFar(c)'
  <2>1. PutSoFar(c) /\ op[c].status = "running"
    BY <1>4 DEF IInv, Fitting
  <2> QED BY <1>3, <1>4, <2>1 DEF PutSoFar
<1>10. op[c] \in Calls /\ made[c] \in 0..MaxCalls
  BY Typed DEF IInv
<1> QED BY <1>1, <1>2, <1>5, <1>6, <1>7, <1>8, <1>9, <1>10, ClientStep

\* A query is served: the call has seen the table as it is now.
LEMMA ServeQueryIInv ==
  ASSUME IInv, NEW c \in Clients, serve_query(c)
  PROVE  IInv'
<1>0. PICK m \in 0..PageItems : \E page \in [1..m -> Present(op[c].pk)] : Reply(c, "Ok", {}, page)
  BY DEF serve_query
<1>1. PICK page \in [1..m -> Present(op[c].pk)] : Reply(c, "Ok", {}, page)
  BY <1>0
<1> DEFINE o == [op[c] EXCEPT !.seen = table]
           r == [req[c] EXCEPT !.reply = "Ok", !.left = {}, !.page = page]
<1>2. o \in Calls /\ r \in Requests
  <2>1. op[c] \in Calls /\ req[c] \in Requests /\ table \in [Keys -> Items \cup {NoItem}]
    BY Typed DEF IInv, TypeOK
  <2>2. o \in Calls
    BY <2>1 DEF Calls
  <2>3. page \in Seq(Keys)
    BY SizeAssumption DEF Present
  <2>4. r \in Requests
    BY <2>1, <2>3 DEF Requests
  <2> QED BY <2>2, <2>4
<1>3. /\ op' = [op EXCEPT ![c] = o] /\ req' = [req EXCEPT ![c] = r]
      /\ made' = [made EXCEPT ![c] = made[c]] /\ table' = table /\ remover' = remover
  <2>1. req' = [req EXCEPT ![c] = r]
    BY <1>1 DEF Reply, IInv, TypeOK
  <2> QED BY <2>1 DEF serve_query, IInv, TypeOK
<1>4. /\ op'[c] = o /\ req'[c] = r /\ made'[c] = made[c]
      /\ op[c] \in Calls /\ req[c] \in Requests
  BY <1>3 DEF IInv, TypeOK
<1>5. /\ r.kind = "query" /\ r.reply = "Ok" /\ r.attempt = req[c].attempt
      /\ req[c].kind = "query" /\ req[c].reply = "none"
      /\ o.status = op[c].status /\ o.name = op[c].name /\ o.items = op[c].items
      /\ o.from = op[c].from /\ o.seen = table /\ o.unprocessed = op[c].unprocessed
  BY <1>4 DEF serve_query, Pending, Calls, Requests
<1>6. /\ op[c].name = "delete_by_pk" /\ op[c].items = <<>>
      /\ op[c].name \notin Inserts /\ op[c].name # "put"
  BY <1>5 DEF IInv, Fitting, Inserts
<1> HIDE DEF o, r
<1>7. Fitting(c)'
  BY <1>4, <1>5 DEF Fitting, IInv
<1>8. ASSUME NEW i \in Items, Spent(c, i) PROVE Spent(c, i)'
  BY <1>4, <1>5, <1>6, <1>8 DEF Spent
<1>9. DeletedSoFar(c)'
  <2>1. Confirmed(c)' = {}
    BY <1>4, <1>5, <1>6 DEF Confirmed
  <2> QED BY <1>4, <1>5, <2>1 DEF DeletedSoFar
<1>10. ASSUME NEW k \in Keys PROVE Removed(c, k)'
  BY <1>3, <1>4, <1>5 DEF IInv, Removed
<1>11. PutSoFar(c)'
  BY <1>4, <1>5, <1>6 DEF PutSoFar
<1>12. made[c] \in 0..MaxCalls
  BY Typed DEF IInv
<1> QED BY <1>2, <1>3, <1>5, <1>7, <1>8, <1>9, <1>10, <1>11, <1>12, ClientStep

\* A write is answered.  Nothing but the table, its removers and the answer
\* change, and what was spent stays so.
LEMMA Answered ==
  ASSUME IInv, NEW c \in Clients, NEW left \in SUBSET Keys,
         Pending(c, "write"), Reply(c, "Ok", left, <<>>), UNCHANGED <<op, made>>
  PROVE  /\ req' \in [Clients -> Requests] /\ req'[c].kind = "write" /\ req'[c].reply = "Ok"
         /\ req'[c].left = left /\ req'[c].attempt = req[c].attempt
         /\ \A d \in Clients \ {c} : req'[d] = req[d]
         /\ \A d \in Clients : Fitting(d)'
         /\ \A d \in Clients, i \in Items \cup {NoItem} : Spent(d, i) => Spent(d, i)'
<1> DEFINE r == [req[c] EXCEPT !.reply = "Ok", !.left = left, !.page = <<>>]
<1>1. req[c] \in Requests /\ req[c].kind = "write" /\ req[c].reply = "none"
  BY Typed DEF IInv, Pending
<1>2. r \in Requests
  <2>1. <<>> \in Seq(Keys)
    OBVIOUS
  <2> QED BY <1>1, <2>1 DEF Requests
<1>3. req' = [req EXCEPT ![c] = r]
  BY DEF Reply, IInv, TypeOK
<1>4. r.kind = "write" /\ r.reply = "Ok" /\ r.left = left /\ r.attempt = req[c].attempt
  BY <1>1 DEF Requests
<1> HIDE DEF r
<1>5. /\ req' \in [Clients -> Requests] /\ req'[c] = r
      /\ \A d \in Clients \ {c} : req'[d] = req[d]
  BY <1>2, <1>3 DEF IInv, TypeOK
<1>6. \A d \in Clients : Fitting(d)'
  <2> SUFFICES ASSUME NEW d \in Clients PROVE Fitting(d)'
    OBVIOUS
  <2>1. Fitting(d)
    BY DEF IInv
  <2> QED BY <1>1, <1>4, <1>5, <2>1 DEF Fitting
<1>7. ASSUME NEW d \in Clients, NEW i \in Items \cup {NoItem}, Spent(d, i) PROVE Spent(d, i)'
  <2>1. CASE d = c
    BY <1>1, <1>4, <1>5, <1>7, <2>1 DEF Spent
  <2>2. CASE d # c
    BY <1>5, <1>7, <2>2 DEF Spent
  <2> QED BY <2>1, <2>2
<1> QED BY <1>4, <1>5, <1>6, <1>7

\* An insertion takes effect.  The item it writes is like none that any call
\* has seen; put's overwrites nothing.
LEMMA InsertIInv ==
  ASSUME IInv, NEW c \in Clients, NEW K \in SUBSET Sent(c), NEW left \in SUBSET Keys,
         Pending(c, "write"), Insert(c, K), Reply(c, "Ok", left, <<>>), op[c].name \in Inserts,
         op[c].name = "put" => K = Sent(c) /\ \A k \in K : table[k] = NoItem
  PROVE  IInv'
<1>1. UNCHANGED <<remover, op, made>>
  BY DEF Insert
<1>2. /\ req' \in [Clients -> Requests] /\ req'[c].kind = "write" /\ req'[c].reply = "Ok"
      /\ req'[c].attempt = req[c].attempt /\ \A d \in Clients \ {c} : req'[d] = req[d]
      /\ \A d \in Clients : Fitting(d)'
      /\ \A d \in Clients, i \in Items \cup {NoItem} : Spent(d, i) => Spent(d, i)'
  BY <1>1, Answered
<1>3. PICK new \in Items :
        new # NoItem /\ new = [by |-> Id(c), how |-> op[c].name, attempt |-> req[c].attempt]
  <2>1. Id(c) \in CallIds
    BY Typed DEF Id, CallIds, IInv
  <2>2. req[c].attempt \in 1..MaxAttempts
    BY Typed DEF IInv
  <2>3. [by |-> Id(c), how |-> op[c].name, attempt |-> req[c].attempt] \in Items
    BY <2>1, <2>2 DEF Items
  <2> QED BY <2>3, SentinelAssumption
<1>4. \A k \in Keys : table'[k] = IF k \in K THEN new ELSE table[k]
  BY <1>3 DEF Insert
<1>5. TypeOK'
  <2>1. table' = [k \in Keys |-> IF k \in K THEN new ELSE table[k]]
    BY <1>3 DEF Insert
  <2>2. table \in [Keys -> Items \cup {NoItem}]
    BY DEF IInv, TypeOK
  <2>3. table' \in [Keys -> Items \cup {NoItem}]
    BY <1>3, <2>1, <2>2
  <2> QED BY <1>1, <1>2, <2>3 DEF IInv, TypeOK
<1>6. \A d \in Clients : made[d] \in 0..MaxCalls
  BY Typed DEF IInv
<1>7. \A i \in Items \cup {NoItem} : Spent(c, i) => i # new
  <2>1. ~Spent(c, new)
    <3>1. new.by = <<c, made[c]>> /\ new.attempt = req[c].attempt
      BY <1>3 DEF Id
    <3>2. /\ req[c].attempt \in 1..MaxAttempts /\ ~(req[c].attempt < req[c].attempt)
          /\ req[c].kind # "none" /\ req[c].reply = "none"
      BY Typed DEF Pending, IInv
    <3> QED BY <1>3, <1>6, <3>1, <3>2 DEF Spent
  <2> QED BY <2>1
<1>8. \A d \in Clients : Spent(d, new)'
  <2>1. Spent(c, new)'
    BY <1>1, <1>2, <1>3, <1>6 DEF Spent, Id
  <2>2. \A d \in Clients \ {c} : Spent(d, new)'
    BY <1>3 DEF Spent, Id
  <2> QED BY <2>1, <2>2
<1>9. ASSUME NEW d \in Clients, NEW k \in Keys
      PROVE  /\ table[k] \in Items \cup {NoItem} /\ op[d].seen[k] \in Items \cup {NoItem}
             /\ \A e \in Clients : Spent(e, table[k]) /\ Spent(e, op[d].seen[k])
  BY Typed DEF IInv, AllSpent, TypeOK
<1>10. AllSpent'
  <2> SUFFICES ASSUME NEW e \in Clients, NEW k \in Keys, NEW d \in Clients
               PROVE  Spent(e, table[k])' /\ Spent(e, op[d].seen[k])'
    BY DEF AllSpent
  <2>1. Spent(e, op[d].seen[k])'
    <3>1. op'[d].seen[k] = op[d].seen[k]
      BY <1>1
    <3> QED BY <1>2, <1>9, <3>1 DEF Spent
  <2>2. CASE k \in K
    <3>1. table'[k] = new
      BY <1>4, <2>2
    <3> QED BY <1>8, <2>1, <3>1 DEF Spent
  <2>3. CASE k \notin K
    <3>1. table'[k] = table[k]
      BY <1>4, <2>3
    <3> QED BY <1>2, <1>9, <2>1, <3>1 DEF Spent
  <2> QED BY <2>2, <2>3
<1>11. \A d \in Clients, k \in Keys : Gone(d, k) => Gone(d, k)'
  <2> SUFFICES ASSUME NEW d \in Clients, NEW k \in Keys, Gone(d, k) PROVE Gone(d, k)'
    OBVIOUS
  <2>1. op[d].seen[k] # new
    BY <1>7, <1>9
  <2> QED BY <1>1, <1>4, <2>1 DEF Gone
<1>12. ASSUME NEW d \in Clients PROVE DeletedSoFar(d)'
  <2>1. CASE d = c
    BY <1>1, <2>1 DEF DeletedSoFar, Deletes, Inserts
  <2>2. CASE d # c
    <3>1. DeletedSoFar(d) /\ Confirmed(d)' = Confirmed(d) /\ Sent(d)' = Sent(d)
      BY <1>1 DEF IInv, Confirmed, Sent
    <3>2. Confirmed(d) \subseteq Keys /\ Sent(d) \subseteq Keys
      BY Typed DEF IInv, Confirmed, KeysOf
    <3> QED BY <1>1, <1>2, <1>11, <2>2, <3>1, <3>2 DEF DeletedSoFar
  <2> QED BY <2>1, <2>2
<1>13. \A d \in Clients, k \in Keys : Removed(d, k)'
  BY <1>1 DEF IInv, Removed
<1>14. ASSUME NEW d \in Clients PROVE PutSoFar(d)'
  <2>1. KeysOf(op[d].items) \subseteq Keys
    BY Typed DEF IInv
  <2> SUFFICES ASSUME op[d].name = "put", op[d].status = "Ok" \/ req'[d].reply = "Ok",
                      NEW k \in KeysOf(op[d].items)
               PROVE  Stuck(d, k)'
    BY <1>1 DEF PutSoFar
  <2>2. CASE d = c
    <3>1. k \in K
      BY <2>2 DEF Sent, Deletes
    <3> QED BY <1>1, <1>3, <1>4, <2>1, <2>2, <3>1 DEF Stuck, Id
  <2>3. CASE d # c /\ k \in K
    <3>1. Stuck(d, k)
      BY <1>2, <2>3 DEF IInv, PutSoFar
    <3>2. CASE op[c].name = "put"
      BY <1>1, <2>3, <3>1, <3>2 DEF Stuck
    <3>3. CASE op[c].name # "put"
      BY <1>3, <1>4, <2>1, <2>3, <3>3 DEF Stuck, Inserts
    <3> QED BY <3>2, <3>3
  <2>4. CASE d # c /\ k \notin K
    <3>1. Stuck(d, k)
      BY <1>2, <2>4 DEF IInv, PutSoFar
    <3> QED BY <1>1, <1>4, <2>1, <2>4, <3>1 DEF Stuck, Id
  <2> QED BY <2>2, <2>3, <2>4
<1> QED BY <1>2, <1>5, <1>10, <1>12, <1>13, <1>14 DEF IInv

\* A removal takes effect, and bears its call.
LEMMA RemoveIInv ==
  ASSUME IInv, NEW c \in Clients, NEW K \in SUBSET Sent(c), NEW left \in SUBSET Keys,
         Pending(c, "write"), Remove(c, K), Reply(c, "Ok", left, <<>>),
         op[c].name \in Deletes \cup {"delete_by_pksk"},
         op[c].name \in Deletes => Sent(c) \ left \subseteq K
  PROVE  IInv'
<1>1. UNCHANGED <<op, made>>
  BY DEF Remove
<1>2. /\ req' \in [Clients -> Requests] /\ req'[c].kind = "write" /\ req'[c].reply = "Ok"
      /\ req'[c].left = left /\ \A d \in Clients \ {c} : req'[d] = req[d]
      /\ \A d \in Clients : Fitting(d)'
      /\ \A d \in Clients, i \in Items \cup {NoItem} : Spent(d, i) => Spent(d, i)'
  BY <1>1, Answered
<1>3. \A k \in Keys :
        /\ table'[k] = IF k \in K THEN NoItem ELSE table[k]
        /\ remover'[k] = IF k \in K /\ table[k] # NoItem THEN Id(c) ELSE remover[k]
  BY DEF Remove
<1>4. Id(c) \in CallIds /\ Id(c) # NoCall
  BY Typed, SentinelAssumption DEF Id, CallIds, IInv
<1>5. TypeOK'
  <2>1. table \in [Keys -> Items \cup {NoItem}] /\ remover \in [Keys -> CallIds \cup {NoCall}]
    BY DEF IInv, TypeOK
  <2>2. table' \in [Keys -> Items \cup {NoItem}] /\ remover' \in [Keys -> CallIds \cup {NoCall}]
    BY <1>4, <2>1 DEF Remove
  <2> QED BY <1>1, <1>2, <2>2 DEF IInv, TypeOK
<1>6. AllSpent'
  <2> SUFFICES ASSUME NEW e \in Clients, NEW k \in Keys, NEW d \in Clients
               PROVE  Spent(e, table[k])' /\ Spent(e, op[d].seen[k])'
    BY DEF AllSpent
  <2>1. /\ table[k] \in Items \cup {NoItem} /\ op[d].seen[k] \in Items \cup {NoItem}
        /\ Spent(e, table[k]) /\ Spent(e, op[d].seen[k])
    BY Typed DEF IInv, AllSpent, TypeOK
  <2>2. Spent(e, op[d].seen[k])'
    <3>1. op'[d].seen[k] = op[d].seen[k]
      BY <1>1
    <3> QED BY <1>2, <2>1, <3>1 DEF Spent
  <2>3. CASE k \in K
    BY <1>3, <2>2, <2>3 DEF Spent
  <2>4. CASE k \notin K
    <3>1. table'[k] = table[k]
      BY <1>3, <2>4
    <3> QED BY <1>2, <2>1, <2>2, <3>1 DEF Spent
  <2> QED BY <2>3, <2>4
<1>7. \A d \in Clients, k \in Keys : Gone(d, k) \/ k \in K => Gone(d, k)'
  BY <1>1, <1>3 DEF Gone
<1>8. ASSUME NEW d \in Clients PROVE DeletedSoFar(d)'
  <2>1. DeletedSoFar(d) /\ Confirmed(d)' = Confirmed(d) /\ Sent(d)' = Sent(d)
    BY <1>1 DEF IInv, Confirmed, Sent
  <2>2. Confirmed(d) \subseteq Keys /\ Sent(d) \subseteq Keys
    BY Typed DEF IInv, Confirmed, KeysOf
  <2>3. op[d].name \in Deletes => \A k \in Confirmed(d) \ op[d].unprocessed : Gone(d, k)'
    BY <1>7, <2>1, <2>2 DEF DeletedSoFar
  <2>4. CASE d = c
    BY <1>1, <1>2, <1>7, <2>1, <2>2, <2>3, <2>4 DEF DeletedSoFar
  <2>5. CASE d # c
    BY <1>1, <1>2, <1>7, <2>1, <2>2, <2>3, <2>5 DEF DeletedSoFar
  <2> QED BY <2>4, <2>5
<1>9. ASSUME NEW d \in Clients, NEW k \in Keys PROVE Removed(d, k)'
  <2>1. Removed(d, k)
    BY DEF IInv
  <2>2. CASE d = c /\ k \in K
    <3>1. made[c] \in 0..MaxCalls
      BY Typed DEF IInv
    <3>2. op[c].name \in Deletes =>
            \E i \in DOMAIN op[c].items : op[c].items[i] = k /\ i <= op[c].from + ChunkSize
      BY <2>2 DEF Sent, chunk
    <3> QED BY <1>1, <1>3, <2>1, <2>2, <3>1, <3>2 DEF Removed, Id
  <2>3. CASE d # c \/ k \notin K
    BY <1>1, <1>3, <2>1, <2>3 DEF Removed, Id
  <2> QED BY <2>2, <2>3
<1>10. ASSUME NEW d \in Clients PROVE PutSoFar(d)'
  <2>1. KeysOf(op[d].items) \subseteq Keys /\ op[c].name # "put"
    BY Typed DEF IInv, Deletes
  <2> SUFFICES ASSUME op[d].name = "put", op[d].status = "Ok" \/ req'[d].reply = "Ok",
                      NEW k \in KeysOf(op[d].items)
               PROVE  Stuck(d, k)'
    BY <1>1 DEF PutSoFar
  <2>2. Stuck(d, k)
    BY <1>2, <2>1 DEF IInv, PutSoFar
  <2> QED BY <1>1, <1>3, <1>4, <2>1, <2>2 DEF Stuck, Id
<1> QED BY <1>2, <1>5, <1>6, <1>8, <1>9, <1>10 DEF IInv

\* A call of any method begins.
LEMMA StartIInv ==
  ASSUME IInv, NEW c \in Clients, Start(c)
  PROVE  IInv'
<1>1. ASSUME NEW k \in SingleKeys, put(c, k) \/ put_over(c, k) \/ delete_by_pksk(c, k) PROVE IInv'
  <2>1. PICK name \in Inserts \cup {"delete_by_pksk"} : Call(c, name, <<k>>, NoPk, "write")
    BY <1>1 DEF put, put_over, delete_by_pksk, Inserts
  <2>2. <<k>> \in Seq(Keys)
    BY ArgumentsAssumption
  <2> QED BY <2>1, <2>2, CallIInv
<1>2. ASSUME NEW items \in PutBatches, batch_put(c, items) PROVE IInv'
  <2>1. items \in Seq(Keys) /\ "batch_put" \in Inserts
    BY ArgumentsAssumption DEF Inserts
  <2> QED BY <1>2, <2>1, CallIInv DEF batch_put
<1>3. ASSUME NEW items \in DeleteBatches, batch_delete(c, items) PROVE IInv'
  <2>1. items \in Seq(Keys) /\ "batch_delete" \in Deletes
    BY ArgumentsAssumption DEF Deletes
  <2>2. PICK kind \in {"none", "write"} :
          Call(c, "batch_delete", items, NoPk, kind) /\ (kind = "none" => items = <<>>)
    BY <1>3 DEF batch_delete
  <2> QED BY <2>1, <2>2, CallIInv
<1>4. ASSUME NEW pk \in Pks, delete_by_pk(c, pk) PROVE IInv'
  <2>1. <<>> \in Seq(Keys) /\ "delete_by_pk" \in Deletes
    BY DEF Deletes
  <2> QED BY <1>4, <2>1, CallIInv DEF delete_by_pk
<1> QED BY <1>1, <1>2, <1>3, <1>4 DEF Start

\* DynamoDB serves a request.
LEMMA ServeIInv ==
  ASSUME IInv, NEW c \in Clients, Serve(c)
  PROVE  IInv'
<1>1. Sent(c) \subseteq Keys /\ {} \subseteq Keys
  BY Typed DEF IInv
<1>2. CASE serve_put(c)
  <2>1. op[c].name \in Inserts
    BY <1>2 DEF serve_put, Inserts
  <2> QED BY <1>1, <1>2, <2>1, InsertIInv, RefusedIInv DEF serve_put
<1>3. CASE serve_single(c)
  <2>1. CASE op[c].name = "put_over" /\ Insert(c, Sent(c))
    <3>1. op[c].name \in Inserts
      BY <2>1 DEF Inserts
    <3> QED BY <1>1, <1>3, <2>1, <3>1, InsertIInv DEF serve_single
  <2>2. CASE op[c].name = "delete_by_pksk" /\ Remove(c, Sent(c))
    <3>1. op[c].name \notin Deletes
      BY <2>2 DEF Deletes
    <3> QED BY <1>1, <1>3, <2>2, <3>1, RemoveIInv DEF serve_single
  <2> QED BY <1>3, <2>1, <2>2 DEF serve_single
<1>4. CASE serve_batch(c)
  <2>1. PICK K \in Processed(c) :
          /\ \/ op[c].name = "batch_put" /\ Insert(c, K)
             \/ op[c].name \in Deletes /\ Remove(c, K)
          /\ Reply(c, "Ok", Sent(c) \ K, <<>>)
    BY <1>4 DEF serve_batch
  <2>2. K \in SUBSET Sent(c) /\ Sent(c) \ K \in SUBSET Keys /\ Pending(c, "write")
    BY <1>1, <1>4 DEF Processed, serve_batch
  <2>3. CASE op[c].name = "batch_put" /\ Insert(c, K)
    <3>1. op[c].name \in Inserts
      BY <2>3 DEF Inserts
    <3> QED BY <2>1, <2>2, <2>3, <3>1, InsertIInv
  <2>4. CASE op[c].name \in Deletes /\ Remove(c, K)
    <3>1. Sent(c) \ (Sent(c) \ K) \subseteq K
      OBVIOUS
    <3> QED BY <2>1, <2>2, <2>4, <3>1, RemoveIInv
  <2> QED BY <2>1, <2>3, <2>4
<1>5. CASE refuse_batch(c)
  BY <1>5, RefusedIInv DEF refuse_batch
<1>6. CASE serve_query(c)
  BY <1>6, ServeQueryIInv
<1> QED BY <1>2, <1>3, <1>4, <1>5, <1>6 DEF Serve

\* A client hears from DynamoDB, or gives up waiting.
LEMMA HearIInv ==
  ASSUME IInv, NEW c \in Clients, Hear(c)
  PROVE  IInv'
<1>1. CASE resend(c)
  BY <1>1, ResendIInv
<1>2. CASE fail(c)
  BY <1>2, FinishIInv DEF fail
<1>3. CASE return_ok(c)
  BY <1>3, FinishIInv DEF return_ok
<1>4. CASE next_chunk(c)
  BY <1>4, NextChunkIInv
<1>5. CASE page_received(c)
  BY <1>5, PageReceivedIInv
<1> QED BY <1>1, <1>2, <1>3, <1>4, <1>5 DEF Hear

\* The inductive invariant holds throughout.
THEOREM Invariance == Spec => []IInv
<1>1. IInv /\ [Next]_vars => IInv'
  <2> SUFFICES ASSUME IInv, [Next]_vars PROVE IInv'
    OBVIOUS
  <2>1. CASE UNCHANGED vars
    BY <2>1 DEF vars, IInv, TypeOK, Fitting, AllSpent, Spent, DeletedSoFar, Confirmed, Gone, Sent,
      chunk, KeysOf, Removed, PutSoFar, Stuck, Id
  <2>2. ASSUME NEW c \in Clients, Start(c) \/ Serve(c) \/ Hear(c) PROVE IInv'
    BY <2>2, StartIInv, ServeIInv, HearIInv
  <2> QED BY <2>1, <2>2 DEF Next
<1> QED BY InitIInv, <1>1, PTL DEF Spec

-----------------------------------------------------------------------------
(* What it shows *)

\* Every variable keeps its type.
THEOREM TypeCorrect == Spec => []TypeOK
<1>1. IInv => TypeOK
  BY DEF IInv
<1> QED BY Invariance, <1>1, PTL

\* What a delete has been confirmed for (chunk by chunk in batch_delete) is
\* gone and never comes back, whatever is sent again and whoever else writes.
THEOREM DeletedCorrect == Spec => []ConfirmedDeleted
<1>1. IInv => ConfirmedDeleted
  BY DEF IInv, ConfirmedDeleted, DeletedSoFar, Gone
<1> QED BY Invariance, <1>1, PTL

\* batch_delete and delete_by_pk remove only what they have sent: a call that
\* stops half-way has touched nothing beyond the chunk it stopped at.
THEOREM SentCorrect == Spec => []OnlySentDeleted
<1>1. IInv => OnlySentDeleted
  <2> SUFFICES ASSUME IInv, NEW c \in Clients, NEW k \in Keys, remover[k] = Id(c), op[c].name \in Deletes
               PROVE  \E i \in DOMAIN op[c].items : op[c].items[i] = k /\ i <= op[c].from + ChunkSize
    BY DEF OnlySentDeleted
  <2>1. Removed(c, k) /\ made[c] \in 0..MaxCalls
    BY Typed DEF IInv
  <2> QED BY <2>1 DEF Removed, Id
<1> QED BY Invariance, <1>1, PTL

\* An item that put has confirmed stays until some call removes it or writes
\* over it unconditionally: no other put does, retried or not.
THEOREM PutCorrect == Spec => []PutSticks
<1>1. IInv => PutSticks
  BY DEF IInv, PutSticks, PutSoFar, Stuck
<1> QED BY Invariance, <1>1, PTL

=============================================================================
