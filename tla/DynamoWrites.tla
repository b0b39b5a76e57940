---------------------------- MODULE DynamoWrites ----------------------------
(***************************************************************************)
(* The writes of DynamoClient (crate iciaws_dynamo): several clients, each *)
(* with one call under way, on one DynamoDB table.                         *)
(*                                                                         *)
(* A call is one request to DynamoDB, or several in turn: delete_by_pk     *)
(* queries once and hands the page to batch_delete, which sends one        *)
(* BatchWriteItem per chunk and stops at the first error.  The AWS SDK     *)
(* under the client sends a request again when it hears nothing, so a      *)
(* request may take effect more than once, with other clients' writes in   *)
(* between; and DynamoDB may leave part of a batch unprocessed.            *)
(***************************************************************************)
EXTENDS Integers, Sequences, FiniteSets

CONSTANTS
  Clients,
  Pks,             \* partition keys
  Keys,            \* primary keys of items, [pk, sk]
  ChunkSize,       \* items per request of batch_delete: 25
  BatchLimit,      \* items DynamoDB takes in one BatchWriteItem: 25
  PageItems,       \* items DynamoDB returns from one Query: 1 MB of them
  Throttled,       \* whether DynamoDB may leave items unprocessed
  Tables,          \* the keys present at the start, one set for each start
  SingleKeys,      \* arguments of put, put_over and delete_by_pksk
  PutBatches,      \* arguments of batch_put: sequences of keys
  DeleteBatches,   \* arguments of batch_delete
  MaxAttempts,     \* how often the SDK sends a request
  MaxCalls,        \* bound on the calls of each client
  NoItem, NoCall, NoPk

ASSUME KeysAssumption == Keys \subseteq [pk : Pks, sk : Nat] /\ IsFiniteSet(Keys)
ASSUME SizeAssumption ==
  /\ ChunkSize \in Nat \ {0} /\ BatchLimit \in Nat /\ ChunkSize <= BatchLimit
  /\ PageItems \in Nat \ {0}
ASSUME ArgumentsAssumption ==
  /\ Tables \subseteq SUBSET Keys /\ SingleKeys \subseteq Keys
  /\ PutBatches \cup DeleteBatches \subseteq Seq(Keys)
ASSUME BoundAssumption ==
  MaxAttempts \in Nat \ {0} /\ MaxCalls \in Nat /\ Throttled \in BOOLEAN

VARIABLES
  table,     \* the item under each key
  remover,   \* the call that last removed an item under each key
  op,        \* the latest call of each client, its arguments and its outcome
  req,       \* the request each client waits for
  made       \* how many calls each client has made

vars == <<table, remover, op, req, made>>

CallIds == Clients \X (0..MaxCalls)
Inserts == {"put", "put_over", "batch_put"}
Deletes == {"batch_delete", "delete_by_pk"}

\* Every insertion writes an item of its own: the call and the attempt.
Items == [by : CallIds \cup {NoCall}, how : Inserts, attempt : 1..MaxAttempts]
Id(c) == <<c, made[c]>>

ASSUME SentinelAssumption == NoItem \notin Items /\ NoCall \notin CallIds

\* from: how many of items batch_delete has behind it; seen: the table when
\* the call, or its query, read it; unprocessed: the keys left out of it.
Calls ==
  [name : Inserts \cup Deletes \cup {"delete_by_pksk", "none"}, items : Seq(Keys), from : Nat,
   pk : Pks \cup {NoPk}, seen : [Keys -> Items \cup {NoItem}], unprocessed : SUBSET Keys,
   status : {"running", "Ok", "Err"}]

\* left: the UnprocessedItems of a reply; page: the Items of one.
Requests ==
  [kind : {"none", "query", "write"}, attempt : 1..MaxAttempts,
   reply : {"none", "Ok", "Err"}, left : SUBSET Keys, page : Seq(Keys)]

Request(kind) == [kind |-> kind, attempt |-> 1, reply |-> "none", left |-> {}, page |-> <<>>]

KeysOf(items) == {items[i] : i \in DOMAIN items}
NoDuplicates(items) == \A i, j \in DOMAIN items : items[i] = items[j] => i = j

\* The part of a batch_delete's items its current request covers.
\* Mutant: a chunk is one item short.
chunk_Short(o) == {i \in DOMAIN o.items : o.from < i /\ i < o.from + ChunkSize}
chunk(o) == {i \in DOMAIN o.items : o.from < i /\ i <= o.from + ChunkSize}

\* Mutant: every request covers the whole list.
Sent_All(c) == KeysOf(op[c].items)
Sent(c) ==
  IF op[c].name \in Deletes THEN {op[c].items[i] : i \in chunk(op[c])} ELSE KeysOf(op[c].items)

-----------------------------------------------------------------------------
(* Calls *)

Init ==
  /\ \E present \in Tables :
       table = [k \in Keys |->
         IF k \in present THEN [by |-> NoCall, how |-> "put_over", attempt |-> 1] ELSE NoItem]
  /\ remover = [k \in Keys |-> NoCall]
  /\ op = [c \in Clients |->
       [name |-> "none", items |-> <<>>, from |-> 0, pk |-> NoPk,
        seen |-> table, unprocessed |-> {}, status |-> "Ok"]]
  /\ req = [c \in Clients |-> Request("none")]
  /\ made = [c \in Clients |-> 0]

\* A call that has nothing to send is over at once.
Call(c, name, items, pk, kind) ==
  /\ op[c].status # "running" /\ made[c] < MaxCalls
  /\ op' = [op EXCEPT ![c] =
       [name |-> name, items |-> items, from |-> 0, pk |-> pk, seen |-> table,
        unprocessed |-> {}, status |-> IF kind = "none" THEN "Ok" ELSE "running"]]
  /\ req' = [req EXCEPT ![c] = Request(kind)]
  /\ made' = [made EXCEPT ![c] = @ + 1]
  /\ UNCHANGED <<table, remover>>

put(c, k)              == Call(c, "put", <<k>>, NoPk, "write")
put_over(c, k)         == Call(c, "put_over", <<k>>, NoPk, "write")
delete_by_pksk(c, k)   == Call(c, "delete_by_pksk", <<k>>, NoPk, "write")
delete_by_pk(c, pk)    == Call(c, "delete_by_pk", <<>>, pk, "query")
batch_put(c, items)    == Call(c, "batch_put", items, NoPk, "write")
batch_delete(c, items) ==
  Call(c, "batch_delete", items, NoPk, IF items = <<>> THEN "none" ELSE "write")

-----------------------------------------------------------------------------
(* DynamoDB: a request is served in one step, unless it never arrives *)

Reply(c, reply, left, page) ==
  req' = [req EXCEPT ![c].reply = reply, ![c].left = left, ![c].page = page]

Pending(c, kind) == req[c].kind = kind /\ req[c].reply = "none"

\* Writes this client's item under the keys in K.
Insert(c, K) ==
  /\ table' = [k \in Keys |->
       IF k \in K THEN [by |-> Id(c), how |-> op[c].name, attempt |-> req[c].attempt] ELSE table[k]]
  /\ UNCHANGED <<remover, op, made>>

Remove(c, K) ==
  /\ table' = [k \in Keys |-> IF k \in K THEN NoItem ELSE table[k]]
  /\ remover' = [k \in Keys |-> IF k \in K /\ table[k] # NoItem THEN Id(c) ELSE remover[k]]
  /\ UNCHANGED <<op, made>>

\* put's condition, attribute_not_exists(pk), is checked with the write.
\* Mutant: the condition is missing.
serve_put_Unconditional(c) ==
  /\ Pending(c, "write") /\ op[c].name = "put"
  /\ Insert(c, Sent(c)) /\ Reply(c, "Ok", {}, <<>>)
serve_put(c) ==
  /\ Pending(c, "write") /\ op[c].name = "put"
  /\ \/ /\ \A k \in Sent(c) : table[k] = NoItem
        /\ Insert(c, Sent(c)) /\ Reply(c, "Ok", {}, <<>>)
     \/ /\ \E k \in Sent(c) : table[k] # NoItem
        /\ Reply(c, "Err", {}, <<>>)
        /\ UNCHANGED <<table, remover, op, made>>

serve_single(c) ==
  /\ Pending(c, "write")
  /\ \/ op[c].name = "put_over" /\ Insert(c, Sent(c))
     \/ op[c].name = "delete_by_pksk" /\ Remove(c, Sent(c))
  /\ Reply(c, "Ok", {}, <<>>)

\* A batch with too many items, or with one key twice, is refused whole.
ValidBatch(c) ==
  IF op[c].name = "batch_put"
  THEN Len(op[c].items) <= BatchLimit /\ NoDuplicates(op[c].items)
  ELSE /\ Cardinality(chunk(op[c])) <= BatchLimit
       /\ \A i, j \in chunk(op[c]) : op[c].items[i] = op[c].items[j] => i = j

\* Of a valid one DynamoDB processes at least one item.
Processed(c) ==
  IF Throttled THEN (SUBSET Sent(c)) \ {{}} ELSE {Sent(c)}

serve_batch(c) ==
  /\ Pending(c, "write") /\ ValidBatch(c)
  /\ \E K \in Processed(c) :
       /\ \/ op[c].name = "batch_put" /\ Insert(c, K)
          \/ op[c].name \in Deletes /\ Remove(c, K)
       /\ Reply(c, "Ok", Sent(c) \ K, <<>>)

refuse_batch(c) ==
  /\ Pending(c, "write") /\ op[c].name \in Deletes \cup {"batch_put"} /\ ~ValidBatch(c)
  /\ Reply(c, "Err", {}, <<>>)
  /\ UNCHANGED <<table, remover, op, made>>

\* The first page of a partition, in the order of the sort keys.
Present(pk) == {k \in Keys : k.pk = pk /\ table[k] # NoItem}
FirstPage(pk, page) ==
  /\ \A i, j \in DOMAIN page : i < j => page[i].sk < page[j].sk
  /\ KeysOf(page) \subseteq Present(pk)
  /\ Len(page) < PageItems => KeysOf(page) = Present(pk)
  /\ \A i \in DOMAIN page, k \in Present(pk) \ KeysOf(page) : page[i].sk < k.sk

serve_query(c) ==
  /\ Pending(c, "query")
  /\ \E n \in 0..PageItems : \E page \in [1..n -> Present(op[c].pk)] :
       FirstPage(op[c].pk, page) /\ Reply(c, "Ok", {}, page)
  /\ op' = [op EXCEPT ![c].seen = table]
  /\ UNCHANGED <<table, remover, made>>

-----------------------------------------------------------------------------
(* The client hears from DynamoDB, or does not *)

\* Nothing comes back, whether or not the request was served: the SDK sends
\* it again, and in the end gives up.
\* Mutant: it never does.
resend_ForEver(c) ==
  /\ req[c].kind # "none"
  /\ req' = [req EXCEPT ![c] = [Request(req[c].kind) EXCEPT !.attempt = req[c].attempt + 1]]
  /\ UNCHANGED <<table, remover, op, made>>
resend(c) ==
  /\ req[c].kind # "none" /\ req[c].attempt < MaxAttempts
  /\ req' = [req EXCEPT ![c] = [Request(req[c].kind) EXCEPT !.attempt = req[c].attempt + 1]]
  /\ UNCHANGED <<table, remover, op, made>>

Finish(c, status) ==
  /\ op' = [op EXCEPT ![c].status = status, ![c].unprocessed = @ \cup req[c].left]
  /\ req' = [req EXCEPT ![c] = Request("none")]
  /\ UNCHANGED <<table, remover, made>>

\* An error ends the call where it is: chunks not sent yet are never sent.
fail(c) ==
  /\ req[c].kind # "none"
  /\ req[c].reply = "Err" \/ req[c].attempt = MaxAttempts
  /\ Finish(c, "Err")

\* More items than those sent so far.
More(o) == o.name \in Deletes /\ Len(o.items) > o.from + ChunkSize

return_ok(c) ==
  /\ req[c].kind = "write" /\ req[c].reply = "Ok" /\ ~More(op[c])
  /\ Finish(c, "Ok")

\* UnprocessedItems of the reply are not looked at.
\* Mutant: the chunk just sent is not left behind.
next_chunk_Again(c) ==
  /\ req[c].kind = "write" /\ req[c].reply = "Ok" /\ More(op[c])
  /\ op' = [op EXCEPT ![c].unprocessed = @ \cup req[c].left]
  /\ req' = [req EXCEPT ![c] = Request("write")]
  /\ UNCHANGED <<table, remover, made>>
next_chunk(c) ==
  /\ req[c].kind = "write" /\ req[c].reply = "Ok" /\ More(op[c])
  /\ op' = [op EXCEPT ![c].from = @ + ChunkSize, ![c].unprocessed = @ \cup req[c].left]
  /\ req' = [req EXCEPT ![c] = Request("write")]
  /\ UNCHANGED <<table, remover, made>>

\* delete_by_pk deletes the one page it got, if anything is on it.
\* LastEvaluatedKey is not looked at.
page_received(c) ==
  /\ req[c].kind = "query" /\ req[c].reply = "Ok"
  /\ op' = [op EXCEPT ![c].items = req[c].page,
                      ![c].status = IF req[c].page = <<>> THEN "Ok" ELSE "running"]
  /\ req' = [req EXCEPT ![c] = Request(IF req[c].page = <<>> THEN "none" ELSE "write")]
  /\ UNCHANGED <<table, remover, made>>

Start(c) ==
  \/ \E k \in SingleKeys : put(c, k) \/ put_over(c, k) \/ delete_by_pksk(c, k)
  \/ \E items \in PutBatches : batch_put(c, items)
  \/ \E items \in DeleteBatches : batch_delete(c, items)
  \/ \E pk \in Pks : delete_by_pk(c, pk)

Serve(c) ==
  serve_put(c) \/ serve_single(c) \/ serve_batch(c) \/ refuse_batch(c) \/ serve_query(c)

Hear(c) == resend(c) \/ fail(c) \/ return_ok(c) \/ next_chunk(c) \/ page_received(c)

Next == \E c \in Clients : Start(c) \/ Serve(c) \/ Hear(c)

Spec == Init /\ [][Next]_vars /\ \A c \in Clients : WF_vars(Serve(c) \/ Hear(c))

-----------------------------------------------------------------------------
(* Properties *)

\* Type invariant.
TypeOK ==
  /\ table \in [Keys -> Items \cup {NoItem}]
  /\ remover \in [Keys -> CallIds \cup {NoCall}]
  /\ op \in [Clients -> Calls]
  /\ req \in [Clients -> Requests]
  /\ made \in [Clients -> 0..MaxCalls]

\* The items whose deletion has been confirmed to a client.
Confirmed(c) ==
  {op[c].items[i] : i \in {j \in DOMAIN op[c].items : op[c].status = "Ok" \/ j <= op[c].from}}

\* What a delete has been confirmed for is gone, were it to fail later on,
\* whatever was retried and whoever else writes: the item its client read is
\* not there any more, unless DynamoDB left it unprocessed.
ConfirmedDeleted ==
  \A c \in Clients : op[c].name \in Deletes =>
    \A k \in Confirmed(c) \ op[c].unprocessed :
      op[c].seen[k] = NoItem \/ table[k] # op[c].seen[k]

\* A delete that stops half-way has touched nothing beyond the chunk it
\* stopped at, and no delete ever touches a key it was not given or did not
\* read, even one put under the same pk meanwhile.
OnlySentDeleted ==
  \A c \in Clients, k \in Keys :
    remover[k] = Id(c) /\ op[c].name \in Deletes =>
      \E i \in DOMAIN op[c].items : op[c].items[i] = k /\ i <= op[c].from + ChunkSize

\* An item that put has confirmed stays until some call removes it or writes
\* over it unconditionally; another put, retried or not, never replaces it.
PutSticks ==
  \A c \in Clients, k \in Keys :
    op[c].name = "put" /\ op[c].status = "Ok" /\ k \in KeysOf(op[c].items) =>
      \/ table[k] # NoItem /\ table[k].by = Id(c)
      \/ remover[k] # NoCall
      \/ table[k] # NoItem /\ table[k].how \in {"put_over", "batch_put"}

\* Every call returns, if DynamoDB and the SDK keep going: a batch delete
\* gets through its chunks, retries end.
CallReturns == \A c \in Clients : op[c].status = "running" ~> op[c].status # "running"

-----------------------------------------------------------------------------
(* What the documentation says, and the code does not do *)

\* batch_delete "Returns nothing if successful, else returns DynamoError"
\* (lib.rs): if it is alone and returns Ok, its items are deleted.
BatchDeleteDeletes ==
  \A c \in Clients :
    op[c].name = "batch_delete" /\ op[c].status = "Ok" =>
      \A k \in KeysOf(op[c].items) : table[k] = NoItem

\* delete_by_pk is to "Delete all items sharing the same pk" (lib.rs): if it
\* is alone and returns Ok, no item has that pk.
DeleteByPkDeletesAll ==
  \A c \in Clients :
    op[c].name = "delete_by_pk" /\ op[c].status = "Ok" => Present(op[c].pk) = {}
=============================================================================
