---------------------------- MODULE DynamoReads -----------------------------
(***************************************************************************)
(* The reads of DynamoClient (crate iciaws_dynamo): one caller reads one   *)
(* list, page by page where the function lets it, while others write to    *)
(* the table.                                                              *)
(*                                                                         *)
(* What the caller means by its arguments is stated apart from the request *)
(* that is made of them, as the set of items it wants.  None of the        *)
(* functions asks for a consistent read, so DynamoDB may read a copy that  *)
(* lags behind the table.                                                  *)
(***************************************************************************)
EXTENDS Queries

CONSTANTS
  Items,           \* what may be in the table: versions of items
  Tables,          \* sets of items at the start
  Pks, Sks,        \* texts callers name as partition keys and as sort keys
  Patterns,        \* as sort keys in a composite key
  Roles,           \* as the partition key of the index
  Filters,         \* filter expressions with the tag they look for
  Limits,          \* page sizes callers ask for
  KeyLists,        \* arguments of batch_get
  Contested,       \* the items that others write while one reads
  MaxGarbled,      \* bound on the page keys that reach a call garbled
  NotAsked, Pending, Unfinished

ASSUME ItemsAssumption ==
  /\ Items \subseteq [Attributes -> Texts] /\ IsFiniteSet(Items)
  /\ \A T \in Tables : T \subseteq Items /\ \A i, j \in T : KeyOf(i) = KeyOf(j) => i = j
ASSUME BoundAssumption == Contested \subseteq Items /\ MaxGarbled \in Nat

\* Composite keys are for partition keys without the separator in them.
ASSUME TextsAssumption ==
  Pks \cup Patterns \subseteq Texts /\ \A pk \in Pks : SEP \notin ToSet(pk)
ASSUME LimitsAssumption == Limits \subseteq Nat \cup {NoLimit} /\ NoLimit \notin Nat
ASSUME KeysAssumption ==
  \A index \in DOMAIN KeyOfIndex, i \in Items :
    /\ KeyIn(index, i) # NoKey
    /\ [base64 |-> KeyIn(index, i)] \notin {NoText, Garbled}
ASSUME StatusAssumption == NotAsked \notin {"asking", "page", "all", "part", "refused", "Err"}

\* A filter is one that DynamoDB would take in a scan.  It does not look at
\* the keys of the table, nor use the placeholders of the functions.
ScanWith(f) == [Scan EXCEPT !.filter = f.exp, !.names = f.names, !.values = f.values]
ASSUME FiltersAssumption ==
  \A f \in Filters :
    /\ Fits(ScanWith(f)) /\ \A c \in ToSet(f.exp) : AttributeOf(ScanWith(f), c.name) \notin PrimaryKey
    /\ "#pk" \notin DOMAIN f.names /\ ":pk" \notin DOMAIN f.values
    /\ \A i \in Items : Holds(ScanWith(f), f.exp, i) <=> i.tag = f.tag

VARIABLES
  table,     \* the items
  copy,      \* the items as a replica or the index has them
  read,      \* the caller's read: its function, request, meaning and status
  page,      \* the last page it has been given
  given,     \* the items of the pages before, since its list began
  lasting,   \* the items that have been in table and copy since it began
  ever       \* those that have been in one of them at some time since

vars == <<table, copy, read, page, given, lasting, ever>>

Init ==
  /\ table \in Tables /\ copy = table
  /\ read = [fn |-> "none", req |-> Query, ascending |-> TRUE, wants |-> {}, paged |-> FALSE,
             status |-> NotAsked, last |-> NoKey, garbled |-> 0]
  /\ page = {} /\ given = {} /\ lasting = {} /\ ever = {}

-----------------------------------------------------------------------------
(* The functions: the request each makes, and what its caller means by it: *)
(* which items, and in which order                                         *)

Ask(fn, r, ascending, wants, paged) ==
  /\ read.status = NotAsked
  /\ read' = [fn |-> fn, req |-> r, ascending |-> ascending, wants |-> wants, paged |-> paged,
              status |-> "asking", last |-> NoKey, garbled |-> 0]
  /\ lasting' = table \cap copy /\ ever' = table \cup copy
  /\ UNCHANGED <<table, copy, page, given>>

In(pk)         == {i \in Items : i.pk = pk}
WithRole(role) == {i \in Items : i.gpk = role}
Tagged(tag)    == {i \in Items : i.tag = tag}
Under(pfx)     == {i \in Items : IsPrefix(pfx, i.sk)}
IndexUnder(pfx) == {i \in Items : IsPrefix(pfx, i.gsk)}

Paged(r, last, limit) == [r EXCEPT !.start = make_start_key(last), !.limit = limit]

get_by_pksk(key) ==
  Ask("get_by_pksk", Get(<<key>>), TRUE, {i \in Items : KeyOf(i) = key}, FALSE)
get(res_id, key) ==
  Ask("get", Get(<<CompositeKeyOf(res_id)>>), TRUE, {i \in Items : KeyOf(i) = key}, FALSE)
batch_get(keys) ==
  Ask("batch_get", [Get(keys) EXCEPT !.op = "BatchGetItem"], TRUE,
      {i \in Items : KeyOf(i) \in ToSet(keys)}, FALSE)

ByPk(pk) == [Query EXCEPT !.cond = <<Is("pk", ":hashKey")>>, !.values = Bind(":hashKey", pk)]
ByPkPrefix(pk, pfx) ==
  [Query EXCEPT !.cond = <<Is("pk", ":hashKey"), Begins("sk", ":prefix")>>,
                !.values = Bind(":hashKey", pk) ++ Bind(":prefix", pfx)]

\* Its guide has the list descending.
query_by_pk(pk) == Ask("query_by_pk", ByPk(pk), FALSE, In(pk), FALSE)
query_latest_by_pk(pk, limit) ==
  Ask("query_latest_by_pk",
      [ByPk(pk) EXCEPT !.forward = FALSE, !.limit = IF limit = NoLimit THEN 1 ELSE limit],
      FALSE, In(pk), FALSE)
query_by_pk_with_sk_prefix(pk, pfx) ==
  Ask("query_by_pk_with_sk_prefix", ByPkPrefix(pk, pfx), TRUE, In(pk) \cap Under(pfx), FALSE)
query_page_by_pk_with_sk_prefix(pk, pfx, last, limit) ==
  Ask("query_page_by_pk_with_sk_prefix",
      [Paged(ByPkPrefix(pk, pfx), last, limit) EXCEPT !.forward = FALSE],
      FALSE, In(pk) \cap Under(pfx), TRUE)
query_page_by_pk(pk, last, limit) ==
  Ask("query_page_by_pk",
      [Paged(ByPk(pk), last, limit) EXCEPT !.forward = FALSE], FALSE, In(pk), TRUE)

\* By a composite key: a pattern means the sort keys that begin with it.
query(res_id, pk, pattern) ==
  LET ck == CompositeKeyOf(res_id) IN
  Ask("query",
      [Query EXCEPT
         !.cond = <<Is("pk", ":hashKey"),
                    IF IsPattern(ck) THEN Begins("sk", ":rangeKey") ELSE Is("sk", ":rangeKey")>>,
         !.values = Bind(":hashKey", ck.pk) ++ Bind(":rangeKey", sk(ck))],
      TRUE,
      In(pk) \cap (IF EndsWith(pattern, Star) THEN Under(Front(pattern))
                   ELSE IF EndsWith(pattern, Hash) THEN Under(pattern)
                   ELSE {i \in Items : i.sk = pattern}),
      FALSE)

\* The caller writes the expression; here it asks the index for one role.
query_with_key(index, kce, ean, eav, wants) ==
  Ask("query_with_key",
      [Query EXCEPT !.index = index, !.cond = kce, !.names = ean, !.values = eav],
      TRUE, wants, FALSE)

ByRole(role, forward) ==
  [Query EXCEPT !.index = "gsi", !.cond = <<Is("#pk", ":pk")>>, !.names = Bind("#pk", "gpk"),
                !.values = Bind(":pk", role), !.forward = forward]
query_gsi_by_pk(role, forward) ==
  Ask("query_gsi_by_pk", ByRole(role, forward), forward, WithRole(role), FALSE)

\* The second key condition takes the place of the first.
query_gsi_by_pksk(role, gsk, forward) ==
  Ask("query_gsi_by_pksk",
      Binding([ByRole(role, forward) EXCEPT !.cond = <<Is("#sk", ":sk")>>],
              Bind("#sk", "gsk"), Bind(":sk", gsk)),
      forward, {i \in WithRole(role) : i.gsk = gsk}, FALSE)
query_gsi_by_pk_with_sk_prefix(role, pfx) ==
  Ask("query_gsi_by_pk_with_sk_prefix",
      Binding([ByRole(role, TRUE) EXCEPT !.cond = <<Is("#pk", ":pk"), Begins("#sk", ":pfx")>>],
              Bind("#sk", "gsk"), Bind(":pfx", pfx)),
      TRUE, WithRole(role) \cap IndexUnder(pfx), FALSE)
query_gsi_page_by_pk(role, forward, last, limit) ==
  Ask("query_gsi_page_by_pk",
      Paged(ByRole(role, forward), last, limit), forward, WithRole(role), TRUE)

\* Here the function's own value is set last.
query_by_pk_with_filter(pk, f) ==
  Ask("query_by_pk_with_filter",
      [Query EXCEPT !.cond = <<Is("pk", ":pk")>>, !.filter = f.exp, !.names = f.names,
                    !.values = Bind(":pk", pk) ++ f.values],
      TRUE, In(pk) \cap Tagged(f.tag), FALSE)

\* Through QueriesBuilder.
Compared(op, val) == {i \in Items : Compare(i.sk, op, <<val>>)}
query_page_by_pk_with_sk_expr(pk, last, limit, ascending, op, val) ==
  Ask("query_page_by_pk_with_sk_expr",
      go(settings(hash_key_with_sort_key_expr(with_table, pk, op, val), ascending, limit, last)),
      ascending, In(pk) \cap Compared(op, val), TRUE)
query_page_by_pk_with_sk_between(pk, last, limit, ascending, lo, hi) ==
  Ask("query_page_by_pk_with_sk_between",
      go(settings(hash_key_with_sort_key_between(with_table, pk, lo, hi), ascending, limit, last)),
      ascending, {i \in In(pk) : ~Less(i.sk, lo) /\ ~Less(hi, i.sk)}, TRUE)
query_gsi_page_by_pk_with_sk_between(role, lo, hi, last, limit, ascending) ==
  LET b == key_names(use_index(with_table, "gsi"), "gpk", "gsk") IN
  Ask("query_gsi_page_by_pk_with_sk_between",
      go(settings(hash_key_with_sort_key_between(b, role, lo, hi), ascending, limit, last)),
      ascending, {i \in WithRole(role) : ~Less(i.gsk, lo) /\ ~Less(hi, i.gsk)}, TRUE)
query_page_by_pk_with_filter(pk, last, limit, ascending, f) ==
  Ask("query_page_by_pk_with_filter",
      go(set_filter(settings(hash_key(with_table, pk), ascending, limit, last), f)),
      ascending, In(pk) \cap Tagged(f.tag), TRUE)

\* A caller of QueriesBuilder itself.
QueriesBuilder_prefix(pk, pfx, last, limit) ==
  Ask("QueriesBuilder",
      go(settings(hash_key_with_sort_key_prefix(with_table, pk, pfx), FALSE, limit, last)),
      FALSE, In(pk) \cap Under(pfx), TRUE)

\* A legacy ScanFilter carries its operands itself.
scan_with_filter(f) ==
  Ask("scan_with_filter", ScanWith(f), TRUE, Tagged(f.tag), FALSE)

\* This one takes a map of names, not an optional one.
scan_with_filter2(f, last) ==
  Ask("scan_with_filter2",
      [ScanWith(f) EXCEPT !.names = IF f.names = None THEN EmptyMap ELSE f.names,
                          !.start = make_start_key(last)],
      TRUE, Tagged(f.tag), TRUE)
-----------------------------------------------------------------------------
(* DynamoDB answers; the caller goes on with the page key, or does not *)

Given == given \cup page

\* A page without a last evaluated key is the last; the other functions take
\* no page key, and their callers have no way to go on.
Hear(items, last) ==
  /\ page' = items /\ given' = Given
  /\ read' = [read EXCEPT !.last = last,
       !.status = IF last = NoKey THEN "all" ELSE IF read.paged THEN "page" ELSE "part"]

serve_page ==
  /\ read.status = "asking" /\ read.req.op \in {"Query", "Scan"} /\ Fits(read.req)
  /\ \E S \in {table, copy} :
       LET front == Page(read.req, S)
       IN  Hear(Filtered(read.req, front), LastKey(read.req, front))
  /\ UNCHANGED <<table, copy, lasting, ever>>

\* BatchGetItem may leave keys unprocessed; nobody looks.
serve_get ==
  /\ read.status = "asking" /\ read.req.op \in {"GetItem", "BatchGetItem"} /\ Fits(read.req)
  /\ \E S \in {table, copy}, K \in SUBSET ToSet(read.req.keys) :
       /\ read.req.op = "GetItem" => K = ToSet(read.req.keys)
       /\ page' = {i \in S : KeyOf(i) \in K}
       /\ read' = [read EXCEPT !.status = IF K = ToSet(read.req.keys) THEN "all" ELSE "part"]
  /\ UNCHANGED <<table, copy, given, lasting, ever>>

End(status) ==
  /\ read' = [read EXCEPT !.status = status]
  /\ UNCHANGED <<table, copy, page, given, lasting, ever>>

refuse == read.status = "asking" /\ ~Fits(read.req) /\ End("refused")
fail   == read.status = "asking" /\ End("Err")

\* The caller asks for the next page with the page key it was given, with one
\* that got garbled on the way, or with one of another list.  A garbled one is
\* taken for none: the list begins again.
follow(text) ==
  /\ read.status = "page"
  /\ text = Garbled => read.garbled < MaxGarbled
  /\ read' = [read EXCEPT !.status = "asking", !.req.start = make_start_key(text),
                          !.garbled = IF text = Garbled THEN @ + 1 ELSE @]
  /\ IF text = Garbled THEN page' = {} /\ given' = {} ELSE UNCHANGED <<page, given>>
  /\ UNCHANGED <<table, copy, lasting, ever>>

PageKeys ==
  {Garbled} \cup
  {last_evaluated_key_to_base64(key) : key \in ({read.last} \ {NoKey}) \cup
     {KeyIn(read.req.index, i) : i \in {j \in Items : ~Holds(read.req, read.req.cond, j)}}}

-----------------------------------------------------------------------------
(* Others write meanwhile, and never stop; the copy catches up, one key at  *)
(* a time                                                                  *)

Reading == read.status \in {"asking", "page"}

Put(T, i) == {j \in T : KeyOf(j) # KeyOf(i)} \cup {i}

Now(T, C) ==
  /\ table' = T /\ copy' = C
  /\ lasting' = lasting \cap T \cap C /\ ever' = ever \cup T \cup C
  /\ UNCHANGED <<read, page, given>>

Write(T) == Reading /\ T # table /\ Now(T, copy)

put_over(i) == Write(Put(table, i))
delete(i)   == Write(table \ {i})

catch_up(key) ==
  /\ Reading
  /\ Now(table, {i \in copy : KeyOf(i) # key} \cup {i \in table : KeyOf(i) = key})
  /\ copy' # copy

-----------------------------------------------------------------------------

Resids == {KeyOf(i) : i \in {j \in Items : SEP \notin ToSet(j.pk)}}

AskOnce ==
  \/ \E i \in Items : get_by_pksk(KeyOf(i))
  \/ \E key \in Resids : get(keys_to_resid(key), key)
  \/ \E pk \in Pks : get(pk, Key(pk, <<Hash>>))
  \/ \E keys \in KeyLists : batch_get(keys)
  \/ \E pk \in Pks : query_by_pk(pk)
  \/ \E pk \in Pks, limit \in Limits : query_latest_by_pk(pk, limit)
  \/ \E pk \in Pks, pfx \in Sks : query_by_pk_with_sk_prefix(pk, pfx)
  \/ \E pk \in Pks, pattern \in Patterns : query(key_as_string(pk, pattern), pk, pattern)
  \/ \E role \in Roles :
       query_with_key("gsi", <<Is("gpk", ":e")>>, None, Bind(":e", role), WithRole(role))
  \/ \E role \in Roles, forward \in BOOLEAN : query_gsi_by_pk(role, forward)
  \/ \E role \in Roles, gsk \in Sks : query_gsi_by_pksk(role, gsk, TRUE)
  \/ \E role \in Roles, pfx \in Sks : query_gsi_by_pk_with_sk_prefix(role, pfx)
  \/ \E pk \in Pks, f \in Filters : query_by_pk_with_filter(pk, f)
  \/ \E f \in Filters : scan_with_filter(f)

AskPaged ==
  \E limit \in Limits :
    \/ \E pk \in Pks, pfx \in Sks : query_page_by_pk_with_sk_prefix(pk, pfx, NoText, limit)
    \/ \E pk \in Pks : query_page_by_pk(pk, NoText, limit)
    \/ \E role \in Roles, forward \in BOOLEAN : query_gsi_page_by_pk(role, forward, NoText, limit)
    \/ \E pk \in Pks, val \in Sks, op \in {"=", "<", ">", "<=", ">="} :
         query_page_by_pk_with_sk_expr(pk, NoText, limit, op \in {">", "="}, op, val)
    \/ \E pk \in Pks, lo, hi \in Sks : ~Less(hi, lo) /\
         query_page_by_pk_with_sk_between(pk, NoText, limit, lo = hi, lo, hi)
    \/ \E role \in Roles, lo, hi \in Sks : ~Less(hi, lo) /\
         query_gsi_page_by_pk_with_sk_between(role, lo, hi, NoText, limit, lo # hi)
    \/ \E pk \in Pks, f \in Filters : query_page_by_pk_with_filter(pk, NoText, limit, FALSE, f)
    \/ \E pk \in Pks, pfx \in Sks : QueriesBuilder_prefix(pk, pfx, NoText, limit)
    \/ \E f \in Filters : scan_with_filter2(f, NoText)

Serve  == serve_page \/ serve_get \/ refuse \/ fail
Follow == \E text \in PageKeys : follow(text)
Others == (\E i \in Contested : put_over(i) \/ delete(i)) \/ \E key \in {KeyOf(i) : i \in Items} : catch_up(key)

Next == AskOnce \/ AskPaged \/ Serve \/ Follow \/ Others

Spec == Init /\ [][Next]_vars /\ WF_vars(Serve \/ Follow)

-----------------------------------------------------------------------------
(* Properties *)

\* Type invariant.
TypeOK ==
  /\ table \in SUBSET Items /\ copy \in SUBSET Items
  /\ lasting \in SUBSET Items /\ ever \in SUBSET Items
  /\ page \in SUBSET Items /\ given \in SUBSET Items
  /\ read.wants \in SUBSET Items /\ read.garbled \in 0..MaxGarbled
  /\ read.status \in {NotAsked, "asking", "page", "all", "part", "refused", "Err"}
  /\ \A key \in {read.last, read.req.start} \ {NoKey} :
       key \in {KeyIn(read.req.index, i) : i \in Items}

\* The order the caller means, whatever was asked of DynamoDB.
AsMeant == [read.req EXCEPT !.forward = read.ascending]

\* Wherever a reading has got to, it has not passed over an item the caller
\* wants that was left alone: not for a filter that empties a page, not for
\* writes around the page key, not for a page read from a copy that lags, and
\* not when a garbled page key sent it back to the start.  What is not yet
\* given comes after in the caller's order (but for query_by_pk: see
\* LatestByPk).
NothingSkipped ==
  \A i \in (lasting \cap read.wants) \ Given :
    /\ read.status # "all"
    /\ read.status \in {"page", "part"} /\ read.req.op \in {"Query", "Scan"} =>
         read.fn = "query_by_pk" \/ Before(AsMeant, read.last, i)
    /\ read.status = "asking" /\ read.req.start # NoKey /\ Fits(read.req) =>
         Before(AsMeant, read.req.start, i)

\* The pages come in the caller's order, whatever is written between them.  An
\* item comes twice only if another moved it in the index meanwhile, and then
\* as two versions that were not there all the while.
InOrder ==
  \A i \in given, j \in page :
    /\ Before(AsMeant, i, j)
    /\ KeyOf(i) = KeyOf(j) => read.req.index = "gsi" /\ {i, j} \cap lasting = {}

\* DynamoDB refuses a request only for what the caller got wrong (a page key
\* of another list, a page of no items, too many keys or one twice), for the
\* empty map of a scan_with_filter2 without names, and those of
\* query_gsi_by_pksk, always.
RefusedForCause ==
  read.status = "refused" =>
    \/ read.fn = "query_gsi_by_pksk"
    \/ read.fn = "batch_get"
    \/ read.fn = "scan_with_filter2" /\ read.req.names = EmptyMap
    \/ read.req.limit = 0
    \/ read.req.start # NoKey /\ ~Holds(read.req, read.req.cond, read.req.start)

\* The guide (llms.txt:304): "Query all items with a given pk (descending by
\* sk)".  So what a query_by_pk may have left out comes after what it gives;
\* but it asks for one page, ascending (lib.rs:192).
LatestByPk ==
  read.fn = "query_by_pk" /\ read.status \in {"all", "part"} =>
    \A i \in (lasting \cap read.wants) \ Given, j \in Given : Before(AsMeant, j, i)

\* What the caller has been told of the list.
Told ==
  CASE read.status = NotAsked -> NotAsked
    [] Reading -> Pending
    [] read.status = "all" -> Given
    [] OTHER -> Unfinished

L == INSTANCE Listing WITH wanted <- read.wants, answer <- Told

\* A reading that gets to its end is one reading of the list: all the caller
\* wants that was there all the while, nothing it does not want, nothing that
\* was not there.
ReadsList == L!Spec

\* A reading ends, with writers that never stop, as long as DynamoDB answers,
\* its caller goes on, and page keys are not garbled for ever (at most
\* MaxGarbled times).
ReadingEnds == Reading ~> ~Reading
=============================================================================
