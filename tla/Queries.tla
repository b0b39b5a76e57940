------------------------------ MODULE Queries -------------------------------
(***************************************************************************)
(* Requests to read from DynamoDB, as crate iciaws_dynamo builds them and  *)
(* as DynamoDB understands them: QueriesBuilder, page keys, expressions    *)
(* that refer to attributes and values by placeholders, pages.             *)
(***************************************************************************)
EXTENDS Integers, Sequences, FiniteSets, CompositeKey

CONSTANTS
  PageItems,       \* items DynamoDB reads for one page: 1 MB of them
  BatchGetLimit,   \* keys it takes in one BatchGetItem: 100
  NoLimit, NoKey, NoText, Garbled

ASSUME SizesAssumption == PageItems \in Nat \ {0} /\ BatchGetLimit \in Nat

Attributes == {"pk", "sk", "gpk", "gsk", "tag"}
PrimaryKey == {"pk", "sk"}

\* One index: the items with a role (gpk), in the order of gsk.
KeyOfIndex == [table |-> <<"pk", "sk">>, gsi |-> <<"gpk", "gsk">>]
KeyAttributes(index) == PrimaryKey \cup ToSet(KeyOfIndex[index])
KeyIn(index, i) == [a \in KeyAttributes(index) |-> i[a]]
KeyOf(i) == Key(i.pk, i.sk)

\* What a placeholder stands for; several of them, each as it is bound first.
Bind(name, value) == [x \in {name} |-> value]
f ++ g == [x \in DOMAIN f \cup DOMAIN g |-> IF x \in DOMAIN f THEN f[x] ELSE g[x]]

-----------------------------------------------------------------------------
(* Page keys: the last evaluated key of a page, as a text for a URL *)

\* Mutant: the attributes of the index's own key are left out.
last_evaluated_key_to_base64_Primary(key) == [base64 |-> Restrict(key, PrimaryKey)]
last_evaluated_key_to_base64(key) == [base64 |-> key]

\* Mutant: the key is lost on the way back.
make_start_key_Lost(text) == NoKey
make_start_key(text) == IF text \in {NoText, Garbled} THEN NoKey ELSE text.base64

-----------------------------------------------------------------------------
(* Requests *)

None == <<>>

\* DynamoDB refuses a map without entries, where none at all would do: like a
\* name that no expression uses.
EmptyMap == Bind("", "")

Is(name, value)     == [name |-> name, op |-> "=", args |-> <<value>>]
Begins(name, value) == [name |-> name, op |-> "begins_with", args |-> <<value>>]

Query ==
  [op |-> "Query", index |-> "table", cond |-> <<>>, filter |-> <<>>, names |-> None,
   values |-> None, forward |-> TRUE, limit |-> NoLimit, start |-> NoKey, keys |-> <<>>]
Scan == [Query EXCEPT !.op = "Scan"]
Get(keys) == [Query EXCEPT !.op = "GetItem", !.keys = keys]

\* QueriesBuilder.
with_table ==
  [pk_name |-> "pk", sk_name |-> "sk", ascending |-> FALSE, last_key |-> NoText,
   page_size |-> NoLimit, builder |-> Query]
use_index(b, index) == [b EXCEPT !.builder.index = index]
key_names(b, pk_name, sk_name) == [b EXCEPT !.pk_name = pk_name, !.sk_name = sk_name]

Binding(r, names, values) == [r EXCEPT !.names = names ++ @, !.values = values ++ @]
Where(b, cond, names, values) ==
  [b EXCEPT !.builder = Binding([@ EXCEPT !.cond = cond], names, values)]
hash_key(b, pk) == Where(b, <<Is("#pk", ":pk")>>, Bind("#pk", b.pk_name), Bind(":pk", pk))
SortKey(b, pk, op, args, values) ==
  Where(b, <<Is("#pk", ":pk"), [name |-> "#sk", op |-> op, args |-> args]>>,
        Bind("#pk", b.pk_name) ++ Bind("#sk", b.sk_name), Bind(":pk", pk) ++ values)
hash_key_with_sort_key_prefix(b, pk, pfx) ==
  SortKey(b, pk, "begins_with", <<":pfx">>, Bind(":pfx", pfx))
hash_key_with_sort_key_expr(b, pk, op, val) == SortKey(b, pk, op, <<":sk">>, Bind(":sk", val))
hash_key_with_sort_key_between(b, pk, lo, hi) ==
  SortKey(b, pk, "between", <<":sk1", ":sk2">>, Bind(":sk1", lo) ++ Bind(":sk2", hi))

\* The filter's placeholders are added to those of the key condition.
\* Mutant: they replace them.
set_filter_Replaces(b, f) ==
  [b EXCEPT !.builder = [@ EXCEPT !.filter = f.exp, !.names = f.names, !.values = f.values]]
set_filter(b, f) ==
  [b EXCEPT !.builder = Binding([@ EXCEPT !.filter = f.exp], f.names, f.values)]

settings(b, ascending, limit, last) ==
  [b EXCEPT !.ascending = ascending, !.page_size = limit, !.last_key = last]
\* Mutant: the order is left to DynamoDB.
go_Unordered(b) == [b.builder EXCEPT !.start = make_start_key(b.last_key), !.limit = b.page_size]
go(b) ==
  [b.builder EXCEPT !.forward = b.ascending, !.start = make_start_key(b.last_key),
                    !.limit = b.page_size]

-----------------------------------------------------------------------------
(* DynamoDB *)

AttributeOf(r, name) == IF name \in DOMAIN r.names THEN r.names[name] ELSE name

Compare(x, op, a) ==
  CASE op = "="  -> x = a[1]
    [] op = "<"  -> Less(x, a[1])
    [] op = ">"  -> Less(a[1], x)
    [] op = "<=" -> ~Less(a[1], x)
    [] op = ">=" -> ~Less(x, a[1])
    [] op = "begins_with" -> IsPrefix(a[1], x)
    [] op = "between" -> ~Less(x, a[1]) /\ ~Less(a[2], x)

Operands(r, c) == [m \in DOMAIN c.args |-> r.values[c.args[m]]]
Holds(r, e, i) ==
  \A n \in DOMAIN e : Compare(i[AttributeOf(r, e[n].name)], e[n].op, Operands(r, e[n]))

\* A request is refused whole unless its expressions use each placeholder it
\* defines and no other, its key condition fixes the partition and at most
\* restricts the sort key, and its start key is one the condition admits.
Fits(r) ==
  LET comparisons == ToSet(r.cond) \cup ToSet(r.filter)
      named == {c.name : c \in comparisons} \ Attributes
      operands == UNION {ToSet(c.args) : c \in comparisons}
      hash == KeyOfIndex[r.index][1]
      range == KeyOfIndex[r.index][2]
  IN  /\ named = DOMAIN r.names /\ operands = DOMAIN r.values
      /\ r.limit # 0
      /\ r.op = "Query" =>
           /\ Len(r.cond) \in 1..2
           /\ AttributeOf(r, r.cond[1].name) = hash /\ r.cond[1].op = "="
           /\ Len(r.cond) = 2 => AttributeOf(r, r.cond[2].name) = range
           /\ \A c \in ToSet(r.filter) : AttributeOf(r, c.name) \notin {hash, range}
           /\ \A c \in ToSet(r.cond) :
                c.op = "between" => ~Less(Operands(r, c)[2], Operands(r, c)[1])
      /\ r.start # NoKey =>
           /\ DOMAIN r.start = KeyAttributes(r.index)
           /\ r.op = "Query" => Holds(r, r.cond, r.start)
      /\ r.op = "BatchGetItem" =>
           Len(r.keys) \in 1..BatchGetLimit /\ IsInjective(r.keys)

\* The order in which a request goes through the items.
OrderBy(r) ==
  IF r.op = "Scan" THEN <<"pk", "sk">>
  ELSE IF r.index = "gsi" THEN <<"gsk", "pk", "sk">> ELSE <<"sk">>
Before(r, i, j) ==
  \E n \in DOMAIN OrderBy(r) :
    LET a == OrderBy(r)[n] IN
    /\ \A m \in 1..(n - 1) : i[OrderBy(r)[m]] = j[OrderBy(r)[m]]
    /\ IF r.forward THEN Less(i[a], j[a]) ELSE Less(j[a], i[a])

\* The first items of S after the start key; the filter drops some of them.
PageSize(r) == IF r.limit = NoLimit THEN PageItems ELSE Min({r.limit, PageItems})
Page(r, S) ==
  LET due == {i \in S : Holds(r, r.cond, i) /\ (r.start # NoKey => Before(r, r.start, i))}
  IN  {i \in due : Cardinality({j \in due : Before(r, j, i)}) < PageSize(r)}
Filtered(r, page) == {i \in page : Holds(r, r.filter, i)}

\* A page that is full ends with a last evaluated key.
LastKey(r, page) ==
  IF Cardinality(page) < PageSize(r) THEN NoKey
  ELSE KeyIn(r.index, CHOOSE i \in page : \A j \in page \ {i} : Before(r, j, i))
=============================================================================
