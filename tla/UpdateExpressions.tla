------------------------- MODULE UpdateExpressions --------------------------
(***************************************************************************)
(* Updates of one item: UpdatesBuilder (builder.rs), the request it builds *)
(* and what DynamoDB does with it.                                         *)
(*                                                                         *)
(* An item maps the names of its attributes to values; a value has a type. *)
(* A placeholder is the name it was made of, with its mark.                *)
(***************************************************************************)
EXTENDS Integers, Sequences, FiniteSets, TLC, SequencesExt

N(n)   == [N |-> n]
S(s)   == [S |-> s]
L(seq) == [L |-> seq]
M(map) == [M |-> map]
Type(v) == CHOOSE t \in DOMAIN v : TRUE

Empty == [name \in {} |-> N(0)]

\* f before g, where both have an entry.
Bind(name, v) == [n \in {name} |-> v]
f ++ g == [n \in DOMAIN f \cup DOMAIN g |-> IF n \in DOMAIN f THEN f[n] ELSE g[n]]
PrimaryKey == {"pk", "sk"}

P(name) == <<"#", name>>
V(name) == <<":", name>>
NoKey == ""
NoKeyName == P(NoKey)

-----------------------------------------------------------------------------
(* Updates: the attributes of the key that are given, the clauses, names   *)
(* and values                                                              *)

Updates ==
  [key |-> {}, ues |-> <<>>, uer |-> <<>>, uea |-> <<>>, ued |-> <<>>, ean |-> Empty, eav |-> Empty]

\* name[.key] = fn(args)
Set(name, key, fn, args) == [name |-> name, key |-> key, fn |-> fn, args |-> args]

SetName(u, placeholder, name) == [u EXCEPT !.ean = Bind(placeholder, name) ++ @]
SetValue(u, placeholder, v)   == [u EXCEPT !.eav = Bind(placeholder, v) ++ @]

set_pksk(u, given) == [u EXCEPT !.key = @ \cup given]
make_key == PrimaryKey

add_update(u, name, v) ==
  SetValue(SetName([u EXCEPT !.ues = Append(@, Set(P(name), NoKeyName, "value", <<V(name)>>))],
                   P(name), name), V(name), v)

\* The placeholders of a map's element, and of an appended list, are fixed.
add_map_element(u, name, key, v) ==
  LET clause == Set(P("mapName"), P("keyName"), "value", <<V("valueName")>>) IN
  SetValue(SetName(SetName([u EXCEPT !.ues = Append(@, clause)],
                           P("mapName"), name), P("keyName"), key), V("valueName"), v)

append(u, name, v) ==
  LET clause == Set(P(name), NoKeyName, "append", <<V("elst"), V("val")>>) IN
  SetValue(SetValue(SetName([u EXCEPT !.ues = Append(@, clause)], P(name), name),
                    V("elst"), L(<<>>)), V("val"), v)

\* Mutant: the index counts from one.
remove_FromOne(u, name, at) ==
  SetName([u EXCEPT !.uer = Append(@, [name |-> P(name), at |-> IF at = 0 THEN 0 ELSE at + 1])],
          P(name), name)
\* at = 0: the attribute; otherwise an element of the list.
remove(u, name, at) ==
  SetName([u EXCEPT !.uer = Append(@, [name |-> P(name), at |-> at])], P(name), name)

add(u, name, v) ==
  SetValue(SetName([u EXCEPT !.uea = Append(@, [name |-> P(name), val |-> V(name)])],
                   P(name), name), V(name), v)
Delete(u, name, v) ==
  SetValue(SetName([u EXCEPT !.ued = Append(@, [name |-> P(name), val |-> V(name)])],
                   P(name), name), V(name), v)

is_empty(u) == ~("pk" \in u.key /\ u.ues \o u.uer \o u.uea \o u.ued # <<>>)

\* One call of the builder: its method and its arguments.
Step(op, name, key, at, v) == [op |-> op, name |-> name, key |-> key, at |-> at, v |-> v]
With(u, step) ==
  CASE step.op = "set"     -> add_update(u, step.name, step.v)
    [] step.op = "element" -> add_map_element(u, step.name, step.key, step.v)
    [] step.op = "append"  -> append(u, step.name, step.v)
    [] step.op = "remove"  -> remove(u, step.name, step.at)
    [] step.op = "add"     -> add(u, step.name, step.v)
    [] step.op = "delete"  -> Delete(u, step.name, step.v)
Built(given, steps) ==
  LET after[n \in 0..Len(steps)] ==
        IF n = 0 THEN set_pksk(Updates, given) ELSE With(after[n - 1], steps[n])
  IN  after[Len(steps)]

-----------------------------------------------------------------------------
(* DynamoDB *)

\* What each clause writes: an attribute, or a part of one.
Targets(u) ==
  {[clause |-> <<"SET", n>>, attr |-> u.ean[u.ues[n].name],
    key |-> IF u.ues[n].key = NoKeyName THEN NoKey ELSE u.ean[u.ues[n].key], at |-> 0] :
      n \in DOMAIN u.ues} \cup
  {[clause |-> <<"REMOVE", n>>, attr |-> u.ean[u.uer[n].name], key |-> NoKey, at |-> u.uer[n].at] :
      n \in DOMAIN u.uer} \cup
  {[clause |-> <<"ADD", n>>, attr |-> u.ean[u.uea[n].name], key |-> NoKey, at |-> 0] :
      n \in DOMAIN u.uea} \cup
  {[clause |-> <<"DELETE", n>>, attr |-> u.ean[u.ued[n].name], key |-> NoKey, at |-> 0] :
      n \in DOMAIN u.ued}
Part(t) == <<t.key, t.at>>
Overlap(s, t) ==
  s.attr = t.attr /\ (<<NoKey, 0>> \in {Part(s), Part(t)} \/ Part(s) = Part(t))

\* A request is refused whole if a placeholder is not used, two clauses write
\* the same place, or an operand is not of the clause's type; no value made
\* from JSON is a set, the operand DELETE takes.
WellFormed(u) ==
  /\ u.key = PrimaryKey
  /\ DOMAIN u.ean = {c.name : c \in ToSet(u.ues) \cup ToSet(u.uer) \cup ToSet(u.uea) \cup ToSet(u.ued)}
                    \cup ({c.key : c \in ToSet(u.ues)} \ {NoKeyName})
  /\ DOMAIN u.eav = (UNION {ToSet(c.args) : c \in ToSet(u.ues)})
                    \cup {c.val : c \in ToSet(u.uea) \cup ToSet(u.ued)}
  /\ \A s, t \in Targets(u) : s # t => ~Overlap(s, t)
  /\ \A t \in Targets(u) : t.attr \notin PrimaryKey
  /\ \A c \in ToSet(u.ues) : \A v \in ToSet(c.args) :
       /\ c.fn = "append" => Type(u.eav[v]) = "L"
       /\ c.fn = "plus"   => Type(u.eav[v]) = "N"
  /\ \A c \in ToSet(u.uea) : Type(u.eav[c.val]) = "N"
  /\ u.ued = <<>>

\* So is one that does not fit the item as it is.
Suits(u, i) ==
  LET typed(name, t) == u.ean[name] \in DOMAIN i => Type(i[u.ean[name]]) = t
      has(name) == u.ean[name] \in DOMAIN i
  IN  /\ \A c \in ToSet(u.ues) :
           /\ c.key # NoKeyName => has(c.name) /\ typed(c.name, "M")
           /\ c.fn = "append" => typed(c.name, "L")
           /\ c.fn = "plus"   => typed(c.name, "N")
      /\ \A c \in ToSet(u.uer) : c.at # 0 => has(c.name) /\ typed(c.name, "L")
      /\ \A c \in ToSet(u.uea) : typed(c.name, "N")
Accepted(u, i) == WellFormed(u) /\ Suits(u, i)

Without(i, attr) == [a \in DOMAIN i \ {attr} |-> i[a]]
Or(i, attr, v) == IF attr \in DOMAIN i THEN i[attr] ELSE v
Plus(v, w) == N(v.N + w.N)

\* A list without the elements at some places.
Left(list, places) ==
  LET kept   == DOMAIN list \ places
      nth(n) == CHOOSE p \in kept : Cardinality({q \in kept : q <= p}) = n
  IN  [n \in 1..Cardinality(kept) |-> list[nth(n)]]

\* The clauses about an attribute: one of them, or several for its parts.
About(u, clauses, attr) == {c \in ToSet(clauses) : u.ean[c.name] = attr}
One(clauses) == CHOOSE c \in clauses : TRUE

Value(u, i, attr, c) ==
  LET arg(n) == u.eav[c.args[n]] IN
  CASE c.fn = "value"         -> arg(1)
    [] c.fn = "append"        -> L(Or(i, attr, arg(1)).L \o arg(2).L)
    [] c.fn = "plus"          -> Plus(Or(i, attr, arg(1)), arg(2))
    [] c.fn = "if_not_exists" -> Or(i, attr, arg(1))
Entries(u, clauses) ==
  [key \in {u.ean[c.key] : c \in clauses} |->
     u.eav[One({c \in clauses : u.ean[c.key] = key}).args[1]]]

\* What becomes of an attribute.  Every clause finds the item as it was.
Cut(u, attr) == {c.at : c \in About(u, u.uer, attr)}
After(u, i, attr) ==
  LET ups  == About(u, u.ues, attr)
      adds == About(u, u.uea, attr)
  IN  IF ups # {}
      THEN IF One(ups).key = NoKeyName THEN Value(u, i, attr, One(ups))
           ELSE M(Entries(u, ups) ++ i[attr].M)
      ELSE IF adds # {} THEN Plus(Or(i, attr, N(0)), u.eav[One(adds).val])
      ELSE IF Cut(u, attr) # {} THEN L(Left(i[attr].L, Cut(u, attr)))
      ELSE i[attr]

Apply(u, i) ==
  LET named == {u.ean[c.name] : c \in ToSet(u.ues) \cup ToSet(u.uea)}
  IN  [attr \in {a \in DOMAIN i \cup named : 0 \notin Cut(u, a)} |-> After(u, i, attr)]

-----------------------------------------------------------------------------
(* What the calls of UpdatesBuilder mean, one by one *)

Meant(i, step) ==
  LET to(v) == Bind(step.name, v) ++ i
      elements == i[step.name].L
  IN  CASE step.op = "set"     -> to(step.v)
        [] step.op = "element" -> to(M(Bind(step.key, step.v) ++ i[step.name].M))
        [] step.op = "append"  -> to(L(Or(i, step.name, L(<<>>)).L \o step.v.L))
        [] step.op = "add"     -> to(Plus(Or(i, step.name, N(0)), step.v))
        [] step.op = "remove" /\ step.at = 0 -> Without(i, step.name)
        [] step.op = "remove" /\ step.at # 0 ->
             to(L(IF step.at \in DOMAIN elements THEN RemoveAt(elements, step.at) ELSE elements))

Together(i, steps) ==
  LET after[n \in 0..Len(steps)] == IF n = 0 THEN i ELSE Meant(after[n - 1], steps[n])
  IN  after[Len(steps)]

\* A step with an operand of the type its clause takes, that fits the item.
\* This is less than the uses the repository shows: its guide appends a single
\* element (llms.txt:421; so does the test at builder.rs:287), which is not a
\* list; and ADD and DELETE are said to take a set (builder.rs:177, 188), which
\* no value made from JSON is.
Possible(i, step) ==
  LET typed(t) == step.name \in DOMAIN i => Type(i[step.name]) = t
  IN  /\ step.name \notin PrimaryKey
      /\ \/ step.op = "set" \/ (step.op = "remove" /\ step.at = 0)
         \/ step.op = "element" /\ step.name \in DOMAIN i /\ typed("M")
         \/ step.op = "append" /\ Type(step.v) = "L" /\ typed("L")
         \/ step.op = "add" /\ Type(step.v) = "N" /\ typed("N")
         \/ step.op = "remove" /\ step.at # 0 /\ step.name \in DOMAIN i /\ typed("L")

Apart(steps) ==
  \A m, n \in DOMAIN steps : m # n => steps[m].name # steps[n].name

\* append and add_map_element use fixed placeholders, which another call may
\* use for its own value or name.
Fixed(op) ==
  CASE op = "append"  -> {"val", "elst"}
    [] op = "element" -> {"mapName", "keyName", "valueName"}
    [] OTHER -> {}
SharesValue(steps) ==
  \E m, n \in DOMAIN steps :
    m # n /\ Fixed(steps[m].op) # {} /\
    (steps[n].op = steps[m].op \/ steps[n].name \in Fixed(steps[m].op))

\* DynamoDB takes two elements from a list by the places they had before.
TakesTwo(steps) ==
  \E m, n \in DOMAIN steps :
    m # n /\ steps[m].name = steps[n].name /\ {steps[m].op, steps[n].op} = {"remove"}
=============================================================================
