--------------------------- MODULE DynamoUpdates ----------------------------
(***************************************************************************)
(* The updates and the conditional delete of DynamoClient (crate           *)
(* iciaws_dynamo) on one item, by any number of callers at once.           *)
(*                                                                         *)
(* Each call is one request.  The AWS SDK sends it again when it hears     *)
(* nothing; the request it gave up on may be lost, but it may also be late *)
(* and take effect behind the one that was answered, or after the call.    *)
(* DynamoDB updates an item that is not there by creating it.              *)
(***************************************************************************)
EXTENDS UpdateExpressions

CONSTANTS
  Items,           \* the item at the start
  Mark, Counter, List, Stamp,   \* names of attributes
  StepLists(_),    \* what callers of UpdatesBuilder build and send, with a value of theirs
  Builds, Samples, \* what they may build, and items it may be for
  Conditions,      \* of delete: [attr, there]
  MaxCalls,        \* bound on the calls
  MaxAttempts      \* how often the SDK sends a request

ASSUME BoundAssumption == MaxCalls \in Nat /\ MaxAttempts \in Nat \ {0}
ASSUME NamesAssumption ==
  Mark # Counter /\ Mark # List /\ Mark # Stamp /\ Counter # List /\ Counter # Stamp /\ List # Stamp

\* The values that the n-th call writes.
Own(n) == {S(n), N(n)}

\* A request sets Mark and Stamp to such a value, appends one to List and adds
\* one to Counter, or removes them.
Owned(u, n) ==
  /\ \A c \in ToSet(u.ues) :
       /\ u.ean[c.name] \in {Mark, Stamp, Counter, List} => c.key = NoKeyName
       /\ u.ean[c.name] \in {Mark, Stamp} => c.fn = "value" /\ u.eav[c.args[1]] \in Own(n)
       /\ u.ean[c.name] = Counter =>
            c.fn = "plus" /\ u.eav[c.args[1]] = N(0) /\ u.eav[c.args[2]] = N(1)
       /\ u.ean[c.name] = List =>
            /\ c.fn = "append" /\ u.eav[c.args[1]] = L(<<>>)
            /\ \E v \in Own(n) : u.eav[c.args[2]] = L(<<v>>)
  /\ \A c \in ToSet(u.uea) :
       u.ean[c.name] \notin {Mark, Stamp, List} /\ (u.ean[c.name] = Counter => u.eav[c.val] = N(1))
  /\ \A c \in ToSet(u.uer) : u.ean[c.name] \in {Mark, Stamp, Counter} => c.at = 0

\* Callers of UpdatesBuilder do so too.  Nothing bears a call at first.
ASSUME StepsAssumption ==
  \A n \in 1..MaxCalls : \A steps \in StepLists(S(n)), given \in {PrimaryKey, {"sk"}} :
    Owned(Built(given, steps), n)
ASSUME ItemsAssumption ==
  \A i \in Items :
    /\ \A attr \in {Mark, Stamp} \cap DOMAIN i : i[attr] \in {S(0), N(0)}
    /\ Counter \in DOMAIN i => i[Counter] = N(0)
    /\ List \in DOMAIN i => i[List] = L(<<>>)

\* Steps are calls of the builder; items are items.
ASSUME BuildsAssumption ==
  \A steps \in Builds :
    /\ steps \in Seq(ToSet(steps))
    /\ \A step \in ToSet(steps) : step.op \in {"set", "element", "append", "remove", "add", "delete"}
ASSUME SamplesAssumption ==
  \A i \in Samples :
    /\ i = [attr \in DOMAIN i |-> i[attr]]
    /\ \A attr \in DOMAIN i : Type(i[attr]) = "L" => i[attr].L \in Seq(ToSet(i[attr].L))

VARIABLES
  item,      \* its attributes but the key's: none if it is not there
  calls,     \* the calls, in the order in which they began
  wire,      \* the requests that have not taken effect: of which call, which attempt
  held,      \* calls told Ok whose addition nothing has reset since they began
  cut,       \* calls under way when an addition was last reset
  settled    \* calls answered at their first attempt when the item was last deleted

vars == <<item, calls, wire, held, cut, settled>>

Init ==
  /\ item \in Items
  /\ calls = <<>> /\ wire = {}
  /\ held = {} /\ cut = {} /\ settled = {}

Running(k)  == calls[k].status = "running"
Answered(k) == calls[k].status \in {"Ok", "refused"}

-----------------------------------------------------------------------------
(* Calls and the requests they make.  What a call writes bears its number. *)

New == Len(calls) + 1
Me  == S(New)

\* before: the calls told Ok by then; effects: how often this one took effect.
Call(op, req, status) ==
  /\ Len(calls) < MaxCalls
  /\ calls' = Append(calls,
       [op |-> op, req |-> req, attempt |-> 1, reply |-> "none", status |-> status, effects |-> 0,
        before |-> {k \in DOMAIN calls : calls[k].status = "Ok"}])
  /\ wire' = IF status = "running" THEN wire \cup {<<New, 1>>} ELSE wire
  /\ UNCHANGED <<item, held, cut, settled>>

\* The clauses and operands that are written out in lib.rs.
Request(clauses, names, values) ==
  [Updates EXCEPT !.key = make_key, !.ues = clauses, !.ean = names, !.eav = values]
Fld == P("fld")
Field(fn, args) == Set(Fld, NoKeyName, fn, args)

\* Mutant: the attribute is set only once.
update_s_Once(fld, v) ==
  Call("update",
       Request(<<Field("if_not_exists", <<V("sval")>>)>>, Bind(Fld, fld), Bind(V("sval"), v)), "running")
update_s(fld, v) ==
  Call("update", Request(<<Field("value", <<V("sval")>>)>>, Bind(Fld, fld), Bind(V("sval"), v)), "running")
update_n(fld, v) == update_s(fld, v)

\* Mutant: the list is put behind the new element.
update_add_list_Prepends(fld, v) ==
  Call("update",
       Request(<<Field("append", <<V("val"), V("elst")>>)>>, Bind(Fld, fld),
               Bind(V("val"), L(<<v>>)) ++ Bind(V("elst"), L(<<>>))), "running")
update_add_list(fld, v) ==
  Call("update",
       Request(<<Field("append", <<V("elst"), V("val")>>)>>, Bind(Fld, fld),
               Bind(V("val"), L(<<v>>)) ++ Bind(V("elst"), L(<<>>))), "running")
update_add_list_str(fld, s) == update_add_list(fld, S(s))

Added == Field("plus", <<V("zero"), V("one")>>)
Amount(n) == Bind(V("zero"), N(0)) ++ Bind(V("one"), N(n))
\* Mutant: the amount takes the place of the count.
update_add_Sets(fld, n) ==
  Call("update",
       Request(<<Field("value", <<V("one")>>)>>, Bind(Fld, fld), Bind(V("one"), N(n))), "running")
update_add(fld, n) == Call("update", Request(<<Added>>, Bind(Fld, fld), Amount(n)), "running")

update_add_ts(fld, n, tsname, ts) ==
  Call("update",
       Request(<<Added, Set(P("ts"), NoKeyName, "value", <<V("tsv")>>)>>,
               Bind(Fld, fld) ++ Bind(P("ts"), tsname), Amount(n) ++ Bind(V("tsv"), ts)), "running")

update_remove_attr(fld) ==
  Call("update",
       [Updates EXCEPT !.key = make_key, !.uer = <<[name |-> Fld, at |-> 0]>>, !.ean = Bind(Fld, fld)],
       "running")

\* update with what UpdatesBuilder built, which may refuse to.
update(given, steps) ==
  LET u == Built(given, steps)
  IN  IF is_empty(u) THEN Call("update", Updates, "refused") ELSE Call("update", u, "running")

\* The condition: the attribute is there, or is not.
delete(condition) == Call("delete", condition, "running")

-----------------------------------------------------------------------------
(* DynamoDB *)

\* The additions of a request, to a counter or a list.
Adds(req, attr) ==
  \/ \E c \in ToSet(req.ues) : req.ean[c.name] = attr /\ c.fn \in {"plus", "append"}
  \/ \E c \in ToSet(req.uea) : req.ean[c.name] = attr
Resets(call) ==
  \/ call.op = "delete"
  \/ \E t \in Targets(call.req) : t.attr \in {Counter, List} /\ ~Adds(call.req, t.attr)

CanDo(call) ==
  IF call.op = "delete" THEN (call.req.attr \in DOMAIN item) = call.req.there
  ELSE Accepted(call.req, item)

Reply(k, attempt, reply, effects) ==
  calls' = [calls EXCEPT ![k].reply = IF Running(k) /\ calls[k].attempt = attempt THEN reply ELSE @,
                         ![k].effects = @ + effects]

take(k, attempt) ==
  /\ <<k, attempt>> \in wire /\ CanDo(calls[k]) = TRUE
  /\ wire' = wire \ {<<k, attempt>>}
  /\ item' = IF calls[k].op = "delete" THEN Empty ELSE Apply(calls[k].req, item)
  /\ Reply(k, attempt, "Ok", 1)
  /\ IF Resets(calls[k])
     THEN held' = {} /\ cut' = {j \in DOMAIN calls : Running(j)}
     ELSE UNCHANGED <<held, cut>>
  /\ settled' = IF calls[k].op = "delete"
                THEN {j \in DOMAIN calls : Answered(j) /\ calls[j].attempt = 1} ELSE settled

turn_down(k, attempt) ==
  /\ <<k, attempt>> \in wire /\ CanDo(calls[k]) = FALSE
  /\ wire' = wire \ {<<k, attempt>>}
  /\ Reply(k, attempt, "refused", 0)
  /\ UNCHANGED <<item, held, cut, settled>>

-----------------------------------------------------------------------------
(* The SDK under each call *)

\* Mutant: the call does not wait for its answer.
hear_AtOnce(k) ==
  /\ Running(k)
  /\ calls' = [calls EXCEPT ![k].status = "Ok"]
  /\ held' = IF k \in cut THEN held ELSE held \cup {k}
  /\ UNCHANGED <<item, wire, cut, settled>>
\* Mutant: it does not look whether the answer is an error.
hear_Discards(k) ==
  /\ Running(k) /\ calls[k].reply # "none"
  /\ calls' = [calls EXCEPT ![k].status = "Ok"]
  /\ held' = IF k \notin cut THEN held \cup {k} ELSE held
  /\ UNCHANGED <<item, wire, cut, settled>>
hear(k) ==
  /\ Running(k) /\ calls[k].reply # "none"
  /\ calls' = [calls EXCEPT ![k].status = calls[k].reply]
  /\ held' = IF calls[k].reply = "Ok" /\ k \notin cut THEN held \cup {k} ELSE held
  /\ UNCHANGED <<item, wire, cut, settled>>

\* Mutant: one attempt more.
LastAttempt_OneMore(k) == calls[k].attempt > MaxAttempts
LastAttempt(k) == calls[k].attempt = MaxAttempts

retry(k) ==
  /\ Running(k) /\ ~LastAttempt(k)
  /\ calls' = [calls EXCEPT ![k].attempt = @ + 1, ![k].reply = "none"]
  /\ wire' = wire \cup {<<k, calls[k].attempt + 1>>}
  /\ UNCHANGED <<item, held, cut, settled>>

give_up(k) ==
  /\ Running(k) /\ LastAttempt(k)
  /\ calls' = [calls EXCEPT ![k].status = "timed_out"]
  /\ UNCHANGED <<item, wire, held, cut, settled>>

-----------------------------------------------------------------------------

CallNext ==
  \/ update_s(Mark, Me)
  \/ update_n(Mark, N(New))
  \/ update_add_list(List, N(New))
  \/ update_add_list_str(List, New)
  \/ update_add(Counter, 1)
  \/ update_add_ts(Counter, 1, Stamp, Me)
  \/ update_remove_attr(Counter)
  \/ \E steps \in StepLists(Me), given \in {PrimaryKey, {"sk"}} : update(given, steps)
  \/ \E condition \in Conditions : delete(condition)

Sdk(k) == hear(k) \/ retry(k) \/ give_up(k)

Next ==
  \/ CallNext
  \/ \E m \in wire : take(m[1], m[2]) \/ turn_down(m[1], m[2])
  \/ \E k \in DOMAIN calls : Sdk(k)

Spec == Init /\ [][Next]_vars

-----------------------------------------------------------------------------
(* Properties *)

Appended == Or(item, List, L(<<>>)).L
Adding(k, attr) == calls[k].op = "update" /\ Adds(calls[k].req, attr)
Places(k) == {n \in DOMAIN Appended : Appended[n] \in Own(k)}

ItemTyped ==
  /\ \A attr \in {Mark, Stamp} \cap DOMAIN item : Type(item[attr]) \in {"S", "N"}
  /\ Counter \in DOMAIN item => item[Counter] \in [N : Nat]
  /\ List \in DOMAIN item => \A v \in ToSet(item[List].L) : Type(v) \in {"S", "N"}

Replies  == {"none", "Ok", "refused"}
Statuses == {"running", "Ok", "refused", "timed_out"}

CallsTyped ==
  /\ Len(calls) \in 0..MaxCalls
  /\ \A k \in DOMAIN calls :
       /\ calls[k].attempt \in 1..MaxAttempts /\ calls[k].effects \in 0..MaxAttempts
       /\ calls[k].reply \in Replies
       /\ calls[k].status \in Statuses
       /\ calls[k].before \subseteq 1..(k - 1)
  /\ wire \subseteq (DOMAIN calls) \X (1..MaxAttempts)
  /\ held \cup cut \cup settled \subseteq DOMAIN calls

\* Type invariant.
TypeOK == ItemTyped /\ CallsTyped

\* No addition to a counter or a list is lost to the calls beside it: each
\* that was told Ok is in the value, until something resets it.  None counts
\* more often than the SDK sent it.
EveryAdditionCounts ==
  LET count == Or(item, Counter, N(0)).N
      sent  == {m \in (DOMAIN calls) \X (1..MaxAttempts) :
                  Adding(m[1], Counter) /\ m[2] <= calls[m[1]].attempt}
  IN  /\ Cardinality({k \in held : Adding(k, Counter)}) <= count
      /\ count <= Cardinality(sent)
      /\ \A k \in held : Adding(k, List) => Places(k) # {}
      /\ \A k \in DOMAIN calls : Cardinality(Places(k)) <= calls[k].attempt

\* A list keeps the order in which elements were appended: what was appended
\* when another call began comes before that call's element, also when one of
\* the two was sent twice.
AppendsInOrder ==
  \A a, b \in held :
    Adding(a, List) /\ Adding(b, List) /\ a \in calls[b].before =>
      \E n \in Places(a) : \A m \in Places(b) : n < m

\* A value set by a call that was told Ok is not replaced by the one of an
\* earlier call, unless that one was sent again.
SetSticks ==
  \A attr \in {Mark, Stamp}, a, b \in DOMAIN calls :
    (/\ Or(item, attr, S(0)) \in Own(a) /\ a \in calls[b].before
     /\ calls[b].op = "update" /\ calls[b].status = "Ok"
     /\ attr \in {t.attr : t \in Targets(calls[b].req)})
    => calls[a].attempt > 1

\* An item that was deleted may come back as what a single update makes of
\* nothing, but never by an update that had been answered, at its first
\* attempt, when the item was deleted.
NoComeback ==
  \A k \in settled :
    {Or(item, Mark, S(0)), Or(item, Stamp, S(0))} \cap Own(k) = {} /\ Places(k) = {}

\* Ok means that the call took effect, an error that it did not: that much of
\* "Returns nothing if successfully deleted, else error" holds for the calls
\* that were sent once.  Of those sent again, a deletion that was done may be
\* refused the second time.
OutcomeTrue ==
  \A k \in DOMAIN calls :
    /\ calls[k].status = "Ok" => calls[k].effects >= 1
    /\ calls[k].status = "refused" /\ calls[k].attempt = 1 => calls[k].effects = 0

\* An update that DynamoDB takes does what the calls of UpdatesBuilder say,
\* and it takes one whose operands are of the types their clauses take, whose
\* parts fit the item and are for different attributes, unless two of them
\* share a placeholder for their values or take elements from one list.  (This
\* is about no state: it is evaluated at the first.  Of operands of other
\* types see AppendIsTaken.)
BuiltAsMeant ==
  calls = <<>> => \A steps \in Builds, i \in Samples :
    LET u == Built(PrimaryKey, steps) IN
    ~SharesValue(steps) =>
      /\ Accepted(u, i) /\ ~TakesTwo(steps) => Apply(u, i) = Together(i, steps)
      /\ Apart(steps) /\ (\A step \in ToSet(steps) : Possible(i, step)) => (Accepted(u, i) \/ steps = <<>>)

\* The guide (llms.txt:421) appends one element, .append("tags",
\* &json!("new_tag")), and the test of append (builder.rs:287) an object.  So an
\* update that only appends, to a list or to nothing, is not refused; but
\* append gives the value as it is to list_append (builder.rs:163), which takes
\* lists only.
OnlyAppends(u) ==
  /\ u.key = PrimaryKey /\ Len(u.ues) = 1 /\ u.uer \o u.uea \o u.ued = <<>>
  /\ u.ues[1].fn = "append"
AppendIsTaken ==
  \A k \in DOMAIN calls :
    calls[k].op = "update" /\ OnlyAppends(calls[k].req) /\ calls[k].status = "refused" =>
      \E attr \in DOMAIN item : calls[k].req.ean[calls[k].req.ues[1].name] = attr /\ Type(item[attr]) # "L"
=============================================================================
