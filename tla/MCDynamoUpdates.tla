-------------------------- MODULE MCDynamoUpdates ---------------------------
(* DynamoUpdates on one item; builds of up to three steps.                  *)
EXTENDS DynamoUpdates

One1 == L(<<S(0)>>)
MCItems == {Empty, "list" :> L(<<>>)}
MCStepLists(v) ==
  {<<>>,
   <<Step("append", "list", "", 0, L(<<v>>)), Step("add", "count", "", 0, N(1))>>,
   <<Step("remove", "list", "", 1, N(0))>>,
   <<Step("set", "mark", "", 0, v), Step("delete", "list", "", 0, L(<<v>>))>>}
\* As in the guide: one element.
MCTagLists(v) == {<<Step("append", "tags", "", 0, v)>>}
MCConditions == {[attr |-> "list", there |-> TRUE], [attr |-> "mark", there |-> FALSE]}

\* Names that are also placeholders of the builder's own.
MCSteps ==
  {Step("set", name, "", 0, N(7)) : name \in {"mark", "val", "keyName"}} \cup
  {Step("append", name, "", 0, v) : name \in {"list", "val"}, v \in {One1, M("a" :> S(1))}} \cup
  {Step("element", "map", "b", 0, S(2)), Step("add", "count", "", 0, N(3)),
   Step("add", "list", "", 0, One1), Step("delete", "list", "", 0, One1),
   Step("remove", "mark", "", 0, N(0))} \cup
  {Step("remove", "list", "", at, N(0)) : at \in 1..2}
MCBuilds  == SeqOf(MCSteps, 3)
MCSamples ==
  {Empty,
   ("mark" :> S(0)) @@ ("list" :> L(<<S(0), S(1)>>)) @@ ("map" :> M("a" :> S(1))) @@ ("count" :> N(2)),
   ("mark" :> S(0)) @@ ("list" :> N(0)) @@ ("count" :> S(0))}
=============================================================================
