----------------------------- MODULE MCServices -----------------------------
(* Services in Lambda, where .env is not read, and outside it.              *)
EXTENDS Services

File == ("BUCKET" :> "b2") @@ ("TOPIC_ARN" :> "t1") @@ ("TABLE_NAME" :> "users")
MCEnvironments ==
  {[lambda |-> TRUE,  process |-> "BUCKET" :> "b1", file |-> File],
   [lambda |-> FALSE, process |-> <<>>, file |-> File]}
MCStored ==
  (<<"b1", "a.png">> :> [by |-> 0, kind |-> "bytes"]) @@ (<<"b1", "b.txt">> :> [by |-> 0, kind |-> "text"]) @@
  (<<"b1", "c.png">> :> [by |-> 0, kind |-> "bytes"]) @@ (<<"b2", "b.txt">> :> [by |-> 0, kind |-> "text"]) @@
  (<<"b2", "a.png">> :> [by |-> 0, kind |-> "bytes"])
MCFolders == "all" :> {"a.png", "b.txt", "c.png"}
=============================================================================
