--------------------------- MODULE ServicesProofs ---------------------------
(***************************************************************************)
(* Proofs about Services and ServiceClients for any environments, services *)
(* and callers, any number of calls at once and of attempts.               *)
(***************************************************************************)
EXTENDS Services, FiniteSetTheorems, TLAPS

-----------------------------------------------------------------------------
(* The shape of calls *)

SesOps ==
  SesLists \cup {"get_contact_list", "get_email_template", "create_template", "update_template",
                 "delete_template", "send", "bulk"}
S3Ops == Streamed \cup {"get_object", "list_images", "presign", "put_object", "delete_object"}

\* A call has its fields, asks one service, and one that offers what it asks.
Whole(c) ==
  c = [svc |-> c.svc, name |-> c.name, op |-> c.op, args |-> c.args, client |-> c.client,
       status |-> c.status, attempt |-> c.attempt, reply |-> c.reply, items |-> c.items,
       more |-> c.more, before |-> c.before]

Formed(c) ==
  /\ Whole(c)
  /\ \/ c.svc = "ses" /\ c.op \in SesOps
     \/ c.svc = "s3" /\ c.op \in S3Ops
     \/ c.svc = "sns" /\ c.op = "publish"
     \/ c.svc \in {"dynamo", "s3"} /\ c.op \in {"put_addon", "get_addon"}
  /\ c.name \in TableNames \cup {Empty} /\ (c.svc = "ses" => c.name = Empty)
  /\ c.op = "list_images" => c.args.name \in DOMAIN Folders
  /\ c.reply # "none" => c.status = "running"
  /\ c.status = "asks" => c.client = NoClient

Shape ==
  /\ TypeOK
  /\ calls \in Seq(Range(calls)) /\ \A k \in DOMAIN calls : Formed(calls[k])
  /\ addons = [key \in AddonKeys |-> addons[key]]

Past == {k \in DOMAIN calls : Returned(k)}

\* What a call that begins is like: get_addon's is over at once.
New(c) ==
  /\ Formed(c) /\ c.before = Past
  /\ c.attempt = 0 /\ c.reply = "none" /\ c.items = {} /\ c.more = FALSE
  /\ \/ /\ c.status = "asks" /\ c.client = NoClient /\ c.op # "get_addon"
        /\ c.svc = "dynamo" /\ c.args.table = NoName =>
             c.name = Setting("TABLE_NAME", "ici-users", loaded)
     \/ /\ c.op = "get_addon" /\ c.status \in {"Ok", "refused"}
        /\ \/ c.client = NoClient
           \/ \E key \in AddonKeys : addons[key].svc = c.svc /\ addons[key].client = c.client

\* A step that lets calls begin, or go on: of a call that goes on its service,
\* what it asks and what came before it stay.
Begun(c) == calls' = Append(calls, c) /\ New(c) /\ UNCHANGED <<clientVars, templates, objects, wire, done>>

Kept(c, d) ==
  c.svc = d.svc /\ c.name = d.name /\ c.op = d.op /\ c.args = d.args /\ c.before = d.before

Only(k) ==
  /\ calls' \in Seq(Range(calls')) /\ Len(calls') = Len(calls) /\ DOMAIN calls' = DOMAIN calls
  /\ \A j \in DOMAIN calls \ {k} : calls'[j] = calls[j]

-----------------------------------------------------------------------------
(* Sequences *)

\* A sequence is one of its own elements.
LEMMA OwnElements ==
  ASSUME NEW S, NEW s \in Seq(S)
  PROVE  s \in Seq(Range(s))
<1>1. \A i \in 1..Len(s) : s[i] \in Range(s)
  BY DEF Range
<1> QED BY <1>1

\* One element more.
LEMMA Appended ==
  ASSUME NEW s, s \in Seq(Range(s)), NEW e
  PROVE  /\ Append(s, e) \in Seq(Range(Append(s, e)))
         /\ Len(s) \in Nat /\ DOMAIN s = 1..Len(s) /\ Len(Append(s, e)) = Len(s) + 1
         /\ DOMAIN Append(s, e) = DOMAIN s \cup {Len(s) + 1}
         /\ \A i \in DOMAIN s : Append(s, e)[i] = s[i]
         /\ Append(s, e)[Len(s) + 1] = e
<1> DEFINE S == Range(s) \cup {e}
           t == Append(s, e)
<1>1. s \in Seq(S) /\ e \in S
  OBVIOUS
<1> HIDE DEF S
<1>2. /\ t \in Seq(S) /\ Len(s) \in Nat /\ DOMAIN s = 1..Len(s) /\ Len(t) = Len(s) + 1
      /\ DOMAIN t = 1..Len(t) /\ t[Len(s) + 1] = e /\ \A i \in 1..Len(s) : t[i] = s[i]
  BY <1>1
<1>3. t \in Seq(Range(t))
  BY <1>2, OwnElements
<1> QED BY <1>2, <1>3

\* One element changed.
Put(s, k, e) == [s EXCEPT ![k] = e]

\* An element of a sequence is replaced.
LEMMA Changed ==
  ASSUME NEW s, s \in Seq(Range(s)), NEW k \in DOMAIN s, NEW e
  PROVE  /\ Put(s, k, e) \in Seq(Range(Put(s, k, e)))
         /\ Len(Put(s, k, e)) = Len(s) /\ DOMAIN Put(s, k, e) = DOMAIN s /\ Put(s, k, e)[k] = e
         /\ \A j \in DOMAIN s \ {k} : Put(s, k, e)[j] = s[j]
<1>0. PICK t : t = [s EXCEPT ![k] = e]
  OBVIOUS
<1>1. Len(s) \in Nat /\ DOMAIN s = 1..Len(s)
  OBVIOUS
<1> DEFINE S == Range(s) \cup {e}
<1>2. s \in Seq(S) /\ e \in S
  OBVIOUS
<1> HIDE DEF S
<1>3. t \in Seq(S) /\ Len(t) = Len(s) /\ DOMAIN t = 1..Len(t)
  BY <1>0, <1>1, <1>2
<1>4. t[k] = e /\ \A j \in DOMAIN s \ {k} : t[j] = s[j]
  BY <1>0, <1>1
<1>5. t \in Seq(Range(t))
  BY <1>3, OwnElements
<1> QED BY <1>0, <1>1, <1>3, <1>4, <1>5 DEF Put

-----------------------------------------------------------------------------
(* Records *)

\* A call with other values in the fields that steps change.
Given(c, client, status) == [c EXCEPT !.client = client, !.status = status]
StartedAs(c, client, status, attempt) ==
  [c EXCEPT !.client = client, !.status = status, !.attempt = attempt]
Left(c, status, attempt, reply, items, more) ==
  [c EXCEPT !.status = status, !.attempt = attempt, !.reply = reply, !.items = items, !.more = more]

\* It is a call, and keeps the other fields.
LEMMA GivenWhole ==
  ASSUME NEW c, Whole(c), NEW client, NEW status
  PROVE  /\ Whole(Given(c, client, status)) /\ Kept(Given(c, client, status), c) /\ Given(c, client, status).client = client /\ Given(c, client, status).status = status
         /\ Given(c, client, status).attempt = c.attempt /\ Given(c, client, status).reply = c.reply /\ Given(c, client, status).items = c.items /\ Given(c, client, status).more = c.more
<1>0. PICK d : d = Given(c, client, status)
  OBVIOUS
<1>1. Whole(d) /\ Kept(d, c)
  BY <1>0 DEF Whole, Kept, Given
<1>2. d.client = client /\ d.status = status
  BY <1>0 DEF Whole, Given
<1>3. d.attempt = c.attempt /\ d.reply = c.reply /\ d.items = c.items /\ d.more = c.more
  BY <1>0 DEF Whole, Given
<1> QED BY <1>0, <1>1, <1>2, <1>3

\* It gets its client and is sent or over.
LEMMA StartedWhole ==
  ASSUME NEW c, Whole(c), NEW client, NEW status, NEW attempt
  PROVE  /\ Whole(StartedAs(c, client, status, attempt)) /\ Kept(StartedAs(c, client, status, attempt), c) /\ StartedAs(c, client, status, attempt).client = client /\ StartedAs(c, client, status, attempt).status = status /\ StartedAs(c, client, status, attempt).attempt = attempt
         /\ StartedAs(c, client, status, attempt).reply = c.reply /\ StartedAs(c, client, status, attempt).items = c.items /\ StartedAs(c, client, status, attempt).more = c.more
<1>0. PICK d : d = StartedAs(c, client, status, attempt)
  OBVIOUS
<1>1. Whole(d) /\ Kept(d, c)
  BY <1>0 DEF Whole, Kept, StartedAs
<1>2. d.client = client /\ d.status = status /\ d.attempt = attempt
  BY <1>0 DEF Whole, StartedAs
<1>3. d.reply = c.reply /\ d.items = c.items /\ d.more = c.more
  BY <1>0 DEF Whole, StartedAs
<1> QED BY <1>0, <1>1, <1>2, <1>3

\* It goes on from an answer or without one.
LEMMA LeftWhole ==
  ASSUME NEW c, Whole(c), NEW status, NEW attempt, NEW reply, NEW items, NEW more
  PROVE  /\ Whole(Left(c, status, attempt, reply, items, more)) /\ Kept(Left(c, status, attempt, reply, items, more), c) /\ Left(c, status, attempt, reply, items, more).client = c.client /\ Left(c, status, attempt, reply, items, more).status = status
         /\ Left(c, status, attempt, reply, items, more).attempt = attempt /\ Left(c, status, attempt, reply, items, more).reply = reply /\ Left(c, status, attempt, reply, items, more).items = items /\ Left(c, status, attempt, reply, items, more).more = more
<1>0. PICK d : d = Left(c, status, attempt, reply, items, more)
  OBVIOUS
<1>1. Whole(d)
  BY <1>0 DEF Whole, Left
<1>2. Kept(d, c) /\ d.client = c.client
  BY <1>0 DEF Whole, Kept, Left
<1>3. d.status = status /\ d.attempt = attempt /\ d.reply = reply /\ d.items = items /\ d.more = more
  BY <1>0 DEF Whole, Left
<1> QED BY <1>0, <1>1, <1>2, <1>3

-----------------------------------------------------------------------------
(* What the steps change *)

\* A method of a client begins a call of its service.
LEMMA AskBegins ==
  ASSUME Shape, NEW svc, NEW name, NEW op, NEW args, Ask(svc, name, op, args),
         UNCHANGED <<templates, objects, wire, done>>, op # "get_addon",
         \/ svc = "ses" /\ op \in SesOps
         \/ svc = "s3" /\ op \in S3Ops
         \/ svc = "sns" /\ op = "publish"
         \/ svc \in {"dynamo", "s3"} /\ op = "put_addon",
         name \in TableNames \cup {Empty}, svc = "ses" => name = Empty,
         op = "list_images" => args.name \in DOMAIN Folders,
         svc = "dynamo" /\ args.table = NoName => name = Setting("TABLE_NAME", "ici-users", loaded)
  PROVE  \E c : Begun(c)
<1> DEFINE c == NewCall(svc, name, op, args)
<1>1. /\ c.svc = svc /\ c.name = name /\ c.op = op /\ c.args = args /\ c.client = NoClient
      /\ c.status = "asks" /\ c.attempt = 0 /\ c.reply = "none" /\ c.items = {} /\ c.more = FALSE
      /\ c.before = Past
      /\ Whole(c)
  BY DEF NewCall, Whole, Past
<1>2. calls' = Append(calls, c) /\ UNCHANGED <<clientVars, templates, objects, wire, done>>
  BY DEF Ask
<1> HIDE DEF c
<1>3. Formed(c)
  BY <1>1 DEF Formed
<1>4. New(c)
  BY <1>1, <1>3 DEF New
<1> QED BY <1>2, <1>4 DEF Begun

\* get_addon and get are over at once.
LEMMA GetAddonBegins ==
  ASSUME Shape, NEW key \in AddonKeys, NEW svc \in {"dynamo", "s3"}, get_addon(key, svc),
         UNCHANGED <<templates, objects, wire, done>>
  PROVE  \E c : Begun(c)
<1>1. PICK found : found = IF addons[key].svc = svc THEN addons[key].client ELSE NoClient
  OBVIOUS
<1>2. PICK status : status = IF found = NoClient THEN "refused" ELSE "Ok"
  OBVIOUS
<1>3. PICK call : call = NewCall(svc, Empty, "get_addon", {})
  OBVIOUS
<1>4. PICK c : c = Given(call, found, status)
  OBVIOUS
<1>5. /\ c.svc = svc /\ c.name = Empty /\ c.op = "get_addon" /\ c.client = found
      /\ c.status = status /\ c.attempt = 0 /\ c.reply = "none" /\ c.items = {} /\ c.more = FALSE
      /\ c.before = Past
      /\ Whole(c)
  <2>1. /\ Whole(call) /\ call.svc = svc /\ call.name = Empty /\ call.op = "get_addon"
        /\ call.attempt = 0 /\ call.reply = "none" /\ call.items = {} /\ call.more = FALSE
        /\ call.before = Past
    BY <1>3 DEF NewCall, Whole, Past
  <2>2. /\ Whole(c) /\ Kept(c, call) /\ c.client = found /\ c.status = status
        /\ c.attempt = call.attempt /\ c.reply = call.reply /\ c.items = call.items /\ c.more = call.more
    BY <1>4, <2>1, GivenWhole
  <2> QED BY <2>1, <2>2 DEF Kept
<1>6. calls' = Append(calls, c) /\ UNCHANGED <<clientVars, templates, objects, wire, done>>
  BY <1>1, <1>2, <1>3, <1>4 DEF get_addon, Given
<1>7. /\ status \in {"Ok", "refused"}
      /\ found = NoClient \/ (addons[key].svc = svc /\ addons[key].client = found)
  BY <1>1, <1>2
<1>8. Formed(c)
  BY <1>5, <1>7 DEF Formed
<1>9. New(c)
  BY <1>5, <1>7, <1>8 DEF New
<1> QED BY <1>6, <1>9 DEF Begun

\* So it is for all methods.
LEMMA AllBegin ==
  ASSUME Shape, Ask_of_others \/ Ask_of_ses \/ Ask_of_s3 \/ \E topic \in TopicArgs : publish(topic),
         UNCHANGED <<templates, objects, wire, done>>
  PROVE  \E c : Begun(c)
<1>1. ASSUME NEW op, NEW args, get_ses_client(op, args), op \in SesOps PROVE \E c : Begun(c)
  <2>1. op # "get_addon" /\ op # "list_images"
    BY <1>1 DEF SesOps, SesLists
  <2> QED BY <1>1, <2>1, AskBegins DEF get_ses_client
<1>2. ASSUME NEW op, NEW args, get_s3_client(op, args), op \in S3Ops \cup {"put_addon"},
             op = "list_images" => args.name \in DOMAIN Folders
      PROVE  \E c : Begun(c)
  <2>1. op # "get_addon"
    BY <1>2 DEF S3Ops, Streamed
  <2> QED BY <1>2, <2>1, AskBegins DEF get_s3_client
<1>3. CASE Ask_of_others
  <2>1. ASSUME NEW table \in Tables, NEW key \in AddonKeys, get_dynamo_client(table, "put_addon", Of(key))
        PROVE  \E c : Begun(c)
    <3> DEFINE name == IF table = NoName THEN Setting("TABLE_NAME", "ici-users", loaded) ELSE table
               args == [Of(key) EXCEPT !.table = table]
    <3>1. args.table = table /\ name \in TableNames
      <4>1. args.table = table
        BY DEF Of, Args
      <4>2. loaded \in BOOLEAN
        BY DEF Shape, TypeOK
      <4>3. Setting("TABLE_NAME", "ici-users", loaded) \in TableNames
        BY <4>2 DEF TableNames, Settings
      <4>4. name \in TableNames
        BY <4>3 DEF TableNames
      <4> QED BY <4>1, <4>4
    <3>2. Ask("dynamo", name, "put_addon", args)
      BY <2>1 DEF get_dynamo_client
    <3>3. args.table = NoName => name = Setting("TABLE_NAME", "ici-users", loaded)
      BY <3>1
    <3> HIDE DEF name, args
    <3> QED BY <3>1, <3>2, <3>3, AskBegins
  <2>2. ASSUME NEW key \in AddonKeys, get_s3_client("put_addon", Of(key)) PROVE \E c : Begun(c)
    BY <1>2, <2>2
  <2>3. ASSUME NEW key \in AddonKeys, NEW svc \in {"dynamo", "s3"}, get_addon(key, svc) PROVE \E c : Begun(c)
    BY <2>3, GetAddonBegins
  <2> QED BY <1>3, <2>1, <2>2, <2>3 DEF Ask_of_others
<1>4. CASE Ask_of_ses
  <2>1. \E op \in SesOps : \E args : get_ses_client(op, args)
    BY <1>4 DEF Ask_of_ses, list_contact_lists, list_email_templates, get_contact_list, list_contacts,
      get_email_template, create_template, update_template, delete_template, send_template,
      send_template_with_bcc, send_bulk_template, send_bulk_emails, send_raw, send_simple,
      send_bulk_inline_template, SesOps, SesLists
  <2> QED BY <1>1, <2>1
<1>5. CASE Ask_of_s3
  <2>1. CASE \E op \in S3Ops \ {"list_images"} : \E args : get_s3_client(op, args)
    BY <1>2, <2>1
  <2>2. CASE \E bucket \in BucketArgs, folder \in DOMAIN Folders : list_images(folder, bucket)
    <3>1. \A name, bucket : At(name, bucket).name = name
      BY DEF At, Args
    <3>2. "list_images" \in S3Ops
      BY DEF S3Ops
    <3>3. PICK folder, args : folder \in DOMAIN Folders /\ get_s3_client("list_images", args) /\ args.name = folder
      BY <2>2, <3>1 DEF list_images
    <3>4. PICK op \in S3Ops : op = "list_images" /\ get_s3_client(op, args)
      BY <3>2, <3>3
    <3> QED BY <1>2, <3>3, <3>4
  <2> QED BY <1>5, <2>1, <2>2 DEF Ask_of_s3, get_object, get_bytes, get_string, get_json, delete_object,
        put_object, get_presign, put_presign, S3Ops, Streamed
<1>6. CASE \E topic \in TopicArgs : publish(topic)
  BY <1>6, AskBegins DEF publish, get_sns_client
<1> QED BY <1>3, <1>4, <1>5, <1>6

\* A call that goes on is the only one that changes, and it stays a call.
LEMMA OneChanges ==
  ASSUME Shape, NEW k \in DOMAIN calls, NEW c, calls' = Put(calls, k, c)
  PROVE  Only(k) /\ calls'[k] = c
BY Changed DEF Shape, Only

\* It gets its client: put_addon is over, others have sent their request.
LEMMA PutAddonStep ==
  ASSUME Shape, NEW k \in DOMAIN calls, put_addon(k)
  PROVE  /\ Only(k) /\ Whole(calls'[k]) /\ Kept(calls'[k], calls[k])
         /\ calls'[k].client = cells[Svc(k)] /\ calls'[k].status = "Ok"
         /\ calls'[k].attempt = calls[k].attempt /\ calls'[k].reply = calls[k].reply
         /\ calls'[k].items = calls[k].items
<1>1. calls \in Seq(Range(calls)) /\ Whole(calls[k])
  BY DEF Shape, Formed
<1>2. calls' = Put(calls, k, Given(calls[k], cells[Svc(k)], "Ok"))
  BY <1>1 DEF put_addon, Given, Put
<1> QED BY <1>1, <1>2, OneChanges, GivenWhole

\* put_addon or one that is sent: its client is that of its cell.
LEMMA StartedStep ==
  ASSUME Shape, NEW k \in DOMAIN calls, NEW status, Started(k, status)
  PROVE  /\ Only(k) /\ Whole(calls'[k]) /\ Kept(calls'[k], calls[k])
         /\ calls'[k].client = cells[Svc(k)] /\ calls'[k].status = status
         /\ calls'[k].attempt = (IF status = "running" THEN 1 ELSE 0)
         /\ calls'[k].reply = calls[k].reply /\ calls'[k].items = calls[k].items
<1>1. calls \in Seq(Range(calls)) /\ Whole(calls[k])
  BY DEF Shape, Formed
<1>2. PICK attempt : attempt = IF status = "running" THEN 1 ELSE 0
  OBVIOUS
<1>3. calls' = Put(calls, k, StartedAs(calls[k], cells[Svc(k)], status, attempt))
  BY <1>1, <1>2 DEF Started, StartedAs, Put
<1> QED BY <1>1, <1>2, <1>3, OneChanges, StartedWhole

\* It makes something of the answer.
LEMMA GoesStep ==
  ASSUME Shape, NEW k \in DOMAIN calls, NEW status, NEW items, Goes(k, status, items)
  PROVE  /\ Only(k) /\ Whole(calls'[k]) /\ Kept(calls'[k], calls[k])
         /\ calls'[k].client = calls[k].client /\ calls'[k].status = status
         /\ calls'[k].attempt = (IF status = "refused" THEN calls[k].attempt ELSE 0)
         /\ calls'[k].reply = "none" /\ calls'[k].items = (IF status = "refused" THEN {} ELSE items)
<1>1. calls \in Seq(Range(calls)) /\ Whole(calls[k])
  BY DEF Shape, Formed
<1>2. PICK attempt : attempt = IF status = "refused" THEN calls[k].attempt ELSE 0
  OBVIOUS
<1>3. PICK left : left = IF status = "refused" THEN {} ELSE items
  OBVIOUS
<1>4. calls' = Put(calls, k, Left(calls[k], status, attempt, "none", left, FALSE))
  <2>1. calls[k] = [svc |-> calls[k].svc, name |-> calls[k].name, op |-> calls[k].op,
                    args |-> calls[k].args, client |-> calls[k].client, status |-> calls[k].status,
                    attempt |-> calls[k].attempt, reply |-> calls[k].reply,
                    items |-> calls[k].items, more |-> calls[k].more, before |-> calls[k].before]
    BY <1>1 DEF Whole
  <2> QED BY <1>1, <1>2, <1>3, <2>1 DEF Goes, Left, Put
<1>5. PICK more : calls' = Put(calls, k, Left(calls[k], status, attempt, "none", left, more))
  BY <1>4
<1> QED BY <1>1, <1>2, <1>3, <1>5, OneChanges, LeftWhole

\* It is sent again.
LEMMA RetryStep ==
  ASSUME Shape, NEW k \in DOMAIN calls, retry(k)
  PROVE  /\ Only(k) /\ Whole(calls'[k]) /\ Kept(calls'[k], calls[k])
         /\ calls'[k].client = calls[k].client /\ calls'[k].status = calls[k].status
         /\ calls'[k].attempt = calls[k].attempt + 1
         /\ calls'[k].reply = "none" /\ calls'[k].items = {}
<1>1. calls \in Seq(Range(calls)) /\ Whole(calls[k])
  BY DEF Shape, Formed
<1>2. PICK attempt : attempt = calls[k].attempt + 1
  OBVIOUS
<1>3. calls' = Put(calls, k, Left(calls[k], calls[k].status, attempt, "none", {}, FALSE))
  BY <1>1, <1>2 DEF retry, Left, Put
<1>4. PICK more : calls' = Put(calls, k, Left(calls[k], calls[k].status, attempt, "none", {}, more))
  BY <1>3
<1> QED BY <1>1, <1>2, <1>4, OneChanges, LeftWhole

\* It is answered, in time or too late.
LEMMA AnsweredStep ==
  ASSUME Shape, NEW k \in DOMAIN calls, NEW attempt, NEW reply, NEW items, NEW more,
         Answered(k, attempt, reply, items, more)
  PROVE  /\ Only(k) /\ Whole(calls'[k]) /\ Kept(calls'[k], calls[k])
         /\ calls'[k].client = calls[k].client /\ calls'[k].status = calls[k].status
         /\ calls'[k].attempt = calls[k].attempt
         /\ IF calls[k].status = "running" /\ calls[k].attempt = attempt
            THEN calls'[k].reply = reply /\ calls'[k].items = items /\ calls'[k].more = more
            ELSE calls' = calls
<1>1. calls \in Seq(Range(calls)) /\ Whole(calls[k])
  BY DEF Shape, Formed
<1>2. CASE calls[k].status = "running" /\ calls[k].attempt = attempt
  <2>1. calls' = Put(calls, k, Left(calls[k], calls[k].status, calls[k].attempt, reply, items, more))
    BY <1>1, <1>2 DEF Answered, Left, Put
  <2> QED BY <1>1, <1>2, <2>1, OneChanges, LeftWhole
<1>3. CASE ~(calls[k].status = "running" /\ calls[k].attempt = attempt)
  <2>1. calls' = calls
    BY <1>3 DEF Answered
  <2> QED BY <1>1, <1>3, <2>1 DEF Only, Kept
<1> QED BY <1>2, <1>3

-----------------------------------------------------------------------------
(* Calls keep their shape, and what has returned stays as it is *)

\* What the type invariant says, call by call.
LEMMA ShapeTyped ==
  ASSUME Shape
  PROVE  /\ calls \in Seq(Range(calls)) /\ Len(calls) \in Nat /\ DOMAIN calls = 1..Len(calls)
         /\ \A k \in DOMAIN calls : Formed(calls[k]) /\ CallTyped(calls[k], k)
         /\ loaded \in BOOLEAN /\ addons = [key \in AddonKeys |-> addons[key]]
         /\ \A k \in making : k \in DOMAIN calls /\ Asks(k)
         /\ wire \subseteq (DOMAIN calls) \X (1..MaxAttempts) /\ {d[1] : d \in done} \subseteq DOMAIN calls
         /\ Range(templates) \cup {c.by : c \in Range(objects)} \subseteq 0..Len(calls)
<1>1. \A k \in DOMAIN calls : CallTyped(calls[k], k)
  BY DEF Shape, TypeOK
<1>2. calls \in Seq(Range(calls)) /\ Len(calls) \in Nat /\ DOMAIN calls = 1..Len(calls)
  BY DEF Shape
<1>3. \A k \in making : k \in DOMAIN calls /\ Asks(k)
  BY DEF Shape, TypeOK
<1> QED BY <1>1, <1>2, <1>3 DEF Shape, TypeOK

\* What a client may be made with does not change.
LEMMA TargetsStay ==
  ASSUME UNCHANGED env
  PROVE  Targets' = Targets /\ TableNames' = TableNames
BY DEF Targets, TableNames, Settings, Setting

\* So what is a call stays one.
LEMMA FormedStays ==
  ASSUME UNCHANGED env, NEW k, Formed(calls'[k])
  PROVE  Formed(calls[k])'
BY TargetsStay DEF Formed, Whole

\* Nobody has called anything yet.
LEMMA InitShape == Init => Shape
<1> SUFFICES ASSUME Init PROVE Shape
  OBVIOUS
<1>1. calls = <<>> /\ calls \in Seq(Range(calls)) /\ DOMAIN calls = {} /\ Len(calls) = 0
  BY DEF Init, InitClients
<1>2. /\ loaded \in BOOLEAN /\ making = {} /\ wire = {} /\ done = {}
      /\ addons = [key \in AddonKeys |-> addons[key]]
  BY DEF Init, InitClients
<1>3. cells \in [Services -> Targets]
  BY DEF Init, InitClients, Targets
<1>4. Range(templates) \cup {c.by : c \in Range(objects)} \subseteq 0..Len(calls)
  BY <1>1, StoredAssumption DEF Init, Range
<1>5. TypeOK
  BY <1>1, <1>2, <1>3, <1>4 DEF TypeOK
<1> QED BY <1>1, <1>2, <1>5 DEF Shape

\* A call that begins keeps the shape of all.
LEMMA BegunShape ==
  ASSUME Shape, NEW c, Begun(c)
  PROVE  /\ Shape' /\ DOMAIN calls' = DOMAIN calls \cup {Len(calls) + 1} /\ Len(calls) + 1 \notin DOMAIN calls
         /\ calls'[Len(calls) + 1] = c /\ \A k \in DOMAIN calls : calls'[k] = calls[k]
<1>1. /\ calls' = Append(calls, c) /\ Formed(c)
      /\ UNCHANGED <<env, loaded, cells, making, addons, templates, objects, wire, done>>
  BY DEF Begun, New, clientVars
<1>2. /\ calls' \in Seq(Range(calls')) /\ Len(calls) \in Nat /\ DOMAIN calls = 1..Len(calls)
      /\ Len(calls') = Len(calls) + 1 /\ DOMAIN calls' = DOMAIN calls \cup {Len(calls) + 1}
      /\ calls'[Len(calls) + 1] = c /\ \A k \in DOMAIN calls : calls'[k] = calls[k]
  BY <1>1, ShapeTyped, Appended
<1>. PICK n : n = Len(calls) + 1
  OBVIOUS
<1>3. CallTyped(c, n)'
  <2>1. \A j \in Past : j \in DOMAIN calls' /\ j < n
    BY <1>2 DEF Past
  <2>2. c.attempt = 0 /\ c.reply = "none" /\ c.before = Past /\ c.status \in {"asks", "Ok", "refused"}
    BY DEF Begun, New
  <2>3. 0 \in 0..MaxAttempts
    BY AttemptsAssumption
  <2> QED BY <2>1, <2>2, <2>3 DEF CallTyped
<1>4. \A k \in DOMAIN calls' : Formed(calls[k])' /\ CallTyped(calls[k], k)'
  BY <1>1, <1>2, <1>3, ShapeTyped, FormedStays DEF CallTyped
<1>5. \A k \in making' : k \in DOMAIN calls' /\ Asks(k)'
  BY <1>1, <1>2, ShapeTyped DEF Asks
<1>6. /\ wire' \subseteq (DOMAIN calls') \X (1..MaxAttempts) /\ {d[1] : d \in done'} \subseteq DOMAIN calls'
  BY <1>1, <1>2, ShapeTyped
<1>7. Range(templates') \cup {x.by : x \in Range(objects')} \subseteq 0..Len(calls')
  <2>1. 0..Len(calls) \subseteq 0..Len(calls')
    BY <1>2
  <2> QED BY <1>1, <2>1, ShapeTyped
<1>8. Shape'
  <2>1. loaded' \in BOOLEAN /\ addons' = [key \in AddonKeys |-> addons'[key]]
    BY <1>1, ShapeTyped
  <2>2. cells' \in [Services -> Targets']
    BY <1>1, TargetsStay DEF Shape, TypeOK
  <2>3. TypeOK'
    <3>1. making' \subseteq {k \in DOMAIN calls' : Asks(k)'}
      BY <1>5
    <3> QED BY <1>4, <1>6, <1>7, <2>1, <2>2, <3>1 DEF TypeOK
  <2> QED BY <1>2, <1>4, <2>1, <2>3 DEF Shape
<1> QED BY <1>2, <1>8

\* Who asked what, and what has returned, does not change; a client is had for
\* good.
Remains(j) ==
  /\ j \in DOMAIN calls' /\ Kept(calls'[j], calls[j])
  /\ Returned(j) => calls'[j] = calls[j]
  /\ calls[j].client # NoClient => calls'[j].client = calls[j].client
AllLast == env' = env /\ \A j \in DOMAIN calls : Remains(j)

\* A call that goes on keeps the shape of all.
LEMMA OnlyShape ==
  ASSUME Shape, NEW k \in DOMAIN calls, Only(k), UNCHANGED <<env, loaded, cells, making>>,
         Whole(calls'[k]), Kept(calls'[k], calls[k]),
         calls'[k].reply # "none" => calls'[k].status = "running",
         calls'[k].status = "asks" => calls'[k].client = NoClient,
         calls'[k].attempt \in 0..MaxAttempts, calls'[k].reply \in {"none", "Ok", "refused", "absent"},
         calls'[k].status \in {"asks", "running", "reads", "Ok", "refused", "timed_out"},
         calls'[k].status \in {"running", "reads"} => calls'[k].client # NoClient,
         k \in making => calls'[k].status = "asks",
         Returned(k) => calls'[k] = calls[k],
         calls[k].client # NoClient => calls'[k].client = calls[k].client,
         addons' = [key \in AddonKeys |-> addons'[key]],
         wire' \subseteq (DOMAIN calls) \X (1..MaxAttempts), {d[1] : d \in done'} \subseteq DOMAIN calls,
         Range(templates') \cup {x.by : x \in Range(objects')} \subseteq 0..Len(calls)
  PROVE  Shape' /\ AllLast
<1>1. /\ calls' \in Seq(Range(calls')) /\ Len(calls') = Len(calls) /\ DOMAIN calls' = DOMAIN calls
      /\ \A j \in DOMAIN calls \ {k} : calls'[j] = calls[j]
  BY DEF Only
<1>2. Formed(calls[k]) /\ CallTyped(calls[k], k) /\ \A j \in DOMAIN calls : Formed(calls[j]) /\ CallTyped(calls[j], j)
  BY ShapeTyped
<1>3. Formed(calls'[k])
  BY <1>2 DEF Formed, Kept
<1>4. CallTyped(calls[k], k)'
  BY <1>1, <1>2 DEF CallTyped, Kept
<1>5. \A j \in DOMAIN calls' : Formed(calls[j])' /\ CallTyped(calls[j], j)'
  BY <1>1, <1>2, <1>3, <1>4, FormedStays DEF CallTyped
<1>6. cells' \in [Services -> Targets'] /\ loaded' \in BOOLEAN
  BY TargetsStay DEF Shape, TypeOK
<1>7. making' \subseteq {j \in DOMAIN calls' : Asks(j)'}
  BY <1>1, ShapeTyped DEF Asks
<1>8. TypeOK'
  BY <1>1, <1>5, <1>6, <1>7 DEF TypeOK
<1>9. Shape'
  BY <1>1, <1>5, <1>8 DEF Shape
<1>10. AllLast
  BY <1>1 DEF AllLast, Remains, Kept
<1> QED BY <1>9, <1>10

\* A call that begins leaves all others alone.
LEMMA BegunLasts ==
  ASSUME Shape, NEW c, Begun(c)
  PROVE  Shape' /\ AllLast
<1>1. env' = env
  BY DEF Begun, clientVars
<1> QED BY <1>1, BegunShape DEF AllLast, Remains, Kept

\* Making a client leaves the calls alone.
LEMMA MakingShape ==
  ASSUME Shape, NEW k \in DOMAIN calls, begin(k) \/ end(k), UNCHANGED <<templates, objects, wire, done>>
  PROVE  Shape' /\ AllLast
<1>1. UNCHANGED <<env, addons, calls, templates, objects, wire, done>>
  BY DEF begin, end
<1>2. loaded' \in BOOLEAN
  BY ShapeTyped DEF begin, end, dotenv
<1>3. \A j \in making' : j \in DOMAIN calls' /\ Asks(j)'
  BY <1>1, ShapeTyped DEF begin, end, Asks
<1>4. cells' \in [Services -> Targets']
  <2>1. cells \in [Services -> Targets] /\ Targets' = Targets
    BY <1>1, TargetsStay DEF Shape, TypeOK
  <2>2. new(Svc(k), calls[k].name) \in Targets
    <3>1. calls[k].name \in TableNames \cup {Empty} /\ loaded \in BOOLEAN
      BY ShapeTyped DEF Formed
    <3>2. Setting("BUCKET", "ici-uploads", loaded) \in Targets /\ Setting("TOPIC_ARN", Empty, loaded) \in Targets
      BY <3>1 DEF Targets, Settings
    <3>3. calls[k].name \in Targets
      BY <3>1 DEF Targets
    <3> QED BY <3>2, <3>3 DEF new
  <2> QED BY <2>1, <2>2 DEF begin, end
<1>5. /\ \A j \in DOMAIN calls' : Formed(calls[j])' /\ CallTyped(calls[j], j)'
      /\ calls' \in Seq(Range(calls')) /\ addons' = [key \in AddonKeys |-> addons'[key]]
  <2>1. \A j \in DOMAIN calls : Formed(calls[j]) /\ CallTyped(calls[j], j)
    BY ShapeTyped
  <2>2. \A j \in DOMAIN calls' : Formed(calls[j])'
    BY <1>1, <2>1, FormedStays
  <2>3. \A j \in DOMAIN calls' : CallTyped(calls[j], j)'
    BY <1>1, <2>1 DEF CallTyped
  <2>4. calls' \in Seq(Range(calls')) /\ addons' = [key \in AddonKeys |-> addons'[key]]
    BY <1>1, ShapeTyped
  <2> QED BY <2>2, <2>3, <2>4
<1>6. /\ wire' \subseteq (DOMAIN calls') \X (1..MaxAttempts) /\ {d[1] : d \in done'} \subseteq DOMAIN calls'
      /\ Range(templates') \cup {x.by : x \in Range(objects')} \subseteq 0..Len(calls')
  BY <1>1, ShapeTyped
<1>7. TypeOK'
  <2>1. making' \subseteq {j \in DOMAIN calls' : Asks(j)'}
    BY <1>3
  <2> QED BY <1>2, <1>4, <1>5, <1>6, <2>1 DEF TypeOK
<1>8. Shape'
  BY <1>5, <1>7 DEF Shape
<1>9. AllLast
  BY <1>1 DEF AllLast, Remains, Kept
<1> QED BY <1>8, <1>9

\* A call gets its client, and is over or sends its request.
LEMMA GoShape ==
  ASSUME Shape, NEW k \in DOMAIN calls, go(k)
  PROVE  Shape' /\ AllLast
<1>1. /\ calls[k].status = "asks" /\ calls[k].client = NoClient /\ calls[k].reply = "none"
      /\ cells[Svc(k)] # NoClient /\ k \notin making
      /\ addons = [key \in AddonKeys |-> addons[key]]
      /\ wire \subseteq (DOMAIN calls) \X (1..MaxAttempts) /\ {d[1] : d \in done} \subseteq DOMAIN calls
      /\ Range(templates) \cup {c.by : c \in Range(objects)} \subseteq 0..Len(calls)
      /\ calls[k].attempt \in 0..MaxAttempts
  BY ShapeTyped DEF go, Asks, Formed, CallTyped
<1>2. 0 \in 0..MaxAttempts /\ 1 \in 0..MaxAttempts /\ 1 \in 1..MaxAttempts
  BY AttemptsAssumption
<1>3. CASE put_addon(k) /\ UNCHANGED <<templates, objects, wire, done>>
  <2>1. /\ Only(k) /\ Whole(calls'[k]) /\ Kept(calls'[k], calls[k])
        /\ calls'[k].status = "Ok" /\ calls'[k].attempt = calls[k].attempt /\ calls'[k].reply = "none"
    BY <1>1, <1>3, PutAddonStep
  <2>2. UNCHANGED <<env, loaded, cells, making, templates, objects, wire, done>>
    BY <1>3 DEF put_addon
  <2>3. addons' = [key \in AddonKeys |-> addons'[key]]
    BY <1>1, <1>3 DEF put_addon
  <2> QED BY <1>1, <2>1, <2>2, <2>3, OnlyShape DEF Returned
<1>4. ASSUME NEW status \in {"running", "Ok", "refused"}, Started(k, status) PROVE Shape' /\ AllLast
  <2>1. /\ Only(k) /\ Whole(calls'[k]) /\ Kept(calls'[k], calls[k])
        /\ calls'[k].client = cells[Svc(k)] /\ calls'[k].status = status
        /\ calls'[k].attempt = (IF status = "running" THEN 1 ELSE 0) /\ calls'[k].reply = "none"
    BY <1>1, <1>4, StartedStep
  <2>2. UNCHANGED <<env, loaded, cells, making, addons, templates, objects, done>>
    BY <1>4 DEF Started, clientVars
  <2>3. wire' \subseteq (DOMAIN calls) \X (1..MaxAttempts)
    BY <1>1, <1>2, <1>4 DEF Started
  <2> QED BY <1>1, <1>2, <2>1, <2>2, <2>3, OnlyShape DEF Returned
<1> QED BY <1>3, <1>4 DEF go

\* The SDK and the client go on with it.
LEMMA GoesShape ==
  ASSUME Shape, NEW k \in DOMAIN calls, NEW status \in {"reads", "Ok", "refused", "timed_out"}, NEW items,
         calls[k].status \in {"running", "reads"}, Goes(k, status, items)
  PROVE  Shape' /\ AllLast
<1>1. /\ addons = [key \in AddonKeys |-> addons[key]] /\ (k \in making => Asks(k))
      /\ wire \subseteq (DOMAIN calls) \X (1..MaxAttempts) /\ {d[1] : d \in done} \subseteq DOMAIN calls
      /\ Range(templates) \cup {c.by : c \in Range(objects)} \subseteq 0..Len(calls)
      /\ calls[k].attempt \in 0..MaxAttempts /\ calls[k].client # NoClient
  BY ShapeTyped DEF CallTyped
<1>2. 0 \in 0..MaxAttempts /\ k \notin making
  BY <1>1, AttemptsAssumption DEF Asks
<1>3. /\ Only(k) /\ Whole(calls'[k]) /\ Kept(calls'[k], calls[k])
      /\ calls'[k].client = calls[k].client /\ calls'[k].status = status
      /\ calls'[k].attempt = (IF status = "refused" THEN calls[k].attempt ELSE 0)
      /\ calls'[k].reply = "none"
  BY GoesStep
<1>4. UNCHANGED <<env, loaded, cells, making, addons, templates, objects, done>>
  BY DEF Goes, clientVars
<1>5. wire' \subseteq (DOMAIN calls) \X (1..MaxAttempts)
  BY <1>1 DEF Goes, Without
<1> QED BY <1>1, <1>2, <1>3, <1>4, <1>5, OnlyShape DEF Returned

\* The SDK sends it again.
LEMMA RetryShape ==
  ASSUME Shape, NEW k \in DOMAIN calls, retry(k)
  PROVE  Shape' /\ AllLast
<1>1. /\ addons = [key \in AddonKeys |-> addons[key]] /\ (k \in making => Asks(k))
      /\ wire \subseteq (DOMAIN calls) \X (1..MaxAttempts) /\ {d[1] : d \in done} \subseteq DOMAIN calls
      /\ Range(templates) \cup {c.by : c \in Range(objects)} \subseteq 0..Len(calls)
      /\ calls[k].attempt \in 0..MaxAttempts /\ calls[k].client # NoClient /\ calls[k].status = "running"
  BY ShapeTyped DEF CallTyped, retry, Running
<1>2. calls[k].attempt + 1 \in 0..MaxAttempts /\ calls[k].attempt + 1 \in 1..MaxAttempts /\ k \notin making
  BY <1>1, AttemptsAssumption DEF Asks, retry, LastAttempt
<1>3. /\ Only(k) /\ Whole(calls'[k]) /\ Kept(calls'[k], calls[k])
      /\ calls'[k].client = calls[k].client /\ calls'[k].status = calls[k].status
      /\ calls'[k].attempt = calls[k].attempt + 1 /\ calls'[k].reply = "none"
  BY RetryStep
<1>4. UNCHANGED <<env, loaded, cells, making, addons, templates, objects, done>>
  BY DEF retry, clientVars
<1>5. wire' \subseteq (DOMAIN calls) \X (1..MaxAttempts)
  BY <1>1, <1>2 DEF retry, Without
<1> QED BY <1>1, <1>2, <1>3, <1>4, <1>5, OnlyShape DEF Returned

\* Whatever the SDK and the client do with it, it stays a call.
LEMMA SdkShape ==
  ASSUME Shape, NEW k \in DOMAIN calls, Sdk(k)
  PROVE  Shape' /\ AllLast
<1>1. CASE hear(k)
  <2>1. PICK status : status = IF Op(k) \in Streamed /\ calls[k].reply = "Ok" THEN "reads" ELSE answer(k)
    OBVIOUS
  <2>2. PICK items : items = IF Op(k) = "list_images" THEN calls[k].items \cap Images ELSE calls[k].items
    OBVIOUS
  <2>3. status \in {"reads", "Ok", "refused", "timed_out"} /\ calls[k].status \in {"running", "reads"}
    BY <1>1, <2>1 DEF answer, hear, Running
  <2>4. Goes(k, status, items)
    BY <1>1, <2>1, <2>2 DEF hear
  <2> QED BY <2>3, <2>4, GoesShape
<1>2. CASE collect(k)
  <2>1. PICK got \in {"all", "some"}, c \in calls[k].items :
          Goes(k, IF got = "all" /\ Parses(Op(k), c.kind) THEN "Ok" ELSE "refused", {Got(c, got)})
    BY <1>2 DEF collect
  <2>2. PICK status : status = IF got = "all" /\ Parses(Op(k), c.kind) THEN "Ok" ELSE "refused"
    OBVIOUS
  <2>3. status \in {"reads", "Ok", "refused", "timed_out"} /\ calls[k].status \in {"running", "reads"}
    BY <1>2, <2>2 DEF collect
  <2>4. Goes(k, status, {Got(c, got)})
    BY <2>1, <2>2
  <2> QED BY <2>3, <2>4, GoesShape
<1>3. CASE retry(k)
  BY <1>3, RetryShape
<1>4. CASE give_up(k)
  <2>1. "timed_out" \in {"reads", "Ok", "refused", "timed_out"} /\ calls[k].status \in {"running", "reads"}
    BY <1>4 DEF give_up, Running
  <2>2. Goes(k, "timed_out", {})
    BY <1>4 DEF give_up
  <2> QED BY <2>1, <2>2, GoesShape
<1> QED BY <1>1, <1>2, <1>3, <1>4 DEF Sdk

\* A service answers, and has done its part or not.
LEMMA AnsweredShape ==
  ASSUME Shape, NEW k \in DOMAIN calls, NEW attempt, NEW reply \in {"Ok", "refused", "absent"}, NEW items, NEW more,
         Answered(k, attempt, reply, items, more), {d[1] : d \in done'} \subseteq DOMAIN calls,
         Range(templates') \cup {x.by : x \in Range(objects')} \subseteq 0..Len(calls)
  PROVE  Shape' /\ AllLast
<1>1. /\ addons = [key \in AddonKeys |-> addons[key]] /\ (k \in making => Asks(k))
      /\ wire \subseteq (DOMAIN calls) \X (1..MaxAttempts)
      /\ Formed(calls[k]) /\ CallTyped(calls[k], k)
  BY ShapeTyped
<1>2. /\ Only(k) /\ Whole(calls'[k]) /\ Kept(calls'[k], calls[k])
      /\ calls'[k].client = calls[k].client /\ calls'[k].status = calls[k].status
      /\ calls'[k].attempt = calls[k].attempt
      /\ IF calls[k].status = "running" /\ calls[k].attempt = attempt
         THEN calls'[k].reply = reply ELSE calls' = calls
  BY AnsweredStep
<1>3. UNCHANGED <<env, loaded, cells, making, addons>> /\ wire' \subseteq (DOMAIN calls) \X (1..MaxAttempts)
  BY <1>1 DEF Answered, clientVars
<1>4. /\ calls'[k].reply # "none" => calls'[k].status = "running"
      /\ calls'[k].status = "asks" => calls'[k].client = NoClient
      /\ calls'[k].attempt \in 0..MaxAttempts /\ calls'[k].reply \in {"none", "Ok", "refused", "absent"}
      /\ calls'[k].status \in {"asks", "running", "reads", "Ok", "refused", "timed_out"}
      /\ calls'[k].status \in {"running", "reads"} => calls'[k].client # NoClient
      /\ Returned(k) => calls'[k] = calls[k]
  BY <1>1, <1>2 DEF Formed, CallTyped, Returned
<1> QED BY <1>1, <1>2, <1>3, <1>4, OnlyShape DEF Asks

\* What is done for a call leaves a trace of that call.
LEMMA DidOnly ==
  ASSUME NEW k, NEW targets, Did(k, targets)
  PROVE  /\ \A d \in done' : d \in done \/ (\E target \in targets : d = <<k, target>>)
         /\ done \subseteq done' /\ \A target \in targets : <<k, target>> \in done'
BY DEF Did

\* Of templates and objects that are deleted the others stay.
LEMMA RestrictRange ==
  ASSUME NEW f, NEW S, S \subseteq DOMAIN f
  PROVE  DOMAIN Restrict(f, S) = S /\ \A z \in S : Restrict(f, S)[z] = f[z]
BY DEF Restrict

\* What a service does for a call it does not do for another.
LEMMA ServeShape ==
  ASSUME Shape, NEW k \in DOMAIN calls, NEW attempt, serve(k, attempt)
  PROVE  Shape' /\ AllLast
<1>1. /\ {d[1] : d \in done} \subseteq DOMAIN calls /\ k \in 0..Len(calls)
      /\ Range(templates) \cup {c.by : c \in Range(objects)} \subseteq 0..Len(calls)
  BY ShapeTyped
<1>2. ASSUME NEW targets, Did(k, targets) PROVE {d[1] : d \in done'} \subseteq DOMAIN calls
  <2>1. \A d \in done' : d[1] \in DOMAIN calls
    BY <1>1, <1>2, DidOnly
  <2> QED BY <2>1
<1>3. ASSUME UNCHANGED <<templates, objects>>
      PROVE  Range(templates') \cup {c.by : c \in Range(objects')} \subseteq 0..Len(calls)
  BY <1>1, <1>3
<1>4. CASE serve_send(k, attempt)
  <2>1. \E targets : Did(k, targets)
    BY <1>4 DEF serve_send
  <2> QED BY <1>2, <1>3, <1>4, <2>1, AnsweredShape DEF serve_send
<1>5. CASE serve_bulk(k, attempt)
  <2>1. PICK sent : Did(k, sent) /\ Answered(k, attempt, "Ok", Mail(k) \ sent, FALSE)
    BY <1>5 DEF serve_bulk
  <2>2. PICK items : items = Mail(k) \ sent
    OBVIOUS
  <2> QED BY <1>2, <1>3, <1>5, <2>1, <2>2, AnsweredShape DEF serve_bulk
<1>6. CASE serve_template(k, attempt)
  <2>1. \A name \in DOMAIN templates' : templates'[name] \in 0..Len(calls)
    <3>1. \A name \in DOMAIN templates : templates[name] \in 0..Len(calls)
      BY <1>1 DEF Range
    <3>2. CASE templates' = With(templates, Name(k), k)
      <4>1. \A name \in DOMAIN templates' :
              templates'[name] = k \/ (name \in DOMAIN templates /\ templates'[name] = templates[name])
        BY <3>2 DEF With
      <4> QED BY <1>1, <3>1, <4>1
    <3>3. CASE templates' = [templates EXCEPT ![Name(k)] = k]
      BY <1>1, <3>1, <3>3
    <3>4. CASE templates' = Restrict(templates, DOMAIN templates \ {Name(k)})
      BY <1>1, <3>1, <3>4, RestrictRange
    <3> QED BY <1>6, <3>2, <3>3, <3>4 DEF serve_template
  <2>2. objects' = objects /\ Did(k, {<<"template", Name(k)>>}) /\ Answered(k, attempt, "Ok", {}, FALSE)
    BY <1>6 DEF serve_template
  <2>3. Range(templates') \cup {c.by : c \in Range(objects')} \subseteq 0..Len(calls)
    BY <1>1, <2>1, <2>2 DEF Range
  <2>4. PICK more : Answered(k, attempt, "Ok", {}, more)
    BY <2>2
  <2> QED BY <1>2, <2>2, <2>3, <2>4, AnsweredShape
<1>7. CASE serve_object(k, attempt)
  <2>1. \A place \in DOMAIN objects' : objects'[place].by \in 0..Len(calls)
    <3>1. \A place \in DOMAIN objects : objects[place].by \in 0..Len(calls)
      BY <1>1 DEF Range
    <3>2. CASE objects' = With(objects, Place(k), [by |-> k, kind |-> calls[k].args.body])
      <4>1. PICK c : c = [by |-> k, kind |-> calls[k].args.body]
        OBVIOUS
      <4>2. c.by \in 0..Len(calls)
        BY <1>1, <4>1
      <4>3. \A place \in DOMAIN objects' :
              objects'[place] = c \/ (place \in DOMAIN objects /\ objects'[place] = objects[place])
        BY <3>2, <4>1 DEF With
      <4> QED BY <3>1, <4>2, <4>3
    <3>3. CASE objects' = Restrict(objects, DOMAIN objects \ {Place(k)})
      BY <3>1, <3>3, RestrictRange
    <3> QED BY <1>7, <3>2, <3>3 DEF serve_object
  <2>2. templates' = templates /\ Did(k, {Place(k)}) /\ Answered(k, attempt, "Ok", {}, FALSE)
    BY <1>7 DEF serve_object
  <2>3. Range(templates') \cup {c.by : c \in Range(objects')} \subseteq 0..Len(calls)
    BY <1>1, <2>1, <2>2 DEF Range
  <2>4. PICK more : Answered(k, attempt, "Ok", {}, more)
    BY <2>2
  <2> QED BY <1>2, <2>2, <2>3, <2>4, AnsweredShape
<1>8. CASE serve_list(k, attempt) \/ serve_get(k, attempt) \/ turn_down(k, attempt)
  <2>1. UNCHANGED <<templates, objects, done>>
    BY <1>8 DEF serve_list, serve_get, turn_down
  <2>2. \E reply \in {"Ok", "refused", "absent"} : \E items : \E more : Answered(k, attempt, reply, items, more)
    BY <1>8 DEF serve_list, serve_get, turn_down
  <2> QED BY <1>1, <1>3, <2>1, <2>2, AnsweredShape
<1> QED BY <1>4, <1>5, <1>6, <1>7, <1>8 DEF serve

\* So it is with every step.
LEMMA NextShape == Shape /\ [Next]_vars => Shape' /\ AllLast
<1> SUFFICES ASSUME Shape, [Next]_vars PROVE Shape' /\ AllLast
  OBVIOUS
<1>1. CASE /\ Ask_of_others \/ Ask_of_ses \/ Ask_of_s3 \/ \E topic \in TopicArgs : publish(topic)
           /\ UNCHANGED <<templates, objects, wire, done>>
  BY <1>1, AllBegin, BegunLasts
<1>2. ASSUME NEW k \in DOMAIN calls, Step(k) PROVE Shape' /\ AllLast
  BY <1>2, MakingShape, GoShape, SdkShape DEF Step, Own, Awaits
<1>3. ASSUME NEW m \in wire, serve(m[1], m[2]) PROVE Shape' /\ AllLast
  <2>1. m[1] \in DOMAIN calls
    BY ShapeTyped
  <2> QED BY <1>3, <2>1, ServeShape
<1>4. CASE UNCHANGED vars
  <2>1. UNCHANGED <<env, loaded, cells, making, addons, calls, templates, objects, wire, done>>
    BY <1>4 DEF vars, clientVars
  <2>2. \A k \in DOMAIN calls' : Formed(calls[k])' /\ CallTyped(calls[k], k)'
    BY <2>1, ShapeTyped, FormedStays DEF CallTyped
  <2>3. cells' \in [Services -> Targets'] /\ making' \subseteq {j \in DOMAIN calls' : Asks(j)'}
    BY <2>1, TargetsStay, ShapeTyped DEF Shape, TypeOK, Asks
  <2>4. TypeOK'
    BY <2>1, <2>2, <2>3, ShapeTyped DEF TypeOK
  <2> QED BY <2>1, <2>2, <2>4, ShapeTyped DEF Shape, AllLast, Remains, Kept
<1> QED BY <1>1, <1>2, <1>3, <1>4 DEF Next, Steps

\* What calls, clients and services can be, they are.
LEMMA ShapeInvariance == Spec => []Shape
<1>1. Shape /\ [Next]_vars => Shape'
  BY NextShape
<1> QED BY InitShape, <1>1, PTL DEF Spec

\* The type invariant: what the variables hold is what calls, clients and
\* services can have, and nothing is known of a call that was not made.
THEOREM TypeCorrect == Spec => []TypeOK
<1>1. Shape => TypeOK
  BY DEF Shape
<1> QED BY ShapeInvariance, <1>1, PTL

-----------------------------------------------------------------------------
(* One client of each service *)

\* One call makes a client, and only where there is none; outside Lambda the
\* file was loaded before that; an addon has a client; before a call came
\* those that had returned.
MadeOnce ==
  /\ \A k \in making : cells[Svc(k)] = NoClient
  /\ \A j, k \in making : Svc(j) = Svc(k) => j = k
FileLoaded ==
  /\ loaded => ~env.lambda
  /\ making # {} \/ (\E svc \in Services : cells[svc] # NoClient) => loaded \/ env.lambda
AddonsHave ==
  \A key \in AddonKeys :
    addons[key] # NoAddon => addons[key].client # NoClient /\ addons[key].svc \in Services
BeforeReturned == \A k \in DOMAIN calls : \A j \in calls[k].before : Returned(j)

ClientsInv == OneClient /\ NamesFound /\ MadeOnce /\ FileLoaded /\ AddonsHave /\ BeforeReturned

\* Once a call has its client, the rest is between it and its service.
Quiet ==
  /\ UNCHANGED <<env, loaded, cells, making, addons>> /\ DOMAIN calls' = DOMAIN calls
  /\ \A j \in DOMAIN calls : calls'[j].client = calls[j].client

\* The SDK makes no client.
LEMMA SdkQuiet ==
  ASSUME Shape, NEW k \in DOMAIN calls, Sdk(k)
  PROVE  Quiet
<1>1. ASSUME Only(k), calls'[k].client = calls[k].client, UNCHANGED clientVars PROVE Quiet
  BY <1>1 DEF Only, Quiet, clientVars
<1>2. ASSUME NEW status, NEW items, Goes(k, status, items) PROVE Quiet
  BY <1>1, <1>2, GoesStep DEF Goes
<1>3. CASE hear(k)
  <2>1. PICK status, items : Goes(k, status, items)
    BY <1>3 DEF hear
  <2> QED BY <1>2, <2>1
<1>4. CASE collect(k)
  <2>1. PICK got \in {"all", "some"}, c \in calls[k].items :
          Goes(k, IF got = "all" /\ Parses(Op(k), c.kind) THEN "Ok" ELSE "refused", {Got(c, got)})
    BY <1>4 DEF collect
  <2> QED BY <1>2, <2>1
<1>5. CASE retry(k)
  BY <1>1, <1>5, RetryStep DEF retry
<1>6. CASE give_up(k)
  <2>1. PICK status, items : Goes(k, status, items)
    BY <1>6 DEF give_up
  <2> QED BY <1>2, <2>1
<1> QED BY <1>3, <1>4, <1>5, <1>6 DEF Sdk

\* A service makes no client.
LEMMA ServeQuiet ==
  ASSUME Shape, NEW k \in DOMAIN calls, NEW attempt, serve(k, attempt)
  PROVE  Quiet
<1>1. \E reply, items, more : Answered(k, attempt, reply, items, more)
  BY DEF serve, serve_send, serve_bulk, serve_template, serve_object, serve_list, serve_get, turn_down
<1>2. UNCHANGED clientVars
  BY <1>1 DEF Answered
<1> QED BY <1>1, <1>2, AnsweredStep DEF Only, Quiet, clientVars

\* A call that goes on gets the client of its service, and put_addon leaves it
\* under a key.
LEMMA GoClients ==
  ASSUME Shape, NEW k \in DOMAIN calls, go(k)
  PROVE  /\ UNCHANGED <<env, loaded, cells, making>> /\ DOMAIN calls' = DOMAIN calls
         /\ cells[Svc(k)] # NoClient /\ calls'[k].client = cells[Svc(k)]
         /\ \A j \in DOMAIN calls \ {k} : calls'[j] = calls[j]
         /\ \A key \in AddonKeys :
              addons'[key] = addons[key] \/ addons'[key] = [svc |-> Svc(k), client |-> cells[Svc(k)]]
<1>1. cells[Svc(k)] # NoClient
  BY DEF go
<1>2. CASE put_addon(k)
  <2>1. addons = [key \in AddonKeys |-> addons[key]]
    BY ShapeTyped
  <2>2. \A key \in AddonKeys :
          addons'[key] = addons[key] \/ addons'[key] = [svc |-> Svc(k), client |-> cells[Svc(k)]]
    BY <1>2, <2>1 DEF put_addon
  <2> QED BY <1>1, <1>2, <2>2, PutAddonStep DEF Only, put_addon
<1>3. ASSUME NEW status, Started(k, status)
      PROVE  /\ UNCHANGED <<env, loaded, cells, making, addons>> /\ DOMAIN calls' = DOMAIN calls
             /\ calls'[k].client = cells[Svc(k)]
             /\ \A j \in DOMAIN calls \ {k} : calls'[j] = calls[j]
  BY <1>3, StartedStep DEF Only, Started, clientVars
<1> QED BY <1>1, <1>2, <1>3 DEF go

\* The steps, as the clients see them.
LEMMA StepKinds ==
  ASSUME Shape, [Next]_vars
  PROVE  \/ \E c : Begun(c)
         \/ \E k \in DOMAIN calls : begin(k) \/ end(k)
         \/ \E k \in DOMAIN calls : go(k)
         \/ Quiet
<1>1. CASE /\ Ask_of_others \/ Ask_of_ses \/ Ask_of_s3 \/ \E topic \in TopicArgs : publish(topic)
           /\ UNCHANGED <<templates, objects, wire, done>>
  BY <1>1, AllBegin
<1>2. CASE Steps
  BY <1>2, SdkQuiet DEF Steps, Step, Own, Awaits
<1>3. ASSUME NEW m \in wire, serve(m[1], m[2]) PROVE Quiet
  <2>1. m[1] \in DOMAIN calls
    BY ShapeTyped
  <2> QED BY <1>3, <2>1, ServeQuiet
<1>4. CASE UNCHANGED vars
  BY <1>4 DEF vars, clientVars, Quiet
<1> QED BY <1>1, <1>2, <1>3, <1>4 DEF Next

\* A call's service is one of the four.
LEMMA SvcOfCall ==
  ASSUME Shape
  PROVE  \A k \in DOMAIN calls : Svc(k) \in Services
BY ShapeTyped DEF Formed, Svc, Services

\* The names that are found: with the file, once it is loaded or never is.
Found(name, default) == Setting(name, default, ~env.lambda)
CellsFound ==
  /\ cells["s3"]  \in {NoClient, Found("BUCKET", "ici-uploads")}
  /\ cells["sns"] \in {NoClient, Found("TOPIC_ARN", Empty)}
TableAsked == cells["dynamo"] \in {NoClient} \cup {calls[k].name : k \in DOMAIN calls}
TableOf(k) ==
  (/\ Svc(k) = "dynamo" /\ calls[k].op # "get_addon" /\ calls[k].args.table = NoName
   /\ \E j \in calls[k].before : calls[j].client # NoClient)
  => calls[k].name = Found("TABLE_NAME", "ici-users")
TablesFound == \A k \in DOMAIN calls : TableOf(k)

\* Nobody has a client yet, and the file is not loaded.
LEMMA InitClientsInv == Init => ClientsInv
<1> SUFFICES ASSUME Init PROVE ClientsInv
  OBVIOUS
<1>1. /\ DOMAIN calls = {} /\ making = {} /\ loaded = FALSE
      /\ \A svc \in Services : cells[svc] = NoClient
      /\ \A key \in AddonKeys : addons[key] = NoAddon
  BY DEF Init, InitClients
<1>2. cells["s3"] = NoClient /\ cells["sns"] = NoClient /\ cells["dynamo"] = NoClient
  BY <1>1 DEF Services
<1> QED BY <1>1, <1>2 DEF ClientsInv, OneClient, NamesFound, MadeOnce, FileLoaded, AddonsHave, BeforeReturned

\* What had returned before a call began does not change any more.
LEMMA BeforeStays ==
  ASSUME Shape, BeforeReturned, AllLast, NEW k \in DOMAIN calls, NEW j \in calls[k].before
  PROVE  /\ j \in calls'[k].before /\ calls'[k].before = calls[k].before
         /\ j \in DOMAIN calls /\ Returned(j) /\ calls'[j] = calls[j] /\ Returned(j)'
<1>1. j \in DOMAIN calls /\ Returned(j)
  BY ShapeTyped DEF CallTyped, BeforeReturned
<1>2. calls'[j] = calls[j] /\ Kept(calls'[k], calls[k])
  BY <1>1 DEF AllLast, Remains
<1> QED BY <1>1, <1>2 DEF Kept, Returned

\* A table is found with .env where a client was had before: it is loaded.
LEMMA FoundOnceLoaded ==
  ASSUME Shape, ClientsInv, NEW name, NEW default,
         \/ making # {}
         \/ \E k \in DOMAIN calls : calls[k].client # NoClient
  PROVE  Setting(name, default, loaded) = Found(name, default)
<1>1. loaded \/ env.lambda
  <2>1. ASSUME NEW k \in DOMAIN calls, calls[k].client # NoClient PROVE cells[Svc(k)] # NoClient /\ Svc(k) \in Services
    BY <2>1, SvcOfCall DEF ClientsInv, OneClient
  <2> QED BY <2>1 DEF ClientsInv, FileLoaded
<1>2. loaded => ~env.lambda
  BY DEF ClientsInv, FileLoaded
<1> QED BY <1>1, <1>2 DEF Setting, Found

\* A new call finds its table now or never; the others keep their clients.
LEMMA BegunClients ==
  ASSUME Shape, ClientsInv, NEW c, Begun(c)
  PROVE  ClientsInv'
<1>1. PICK n : n = Len(calls) + 1
  OBVIOUS
<1>2. /\ Shape' /\ AllLast /\ DOMAIN calls' = DOMAIN calls \cup {n} /\ n \notin DOMAIN calls
      /\ calls'[n] = c /\ \A k \in DOMAIN calls : calls'[k] = calls[k]
  BY <1>1, BegunShape, BegunLasts
<1>3. UNCHANGED <<env, loaded, cells, making, addons>> /\ New(c) /\ Formed(c)
  BY DEF Begun, New, clientVars
<1>4. OneClient /\ NamesFound /\ MadeOnce /\ FileLoaded /\ AddonsHave /\ BeforeReturned
  BY DEF ClientsInv
<1>5. c.client \in {NoClient, cells[c.svc]}
  <2>1. ASSUME NEW key \in AddonKeys, addons[key].svc = c.svc, c.op = "get_addon"
        PROVE  addons[key].client = cells[c.svc]
    <3>1. addons[key] # NoAddon
      <4>1. c.svc \in {"ses", "s3", "sns", "dynamo"}
        BY <1>3 DEF Formed
      <4> QED BY <2>1, <4>1 DEF NoAddon
    <3> QED BY <1>4, <2>1, <3>1 DEF OneClient
  <2> QED BY <1>3, <2>1 DEF New
<1>6. OneClient'
  BY <1>2, <1>3, <1>4, <1>5 DEF OneClient, Svc, NoAddon
<1>7. \A k \in making : k \in DOMAIN calls
  BY ShapeTyped
<1>8. MadeOnce' /\ FileLoaded' /\ AddonsHave'
  BY <1>2, <1>3, <1>4, <1>7 DEF MadeOnce, FileLoaded, AddonsHave, Svc, NoAddon
<1>9. BeforeReturned'
  <2>1. \A j \in c.before : j \in DOMAIN calls /\ Returned(j)
    BY <1>3 DEF New, Past
  <2> QED BY <1>2, <1>4, <2>1, BeforeStays DEF BeforeReturned, Returned
<1>10. CellsFound' /\ TableAsked'
  <2>1. CellsFound /\ TableAsked
    BY <1>4 DEF NamesFound, CellsFound, TableAsked, Found
  <2>2. CellsFound'
    BY <1>3, <2>1 DEF CellsFound, Found, Setting
  <2>3. TableAsked'
    BY <1>2, <1>3, <2>1 DEF TableAsked
  <2> QED BY <2>2, <2>3
<1>11. TablesFound'
  <2>1. TablesFound
    BY <1>4 DEF NamesFound, TablesFound, TableOf, Found
  <2>2. ASSUME NEW k \in DOMAIN calls PROVE TableOf(k)'
    <3>1. TableOf(k) /\ calls'[k] = calls[k]
      BY <1>2, <2>1 DEF TablesFound
    <3>2. \A j \in calls[k].before : calls'[j] = calls[j]
      BY <1>2, <1>4, BeforeStays
    <3> QED BY <1>3, <3>1, <3>2 DEF TableOf, Svc, Found, Setting
  <2>3. TableOf(n)'
    <3> SUFFICES ASSUME c.svc = "dynamo", c.op # "get_addon", c.args.table = NoName,
                        NEW j \in c.before, calls'[j].client # NoClient
                 PROVE  c.name = Found("TABLE_NAME", "ici-users")'
      BY <1>2 DEF TableOf, Svc
    <3>1. j \in DOMAIN calls /\ calls'[j] = calls[j]
      BY <1>2, <1>3 DEF New, Past
    <3>2. Setting("TABLE_NAME", "ici-users", loaded) = Found("TABLE_NAME", "ici-users")
      BY <3>1, FoundOnceLoaded
    <3>3. c.name = Setting("TABLE_NAME", "ici-users", loaded)
      BY <1>3 DEF New
    <3> QED BY <1>3, <3>2, <3>3 DEF Found, Setting
  <2> QED BY <1>2, <2>2, <2>3 DEF TablesFound
<1>12. NamesFound'
  BY <1>10, <1>11 DEF NamesFound, CellsFound, TableAsked, TablesFound, TableOf, Found
<1> QED BY <1>6, <1>8, <1>9, <1>12 DEF ClientsInv

\* begin: the file first; end: with what is found then.
LEMMA MakingClients ==
  ASSUME Shape, ClientsInv, AllLast, NEW k \in DOMAIN calls, begin(k) \/ end(k)
  PROVE  ClientsInv'
<1>1. UNCHANGED <<env, addons, calls>>
  BY DEF begin, end
<1>2. OneClient /\ NamesFound /\ MadeOnce /\ FileLoaded /\ AddonsHave /\ BeforeReturned
  BY DEF ClientsInv
<1>3. Svc(k) \in Services /\ \A j \in making : j \in DOMAIN calls /\ Svc(j) \in Services
  BY ShapeTyped, SvcOfCall
<1>4. cells \in [Services -> Targets]
  BY DEF Shape, TypeOK
<1>5. BeforeReturned'
  BY <1>1, <1>2 DEF BeforeReturned, Returned
<1>6. CASE begin(k)
  <2>1. /\ cells' = cells /\ making' = making \cup {k} /\ loaded' = dotenv
        /\ cells[Svc(k)] = NoClient /\ \A j \in making : Svc(j) # Svc(k)
    BY <1>6 DEF begin, Free
  <2>2. OneClient' /\ AddonsHave' /\ NamesFound'
    BY <1>1, <1>2, <2>1 DEF OneClient, AddonsHave, NamesFound, Svc, NoAddon, Setting
  <2>3. MadeOnce'
    BY <1>1, <1>2, <2>1 DEF MadeOnce, Svc
  <2>4. FileLoaded'
    BY <1>1, <1>2, <2>1 DEF FileLoaded, dotenv
  <2> QED BY <1>5, <2>2, <2>3, <2>4 DEF ClientsInv
<1>7. CASE end(k)
  <2>1. PICK made : made = new(Svc(k), calls[k].name)
    OBVIOUS
  <2>2. /\ k \in making /\ making' = making \ {k} /\ loaded' = loaded
        /\ cells' = [cells EXCEPT ![Svc(k)] = made]
    BY <1>7, <2>1 DEF end
  <2>3. /\ cells'[Svc(k)] = made /\ \A svc \in Services : svc # Svc(k) => cells'[svc] = cells[svc]
        /\ cells[Svc(k)] = NoClient
    BY <1>2, <1>3, <1>4, <2>2 DEF MadeOnce
  <2>4. OneClient'
    <3>1. ASSUME NEW j \in DOMAIN calls PROVE calls[j].client \in {NoClient, cells'[Svc(j)]}
      BY <1>2, <2>3, SvcOfCall DEF OneClient
    <3>2. ASSUME NEW key \in AddonKeys, addons[key] # NoAddon PROVE addons[key].client = cells'[addons[key].svc]
      BY <1>2, <2>3, <3>2 DEF OneClient, AddonsHave
    <3> QED BY <1>1, <3>1, <3>2 DEF OneClient, Svc, NoAddon
  <2>5. MadeOnce' /\ AddonsHave'
    BY <1>1, <1>2, <1>3, <2>2, <2>3 DEF MadeOnce, AddonsHave, Svc, NoAddon
  <2>6. FileLoaded'
    BY <1>1, <1>2, <2>2 DEF FileLoaded
  <2>7. NamesFound'
    <3>1. CellsFound /\ TableAsked /\ TablesFound
      BY <1>2 DEF NamesFound, CellsFound, TableAsked, TablesFound, TableOf, Found
    <3>2. CellsFound'
      <4>1. Svc(k) = "s3" => made = Found("BUCKET", "ici-uploads")
        BY <2>1, <2>2, FoundOnceLoaded DEF new
      <4>2. Svc(k) = "sns" => made = Found("TOPIC_ARN", Empty)
        BY <2>1, <2>2, FoundOnceLoaded DEF new
      <4>3. "s3" \in Services /\ "sns" \in Services
        BY DEF Services
      <4>4. /\ cells'["s3"]  \in {NoClient, Found("BUCKET", "ici-uploads")}
            /\ cells'["sns"] \in {NoClient, Found("TOPIC_ARN", Empty)}
        BY <2>3, <3>1, <4>1, <4>2, <4>3 DEF CellsFound
      <4> QED BY <1>1, <4>4 DEF CellsFound, Found, Setting
    <3>3. TableAsked'
      <4>1. Svc(k) = "dynamo" => made = calls[k].name
        BY <2>1 DEF new
      <4>2. cells'["dynamo"] \in {NoClient} \cup {calls[j].name : j \in DOMAIN calls}
        BY <2>3, <3>1, <4>1 DEF TableAsked, Services
      <4> QED BY <1>1, <4>2 DEF TableAsked
    <3>4. TablesFound'
      BY <1>1, <3>1 DEF TablesFound, TableOf, Svc, Found, Setting
    <3> QED BY <3>2, <3>3, <3>4 DEF NamesFound, CellsFound, TableAsked, TablesFound, TableOf, Found
  <2> QED BY <1>5, <2>4, <2>5, <2>6, <2>7 DEF ClientsInv
<1> QED BY <1>6, <1>7

\* Steps that leave the cells alone, where calls have the client in their cell.
LEMMA HadClients ==
  ASSUME Shape, ClientsInv, AllLast, UNCHANGED <<env, loaded, cells, making>>, DOMAIN calls' = DOMAIN calls,
         \A j \in DOMAIN calls : calls'[j].client \in {calls[j].client, cells[Svc(j)]},
         \A key \in AddonKeys : addons'[key] # NoAddon =>
           /\ addons'[key].client # NoClient /\ addons'[key].svc \in Services
           /\ addons'[key].client = cells[addons'[key].svc]
  PROVE  ClientsInv'
<1>1. OneClient /\ NamesFound /\ MadeOnce /\ FileLoaded /\ AddonsHave /\ BeforeReturned
  BY DEF ClientsInv
<1>2. /\ env' = env
      /\ \A j \in DOMAIN calls : /\ calls'[j].svc = calls[j].svc /\ calls'[j].name = calls[j].name
                                 /\ calls'[j].op = calls[j].op /\ calls'[j].args = calls[j].args
  BY DEF AllLast, Remains, Kept
<1>3. OneClient'
  BY <1>1, <1>2 DEF OneClient, Svc, NoAddon
<1>4. \A k \in making : k \in DOMAIN calls
  BY ShapeTyped
<1>5. MadeOnce' /\ FileLoaded' /\ AddonsHave'
  BY <1>1, <1>2, <1>4 DEF MadeOnce, FileLoaded, AddonsHave, Svc, NoAddon
<1>6. BeforeReturned'
  BY <1>1, BeforeStays DEF BeforeReturned, AllLast, Remains, Kept
<1>7. CellsFound /\ TableAsked /\ TablesFound
  BY <1>1 DEF NamesFound, CellsFound, TableAsked, TablesFound, TableOf, Found
<1>8. CellsFound' /\ TableAsked'
  <2>1. CellsFound'
    BY <1>2, <1>7 DEF CellsFound, Found, Setting
  <2>2. TableAsked'
    BY <1>2, <1>7 DEF TableAsked
  <2> QED BY <2>1, <2>2
<1>9. TablesFound'
  <2>1. ASSUME NEW k \in DOMAIN calls PROVE TableOf(k)'
    <3>1. TableOf(k)
      BY <1>7 DEF TablesFound
    <3>2. calls'[k].before = calls[k].before /\ \A j \in calls[k].before : calls'[j] = calls[j]
      BY <1>1, BeforeStays DEF AllLast, Remains, Kept
    <3> QED BY <1>2, <3>1, <3>2 DEF TableOf, Svc, Found, Setting
  <2> QED BY <2>1 DEF TablesFound
<1>10. NamesFound'
  BY <1>8, <1>9 DEF NamesFound, CellsFound, TableAsked, TablesFound, TableOf, Found
<1> QED BY <1>3, <1>5, <1>6, <1>10 DEF ClientsInv

\* Every step leaves one client to a service, under the names that are meant.
LEMMA ClientsStep == Shape /\ ClientsInv /\ [Next]_vars => ClientsInv'
<1> SUFFICES ASSUME Shape, ClientsInv, [Next]_vars PROVE ClientsInv'
  OBVIOUS
<1>1. AllLast
  BY NextShape
<1>2. \A key \in AddonKeys : addons[key] # NoAddon =>
        /\ addons[key].client # NoClient /\ addons[key].svc \in Services
        /\ addons[key].client = cells[addons[key].svc]
  BY DEF ClientsInv, OneClient, AddonsHave
<1>3. ASSUME NEW k \in DOMAIN calls, go(k) PROVE ClientsInv'
  <2>1. Svc(k) \in Services
    BY SvcOfCall
  <2>2. PICK had : had = [svc |-> Svc(k), client |-> cells[Svc(k)]]
    OBVIOUS
  <2>3. had.client # NoClient /\ had.svc \in Services /\ had.client = cells[had.svc]
    BY <1>3, <2>1, <2>2, GoClients
  <2>4. \A key \in AddonKeys : addons'[key] = addons[key] \/ addons'[key] = had
    BY <1>3, <2>2, GoClients
  <2>5. \A key \in AddonKeys : addons'[key] # NoAddon =>
          /\ addons'[key].client # NoClient /\ addons'[key].svc \in Services
          /\ addons'[key].client = cells[addons'[key].svc]
    BY <1>2, <2>3, <2>4
  <2>6. \A j \in DOMAIN calls : calls'[j].client \in {calls[j].client, cells[Svc(j)]}
    BY <1>3, GoClients
  <2>7. UNCHANGED <<env, loaded, cells, making>> /\ DOMAIN calls' = DOMAIN calls
    BY <1>3, GoClients
  <2> QED BY <1>1, <2>5, <2>6, <2>7, HadClients
<1>4. CASE Quiet
  BY <1>1, <1>2, <1>4, HadClients DEF Quiet
<1> QED BY <1>1, <1>3, <1>4, StepKinds, BegunClients, MakingClients

\* So one client to a service there always is.
LEMMA ClientsInvariance == Spec => [](Shape /\ ClientsInv)
<1>1. Init => Shape /\ ClientsInv
  BY InitShape, InitClientsInv
<1>2. (Shape /\ ClientsInv) /\ [Next]_vars => (Shape /\ ClientsInv)'
  BY NextShape, ClientsStep
<1> QED BY <1>1, <1>2, PTL DEF Spec

\* However many calls ask for a service at once, all get the same client, and
\* the AddonHolder has that one too: get_or_init, however its waits interleave.
THEOREM OneClientCorrect == Spec => []OneClient
<1>1. ClientsInv => OneClient
  BY DEF ClientsInv
<1> QED BY ClientsInvariance, <1>1, PTL

\* In whatever order the clients are made, their names are those of the
\* environment or of .env; only a table may be settled before .env is loaded.
THEOREM NamesCorrect == Spec => []NamesFound
<1>1. ClientsInv => NamesFound
  BY DEF ClientsInv
<1> QED BY ClientsInvariance, <1>1, PTL

-----------------------------------------------------------------------------
(* What is done for a call *)

Untouched(k) == \A d \in done : d[1] # k
Unsent(k) == \A m \in wire : m[1] # k
DoneFor(k, targets) == \A target \in targets : <<k, target>> \in done
\* The part of a call that an answer vouches for.
Part(k) == IF Op(k) = "bulk" THEN Mail(k) \ calls[k].items ELSE Wanted(k)

\* What is known of a call: a read does nothing; a request is sent by a call
\* that has its client; an answer Ok vouches for what was done;
\* before the first answer to the first attempt nothing was, nor by an answer
\* other than Ok; and no request is on its way any more where a body comes or
\* where the first attempt was refused.
Sound(k) ==
  /\ Op(k) \in Reads => Untouched(k)
  /\ calls[k].status = "running" \/ ~Unsent(k) =>
       calls[k].client # NoClient /\ Op(k) \notin {"presign", "put_addon", "get_addon"}
  /\ Ok(k) => DoneFor(k, Wanted(k))
  /\ calls[k].reply = "Ok" => DoneFor(k, Part(k))
  /\ calls[k].status = "asks" => Untouched(k) /\ Unsent(k) /\ Op(k) # "get_addon"
  /\ calls[k].status = "running" => calls[k].attempt >= 1
  /\ calls[k].status = "running" /\ calls[k].attempt = 1 =>
       /\ \A m \in wire : m[1] = k => m = <<k, 1>> /\ calls[k].reply = "none" /\ Untouched(k)
       /\ calls[k].reply \in {"refused", "absent"} => Untouched(k)
  /\ calls[k].status = "reads" => Op(k) \in Streamed /\ Unsent(k)
  /\ calls[k].status = "refused" /\ calls[k].attempt <= 1 => Unsent(k) /\ (Op(k) # "bulk" => Untouched(k))
DoneInv == \A k \in DOMAIN calls : Sound(k)

\* An Ok that is sound is of something done.
LEMMA SoundIsDone == DoneInv => OkIsDone
BY DEF DoneInv, Sound, OkIsDone, DoneFor, Untouched

\* What a call means stays.
LEMMA MeaningStays ==
  ASSUME UNCHANGED env, NEW k, Kept(calls'[k], calls[k])
  PROVE  /\ Op(k)' = Op(k) /\ Name(k)' = Name(k) /\ Svc(k)' = Svc(k) /\ Mail(k)' = Mail(k)
         /\ MeantPlace(k)' = MeantPlace(k) /\ Wanted(k)' = Wanted(k)
<1>1. Op(k)' = Op(k) /\ Name(k)' = Name(k) /\ Svc(k)' = Svc(k) /\ calls'[k].args = calls[k].args
  BY DEF Op, Name, Svc, Kept
<1>2. Mail(k)' = Mail(k)
  BY <1>1 DEF Mail
<1>3. \A default : Meant(k, default)' = Meant(k, default)
  BY <1>1 DEF Meant
<1>4. /\ Setting("BUCKET", "ici-uploads", ~env.lambda)' = Setting("BUCKET", "ici-uploads", ~env.lambda)
      /\ Setting("TOPIC_ARN", Empty, ~env.lambda)' = Setting("TOPIC_ARN", Empty, ~env.lambda)
  BY DEF Setting
<1>5. MeantPlace(k)' = MeantPlace(k)
  BY <1>1, <1>4 DEF MeantPlace, Meant
<1>6. Wanted(k)' = Wanted(k)
  BY <1>1, <1>2, <1>4, <1>5 DEF Wanted, Meant
<1> QED BY <1>1, <1>2, <1>5, <1>6

\* A step of one call, and what the services do for it.
Local(k) ==
  /\ Only(k) /\ env' = env /\ done \subseteq done'
  /\ \A m \in wire' : m \in wire \/ m[1] = k
  /\ \A d \in done' : d \in done \/ d[1] = k

\* What a step does for one call leaves the others as sound as they were.
LEMMA OthersSound ==
  ASSUME DoneInv, NEW k, Local(k), Sound(k)'
  PROVE  DoneInv'
<1>1. ASSUME NEW j \in DOMAIN calls \ {k} PROVE Sound(j)'
  <2>1. Sound(j) /\ calls'[j] = calls[j]
    BY DEF DoneInv, Local, Only
  <2>2. /\ Op(j)' = Op(j) /\ Mail(j)' = Mail(j) /\ Wanted(j)' = Wanted(j) /\ Part(j)' = Part(j)
        /\ Ok(j)' = Ok(j)
    BY <2>1, MeaningStays DEF Kept, Part, Local, Ok
  <2>3. (Untouched(j) => Untouched(j)') /\ (Unsent(j) => Unsent(j)')
    BY DEF Untouched, Unsent, Local
  <2>4. (DoneFor(j, Wanted(j)) => DoneFor(j, Wanted(j))') /\ (DoneFor(j, Part(j)) => DoneFor(j, Part(j))')
    BY <2>2 DEF DoneFor, Local
  <2>5. \A m \in wire' : m[1] = j => m \in wire
    BY DEF Local
  <2> QED BY <2>1, <2>2, <2>3, <2>4, <2>5 DEF Sound
<1>2. DOMAIN calls' = DOMAIN calls
  BY DEF Local, Only
<1> QED BY <1>1, <1>2 DEF DoneInv

\* Where a call reads, signs or passes its client on, there is nothing to do.
LEMMA NothingWanted ==
  ASSUME NEW k, Op(k) \in Reads \cup {"presign", "put_addon", "get_addon"}
  PROVE  Wanted(k) = {} /\ Op(k) # "bulk"
BY DEF Wanted, Reads, SesLists, Streamed

\* A request goes where the call means it to: to the bucket, or the topic,
\* that it names, or else to the one its client was made with.
LEMMA MeantPlaces ==
  ASSUME Shape, ClientsInv, NEW k \in DOMAIN calls, calls[k].client # NoClient
  PROVE  /\ Op(k) \in S3Ops => Place(k) = MeantPlace(k)
         /\ Op(k) = "publish" => Place(k) = Meant(k, Setting("TOPIC_ARN", Empty, ~env.lambda))
<1>1. calls[k].client = cells[Svc(k)]
  BY DEF ClientsInv, OneClient
<1>2. CellsFound
  BY DEF ClientsInv, NamesFound, CellsFound, Found
<1>3. (Op(k) \in S3Ops => Svc(k) = "s3") /\ (Op(k) = "publish" => Svc(k) = "sns")
  <2>1. Formed(calls[k])
    BY ShapeTyped
  <2> QED BY <2>1 DEF Formed, Op, Svc, SesOps, S3Ops, SesLists, Streamed
<1> QED BY <1>1, <1>2, <1>3 DEF Place, In, Name, MeantPlace, Meant, CellsFound, Found

\* Nothing was done for a call that begins.
LEMMA BegunSound ==
  ASSUME Shape, DoneInv, NEW c, Begun(c)
  PROVE  DoneInv'
<1>1. PICK n : n = Len(calls) + 1
  OBVIOUS
<1>2. /\ DOMAIN calls' = DOMAIN calls \cup {n} /\ n \notin DOMAIN calls
      /\ calls'[n] = c /\ \A k \in DOMAIN calls : calls'[k] = calls[k]
  BY <1>1, BegunShape
<1>3. UNCHANGED <<env, wire, done>> /\ New(c)
  BY DEF Begun, clientVars
<1>4. ASSUME NEW k \in DOMAIN calls PROVE Sound(k)'
  <2>1. Sound(k) /\ calls'[k] = calls[k]
    BY <1>2 DEF DoneInv
  <2>2. /\ Op(k)' = Op(k) /\ Mail(k)' = Mail(k) /\ Wanted(k)' = Wanted(k) /\ Part(k)' = Part(k)
        /\ Ok(k)' = Ok(k) /\ Untouched(k)' = Untouched(k) /\ Unsent(k)' = Unsent(k)
    BY <1>3, <2>1, MeaningStays DEF Kept, Part, Ok, Untouched, Unsent
  <2>3. DoneFor(k, Wanted(k))' = DoneFor(k, Wanted(k)) /\ DoneFor(k, Part(k))' = DoneFor(k, Part(k))
    BY <1>3, <2>2 DEF DoneFor
  <2> QED BY <1>3, <2>1, <2>2, <2>3 DEF Sound
<1>5. Sound(n)'
  <2>1. Untouched(n)' /\ Unsent(n)'
    BY <1>2, <1>3, ShapeTyped DEF Untouched, Unsent
  <2>2. /\ c.attempt = 0 /\ c.reply = "none" /\ c.status \in {"asks", "Ok", "refused"}
        /\ c.status = "asks" => c.op # "get_addon"
        /\ c.status # "asks" => c.op = "get_addon"
    BY <1>3 DEF New
  <2>3. c.op = "get_addon" => Wanted(n)' = {}
    BY <1>2 DEF Wanted, Op
  <2>4. Ok(n)' => DoneFor(n, Wanted(n))'
    BY <1>2, <2>2, <2>3 DEF Ok, DoneFor
  <2>5. calls'[n] = c /\ Op(n)' = c.op
    BY <1>2 DEF Op
  <2> QED BY <2>1, <2>2, <2>4, <2>5 DEF Sound
<1> QED BY <1>2, <1>4, <1>5 DEF DoneInv

\* Nor for one that gets its client; but then its request is sent.
LEMMA GoSound ==
  ASSUME Shape, DoneInv, NEW k \in DOMAIN calls, go(k)
  PROVE  DoneInv'
<1>1. /\ Sound(k) /\ calls[k].status = "asks" /\ calls[k].reply = "none" /\ calls[k].client = NoClient
      /\ cells[Svc(k)] # NoClient /\ Untouched(k) /\ Unsent(k) /\ Op(k) # "get_addon"
  BY ShapeTyped DEF DoneInv, Sound, go, Asks, Formed
<1>2. CASE put_addon(k) /\ Op(k) = "put_addon" /\ UNCHANGED <<templates, objects, wire, done>>
  <2>1. /\ Only(k) /\ Kept(calls'[k], calls[k]) /\ env' = env
        /\ calls'[k].status = "Ok" /\ calls'[k].reply = "none" /\ calls'[k].client = cells[Svc(k)]
    BY <1>1, <1>2, PutAddonStep DEF put_addon
  <2>2. Op(k)' = Op(k) /\ Wanted(k)' = Wanted(k) /\ Wanted(k) = {}
    BY <1>2, <2>1, MeaningStays, NothingWanted
  <2>3. Untouched(k)' /\ Unsent(k)'
    BY <1>1, <1>2 DEF Untouched, Unsent
  <2>4. Sound(k)'
    BY <2>1, <2>2, <2>3 DEF Sound, Ok, DoneFor
  <2>5. Local(k)
    BY <1>2, <2>1 DEF Local
  <2> QED BY <2>4, <2>5, OthersSound
<1>3. ASSUME NEW status \in {"running", "Ok", "refused"}, Started(k, status), Op(k) # "put_addon",
             status = "Ok" => Op(k) = "presign", status = "running" => Op(k) # "presign"
      PROVE  DoneInv'
  <2>1. /\ Only(k) /\ Kept(calls'[k], calls[k])
        /\ calls'[k].client = cells[Svc(k)] /\ calls'[k].status = status
        /\ calls'[k].attempt = (IF status = "running" THEN 1 ELSE 0) /\ calls'[k].reply = "none"
    BY <1>1, <1>3, StartedStep
  <2>2. /\ UNCHANGED <<env, done>>
        /\ wire' = IF status = "running" THEN wire \cup {<<k, 1>>} ELSE wire
    BY <1>3 DEF Started, clientVars
  <2>3. Op(k)' = Op(k) /\ Wanted(k)' = Wanted(k) /\ (Op(k) = "presign" => Wanted(k) = {})
    BY <1>3, <2>1, <2>2, MeaningStays, NothingWanted
  <2>4. /\ Untouched(k)' /\ (status # "running" => Unsent(k)')
        /\ \A m \in wire' : m[1] = k => m = <<k, 1>>
    BY <1>1, <2>2 DEF Untouched, Unsent
  <2>5. Sound(k)'
    BY <1>1, <1>3, <2>1, <2>3, <2>4 DEF Sound, Ok, DoneFor
  <2>6. Local(k)
    BY <2>1, <2>2 DEF Local
  <2> QED BY <2>5, <2>6, OthersSound
<1> QED BY <1>2, <1>3 DEF go, NoTopicArn

\* A call that has its answer, or will not have it: Ok vouches for all.
LEMMA GoesSound ==
  ASSUME Shape, DoneInv, NEW k \in DOMAIN calls, NEW status \in {"reads", "Ok", "refused", "timed_out"}, NEW items,
         calls[k].status \in {"running", "reads"}, Goes(k, status, items),
         status = "reads" => Op(k) \in Streamed,
         status = "Ok" => DoneFor(k, Wanted(k)),
         status = "refused" => \/ calls[k].status = "reads"
                               \/ calls[k].status = "running" /\ calls[k].reply # "none"
                                  /\ (calls[k].reply = "Ok" => Op(k) \in Reads \cup {"bulk"})
  PROVE  DoneInv'
<1>1. Sound(k) /\ calls[k].client # NoClient
  BY ShapeTyped DEF DoneInv, CallTyped
<1>2. /\ Only(k) /\ Kept(calls'[k], calls[k])
      /\ calls'[k].client = calls[k].client /\ calls'[k].status = status
      /\ calls'[k].attempt = (IF status = "refused" THEN calls[k].attempt ELSE 0)
      /\ calls'[k].reply = "none"
  BY GoesStep
<1>3. /\ UNCHANGED <<env, done>> /\ \A m \in wire' : m \in wire
      /\ \A m \in wire' : Op(k) \in Reads => m[1] # k
  BY DEF Goes, clientVars, Without
<1>4. Op(k)' = Op(k) /\ Wanted(k)' = Wanted(k)
  BY <1>2, <1>3, MeaningStays
<1>5. (Untouched(k)' <=> Untouched(k)) /\ (Unsent(k) => Unsent(k)') /\ (Op(k) \in Reads => Unsent(k)')
  BY <1>3 DEF Untouched, Unsent
<1>6. Op(k) \in Streamed => Op(k) \in Reads
  BY DEF Reads
<1>7. Op(k)' \notin {"presign", "put_addon", "get_addon"} \/ Unsent(k)'
  BY <1>1, <1>4, <1>5 DEF Sound
<1>8. status = "Ok" => DoneFor(k, Wanted(k))'
  BY <1>3, <1>4 DEF DoneFor
<1>9. status = "refused" /\ calls'[k].attempt <= 1 => Unsent(k)' /\ (Op(k) # "bulk" => Untouched(k)')
  <2>1. CASE calls[k].status = "reads"
    <3>1. Op(k) \in Streamed /\ Unsent(k)
      BY <1>1, <2>1 DEF Sound
    <3>2. Untouched(k)
      BY <1>1, <1>6, <3>1 DEF Sound
    <3> QED BY <1>5, <3>1, <3>2
  <2>2. CASE status = "refused" /\ calls'[k].attempt <= 1 /\ calls[k].status = "running"
    <3>1. calls[k].attempt = 1
      BY <1>1, <1>2, <2>2, ShapeTyped DEF Sound, CallTyped
    <3>2. Unsent(k)
      BY <1>1, <2>2, <3>1 DEF Sound, Unsent
    <3>3. calls[k].reply \in {"refused", "absent"} \/ Op(k) \in Reads \cup {"bulk"}
      BY <2>2, ShapeTyped DEF CallTyped
    <3>4. Op(k) # "bulk" => Untouched(k)
      BY <1>1, <2>2, <3>1, <3>3 DEF Sound
    <3> QED BY <1>5, <3>2, <3>4
  <2> QED BY <2>1, <2>2
<1>10. Sound(k)'
  BY <1>1, <1>2, <1>4, <1>5, <1>6, <1>7, <1>8, <1>9 DEF Sound, Ok
<1>11. Local(k)
  BY <1>2, <1>3 DEF Local
<1> QED BY <1>10, <1>11, OthersSound

\* One attempt more.
LEMMA RetrySound ==
  ASSUME Shape, DoneInv, NEW k \in DOMAIN calls, retry(k)
  PROVE  DoneInv'
<1>1. Sound(k) /\ calls[k].client # NoClient /\ calls[k].status = "running" /\ calls[k].attempt \in 0..MaxAttempts
  BY ShapeTyped DEF DoneInv, CallTyped, retry, Running
<1>2. /\ Only(k) /\ Kept(calls'[k], calls[k])
      /\ calls'[k].client = calls[k].client /\ calls'[k].status = calls[k].status
      /\ calls'[k].attempt = calls[k].attempt + 1 /\ calls'[k].reply = "none"
  BY RetryStep
<1>3. /\ UNCHANGED <<env, done>>
      /\ \A m \in wire' : m \in wire \/ m[1] = k
  BY DEF retry, clientVars, Without
<1>4. Op(k)' = Op(k) /\ Wanted(k)' = Wanted(k)
  BY <1>2, <1>3, MeaningStays
<1>5. (Untouched(k)' <=> Untouched(k))
  BY <1>3 DEF Untouched
<1>6. Op(k) \notin {"presign", "put_addon", "get_addon"}
  BY <1>1 DEF Sound
<1>7. calls[k].attempt + 1 > 1
  BY <1>1 DEF Sound
<1>10. Sound(k)'
  BY <1>1, <1>2, <1>4, <1>5, <1>6, <1>7 DEF Sound, Ok
<1>11. Local(k)
  BY <1>2, <1>3 DEF Local
<1> QED BY <1>10, <1>11, OthersSound

\* Nothing the SDK hears is Ok that the service did not do.
LEMMA SdkSound ==
  ASSUME Shape, DoneInv, NEW k \in DOMAIN calls, Sdk(k)
  PROVE  DoneInv'
<1>1. Sound(k)
  BY DEF DoneInv
<1>2. Op(k) \in Streamed => Op(k) \in Reads /\ Wanted(k) = {}
  BY NothingWanted DEF Reads
<1>3. CASE hear(k)
  <2>1. PICK status : status = IF Op(k) \in Streamed /\ calls[k].reply = "Ok" THEN "reads" ELSE answer(k)
    OBVIOUS
  <2>2. PICK items : items = IF Op(k) = "list_images" THEN calls[k].items \cap Images ELSE calls[k].items
    OBVIOUS
  <2>3. status \in {"reads", "Ok", "refused", "timed_out"} /\ calls[k].status = "running" /\ calls[k].reply # "none"
    BY <1>3, <2>1 DEF answer, hear, Running
  <2>4. Goes(k, status, items)
    BY <1>3, <2>1, <2>2 DEF hear
  <2>5. status = "reads" => Op(k) \in Streamed
    BY <2>1 DEF answer
  <2>6. status = "Ok" => calls[k].reply = "Ok" /\ (Op(k) = "bulk" => calls[k].items = {})
    BY <2>1 DEF answer
  <2>7. status = "Ok" => DoneFor(k, Wanted(k))
    <3>1. Op(k) = "bulk" => Wanted(k) = Mail(k)
      BY DEF Wanted
    <3>2. Op(k) = "bulk" /\ calls[k].items = {} => Part(k) = Wanted(k)
      BY <3>1 DEF Part
    <3>3. Op(k) # "bulk" => Part(k) = Wanted(k)
      BY DEF Part
    <3> QED BY <1>1, <2>6, <3>2, <3>3 DEF Sound
  <2>8. status = "refused" /\ calls[k].reply = "Ok" => Op(k) \in Reads \cup {"bulk"}
    BY <2>1 DEF answer, Reads
  <2> QED BY <2>3, <2>4, <2>5, <2>7, <2>8, GoesSound
<1>4. CASE collect(k)
  <2>1. PICK got \in {"all", "some"}, c \in calls[k].items :
          Goes(k, IF got = "all" /\ Parses(Op(k), c.kind) THEN "Ok" ELSE "refused", {Got(c, got)})
    BY <1>4 DEF collect
  <2>2. PICK status : status = IF got = "all" /\ Parses(Op(k), c.kind) THEN "Ok" ELSE "refused"
    OBVIOUS
  <2>3. /\ status \in {"reads", "Ok", "refused", "timed_out"} /\ calls[k].status = "reads"
        /\ status # "reads"
    BY <1>4, <2>2 DEF collect
  <2>4. Goes(k, status, {Got(c, got)})
    BY <2>1, <2>2
  <2>5. DoneFor(k, Wanted(k))
    BY <1>1, <1>2, <2>3 DEF Sound, DoneFor
  <2> QED BY <2>3, <2>4, <2>5, GoesSound
<1>5. CASE retry(k)
  BY <1>5, RetrySound
<1>6. CASE give_up(k)
  <2>1. calls[k].status = "running" /\ Goes(k, "timed_out", {})
    BY <1>6 DEF give_up, Running
  <2>2. PICK status : status = "timed_out" /\ Goes(k, status, {})
    BY <2>1
  <2> QED BY <2>1, <2>2, GoesSound
<1> QED BY <1>3, <1>4, <1>5, <1>6 DEF Sdk

\* What a service did when it answers: nothing for a read or where it turned
\* the request down, and all that its answer Ok vouches for.
Vouched(k, reply, items) ==
  /\ done \subseteq done' /\ \A d \in done' : d \in done \/ d[1] = k
  /\ reply # "Ok" \/ Op(k) \in Reads => done' = done
  /\ reply = "Ok" => \A target \in (IF Op(k) = "bulk" THEN Mail(k) \ items ELSE Wanted(k)) : <<k, target>> \in done'

\* The service vouches for the answers it gives.
LEMMA ServeVouched ==
  ASSUME Shape, ClientsInv, NEW k \in DOMAIN calls, calls[k].client # NoClient, NEW attempt, serve(k, attempt)
  PROVE  \E reply \in {"Ok", "refused", "absent"} : \E items, more :
           Answered(k, attempt, reply, items, more) /\ Vouched(k, reply, items)
<1>1. ASSUME NEW targets, Did(k, targets), Op(k) \notin Reads \cup {"bulk"}, targets = Wanted(k),
             Answered(k, attempt, "Ok", {}, FALSE)
      PROVE  \E reply \in {"Ok", "refused", "absent"} : \E items, more :
               Answered(k, attempt, reply, items, more) /\ Vouched(k, reply, items)
  <2>1. Vouched(k, "Ok", {})
    BY <1>1, DidOnly DEF Vouched
  <2> QED BY <1>1, <2>1
<1>2. ASSUME NEW reply \in {"Ok", "refused", "absent"}, NEW items, NEW more, Op(k) # "bulk", done' = done,
             reply = "Ok" => Op(k) \in Reads, Answered(k, attempt, reply, items, more)
      PROVE  \E r \in {"Ok", "refused", "absent"} : \E i, m : Answered(k, attempt, r, i, m) /\ Vouched(k, r, i)
  <2>1. Vouched(k, reply, items)
    BY <1>2, NothingWanted DEF Vouched
  <2> QED BY <1>2, <2>1
<1>3. CASE serve_send(k, attempt)
  <2>1. CASE Op(k) = "send" /\ Did(k, Mail(k))
    <3>1. Wanted(k) = Mail(k) /\ Op(k) \notin Reads \cup {"bulk"}
      BY <2>1 DEF Wanted, Reads, SesLists, Streamed
    <3> QED BY <1>1, <1>3, <2>1, <3>1 DEF serve_send
  <2>2. CASE Op(k) = "publish" /\ Did(k, {Place(k)})
    <3>1. Wanted(k) = {Place(k)} /\ Op(k) \notin Reads \cup {"bulk"}
      BY <2>2, MeantPlaces DEF Wanted, Reads, SesLists, Streamed
    <3> QED BY <1>1, <1>3, <2>2, <3>1 DEF serve_send
  <2> QED BY <1>3, <2>1, <2>2 DEF serve_send
<1>4. CASE serve_bulk(k, attempt)
  <2>1. PICK sent \in SUBSET Mail(k) : Did(k, sent) /\ Answered(k, attempt, "Ok", Mail(k) \ sent, FALSE)
    BY <1>4 DEF serve_bulk
  <2>2. Op(k) = "bulk" /\ Op(k) \notin Reads
    BY <1>4 DEF serve_bulk, Reads, SesLists, Streamed
  <2>3. Vouched(k, "Ok", Mail(k) \ sent)
    BY <2>1, <2>2, DidOnly DEF Vouched
  <2> QED BY <2>1, <2>3
<1>5. CASE serve_template(k, attempt)
  <2>1. Op(k) \in {"create_template", "update_template", "delete_template"}
    BY <1>5 DEF serve_template
  <2>2. Wanted(k) = {<<"template", Name(k)>>} /\ Op(k) \notin Reads \cup {"bulk"}
    BY <2>1 DEF Wanted, Reads, SesLists, Streamed
  <2> QED BY <1>1, <1>5, <2>2 DEF serve_template
<1>6. CASE serve_object(k, attempt)
  <2>1. Op(k) \in {"put_object", "delete_object"}
    BY <1>6 DEF serve_object
  <2>2. Wanted(k) = {MeantPlace(k)} /\ Op(k) \notin Reads \cup {"bulk"} /\ Op(k) \in S3Ops
    BY <2>1 DEF Wanted, Reads, SesLists, Streamed, S3Ops
  <2>3. Did(k, {Place(k)}) /\ Answered(k, attempt, "Ok", {}, FALSE)
    BY <1>6 DEF serve_object
  <2> QED BY <1>1, <2>2, <2>3, MeantPlaces
<1>7. CASE serve_list(k, attempt) \/ serve_get(k, attempt)
  <2>1. done' = done /\ Op(k) \in Reads
    BY <1>7 DEF serve_list, serve_get, Reads
  <2>2. \E reply \in {"Ok", "refused", "absent"} : \E items, more : Answered(k, attempt, reply, items, more)
    BY <1>7 DEF serve_list, serve_get
  <2> QED BY <1>2, <2>1, <2>2, NothingWanted
<1>8. CASE turn_down(k, attempt)
  <2>1. Answered(k, attempt, "refused", {}, FALSE) /\ done' = done
    BY <1>8 DEF turn_down
  <2>2. Vouched(k, "refused", {})
    BY <2>1 DEF Vouched
  <2> QED BY <2>1, <2>2
<1> QED BY <1>3, <1>4, <1>5, <1>6, <1>7, <1>8 DEF serve

\* A service answers: the request is not on its way any more.
LEMMA ServeSound ==
  ASSUME Shape, ClientsInv, DoneInv, NEW m \in wire, serve(m[1], m[2])
  PROVE  DoneInv'
<1> PICK k : k = m[1]
  OBVIOUS
<1> PICK attempt : attempt = m[2]
  OBVIOUS
<1>1. k \in DOMAIN calls /\ m = <<k, attempt>> /\ serve(k, attempt)
  BY ShapeTyped
<1>2. /\ Sound(k) /\ ~Unsent(k) /\ calls[k].client # NoClient /\ Formed(calls[k]) /\ CallTyped(calls[k], k)
      /\ Op(k) \notin {"presign", "put_addon", "get_addon"}
  BY <1>1, ShapeTyped DEF DoneInv, Sound, Unsent
<1>3. PICK reply, items, more :
        /\ reply \in {"Ok", "refused", "absent"}
        /\ Answered(k, attempt, reply, items, more) /\ Vouched(k, reply, items)
  BY <1>1, <1>2, ServeVouched
<1>4. /\ Only(k) /\ Kept(calls'[k], calls[k])
      /\ calls'[k].client = calls[k].client /\ calls'[k].status = calls[k].status
      /\ calls'[k].attempt = calls[k].attempt
      /\ IF calls[k].status = "running" /\ calls[k].attempt = attempt
         THEN calls'[k].reply = reply /\ calls'[k].items = items ELSE calls' = calls
  BY <1>1, <1>3, AnsweredStep
<1>5. env' = env /\ wire' = wire \ {m}
  BY <1>1, <1>3 DEF Answered, clientVars
<1>6. Op(k)' = Op(k) /\ Wanted(k)' = Wanted(k) /\ Mail(k)' = Mail(k)
  BY <1>4, <1>5, MeaningStays
<1>7. /\ Unsent(k) => Unsent(k)'
      /\ reply # "Ok" \/ Op(k) \in Reads => (Untouched(k) => Untouched(k)')
  BY <1>3, <1>5 DEF Unsent, Untouched, Vouched
<1>8. Ok(k)' => DoneFor(k, Wanted(k))'
  BY <1>2, <1>3, <1>4, <1>6 DEF Sound, Ok, DoneFor, Vouched
<1>9. calls'[k].reply = "Ok" => DoneFor(k, Part(k))'
  <2>1. CASE calls[k].status = "running" /\ calls[k].attempt = attempt
    <3>1. calls'[k].reply = reply /\ calls'[k].items = items
      BY <1>4, <2>1
    <3>2. Part(k)' = IF Op(k) = "bulk" THEN Mail(k) \ items ELSE Wanted(k)
      BY <1>6, <3>1 DEF Part
    <3> QED BY <1>3, <3>1, <3>2 DEF DoneFor, Vouched
  <2>2. CASE calls' = calls
    <3>1. Part(k)' = Part(k)
      BY <1>6, <2>2 DEF Part
    <3> QED BY <1>2, <1>3, <2>2, <3>1 DEF Sound, DoneFor, Vouched
  <2> QED BY <1>4, <2>1, <2>2
<1>10. calls[k].status \notin {"asks", "reads"} /\ (calls[k].status = "refused" => calls[k].attempt > 1)
  BY <1>2 DEF Sound, CallTyped
<1>11. ASSUME calls[k].status = "running", calls[k].attempt = 1
       PROVE  /\ \A n \in wire' : n[1] # k
              /\ calls'[k].reply \in {"refused", "absent"} => Untouched(k)'
  <2>1. \A n \in wire : n[1] = k => n = <<k, 1>>
    BY <1>2, <1>11 DEF Sound
  <2>2. m = <<k, 1>> /\ Untouched(k) /\ attempt = 1
    BY <1>1, <1>2, <1>11 DEF Sound
  <2>3. calls'[k].reply = reply
    BY <1>4, <1>11, <2>2
  <2> QED BY <1>5, <1>7, <2>1, <2>2, <2>3
<1>12. Op(k) \in Reads => Untouched(k)'
  BY <1>2, <1>7 DEF Sound
<1>13. Sound(k)'
  <2>1. calls'[k].status = "running" => calls'[k].attempt >= 1
    BY <1>2, <1>4 DEF Sound
  <2>2. calls'[k].status = "running" /\ calls'[k].attempt = 1 =>
          /\ \A n \in wire' : n[1] = k => n = <<k, 1>> /\ calls'[k].reply = "none" /\ Untouched(k)'
          /\ calls'[k].reply \in {"refused", "absent"} => Untouched(k)'
    BY <1>4, <1>11
  <2>3. ~(calls'[k].status = "refused" /\ calls'[k].attempt <= 1)
    BY <1>2, <1>4, <1>10 DEF CallTyped
  <2> QED BY <1>2, <1>4, <1>6, <1>8, <1>9, <1>10, <1>12, <2>1, <2>2, <2>3 DEF Sound
<1>14. Local(k)
  BY <1>3, <1>4, <1>5 DEF Local, Vouched
<1> QED BY <1>13, <1>14, OthersSound

\* Every step keeps the calls sound.
LEMMA DoneStep == Shape /\ ClientsInv /\ DoneInv /\ [Next]_vars => DoneInv'
<1> SUFFICES ASSUME Shape, ClientsInv, DoneInv, [Next]_vars PROVE DoneInv'
  OBVIOUS
<1>1. CASE /\ Ask_of_others \/ Ask_of_ses \/ Ask_of_s3 \/ \E topic \in TopicArgs : publish(topic)
           /\ UNCHANGED <<templates, objects, wire, done>>
  BY <1>1, AllBegin, BegunSound
<1>2. ASSUME UNCHANGED <<env, calls, wire, done>> PROVE DoneInv'
  <2>1. ASSUME NEW k \in DOMAIN calls PROVE Sound(k)'
    <3>1. Sound(k)
      BY DEF DoneInv
    <3>2. /\ Op(k)' = Op(k) /\ Wanted(k)' = Wanted(k) /\ Part(k)' = Part(k) /\ Ok(k)' = Ok(k)
          /\ Untouched(k)' = Untouched(k) /\ Unsent(k)' = Unsent(k)
      BY <1>2, MeaningStays DEF Kept, Part, Ok, Untouched, Unsent
    <3>3. DoneFor(k, Wanted(k))' = DoneFor(k, Wanted(k)) /\ DoneFor(k, Part(k))' = DoneFor(k, Part(k))
      BY <1>2, <3>2 DEF DoneFor
    <3> QED BY <1>2, <3>1, <3>2, <3>3 DEF Sound
  <2> QED BY <1>2, <2>1 DEF DoneInv
<1>3. ASSUME NEW k \in DOMAIN calls, Step(k) PROVE DoneInv'
  <2>1. CASE (begin(k) \/ end(k)) /\ UNCHANGED <<templates, objects, wire, done>>
    BY <1>2, <2>1 DEF begin, end
  <2> QED BY <1>3, <2>1, GoSound, SdkSound DEF Step, Own, Awaits
<1>4. CASE UNCHANGED vars
  BY <1>2, <1>4 DEF vars, clientVars
<1> QED BY <1>1, <1>3, <1>4, ServeSound DEF Next, Steps

\* Of no calls all are sound.
LEMMA InitDoneInv == Init => DoneInv
BY DEF Init, InitClients, DoneInv

\* So sound they always are.
LEMMA DoneInvariance == Spec => [](Shape /\ ClientsInv /\ DoneInv)
<1>1. Init => Shape /\ ClientsInv /\ DoneInv
  BY InitShape, InitClientsInv, InitDoneInv
<1>2. (Shape /\ ClientsInv /\ DoneInv) /\ [Next]_vars => (Shape /\ ClientsInv /\ DoneInv)'
  BY NextShape, ClientsStep, DoneStep
<1> QED BY <1>1, <1>2, PTL DEF Spec

\* Ok means that all was done that was asked for, each recipient of a bulk
\* included, where the call meant it to be; a request turned down at its first
\* attempt did nothing, unless it is a bulk: the send, publish, template and
\* object methods below the SDK's retries and its late answers.
THEOREM OkCorrect == Spec => []OkIsDone
<1>1. Shape /\ ClientsInv /\ DoneInv => OkIsDone
  BY SoundIsDone
<1> QED BY DoneInvariance, <1>1, PTL

-----------------------------------------------------------------------------
(* What is read *)

Writes == {"put_object", "delete_object"}
Reader(k) == Op(k) \in Streamed \cup {"get_object"}

\* What a bucket holds was there at first and no call has touched it, or it is
\* what a put_object meant to leave there.
Content(p) ==
  IF objects[p].by = 0
  THEN objects[p] = Stored[p] /\ \A j \in DOMAIN calls : Op(j) \in Writes => <<j, p>> \notin done
  ELSE /\ objects[p].by \in DOMAIN calls /\ Op(objects[p].by) = "put_object"
       /\ objects[p].kind = calls[objects[p].by].args.body /\ MeantPlace(objects[p].by) = p

TrueOf(k, c) ==
  IF c.by = 0
  THEN /\ c.kind = Stored[MeantPlace(k)].kind
       /\ \A j \in calls[k].before : Ok(j) /\ Op(j) \in Writes => MeantPlace(j) # MeantPlace(k)
  ELSE c.kind = calls[c.by].args.body /\ MeantPlace(c.by) = MeantPlace(k)

\* A reader may be given this: all of a body, of the kind asked for.
Handed(k, c) == Parses(Op(k), c.kind) /\ (Op(k) \in Streamed => c.got = "all")

\* All that a reader has of an answer is true; Ok means that there is something,
\* and that it may be given it.
ReadOk(k) ==
  /\ \A c \in calls[k].items : (c.by = 0 \/ c.by \in DOMAIN calls) /\ TrueOf(k, c)
  /\ calls[k].reply = "Ok" \/ Ok(k) => calls[k].items # {}
  /\ Ok(k) => \A c \in calls[k].items : Handed(k, c)

ReadsInv ==
  /\ \A p \in DOMAIN objects : Content(p)
  /\ \A k \in DOMAIN calls : Reader(k) => ReadOk(k)

\* What a reader has been given is what was written, and all of it.
LEMMA ReadsAreTrue == ReadsInv => ReadsTrue
<1> SUFFICES ASSUME ReadsInv, NEW k \in DOMAIN calls, Ok(k), Op(k) \in Streamed \cup {"get_object"}
             PROVE  \E c \in calls[k].items :
                      /\ Op(k) \in Streamed => c.got = "all"
                      /\ Parses(Op(k), c.kind)
                      /\ IF c.by = 0
                         THEN /\ c.kind = Stored[MeantPlace(k)].kind
                              /\ \A j \in calls[k].before :
                                   Ok(j) /\ Op(j) \in {"put_object", "delete_object"} => MeantPlace(j) # MeantPlace(k)
                         ELSE c.kind = calls[c.by].args.body /\ MeantPlace(c.by) = MeantPlace(k)
  BY DEF ReadsTrue
<1>1. ReadOk(k)
  BY DEF ReadsInv, Reader
<1>2. PICK c \in calls[k].items : Handed(k, c) /\ TrueOf(k, c)
  BY <1>1 DEF ReadOk
<1> QED BY <1>2 DEF Handed, TrueOf, Writes

\* What is true stays true: callers and what they asked do not change.
LEMMA TrueStays ==
  ASSUME Shape, ClientsInv, AllLast, NEW k \in DOMAIN calls, NEW c, c.by = 0 \/ c.by \in DOMAIN calls, TrueOf(k, c)
  PROVE  TrueOf(k, c)'
<1>1. ASSUME NEW j \in DOMAIN calls
      PROVE  Op(j)' = Op(j) /\ MeantPlace(j)' = MeantPlace(j) /\ calls'[j].args = calls[j].args
  BY MeaningStays DEF AllLast, Remains, Kept
<1>2. BeforeReturned /\ calls'[k].before = calls[k].before
  BY DEF ClientsInv, AllLast, Remains, Kept
<1>3. ASSUME NEW j \in calls[k].before PROVE j \in DOMAIN calls /\ Ok(j)' = Ok(j)
  BY <1>2, BeforeStays DEF Ok
<1> QED BY <1>1, <1>2, <1>3 DEF TrueOf

\* So do contents that a step leaves alone.
LEMMA ContentStays ==
  ASSUME Shape, AllLast, NEW p, Content(p), objects'[p] = objects[p],
         \A d \in done' : \/ d \in done \/ d[2] # p
                          \/ d[1] \in DOMAIN calls /\ Op(d[1]) \notin Writes
  PROVE  Content(p)'
<1>1. ASSUME NEW j \in DOMAIN calls
      PROVE  /\ j \in DOMAIN calls' /\ Op(j)' = Op(j) /\ MeantPlace(j)' = MeantPlace(j)
             /\ calls'[j].args = calls[j].args
  BY MeaningStays DEF AllLast, Remains, Kept
<1>2. \A d \in done : d[1] \in DOMAIN calls
  BY ShapeTyped
<1>3. CASE objects[p].by = 0
  <2>1. ASSUME NEW j \in DOMAIN calls', Op(j)' \in Writes PROVE <<j, p>> \notin done'
    <3> SUFFICES ASSUME <<j, p>> \in done' PROVE FALSE
      OBVIOUS
    <3> PICK d : d = <<j, p>>
      OBVIOUS
    <3>1. d \in done \/ (j \in DOMAIN calls /\ Op(j) \notin Writes)
      OBVIOUS
    <3>2. j \in DOMAIN calls
      BY <1>2, <3>1
    <3> QED BY <1>1, <1>3, <2>1, <3>1, <3>2 DEF Content
  <2> QED BY <1>3, <2>1 DEF Content
<1>4. CASE objects[p].by # 0
  BY <1>1, <1>4 DEF Content
<1> QED BY <1>3, <1>4

\* What a step makes of what a reader has: no other content, or what its place
\* holds.
OfThese(items, from) == \A c \in items : \E d \in from : c.by = d.by /\ c.kind = d.kind
ReadStep(k) ==
  /\ \/ OfThese(calls'[k].items, calls[k].items)
     \/ MeantPlace(k) \in DOMAIN objects /\ calls'[k].items = {objects[MeantPlace(k)]}
  /\ calls'[k].reply = "Ok" \/ calls'[k].status = "Ok" => calls'[k].items # {}
  /\ calls'[k].status = "Ok" => \A c \in calls'[k].items : Handed(k, c)

\* A step of a reader that goes as it should leaves it with what was written.
LEMMA ReaderStep ==
  ASSUME Shape, ClientsInv, DoneInv, ReadsInv, AllLast, NEW k \in DOMAIN calls, Reader(k), ReadStep(k)
  PROVE  ReadOk(k)'
<1>1. ASSUME NEW p \in DOMAIN objects, p = MeantPlace(k)
      PROVE  (objects[p].by = 0 \/ objects[p].by \in DOMAIN calls) /\ TrueOf(k, objects[p])
  <2>1. Content(p)
    BY DEF ReadsInv
  <2>2. ASSUME objects[p].by = 0, NEW j \in calls[k].before, Ok(j), Op(j) \in Writes PROVE MeantPlace(j) # p
    <3>1. j \in DOMAIN calls
      BY ShapeTyped DEF CallTyped
    <3>2. DoneFor(j, Wanted(j))
      BY <2>2, <3>1 DEF DoneInv, Sound
    <3>3. Wanted(j) = {MeantPlace(j)}
      BY <2>2 DEF Wanted, Writes
    <3> QED BY <2>1, <2>2, <3>1, <3>2, <3>3 DEF DoneFor, Content
  <2> QED BY <1>1, <2>1, <2>2 DEF Content, TrueOf
<1>2. \A c \in calls[k].items : (c.by = 0 \/ c.by \in DOMAIN calls) /\ TrueOf(k, c)
  BY DEF ReadsInv, ReadOk
<1>3. \A c \in calls'[k].items : (c.by = 0 \/ c.by \in DOMAIN calls) /\ TrueOf(k, c)
  <2>1. CASE OfThese(calls'[k].items, calls[k].items)
    BY <1>2, <2>1 DEF OfThese, TrueOf
  <2>2. CASE MeantPlace(k) \in DOMAIN objects /\ calls'[k].items = {objects[MeantPlace(k)]}
    BY <1>1, <2>2
  <2> QED BY <2>1, <2>2 DEF ReadStep
<1>4. ASSUME NEW c \in calls'[k].items PROVE (c.by = 0 \/ c.by \in DOMAIN calls') /\ TrueOf(k, c)'
  BY <1>3, TrueStays DEF AllLast, Remains
<1>5. Op(k)' = Op(k)
  BY DEF AllLast, Remains, Kept, Op
<1>6. \A c : Handed(k, c)' <=> Handed(k, c)
  BY <1>5 DEF Handed
<1> QED BY <1>4, <1>6 DEF ReadOk, ReadStep, Ok

\* A call whose answer does not change.
LEMMA SameReader ==
  ASSUME ReadsInv, NEW k \in DOMAIN calls, Reader(k), calls'[k].items = calls[k].items,
         calls'[k].reply \in {calls[k].reply, "none"}, calls'[k].status = "Ok" => calls[k].status = "Ok"
  PROVE  ReadStep(k)
BY DEF ReadsInv, ReadOk, ReadStep, OfThese, Ok

\* A step of one call, and what the buckets hold after it.
LEMMA OnlyReads ==
  ASSUME Shape, ClientsInv, DoneInv, ReadsInv, AllLast, NEW k \in DOMAIN calls, Only(k), Reader(k) => ReadStep(k)
  PROVE  \A j \in DOMAIN calls' : Reader(j)' => ReadOk(j)'
<1>1. ASSUME NEW j \in DOMAIN calls', Reader(j)' PROVE ReadOk(j)'
  <2>1. j \in DOMAIN calls /\ Reader(j)
    BY <1>1 DEF Only, Reader, AllLast, Remains, Kept, Op
  <2>2. j # k => calls'[j] = calls[j]
    BY <2>1 DEF Only
  <2>3. ReadStep(j)
    BY <2>1, <2>2, SameReader
  <2> QED BY <2>1, <2>3, ReaderStep
<1> QED BY <1>1

\* While nothing is put, objects are what they were.
LEMMA SameContents ==
  ASSUME Shape, ReadsInv, AllLast, UNCHANGED <<objects, done>>
  PROVE  \A p \in DOMAIN objects' : Content(p)'
BY ContentStays DEF ReadsInv

\* A new call has read nothing.
LEMMA BegunReads ==
  ASSUME Shape, ClientsInv, DoneInv, ReadsInv, NEW c, Begun(c)
  PROVE  ReadsInv'
<1>1. PICK n : n = Len(calls) + 1
  OBVIOUS
<1>2. /\ AllLast /\ DOMAIN calls' = DOMAIN calls \cup {n}
      /\ calls'[n] = c /\ \A k \in DOMAIN calls : calls'[k] = calls[k]
  BY <1>1, BegunShape, BegunLasts
<1>3. UNCHANGED <<objects, done>> /\ New(c)
  BY DEF Begun
<1>4. ASSUME NEW k \in DOMAIN calls, Reader(k)' PROVE ReadOk(k)'
  <2>1. Reader(k) /\ calls'[k] = calls[k]
    BY <1>2, <1>4 DEF Reader, Op
  <2>2. ReadStep(k)
    BY <2>1, SameReader
  <2> QED BY <1>2, <2>1, <2>2, ReaderStep
<1>5. Reader(n)' => ReadOk(n)'
  <2>1. c.items = {} /\ c.reply = "none" /\ (c.status = "Ok" => c.op = "get_addon")
    BY <1>3 DEF New
  <2>2. Reader(n)' => c.op # "get_addon"
    BY <1>2 DEF Reader, Op, Streamed
  <2> QED BY <1>2, <2>1, <2>2 DEF ReadOk, Ok
<1>6. \A p \in DOMAIN objects' : Content(p)'
  BY <1>2, <1>3, SameContents
<1> QED BY <1>2, <1>4, <1>5, <1>6 DEF ReadsInv

\* A call that is sent has read nothing either.
LEMMA GoReads ==
  ASSUME Shape, ClientsInv, DoneInv, ReadsInv, NEW k \in DOMAIN calls, go(k)
  PROVE  ReadsInv'
<1>1. AllLast
  BY GoShape
<1>2. calls[k].reply = "none"
  BY ShapeTyped DEF go, Asks, Formed
<1>3. CASE put_addon(k) /\ Op(k) = "put_addon" /\ UNCHANGED <<templates, objects, wire, done>>
  <2>1. Only(k) /\ ~Reader(k)
    BY <1>3, PutAddonStep DEF Reader, Streamed
  <2> QED BY <1>1, <1>3, <2>1, OnlyReads, SameContents DEF ReadsInv
<1>4. ASSUME NEW status \in {"running", "Ok", "refused"}, Started(k, status), status = "Ok" => Op(k) = "presign"
      PROVE  ReadsInv'
  <2>1. /\ Only(k) /\ calls'[k].status = status /\ calls'[k].reply = calls[k].reply
        /\ calls'[k].items = calls[k].items
    BY <1>4, StartedStep
  <2>2. Reader(k) => status # "Ok"
    BY <1>4 DEF Reader, Streamed
  <2>3. Reader(k) => ReadStep(k)
    BY <2>1, <2>2, SameReader
  <2>4. UNCHANGED <<objects, done>>
    BY <1>4 DEF Started
  <2> QED BY <1>1, <2>1, <2>3, <2>4, OnlyReads, SameContents DEF ReadsInv
<1> QED BY <1>3, <1>4 DEF go

\* A call goes on with what it was given, or with a part of it.
LEMMA GoesReads ==
  ASSUME Shape, ClientsInv, DoneInv, ReadsInv, NEW k \in DOMAIN calls, NEW status, NEW items, Goes(k, status, items),
         AllLast,
         Reader(k) => /\ OfThese(items, calls[k].items)
                      /\ status = "Ok" => items # {} /\ \A c \in items : Handed(k, c)
  PROVE  ReadsInv'
<1>1. /\ Only(k) /\ calls'[k].status = status /\ calls'[k].reply = "none"
      /\ calls'[k].items = (IF status = "refused" THEN {} ELSE items)
  BY GoesStep
<1>2. UNCHANGED <<objects, done>>
  BY DEF Goes
<1>3. Reader(k) => ReadStep(k)
  BY <1>1 DEF ReadStep, OfThese
<1> QED BY <1>1, <1>2, <1>3, OnlyReads, SameContents DEF ReadsInv

\* So it is for all that SDK and client do.
LEMMA SdkReads ==
  ASSUME Shape, ClientsInv, DoneInv, ReadsInv, NEW k \in DOMAIN calls, Sdk(k)
  PROVE  ReadsInv'
<1>1. AllLast
  BY SdkShape
<1>2. CASE hear(k)
  <2>1. PICK status : status = IF Op(k) \in Streamed /\ calls[k].reply = "Ok" THEN "reads" ELSE answer(k)
    OBVIOUS
  <2>2. PICK items : items = IF Op(k) = "list_images" THEN calls[k].items \cap Images ELSE calls[k].items
    OBVIOUS
  <2>3. Goes(k, status, items)
    BY <1>2, <2>1, <2>2 DEF hear
  <2>4. OfThese(items, calls[k].items)
    BY <2>2 DEF OfThese
  <2>5. ASSUME Reader(k), status = "Ok" PROVE items # {} /\ \A c \in items : Handed(k, c)
    <3>1. calls[k].reply = "Ok" /\ Op(k) \notin Streamed
      BY <2>1, <2>5 DEF answer
    <3>2. Op(k) = "get_object"
      BY <2>5, <3>1 DEF Reader
    <3>3. items = calls[k].items /\ items # {}
      BY <2>2, <2>5, <3>1, <3>2 DEF ReadsInv, ReadOk
    <3> QED BY <3>1, <3>2, <3>3 DEF Parses, Handed
  <2> QED BY <1>1, <2>3, <2>4, <2>5, GoesReads
<1>3. CASE collect(k)
  <2>1. PICK got \in {"all", "some"}, c \in calls[k].items :
          Goes(k, IF got = "all" /\ Parses(Op(k), c.kind) THEN "Ok" ELSE "refused", {Got(c, got)})
    BY <1>3 DEF collect
  <2>2. PICK status : status = IF got = "all" /\ Parses(Op(k), c.kind) THEN "Ok" ELSE "refused"
    OBVIOUS
  <2>3. PICK d : d = Got(c, got)
    OBVIOUS
  <2>4. d.by = c.by /\ d.kind = c.kind /\ d.got = got
    BY <2>3 DEF Got
  <2>5. Goes(k, status, {d}) /\ OfThese({d}, calls[k].items) /\ (status = "Ok" => Handed(k, d))
    BY <2>1, <2>2, <2>3, <2>4 DEF OfThese, Handed
  <2> QED BY <1>1, <2>5, GoesReads
<1>4. CASE retry(k)
  <2>1. /\ Only(k) /\ calls'[k].status = calls[k].status /\ calls'[k].reply = "none" /\ calls'[k].items = {}
        /\ calls[k].status = "running" /\ UNCHANGED <<objects, done>>
    BY <1>4, RetryStep DEF retry, Running
  <2>2. ReadStep(k)
    BY <2>1 DEF ReadStep, OfThese
  <2> QED BY <1>1, <2>1, <2>2, OnlyReads, SameContents DEF ReadsInv
<1>5. CASE give_up(k)
  <2>1. PICK status : status = "timed_out" /\ Goes(k, status, {})
    BY <1>5 DEF give_up
  <2> QED BY <1>1, <2>1, GoesReads DEF OfThese
<1> QED BY <1>2, <1>3, <1>4, <1>5 DEF Sdk

\* Only put_object and delete_object touch what the buckets hold.
LEMMA ServeObjects ==
  ASSUME NEW k, NEW attempt, serve(k, attempt)
  PROVE  \/ objects' = objects /\ \A d \in done' : d \in done \/ (d[1] = k /\ Op(k) \notin Writes)
         \/ /\ Did(k, {Place(k)}) /\ Op(k) \in Writes
            /\ \/ Op(k) = "put_object" /\ objects' = With(objects, Place(k), [by |-> k, kind |-> calls[k].args.body])
               \/ objects' = Restrict(objects, DOMAIN objects \ {Place(k)})
<1>1. ASSUME NEW targets, Did(k, targets), Op(k) \notin Writes
      PROVE  \A d \in done' : d \in done \/ (d[1] = k /\ Op(k) \notin Writes)
  BY <1>1, DidOnly
<1>2. CASE serve_send(k, attempt)
  BY <1>1, <1>2 DEF serve_send, Writes
<1>3. CASE serve_bulk(k, attempt)
  BY <1>1, <1>3 DEF serve_bulk, Writes
<1>4. CASE serve_template(k, attempt)
  BY <1>1, <1>4 DEF serve_template, Writes
<1>5. CASE serve_object(k, attempt)
  BY <1>5 DEF serve_object, Writes
<1>6. CASE serve_list(k, attempt) \/ serve_get(k, attempt) \/ turn_down(k, attempt)
  BY <1>6 DEF serve_list, serve_get, turn_down
<1> QED BY <1>2, <1>3, <1>4, <1>5, <1>6 DEF serve

\* They leave what they wrote, and only there.
LEMMA ServeContents ==
  ASSUME Shape, ClientsInv, ReadsInv, AllLast, NEW k \in DOMAIN calls, calls[k].client # NoClient,
         NEW attempt, serve(k, attempt)
  PROVE  \A p \in DOMAIN objects' : Content(p)'
<1>1. \A p \in DOMAIN objects : Content(p)
  BY DEF ReadsInv
<1>2. CASE objects' = objects /\ \A d \in done' : d \in done \/ (d[1] = k /\ Op(k) \notin Writes)
  BY <1>1, <1>2, ContentStays
<1>3. ASSUME Did(k, {Place(k)}), Op(k) \in Writes,
             \/ Op(k) = "put_object" /\ objects' = With(objects, Place(k), [by |-> k, kind |-> calls[k].args.body])
             \/ objects' = Restrict(objects, DOMAIN objects \ {Place(k)})
      PROVE  \A p \in DOMAIN objects' : Content(p)'
  <2>1. Place(k) = MeantPlace(k)
    BY <1>3, MeantPlaces DEF Writes, S3Ops
  <2>2. PICK place : place = Place(k)
    OBVIOUS
  <2>3. PICK c : c = [by |-> k, kind |-> calls[k].args.body]
    OBVIOUS
  <2>4. \A d \in done' : d \in done \/ d[2] = place
    BY <1>3, <2>2, DidOnly
  <2>5. ASSUME NEW p \in DOMAIN objects, p # place, objects'[p] = objects[p] PROVE Content(p)'
    BY <1>1, <2>4, <2>5, ContentStays
  <2>6. CASE Op(k) = "put_object" /\ objects' = With(objects, place, c)
    <3>1. /\ objects'[place] = c /\ DOMAIN objects' = DOMAIN objects \cup {place}
          /\ \A p \in DOMAIN objects : p # place => objects'[p] = objects[p]
      BY <2>6 DEF With
    <3>2. Content(place)'
      <4>1. c.by = k /\ c.kind = calls[k].args.body /\ k # 0
        BY <2>3, ShapeTyped
      <4>2. k \in DOMAIN calls' /\ Op(k)' = "put_object" /\ MeantPlace(k)' = place /\ calls'[k].args = calls[k].args
        BY <2>1, <2>2, <2>6, MeaningStays DEF AllLast, Remains, Kept
      <4>3. Content(place)' <=>
              IF k = 0 THEN Content(place)'
              ELSE k \in DOMAIN calls' /\ Op(k)' = "put_object" /\ c.kind = calls'[k].args.body /\ MeantPlace(k)' = place
        BY <3>1, <4>1 DEF Content, Op, MeantPlace, Meant, Name
      <4> QED BY <4>1, <4>2, <4>3
    <3> QED BY <2>5, <3>1, <3>2
  <2>7. CASE objects' = Restrict(objects, DOMAIN objects \ {place})
    <3>1. DOMAIN objects' = DOMAIN objects \ {place} /\ \A p \in DOMAIN objects' : objects'[p] = objects[p]
      BY <2>7, RestrictRange
    <3> QED BY <2>5, <3>1
  <2> QED BY <1>3, <2>2, <2>3, <2>6, <2>7
<1> QED BY <1>2, <1>3, ServeObjects

\* A reader is answered with what its place holds.
LEMMA ServeReads ==
  ASSUME Shape, ClientsInv, DoneInv, ReadsInv, NEW m \in wire, serve(m[1], m[2])
  PROVE  ReadsInv'
<1> PICK k : k = m[1]
  OBVIOUS
<1> PICK attempt : attempt = m[2]
  OBVIOUS
<1>1. k \in DOMAIN calls /\ serve(k, attempt)
  BY ShapeTyped
<1>2. AllLast /\ calls[k].client # NoClient
  BY <1>1, ServeShape DEF DoneInv, Sound, Unsent
<1>3. PICK reply, items, more :
        /\ Answered(k, attempt, reply, items, more)
        /\ Reader(k) => \/ Place(k) \in DOMAIN objects /\ items = {objects[Place(k)]}
                        \/ items = {} /\ reply = "refused"
  <2>1. CASE ~Reader(k)
    BY <1>1, <2>1 DEF serve, serve_send, serve_bulk, serve_template, serve_object, serve_list, serve_get, turn_down
  <2>2. CASE Reader(k)
    <3>1. ~serve_send(k, attempt) /\ ~serve_bulk(k, attempt) /\ ~serve_template(k, attempt)
      BY <2>2 DEF Reader, Streamed, serve_send, serve_bulk, serve_template
    <3>2. ~serve_object(k, attempt) /\ ~serve_list(k, attempt)
      BY <2>2 DEF Reader, Streamed, serve_object, serve_list, SesLists
    <3>3. CASE serve_get(k, attempt)
      <4>1. Place(k) \in DOMAIN objects /\ Answered(k, attempt, "Ok", {objects[Place(k)]}, FALSE)
        BY <2>2, <3>3 DEF serve_get, Reader, Streamed
      <4> QED BY <4>1
    <3>4. CASE turn_down(k, attempt)
      BY <3>4 DEF turn_down
    <3> QED BY <1>1, <3>1, <3>2, <3>3, <3>4 DEF serve
  <2> QED BY <2>1, <2>2
<1>4. /\ Only(k) /\ calls'[k].status = calls[k].status
      /\ IF calls[k].status = "running" /\ calls[k].attempt = attempt
         THEN calls'[k].reply = reply /\ calls'[k].items = items ELSE calls' = calls
  BY <1>1, <1>3, AnsweredStep
<1>5. Reader(k) => ReadStep(k)
  <2> SUFFICES ASSUME Reader(k) PROVE ReadStep(k)
    OBVIOUS
  <2>1. Place(k) = MeantPlace(k)
    BY <1>1, <1>2, MeantPlaces DEF Reader, S3Ops
  <2>2. CASE calls' = calls
    BY <1>1, <2>2, SameReader
  <2>3. CASE calls[k].status = "running" /\ calls'[k].reply = reply /\ calls'[k].items = items
    BY <1>3, <1>4, <2>1, <2>3 DEF ReadStep, OfThese
  <2> QED BY <1>4, <2>2, <2>3
<1>6. \A j \in DOMAIN calls' : Reader(j)' => ReadOk(j)'
  BY <1>1, <1>2, <1>4, <1>5, OnlyReads
<1>7. \A p \in DOMAIN objects' : Content(p)'
  BY <1>1, <1>2, ServeContents
<1> QED BY <1>6, <1>7 DEF ReadsInv

\* Every step keeps readers with what was written.
LEMMA ReadsStep == Shape /\ ClientsInv /\ DoneInv /\ ReadsInv /\ [Next]_vars => ReadsInv'
<1> SUFFICES ASSUME Shape, ClientsInv, DoneInv, ReadsInv, [Next]_vars PROVE ReadsInv'
  OBVIOUS
<1>1. CASE /\ Ask_of_others \/ Ask_of_ses \/ Ask_of_s3 \/ \E topic \in TopicArgs : publish(topic)
           /\ UNCHANGED <<templates, objects, wire, done>>
  BY <1>1, AllBegin, BegunReads
<1>2. ASSUME UNCHANGED <<calls, objects, done>> PROVE ReadsInv'
  <2>1. AllLast
    BY NextShape
  <2>2. ASSUME NEW k \in DOMAIN calls, Reader(k) PROVE ReadOk(k)'
    <3>1. ReadStep(k)
      BY <1>2, <2>2, SameReader
    <3> QED BY <2>1, <2>2, <3>1, ReaderStep
  <2>3. \A k \in DOMAIN calls' : Reader(k)' => ReadOk(k)'
    BY <1>2, <2>2 DEF Reader, Op
  <2> QED BY <1>2, <2>1, <2>3, SameContents DEF ReadsInv
<1>3. ASSUME NEW k \in DOMAIN calls, Step(k) PROVE ReadsInv'
  <2>1. CASE (begin(k) \/ end(k)) /\ UNCHANGED <<templates, objects, wire, done>>
    BY <1>2, <2>1 DEF begin, end
  <2> QED BY <1>3, <2>1, GoReads, SdkReads DEF Step, Own, Awaits
<1>4. CASE UNCHANGED vars
  BY <1>2, <1>4 DEF vars
<1> QED BY <1>1, <1>3, <1>4, ServeReads DEF Next, Steps

\* At first the buckets hold what is stored, and nobody has read it.
LEMMA InitReadsInv == Init => ReadsInv
BY StoredAssumption DEF Init, InitClients, ReadsInv, Content

\* What a call reads is what some call meant to leave there, whole and of the
\* kind asked for, or else what was there at first, and then nobody who came
\* before it has written or deleted it: get_object, get_bytes, get_string and
\* get_json, whichever puts and deletes are answered late or sent twice.
THEOREM ReadsCorrect == Spec => []ReadsTrue
<1>1. Init => Shape /\ ClientsInv /\ DoneInv /\ ReadsInv
  BY InitShape, InitClientsInv, InitDoneInv, InitReadsInv
<1>2. (Shape /\ ClientsInv /\ DoneInv /\ ReadsInv) /\ [Next]_vars => (Shape /\ ClientsInv /\ DoneInv /\ ReadsInv)'
  BY NextShape, ClientsStep, DoneStep, ReadsStep
<1>3. Shape /\ ClientsInv /\ DoneInv /\ ReadsInv => ReadsTrue
  BY ReadsAreTrue
<1> QED BY <1>1, <1>2, <1>3, PTL DEF Spec

-----------------------------------------------------------------------------
(* What is listed *)

Writers == {"create_template", "update_template"}
Undeleted(op, name) == \A j \in DOMAIN calls : Op(j) = op => Name(j) # name

\* The templates are those of the start and those that calls wrote; where
\* nobody deletes one of that name, it is there.
TemplatesKept ==
  /\ \A name \in DOMAIN templates :
       \/ templates[name] = 0 /\ name \in Templates
       \/ /\ templates[name] \in DOMAIN calls /\ Op(templates[name]) \in Writers
          /\ Name(templates[name]) = name
  /\ \A name \in Templates : Undeleted("delete_template", name) => name \in DOMAIN templates
  /\ \A j \in DOMAIN calls :
       /\ Op(j) \in Writers /\ ~Untouched(j) /\ Undeleted("delete_template", Name(j))
       => Name(j) \in DOMAIN templates

\* So it is with the objects.
ObjectsKept ==
  /\ \A p \in DOMAIN objects :
       IF objects[p].by = 0 THEN p \in DOMAIN Stored ELSE calls[objects[p].by].client # NoClient
  /\ \A p \in DOMAIN Stored : Undeleted("delete_object", p[2]) => p \in DOMAIN objects
  /\ \A j \in DOMAIN calls :
       /\ Op(j) = "put_object" /\ ~Untouched(j) /\ Undeleted("delete_object", Name(j))
       => MeantPlace(j) \in DOMAIN objects

\* A name that was to be listed from before the call began until now.
Bucket(k) == MeantPlace(k)[1]
Steady(k, name) ==
  \/ Op(k) = "list_contact_lists" /\ name \in ContactLists
  \/ Op(k) = "list_contacts" /\ Name(k) \in ContactLists /\ name \in Contacts
  \/ /\ Op(k) = "list_email_templates" /\ Undeleted("delete_template", name)
     /\ name \in Templates \/ \E j \in calls[k].before : Ok(j) /\ Op(j) \in Writers /\ Name(j) = name
  \/ /\ Op(k) = "list_images" /\ name \in Folders[Name(k)] /\ Undeleted("delete_object", name)
     /\ \/ <<Bucket(k), name>> \in DOMAIN Stored
        \/ \E j \in calls[k].before : Ok(j) /\ Op(j) = "put_object" /\ MeantPlace(j) = <<Bucket(k), name>>

\* The keys of its folder that calls with a client can have left there by now.
Seen(k) ==
  {key \in Folders[Name(k)] :
     \/ <<Bucket(k), key>> \in DOMAIN Stored
     \/ \E j \in DOMAIN calls :
          Op(j) = "put_object" /\ calls[j].client # NoClient /\ MeantPlace(j) = <<Bucket(k), key>>}
TooMany(k) == Cardinality(Seen(k)) > S3Page

\* A list of SES is whole unless there is more to come; one of S3 unless there
\* are more keys than fit into a page.
ListOk(k) ==
  /\ Op(k) \in SesLists =>
       \/ ~((calls[k].reply = "Ok" /\ ~calls[k].more) \/ Ok(k))
       \/ \A name : Steady(k, name) => name \in calls[k].items
  /\ Op(k) = "list_images" =>
       /\ calls[k].items \subseteq Folders[Name(k)]
       /\ Ok(k) => calls[k].client # NoClient /\ calls[k].items \subseteq Images
       /\ calls[k].reply = "Ok" => TooMany(k) \/ \A name : Steady(k, name) => name \in calls[k].items
       /\ Ok(k) => TooMany(k) \/ \A name \in Images : Steady(k, name) => name \in calls[k].items

ListsInv == TemplatesKept /\ ObjectsKept /\ \A k \in DOMAIN calls : ListOk(k)

\* What was asked, by whom and where to, does not change; nor what had returned
\* before.
LEMMA CallsStay ==
  ASSUME Shape, ClientsInv, AllLast, NEW k \in DOMAIN calls
  PROVE  /\ k \in DOMAIN calls' /\ Op(k)' = Op(k) /\ Name(k)' = Name(k)
         /\ MeantPlace(k)' = MeantPlace(k) /\ Bucket(k)' = Bucket(k)
         /\ calls[k].client # NoClient => calls'[k].client # NoClient
         /\ calls'[k].before = calls[k].before
         /\ \A j \in calls[k].before : j \in DOMAIN calls /\ Ok(j)' = Ok(j)
<1>1. BeforeReturned
  BY DEF ClientsInv
<1> QED BY <1>1, BeforeStays, MeaningStays DEF AllLast, Remains, Kept, Ok, Bucket

\* No call takes its deletion back.
LEMMA DeletedStays ==
  ASSUME Shape, ClientsInv, AllLast, NEW op, NEW name, Undeleted(op, name)'
  PROVE  Undeleted(op, name)
BY CallsStay DEF Undeleted

\* The longer, the fewer names were there all the time, and the more have been
\* there at some.
LEMMA SteadyStays ==
  ASSUME Shape, ClientsInv, AllLast, NEW k \in DOMAIN calls, NEW name, Steady(k, name)'
  PROVE  Steady(k, name)
<1>1. \A j \in calls[k].before : /\ Ok(j)' = Ok(j) /\ Op(j)' = Op(j) /\ Name(j)' = Name(j)
                                 /\ MeantPlace(j)' = MeantPlace(j)
  BY CallsStay
<1>2. /\ Op(k)' = Op(k) /\ Name(k)' = Name(k) /\ Bucket(k)' = Bucket(k)
      /\ calls'[k].before = calls[k].before
  BY CallsStay
<1>3. \A op : Undeleted(op, name)' => Undeleted(op, name)
  BY DeletedStays
<1> QED BY <1>1, <1>2, <1>3 DEF Steady

\* A folder has finitely many images.
LEMMA SeenFinite ==
  ASSUME Shape, NEW k \in DOMAIN calls, Op(k) = "list_images"
  PROVE  IsFiniteSet(Seen(k)) /\ Cardinality(Seen(k)) \in Nat
<1>1. Name(k) \in DOMAIN Folders
  BY ShapeTyped DEF Formed, Op, Name
<1>2. Seen(k) \subseteq Folders[Name(k)]
  BY DEF Seen
<1> QED BY <1>1, <1>2, PageAssumption, FS_Subset, FS_CardinalityType

\* A folder that had more than a page when the call began still has.
LEMMA SeenStays ==
  ASSUME Shape, ClientsInv, AllLast, Shape', NEW k \in DOMAIN calls, Op(k) = "list_images", TooMany(k)
  PROVE  TooMany(k)'
<1>1. PICK seen, later : seen = Seen(k) /\ later = Seen(k)'
  OBVIOUS
<1>2. k \in DOMAIN calls' /\ Op(k)' = Op(k) /\ Name(k)' = Name(k) /\ Bucket(k)' = Bucket(k)
  BY CallsStay
<1>3. seen \subseteq later
  BY <1>1, <1>2, CallsStay DEF Seen
<1>4. IsFiniteSet(later)
  <2>1. Name(k) \in DOMAIN Folders
    BY ShapeTyped DEF Formed, Op, Name
  <2>2. later \subseteq Folders[Name(k)]
    BY <1>1, <1>2 DEF Seen
  <2> QED BY <2>1, <2>2, PageAssumption, FS_Subset
<1>5. Cardinality(seen) <= Cardinality(later) /\ Cardinality(seen) \in Nat /\ Cardinality(later) \in Nat
  BY <1>3, <1>4, FS_Subset, FS_CardinalityType
<1> QED BY <1>1, <1>5, PageAssumption DEF TooMany

\* What a step makes of a list.
ListStep(k) ==
  /\ Op(k) \in SesLists =>
       \/ ~((calls'[k].reply = "Ok" /\ ~calls'[k].more) \/ calls'[k].status = "Ok")
       \/ \A name : Steady(k, name) => name \in calls'[k].items
  /\ Op(k) = "list_images" =>
       /\ calls'[k].items \subseteq Folders[Name(k)]
       /\ calls'[k].status = "Ok" => calls'[k].client # NoClient /\ calls'[k].items \subseteq Images
       /\ calls'[k].reply = "Ok" => TooMany(k) \/ \A name : Steady(k, name) => name \in calls'[k].items
       /\ calls'[k].status = "Ok" => TooMany(k) \/ \A name \in Images : Steady(k, name) => name \in calls'[k].items

\* A step of a call that lists, as it should go, keeps its list right.
LEMMA ListerStep ==
  ASSUME Shape, ClientsInv, AllLast, Shape', NEW k \in DOMAIN calls, ListStep(k)
  PROVE  ListOk(k)'
<1>1. Op(k)' = Op(k) /\ Name(k)' = Name(k) /\ (Ok(k)' <=> calls'[k].status = "Ok")
  BY CallsStay DEF Ok
<1>2. \A name : Steady(k, name)' => Steady(k, name)
  BY SteadyStays
<1>3. Op(k) = "list_images" /\ TooMany(k) => TooMany(k)'
  BY SeenStays
<1> QED BY <1>1, <1>2, <1>3 DEF ListStep, ListOk

\* A list that a step does not touch, or that is not answered yet.
LEMMA SameLister ==
  ASSUME NEW k, ListOk(k), calls'[k].items = calls[k].items, calls'[k].client = calls[k].client,
         calls'[k].reply \in {calls[k].reply, "none"}, calls'[k].more = calls[k].more,
         calls'[k].status = "Ok" => calls[k].status = "Ok"
  PROVE  ListStep(k)
BY DEF ListOk, ListStep, Ok

\* A call without an answer has no list to be wrong.
LEMMA Unanswered ==
  ASSUME NEW k, calls'[k].reply # "Ok", calls'[k].status # "Ok",
         Op(k) = "list_images" => calls'[k].items \subseteq Folders[Name(k)]
  PROVE  ListStep(k)
BY DEF ListStep

\* If one call makes such a step and no other moves, all lists stay right.
LEMMA OnlyLists ==
  ASSUME Shape, ClientsInv, ListsInv, AllLast, Shape', NEW k \in DOMAIN calls, Only(k), ListStep(k)
  PROVE  \A j \in DOMAIN calls' : ListOk(j)'
<1>1. ASSUME NEW j \in DOMAIN calls PROVE ListOk(j)'
  <2>1. CASE j = k
    BY <2>1, ListerStep
  <2>2. CASE j # k
    <3>1. calls'[j] = calls[j] /\ ListOk(j)
      BY <2>2 DEF Only, ListsInv
    <3>2. ListStep(j)
      BY <3>1, SameLister
    <3> QED BY <3>2, ListerStep
  <2> QED BY <2>1, <2>2
<1> QED BY <1>1 DEF Only

\* What a step makes of templates and objects: only deletions take one away,
\* and what is done leaves one.
Moves ==
  /\ \A name \in DOMAIN templates' :
       \/ name \in DOMAIN templates /\ templates'[name] = templates[name]
       \/ /\ templates'[name] \in DOMAIN calls /\ Op(templates'[name]) \in Writers
          /\ Name(templates'[name]) = name
  /\ \A name \in DOMAIN templates :
       name \in DOMAIN templates' \/ ~Undeleted("delete_template", name)
  /\ \A p \in DOMAIN objects' :
       \/ p \in DOMAIN objects /\ objects'[p] = objects[p]
       \/ objects'[p].by # 0 /\ objects'[p].by \in DOMAIN calls /\ calls[objects'[p].by].client # NoClient
  /\ \A p \in DOMAIN objects : p \in DOMAIN objects' \/ ~Undeleted("delete_object", p[2])
  /\ \A d \in done' :
       \/ d \in done
       \/ /\ d[1] \in DOMAIN calls
          /\ Op(d[1]) \in Writers => Name(d[1]) \in DOMAIN templates'
          /\ Op(d[1]) = "put_object" => MeantPlace(d[1]) \in DOMAIN objects'

\* What has been touched, in this step or before, was or is now there.
LEMMA Touches ==
  ASSUME Shape, ClientsInv, AllLast, Moves, NEW j \in DOMAIN calls', ~Untouched(j)'
  PROVE  /\ j \in DOMAIN calls
         /\ \/ ~Untouched(j)
            \/ /\ Op(j) \in Writers => Name(j) \in DOMAIN templates'
               /\ Op(j) = "put_object" => MeantPlace(j) \in DOMAIN objects'
<1>1. PICK d \in done' : d[1] = j
  BY DEF Untouched
<1>2. CASE d \in done
  BY <1>1, <1>2, ShapeTyped DEF Untouched
<1>3. CASE d \notin done
  BY <1>1, <1>3 DEF Moves
<1> QED BY <1>2, <1>3

\* What nobody deleted is still there.
LEMMA MovesKeep ==
  ASSUME Shape, ClientsInv, ListsInv, AllLast, Moves
  PROVE  TemplatesKept' /\ ObjectsKept'
<1>1. TemplatesKept /\ ObjectsKept
  BY DEF ListsInv
<1>2. \A op, name : Undeleted(op, name)' => Undeleted(op, name)
  BY DeletedStays
<1>3. TemplatesKept'
  <2>1. ASSUME NEW name \in DOMAIN templates'
        PROVE  \/ templates'[name] = 0 /\ name \in Templates
               \/ /\ templates'[name] \in DOMAIN calls' /\ Op(templates[name])' \in Writers
                  /\ Name(templates[name])' = name
    <3>1. CASE templates'[name] \in DOMAIN calls /\ Op(templates'[name]) \in Writers /\ Name(templates'[name]) = name
      <4>1. PICK j \in DOMAIN calls : j = templates'[name]
        BY <3>1
      <4>2. j \in DOMAIN calls' /\ calls'[j].op \in Writers /\ calls'[j].args.name = name
        BY <3>1, <4>1, CallsStay DEF Op, Name
      <4> QED BY <4>1, <4>2 DEF Op, Name
    <3> QED BY <1>1, <3>1 DEF Moves, TemplatesKept
  <2>2. ASSUME NEW name \in Templates, Undeleted("delete_template", name)' PROVE name \in DOMAIN templates'
    BY <1>1, <1>2, <2>2 DEF TemplatesKept, Moves
  <2>3. ASSUME NEW j \in DOMAIN calls', Op(j)' \in Writers, ~Untouched(j)', Undeleted("delete_template", Name(j))'
        PROVE  Name(j)' \in DOMAIN templates'
    <3>1. j \in DOMAIN calls
      BY <2>3, Touches
    <3>2. Op(j) \in Writers /\ Name(j)' = Name(j)
      BY <2>3, <3>1, CallsStay
    <3>3. Undeleted("delete_template", Name(j))
      BY <2>3, <3>2, CallsStay DEF Undeleted
    <3>4. CASE ~Untouched(j)
      BY <1>1, <3>1, <3>2, <3>3, <3>4 DEF TemplatesKept, Moves
    <3> QED BY <2>3, <3>2, <3>4, Touches
  <2> QED BY <2>1, <2>2, <2>3 DEF TemplatesKept
<1>4. ObjectsKept'
  <2>1. ASSUME NEW p \in DOMAIN objects'
        PROVE  IF objects'[p].by = 0 THEN p \in DOMAIN Stored ELSE calls'[objects'[p].by].client # NoClient
    <3>1. CASE p \in DOMAIN objects /\ objects'[p] = objects[p]
      <4>1. PICK by : by = objects[p].by
        OBVIOUS
      <4>2. by \in 0..Len(calls)
        BY <3>1, <4>1, ShapeTyped DEF Range
      <4>3. by # 0 => by \in DOMAIN calls /\ calls[by].client # NoClient
        BY <1>1, <3>1, <4>1, <4>2, ShapeTyped DEF ObjectsKept
      <4>4. by # 0 => calls'[by].client # NoClient
        BY <4>3, CallsStay
      <4> QED BY <1>1, <3>1, <4>1, <4>4 DEF ObjectsKept
    <3>2. CASE objects'[p].by # 0 /\ objects'[p].by \in DOMAIN calls /\ calls[objects'[p].by].client # NoClient
      BY <3>2, CallsStay
    <3> QED BY <3>1, <3>2 DEF Moves
  <2>2. ASSUME NEW p \in DOMAIN Stored, Undeleted("delete_object", p[2])' PROVE p \in DOMAIN objects'
    BY <1>1, <1>2, <2>2 DEF ObjectsKept, Moves
  <2>3. ASSUME NEW j \in DOMAIN calls', Op(j)' = "put_object", ~Untouched(j)', Undeleted("delete_object", Name(j))'
        PROVE  MeantPlace(j)' \in DOMAIN objects'
    <3>1. j \in DOMAIN calls
      BY <2>3, Touches
    <3>2. Op(j) = "put_object" /\ Name(j)' = Name(j) /\ MeantPlace(j)' = MeantPlace(j)
      BY <2>3, <3>1, CallsStay
    <3>3. Undeleted("delete_object", Name(j)) /\ MeantPlace(j)[2] = Name(j)
      BY <2>3, <3>2, CallsStay DEF Undeleted, MeantPlace, Meant
    <3>4. CASE ~Untouched(j)
      <4>1. MeantPlace(j) \in DOMAIN objects
        BY <1>1, <3>1, <3>2, <3>3, <3>4 DEF ObjectsKept
      <4> QED BY <3>2, <3>3, <4>1 DEF Moves
    <3> QED BY <2>3, <3>2, <3>4, Touches
  <2> QED BY <2>1, <2>2, <2>3 DEF ObjectsKept
<1> QED BY <1>3, <1>4

\* Where nothing is stored, sent or deleted nothing moves.
LEMMA NothingMoves ==
  ASSUME UNCHANGED <<templates, objects, done>>
  PROVE  Moves
BY DEF Moves

\* What is steady is listed, and what is listed was seen.
LEMMA SteadyListed ==
  ASSUME Shape, ClientsInv, DoneInv, ListsInv, NEW k \in DOMAIN calls, calls[k].client # NoClient,
         NEW name, Steady(k, name)
  PROVE  name \in Listed(k)
<1>1. ASSUME NEW j \in calls[k].before, Ok(j)
      PROVE  /\ j \in DOMAIN calls
             /\ Op(j) \in Writers \cup {"put_object"} => ~Untouched(j)
  <2>1. j \in DOMAIN calls
    BY ShapeTyped DEF CallTyped
  <2>2. DoneFor(j, Wanted(j))
    BY <1>1, <2>1 DEF DoneInv, Sound
  <2>3. Op(j) \in Writers => Wanted(j) = {<<"template", Name(j)>>}
    BY DEF Wanted, Writers
  <2>4. Op(j) = "put_object" => Wanted(j) = {MeantPlace(j)}
    BY DEF Wanted
  <2>5. ASSUME NEW target, Wanted(j) = {target} PROVE ~Untouched(j)
    <3>1. <<j, target>> \in done
      BY <2>2, <2>5 DEF DoneFor
    <3> QED BY <3>1 DEF Untouched
  <2> QED BY <2>1, <2>3, <2>4, <2>5
<1>2. CASE Op(k) = "list_contact_lists"
  BY <1>2 DEF Steady, Listed
<1>3. CASE Op(k) = "list_contacts"
  BY <1>3 DEF Steady, Listed
<1>4. CASE Op(k) = "list_email_templates"
  <2>1. /\ Undeleted("delete_template", name)
        /\ name \in Templates \/ \E j \in calls[k].before : Ok(j) /\ Op(j) \in Writers /\ Name(j) = name
    BY <1>4 DEF Steady
  <2>2. name \in DOMAIN templates
    BY <1>1, <2>1 DEF ListsInv, TemplatesKept
  <2> QED BY <1>4, <2>2 DEF Listed
<1>5. CASE Op(k) = "list_images"
  <2>1. PICK place : place = <<Bucket(k), name>>
    OBVIOUS
  <2>2. /\ name \in Folders[Name(k)] /\ Undeleted("delete_object", name)
        /\ place \in DOMAIN Stored \/ \E j \in calls[k].before : Ok(j) /\ Op(j) = "put_object" /\ MeantPlace(j) = place
    BY <1>5, <2>1 DEF Steady
  <2>3. place[2] = name /\ \A j : MeantPlace(j)[2] = Name(j)
    BY <2>1 DEF MeantPlace, Meant
  <2>4. place \in DOMAIN objects
    BY <1>1, <2>2, <2>3 DEF ListsInv, ObjectsKept
  <2>5. Place(k) = MeantPlace(k) /\ Place(k)[1] = In(k)
    BY <1>5, MeantPlaces DEF S3Ops, Place
  <2>6. place = <<In(k), name>>
    BY <2>1, <2>5 DEF Bucket
  <2> QED BY <1>5, <2>2, <2>4, <2>6 DEF Listed
<1> QED BY <1>2, <1>3, <1>4, <1>5 DEF Steady

\* A page of images is of images seen, in the folder that was asked for.
LEMMA ListedSeen ==
  ASSUME Shape, ClientsInv, ReadsInv, ListsInv, NEW k \in DOMAIN calls, calls[k].client # NoClient,
         Op(k) = "list_images"
  PROVE  Listed(k) \subseteq Seen(k) /\ Listed(k) \subseteq Folders[Name(k)]
<1>1. Listed(k) = {key \in Folders[Name(k)] : <<In(k), key>> \in DOMAIN objects}
  BY DEF Listed
<1>2. Place(k) = MeantPlace(k) /\ Place(k)[1] = In(k)
  BY MeantPlaces DEF S3Ops, Place
<1>3. ASSUME NEW key \in Folders[Name(k)], <<In(k), key>> \in DOMAIN objects PROVE key \in Seen(k)
  <2>1. PICK place \in DOMAIN objects : place = <<Bucket(k), key>>
    BY <1>2, <1>3 DEF Bucket
  <2>2. Content(place)
    BY DEF ReadsInv
  <2>3. IF objects[place].by = 0 THEN place \in DOMAIN Stored ELSE calls[objects[place].by].client # NoClient
    BY DEF ListsInv, ObjectsKept
  <2> QED BY <1>3, <2>1, <2>2, <2>3 DEF Seen, Content
<1> QED BY <1>1, <1>3

\* A page is the list, or as long as a page may be; then, where a name is left
\* out, there are too many.
LEMMA PageOrTooMany ==
  ASSUME Shape, ClientsInv, DoneInv, ReadsInv, ListsInv, NEW k \in DOMAIN calls, calls[k].client # NoClient,
         Op(k) = "list_images", NEW page \in SUBSET Listed(k), page = Listed(k) \/ Cardinality(page) = S3Page
  PROVE  TooMany(k) \/ \A name : Steady(k, name) => name \in page
<1>1. CASE page = Listed(k)
  BY <1>1, SteadyListed
<1>2. CASE Cardinality(page) = S3Page
  <2> SUFFICES ASSUME NEW name, Steady(k, name), name \notin page PROVE TooMany(k)
    OBVIOUS
  <2>1. name \in Listed(k)
    BY SteadyListed
  <2>2. PICK seen : seen = Seen(k)
    OBVIOUS
  <2>3. page \cup {name} \subseteq seen /\ IsFiniteSet(seen)
    BY <2>1, <2>2, ListedSeen, SeenFinite
  <2>4. IsFiniteSet(page)
    BY <2>3, FS_Subset
  <2>5. Cardinality(page \cup {name}) = Cardinality(page) + 1
    BY <2>4, FS_AddElement
  <2>6. Cardinality(page \cup {name}) <= Cardinality(seen) /\ Cardinality(seen) \in Nat
    BY <2>3, FS_Subset, FS_CardinalityType
  <2> QED BY <1>2, <2>2, <2>5, <2>6, PageAssumption DEF TooMany
<1> QED BY <1>1, <1>2

\* What the services do to templates and objects.
LEMMA ServeMoves ==
  ASSUME Shape, NEW k \in DOMAIN calls, calls[k].client # NoClient, ClientsInv, NEW attempt, serve(k, attempt)
  PROVE  Moves
<1>1. ASSUME NEW targets, Did(k, targets)
      PROVE  \A d \in done' : d \in done \/ d[1] = k
  BY <1>1, DidOnly
<1>2. CASE serve_send(k, attempt) \/ serve_bulk(k, attempt)
  <2>1. /\ UNCHANGED <<templates, objects>> /\ Op(k) \in {"send", "publish", "bulk"}
        /\ \E targets : Did(k, targets)
    BY <1>2 DEF serve_send, serve_bulk
  <2> QED BY <1>1, <2>1 DEF Moves, Writers
<1>3. CASE serve_template(k, attempt)
  <2>1. objects' = objects /\ \A d \in done' : d \in done \/ d[1] = k
    BY <1>1, <1>3 DEF serve_template
  <2>2. PICK name : name = Name(k)
    OBVIOUS
  <2>3. CASE /\ Op(k) \in Writers /\ DOMAIN templates' = DOMAIN templates \cup {name} /\ templates'[name] = k
             /\ \A other \in DOMAIN templates : other # name => templates'[other] = templates[other]
    BY <2>1, <2>2, <2>3 DEF Moves, Writers
  <2>4. CASE Op(k) = "delete_template" /\ templates' = Restrict(templates, DOMAIN templates \ {name})
    <3>1. DOMAIN templates' = DOMAIN templates \ {name} /\ \A other \in DOMAIN templates' : templates'[other] = templates[other]
      BY <2>4, RestrictRange
    <3>2. ~Undeleted("delete_template", name)
      BY <2>2, <2>4 DEF Undeleted
    <3> QED BY <2>1, <2>4, <3>1, <3>2 DEF Moves, Writers
  <2>5. Op(k) = "create_template" /\ templates' = With(templates, name, k) =>
          /\ DOMAIN templates' = DOMAIN templates \cup {name} /\ templates'[name] = k
          /\ \A other \in DOMAIN templates : other # name => templates'[other] = templates[other]
    BY DEF With
  <2>6. name \in DOMAIN templates /\ templates' = [templates EXCEPT ![name] = k] =>
          /\ DOMAIN templates' = DOMAIN templates \cup {name} /\ templates'[name] = k
          /\ \A other \in DOMAIN templates : other # name => templates'[other] = templates[other]
    OBVIOUS
  <2> QED BY <1>3, <2>2, <2>3, <2>4, <2>5, <2>6 DEF serve_template, Writers
<1>4. CASE serve_object(k, attempt)
  <2>1. /\ templates' = templates /\ \A d \in done' : d \in done \/ d[1] = k
        /\ Op(k) \in {"put_object", "delete_object"}
    BY <1>1, <1>4 DEF serve_object
  <2>2. PICK place : place = Place(k)
    OBVIOUS
  <2>3. place = MeantPlace(k) /\ place[2] = Name(k)
    BY <2>1, <2>2, MeantPlaces DEF S3Ops, Place
  <2>4. PICK c : c = [by |-> k, kind |-> calls[k].args.body]
    OBVIOUS
  <2>5. CASE Op(k) = "put_object" /\ objects' = With(objects, place, c)
    <3>1. /\ DOMAIN objects' = DOMAIN objects \cup {place} /\ objects'[place] = c
          /\ \A other \in DOMAIN objects : other # place => objects'[other] = objects[other]
      BY <2>5 DEF With
    <3>2. c.by = k /\ k # 0
      BY <2>4, ShapeTyped
    <3> QED BY <2>1, <2>3, <2>5, <3>1, <3>2 DEF Moves, Writers
  <2>6. CASE Op(k) = "delete_object" /\ objects' = Restrict(objects, DOMAIN objects \ {place})
    <3>1. DOMAIN objects' = DOMAIN objects \ {place} /\ \A other \in DOMAIN objects' : objects'[other] = objects[other]
      BY <2>6, RestrictRange
    <3>2. ~Undeleted("delete_object", place[2])
      BY <2>3, <2>6 DEF Undeleted
    <3> QED BY <2>1, <2>6, <3>1, <3>2 DEF Moves, Writers
  <2> QED BY <1>4, <2>2, <2>4, <2>5, <2>6 DEF serve_object
<1>5. CASE serve_list(k, attempt) \/ serve_get(k, attempt) \/ turn_down(k, attempt)
  BY <1>5, NothingMoves DEF serve_list, serve_get, turn_down
<1> QED BY <1>2, <1>3, <1>4, <1>5 DEF serve

\* A call that lists nothing has no list to be wrong.
LEMMA NoList ==
  ASSUME NEW k, Op(k) \notin SesLists \cup {"list_images"}
  PROVE  ListStep(k)
BY DEF ListStep

\* A new call has no list.
LEMMA BegunLists ==
  ASSUME Shape, ClientsInv, ListsInv, NEW c, Begun(c)
  PROVE  ListsInv'
<1>1. PICK n : n = Len(calls) + 1
  OBVIOUS
<1>2. /\ Shape' /\ AllLast /\ DOMAIN calls' = DOMAIN calls \cup {n}
      /\ calls'[n] = c /\ \A k \in DOMAIN calls : calls'[k] = calls[k]
  BY <1>1, BegunShape, BegunLasts
<1>3. UNCHANGED <<templates, objects, done>> /\ New(c)
  BY DEF Begun
<1>4. ASSUME NEW k \in DOMAIN calls PROVE ListOk(k)'
  <2>1. ListOk(k) /\ calls'[k] = calls[k]
    BY <1>2 DEF ListsInv
  <2>2. ListStep(k)
    BY <2>1, SameLister
  <2> QED BY <1>2, <2>2, ListerStep
<1>5. ListOk(n)'
  <2>1. c.items = {} /\ c.reply = "none" /\ (c.status = "Ok" => c.op = "get_addon")
    BY <1>3 DEF New
  <2>2. Op(n)' = c.op /\ (Ok(n)' <=> c.status = "Ok")
    BY <1>2 DEF Op, Ok
  <2>3. "get_addon" \notin SesLists \cup {"list_images"}
    BY DEF SesLists
  <2> QED BY <1>2, <2>1, <2>2, <2>3 DEF ListOk
<1>6. TemplatesKept' /\ ObjectsKept'
  BY <1>2, <1>3, NothingMoves, MovesKeep
<1> QED BY <1>2, <1>4, <1>5, <1>6 DEF ListsInv

\* A step of one call that leaves the services alone.
LEMMA AloneLists ==
  ASSUME Shape, ClientsInv, ListsInv, AllLast, Shape', NEW k \in DOMAIN calls, Only(k), ListStep(k),
         UNCHANGED <<templates, objects, done>>
  PROVE  ListsInv'
BY NothingMoves, MovesKeep, OnlyLists DEF ListsInv

\* A call that is sent has none either.
LEMMA GoLists ==
  ASSUME Shape, ClientsInv, ListsInv, NEW k \in DOMAIN calls, go(k)
  PROVE  ListsInv'
<1>1. Shape' /\ AllLast
  BY GoShape
<1>2. calls[k].reply = "none" /\ ListOk(k)
  BY ShapeTyped DEF go, Asks, Formed, ListsInv
<1>3. CASE put_addon(k) /\ Op(k) = "put_addon" /\ UNCHANGED <<templates, objects, wire, done>>
  <2>1. Only(k) /\ Op(k) \notin SesLists \cup {"list_images"}
    BY <1>3, PutAddonStep DEF SesLists
  <2> QED BY <1>1, <1>3, <2>1, NoList, AloneLists
<1>4. ASSUME NEW status \in {"running", "Ok", "refused"}, Started(k, status), status = "Ok" => Op(k) = "presign"
      PROVE  ListsInv'
  <2>1. /\ Only(k) /\ calls'[k].status = status /\ calls'[k].reply = calls[k].reply
        /\ calls'[k].items = calls[k].items
    BY <1>4, StartedStep
  <2>2. "presign" \notin SesLists \cup {"list_images"}
    BY DEF SesLists
  <2>3. ListStep(k)
    <3>1. CASE status = "Ok"
      BY <1>4, <2>2, <3>1, NoList
    <3>2. CASE status # "Ok"
      BY <1>2, <2>1, <3>2, Unanswered DEF ListOk
    <3> QED BY <3>1, <3>2
  <2>4. UNCHANGED <<templates, objects, done>>
    BY <1>4 DEF Started
  <2> QED BY <1>1, <2>1, <2>3, <2>4, AloneLists
<1> QED BY <1>3, <1>4 DEF go

\* SDK and client keep the lists right.
LEMMA SdkLists ==
  ASSUME Shape, ClientsInv, DoneInv, ListsInv, NEW k \in DOMAIN calls, Sdk(k)
  PROVE  ListsInv'
<1>1. Shape' /\ AllLast
  BY SdkShape
<1>2. ListOk(k)
  BY DEF ListsInv
<1>3. ASSUME NEW status, NEW items, Goes(k, status, items),
             Op(k) = "list_images" => items \subseteq Folders[Name(k)],
             status # "Ok" \/ Op(k) \notin SesLists \cup {"list_images"}
      PROVE  ListsInv'
  <2>1. /\ Only(k) /\ calls'[k].status = status /\ calls'[k].reply = "none"
        /\ calls'[k].items = (IF status = "refused" THEN {} ELSE items)
    BY <1>3, GoesStep
  <2>2. ListStep(k)
    BY <1>3, <2>1, NoList, Unanswered
  <2>3. UNCHANGED <<templates, objects, done>>
    BY <1>3 DEF Goes
  <2> QED BY <1>1, <2>1, <2>2, <2>3, AloneLists
<1>4. CASE hear(k)
  <2>1. PICK status : status = IF Op(k) \in Streamed /\ calls[k].reply = "Ok" THEN "reads" ELSE answer(k)
    OBVIOUS
  <2>2. PICK items : items = IF Op(k) = "list_images" THEN calls[k].items \cap Images ELSE calls[k].items
    OBVIOUS
  <2>3. Goes(k, status, items)
    BY <1>4, <2>1, <2>2 DEF hear
  <2>4. Op(k) = "list_images" => items \subseteq Folders[Name(k)] /\ items \subseteq Images
    BY <1>2, <2>2 DEF ListOk
  <2>5. CASE status # "Ok" \/ Op(k) \notin SesLists \cup {"list_images"}
    BY <1>3, <2>3, <2>4, <2>5
  <2>6. CASE status = "Ok" /\ Op(k) \in SesLists \cup {"list_images"}
    <3>1. calls[k].reply = "Ok" /\ (Op(k) \in SesLists => ~calls[k].more)
      BY <2>1, <2>6 DEF answer
    <3>2. /\ Only(k) /\ calls'[k].status = "Ok" /\ calls'[k].reply = "none" /\ calls'[k].items = items
          /\ calls'[k].client = calls[k].client
      BY <2>3, <2>6, GoesStep
    <3>3. calls[k].client # NoClient
      BY <1>4, ShapeTyped DEF hear, Running, CallTyped
    <3>4. Op(k) \in SesLists => Op(k) # "list_images"
      BY DEF SesLists
    <3>5. CASE Op(k) \in SesLists
      <4>1. \A name : Steady(k, name) => name \in calls[k].items
        BY <1>2, <3>1, <3>5 DEF ListOk
      <4> QED BY <1>1, <2>2, <2>3, <3>2, <3>4, <3>5, <4>1, AloneLists DEF ListStep, Goes
    <3>6. CASE Op(k) = "list_images"
      <4>1. TooMany(k) \/ \A name : Steady(k, name) => name \in calls[k].items
        BY <1>2, <3>1, <3>6 DEF ListOk
      <4>2. TooMany(k) \/ \A name \in Images : Steady(k, name) => name \in items
        BY <2>2, <3>6, <4>1
      <4>3. ListStep(k)
        BY <2>4, <3>2, <3>3, <3>4, <3>6, <4>2 DEF ListStep
      <4>4. UNCHANGED <<templates, objects, done>>
        BY <2>3 DEF Goes
      <4> QED BY <1>1, <3>2, <4>3, <4>4, AloneLists
    <3> QED BY <2>6, <3>5, <3>6
  <2> QED BY <2>5, <2>6
<1>5. CASE collect(k)
  <2>1. PICK got \in {"all", "some"}, c \in calls[k].items :
          Goes(k, IF got = "all" /\ Parses(Op(k), c.kind) THEN "Ok" ELSE "refused", {Got(c, got)})
    BY <1>5 DEF collect
  <2>2. Op(k) \in Streamed
    BY <1>5 DEF collect, DoneInv, Sound
  <2>3. Op(k) \notin SesLists \cup {"list_images"}
    BY <2>2 DEF Streamed, SesLists
  <2> QED BY <1>3, <2>1, <2>3
<1>6. CASE retry(k)
  <2>1. /\ Only(k) /\ calls'[k].status = calls[k].status /\ calls'[k].reply = "none" /\ calls'[k].items = {}
        /\ calls[k].status = "running" /\ UNCHANGED <<templates, objects, done>>
    BY <1>6, RetryStep DEF retry, Running
  <2>2. ListStep(k)
    BY <2>1, Unanswered
  <2> QED BY <1>1, <2>1, <2>2, AloneLists
<1>7. CASE give_up(k)
  <2>1. PICK status, items : status = "timed_out" /\ items = {} /\ Goes(k, status, items)
    BY <1>7 DEF give_up
  <2> QED BY <1>3, <2>1
<1> QED BY <1>4, <1>5, <1>6, <1>7 DEF Sdk

\* A list is answered with a page.
LEMMA ServeLists ==
  ASSUME Shape, ClientsInv, DoneInv, ReadsInv, ListsInv, NEW m \in wire, serve(m[1], m[2])
  PROVE  ListsInv'
<1> PICK k : k = m[1]
  OBVIOUS
<1> PICK attempt : attempt = m[2]
  OBVIOUS
<1>1. k \in DOMAIN calls /\ serve(k, attempt)
  BY ShapeTyped
<1>2. AllLast /\ Shape' /\ calls[k].client # NoClient /\ ListOk(k)
  BY <1>1, ServeShape DEF DoneInv, Sound, Unsent, ListsInv
<1>3. TemplatesKept' /\ ObjectsKept'
  BY <1>1, <1>2, ServeMoves, MovesKeep
<1>4. ASSUME NEW reply, NEW items, NEW more, Answered(k, attempt, reply, items, more),
             Op(k) = "list_images" => items \subseteq Folders[Name(k)],
             Op(k) = "list_images" /\ reply = "Ok" => TooMany(k) \/ \A name : Steady(k, name) => name \in items,
             Op(k) \in SesLists /\ reply = "Ok" /\ ~more => \A name : Steady(k, name) => name \in items
      PROVE  ListsInv'
  <2>1. /\ Only(k) /\ calls'[k].status = calls[k].status
        /\ IF calls[k].status = "running" /\ calls[k].attempt = attempt
           THEN calls'[k].reply = reply /\ calls'[k].items = items /\ calls'[k].more = more
           ELSE calls' = calls
    BY <1>1, <1>4, AnsweredStep
  <2>2. CASE calls' = calls
    <3>1. ListStep(k)
      BY <1>2, <2>2, SameLister
    <3> QED BY <1>1, <1>2, <1>3, <2>1, <3>1, OnlyLists DEF ListsInv
  <2>3. CASE /\ calls[k].status = "running" /\ calls'[k].reply = reply /\ calls'[k].items = items
             /\ calls'[k].more = more
    <3>1. ListStep(k)
      BY <1>4, <2>1, <2>3 DEF ListStep
    <3> QED BY <1>1, <1>2, <1>3, <2>1, <3>1, OnlyLists DEF ListsInv
  <2> QED BY <2>1, <2>2, <2>3
<1>5. CASE Op(k) \notin SesLists \cup {"list_images"}
  <2>1. \E reply, items, more : Answered(k, attempt, reply, items, more)
    BY <1>1 DEF serve, serve_send, serve_bulk, serve_template, serve_object, serve_list, serve_get, turn_down
  <2> QED BY <1>4, <1>5, <2>1
<1>6. CASE Op(k) \in SesLists \cup {"list_images"}
  <2>1. ~serve_send(k, attempt) /\ ~serve_bulk(k, attempt) /\ ~serve_template(k, attempt)
    BY <1>6 DEF SesLists, serve_send, serve_bulk, serve_template
  <2>2. ~serve_object(k, attempt) /\ ~serve_get(k, attempt)
    BY <1>6 DEF SesLists, serve_object, serve_get, Streamed
  <2>3. CASE turn_down(k, attempt)
    <3>1. PICK reply, items, more :
            reply = "refused" /\ items = {} /\ Answered(k, attempt, reply, items, more)
      BY <2>3 DEF turn_down
    <3> QED BY <1>4, <3>1
  <2>4. CASE serve_list(k, attempt)
    <3>1. CASE Answered(k, attempt, "absent", {}, FALSE)
      <4>1. PICK reply, items, more :
              reply = "absent" /\ items = {} /\ Answered(k, attempt, reply, items, more)
        BY <3>1
      <4> QED BY <1>4, <4>1
    <3>2. ASSUME NEW page \in SUBSET Listed(k), page = Listed(k) \/ Cardinality(page) = PageSize(Op(k)),
                 Answered(k, attempt, "Ok", page, page # Listed(k))
          PROVE  ListsInv'
      <4>1. CASE Op(k) = "list_images"
        <5>1. TooMany(k) \/ \A name : Steady(k, name) => name \in page
          <6>1. page = Listed(k) \/ Cardinality(page) = S3Page
            BY <3>2, <4>1 DEF PageSize
          <6> QED BY <1>1, <1>2, <4>1, <6>1, PageOrTooMany
        <5>2. page \subseteq Folders[Name(k)] /\ Op(k) \notin SesLists
          BY <1>1, <1>2, <4>1, ListedSeen DEF SesLists
        <5>3. PICK more : Answered(k, attempt, "Ok", page, more)
          BY <3>2
        <5> QED BY <1>4, <5>1, <5>2, <5>3
      <4>2. CASE Op(k) # "list_images"
        <5>1. PICK more : (more <=> page # Listed(k)) /\ Answered(k, attempt, "Ok", page, more)
          BY <3>2
        <5>2. ~more => \A name : Steady(k, name) => name \in page
          BY <1>1, <1>2, <5>1, SteadyListed
        <5> QED BY <1>4, <4>2, <5>1, <5>2
      <4> QED BY <4>1, <4>2
    <3> QED BY <2>4, <3>1, <3>2 DEF serve_list
  <2> QED BY <1>1, <2>1, <2>2, <2>3, <2>4 DEF serve
<1> QED BY <1>5, <1>6

\* Every step keeps the lists right.
LEMMA ListsStep == Shape /\ ClientsInv /\ DoneInv /\ ReadsInv /\ ListsInv /\ [Next]_vars => ListsInv'
<1> SUFFICES ASSUME Shape, ClientsInv, DoneInv, ReadsInv, ListsInv, [Next]_vars PROVE ListsInv'
  OBVIOUS
<1>1. CASE /\ Ask_of_others \/ Ask_of_ses \/ Ask_of_s3 \/ \E topic \in TopicArgs : publish(topic)
           /\ UNCHANGED <<templates, objects, wire, done>>
  BY <1>1, AllBegin, BegunLists
<1>2. ASSUME UNCHANGED <<calls, templates, objects, done>> PROVE ListsInv'
  <2>1. Shape' /\ AllLast
    BY NextShape
  <2>2. ASSUME NEW k \in DOMAIN calls PROVE ListOk(k)'
    <3>1. ListOk(k)
      BY DEF ListsInv
    <3>2. ListStep(k)
      BY <1>2, <3>1, SameLister
    <3> QED BY <2>1, <3>2, ListerStep
  <2> QED BY <1>2, <2>1, <2>2, NothingMoves, MovesKeep DEF ListsInv
<1>3. ASSUME NEW k \in DOMAIN calls, Step(k) PROVE ListsInv'
  <2>1. CASE (begin(k) \/ end(k)) /\ UNCHANGED <<templates, objects, wire, done>>
    BY <1>2, <2>1 DEF begin, end
  <2> QED BY <1>3, <2>1, GoLists, SdkLists DEF Step, Own, Awaits
<1>4. CASE UNCHANGED vars
  BY <1>2, <1>4 DEF vars
<1> QED BY <1>1, <1>3, <1>4, ServeLists DEF Next, Steps

\* Nothing is listed, nothing is missing.
LEMMA InitListsInv == Init => ListsInv
BY StoredAssumption DEF Init, InitClients, ListsInv, TemplatesKept, ObjectsKept

\* What the invariant says of a list is what the property asks for.
LEMMA ListsAreWhole ==
  ASSUME Shape, ClientsInv, DoneInv, ReadsInv, ListsInv
  PROVE  ListsWhole
<1> SUFFICES ASSUME NEW k \in DOMAIN calls, Ok(k)
             PROVE  /\ Op(k) \in SesLists => Lasting(k) \subseteq calls[k].items
                    /\ Op(k) = "list_images" =>
                         /\ calls[k].items \subseteq Images \cap Folders[Name(k)]
                         /\ Cardinality(Ever(k)) <= S3Page => Lasting(k) \cap Images \subseteq calls[k].items
  BY DEF ListsWhole
<1>1. ListOk(k)
  BY DEF ListsInv
<1>2. ASSUME Op(k) \in SesLists, NEW name \in Lasting(k) PROVE Steady(k, name)
  <2>1. CASE Op(k) = "list_email_templates"
    <3>1. /\ name \in DOMAIN templates /\ templates[name] \in {0} \cup {j \in calls[k].before : Ok(j)}
          /\ \A j \in DOMAIN calls : Op(j) = "delete_template" => Name(j) # name
      BY <1>2, <2>1 DEF Lasting
    <3>2. 0 \notin DOMAIN calls
      BY ShapeTyped
    <3>3. \/ name \in Templates
          \/ \E j \in calls[k].before : Ok(j) /\ Op(j) \in Writers /\ Name(j) = name
      BY <3>1, <3>2 DEF ListsInv, TemplatesKept
    <3> QED BY <2>1, <3>1, <3>3 DEF Steady, Undeleted
  <2>2. CASE Op(k) \in {"list_contact_lists", "list_contacts"}
    <3>1. name \in Listed(k)
      BY <1>2, <2>2 DEF Lasting
    <3> QED BY <2>2, <3>1 DEF Steady, Listed
  <2> QED BY <1>2, <2>1, <2>2 DEF SesLists
<1>3. ASSUME Op(k) = "list_images"
      PROVE  /\ calls[k].items \subseteq Images \cap Folders[Name(k)]
             /\ Cardinality(Ever(k)) <= S3Page => Lasting(k) \cap Images \subseteq calls[k].items
  <2>1. /\ calls[k].client # NoClient /\ calls[k].items \subseteq Images /\ calls[k].items \subseteq Folders[Name(k)]
        /\ TooMany(k) \/ \A name \in Images : Steady(k, name) => name \in calls[k].items
    BY <1>1, <1>3 DEF ListOk
  <2>2. Place(k) = MeantPlace(k) /\ Place(k)[1] = In(k) /\ In(k) = Bucket(k)
    BY <1>3, <2>1, MeantPlaces DEF S3Ops, Place, Bucket
  <2>3. ASSUME NEW name \in Lasting(k) PROVE Steady(k, name)
    <3>1. PICK place : place = <<Bucket(k), name>>
      OBVIOUS
    <3>2. name \in Listed(k)
      BY <1>3 DEF Lasting
    <3>3. name \in Folders[Name(k)] /\ place \in DOMAIN objects
      BY <1>3, <2>2, <3>1, <3>2 DEF Listed
    <3>4. /\ objects[place].by \in {0} \cup {j \in calls[k].before : Ok(j)}
          /\ Undeleted("delete_object", name)
      BY <1>3, <2>2, <3>1 DEF Lasting, Undeleted
    <3>5. Content(place) /\ (objects[place].by = 0 => place \in DOMAIN Stored)
      BY <3>3 DEF ReadsInv, ListsInv, ObjectsKept
    <3>6. \/ place \in DOMAIN Stored
          \/ \E j \in calls[k].before : Ok(j) /\ Op(j) = "put_object" /\ MeantPlace(j) = place
      BY <3>4, <3>5 DEF Content
    <3> QED BY <1>3, <3>1, <3>3, <3>4, <3>6 DEF Steady
  <2>4. ASSUME Cardinality(Ever(k)) <= S3Page PROVE ~TooMany(k)
    <3>1. PICK seen, ever : seen = Seen(k) /\ ever = Ever(k)
      OBVIOUS
    <3>2. seen \subseteq ever
      <4>1. ASSUME NEW key \in Folders[Name(k)], NEW j \in DOMAIN calls, Op(j) = "put_object",
                   calls[j].client # NoClient, MeantPlace(j) = <<Bucket(k), key>>
            PROVE  Place(j) = <<In(k), key>>
        BY <2>2, <4>1, MeantPlaces DEF S3Ops
      <4> QED BY <2>2, <3>1, <4>1 DEF Seen, Ever
    <3>3. IsFiniteSet(ever)
      <4>1. Name(k) \in DOMAIN Folders
        BY <1>3, ShapeTyped DEF Formed, Op, Name
      <4>2. ever \subseteq Folders[Name(k)]
        BY <3>1 DEF Ever
      <4> QED BY <4>1, <4>2, PageAssumption, FS_Subset
    <3>4. Cardinality(seen) <= Cardinality(ever) /\ Cardinality(seen) \in Nat /\ Cardinality(ever) \in Nat
      BY <3>2, <3>3, FS_Subset, FS_CardinalityType
    <3> QED BY <2>4, <3>1, <3>4, PageAssumption DEF TooMany
  <2> QED BY <2>1, <2>3, <2>4
<1>4. Op(k) \in SesLists => \A name : Steady(k, name) => name \in calls[k].items
  BY <1>1 DEF ListOk
<1> QED BY <1>2, <1>3, <1>4

\* A list that is Ok has all the names that were there throughout: of SES,
\* because one with more to come is an error; of list_images only as long as
\* the keys of the folder fit into a page.
THEOREM ListsCorrect == Spec => []ListsWhole
<1>1. Init => Shape /\ ClientsInv /\ DoneInv /\ ReadsInv /\ ListsInv
  BY InitShape, InitClientsInv, InitDoneInv, InitReadsInv, InitListsInv
<1>2. (Shape /\ ClientsInv /\ DoneInv /\ ReadsInv /\ ListsInv) /\ [Next]_vars
      => (Shape /\ ClientsInv /\ DoneInv /\ ReadsInv /\ ListsInv)'
  BY NextShape, ClientsStep, DoneStep, ReadsStep, ListsStep
<1>3. Shape /\ ClientsInv /\ DoneInv /\ ReadsInv /\ ListsInv => ListsWhole
  BY ListsAreWhole
<1> QED BY <1>1, <1>2, <1>3, PTL DEF Spec

=============================================================================
