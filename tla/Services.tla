------------------------------ MODULE Services ------------------------------
(***************************************************************************)
(* The calls of SesClient, SnsClient and S3Client: what each one asks of   *)
(* its service and what it makes of the answer, with the SDK's retries     *)
(* below it and the services' state behind it.  Content is what kind of    *)
(* data it is and which call sent it.                                      *)
(***************************************************************************)
EXTENDS ServiceClients

CONSTANTS
  MaxAttempts,     \* of the SDK, for one call
  Topics,          \* the topics of SNS
  Stored,          \* what the buckets hold at first: contents by bucket and key
  Folders,         \* the keys under each prefix
  Images,          \* the keys that end like an image's
  ContactLists, Contacts, Templates,    \* of SES, at first
  SesPage, S3Page, \* most names in an answer
  Tables, TopicArgs, BucketArgs,        \* what callers name, or NoName
  TemplateNames, Keys, Bodies           \* what callers ask for and send

ASSUME AttemptsAssumption == MaxAttempts \in Nat \ {0}
ASSUME StoredAssumption == \A place \in DOMAIN Stored : Stored[place].by = 0
ASSUME PageAssumption == S3Page \in Nat /\ \A folder \in DOMAIN Folders : IsFiniteSet(Folders[folder])

VARIABLES
  templates,   \* SES: which call wrote each template, 0 for the first ones
  objects,     \* S3: the contents by bucket and key
  wire,        \* requests on their way: call and attempt
  done         \* what was done for each call

vars == <<clientVars, calls, templates, objects, wire, done>>

Buckets == {place[1] : place \in DOMAIN Stored}

Init ==
  /\ InitClients
  /\ templates = [name \in Templates |-> 0]
  /\ objects = Stored
  /\ wire = {} /\ done = {}

-----------------------------------------------------------------------------
(* What the calls ask: args.to are recipients, args.name a template, list,
   object or folder, args.in a bucket or topic, args.body a kind of content. *)

Args == [table |-> Empty, to |-> {}, name |-> Empty, in |-> NoName, body |-> Empty]
Of(name) == [Args EXCEPT !.name = name]
At(name, bucket) == [Args EXCEPT !.name = name, !.in = bucket]
Inline == Empty

list_contact_lists       == get_ses_client("list_contact_lists", Args)
get_contact_list(name)   == get_ses_client("get_contact_list", Of(name))
list_contacts(name)      == get_ses_client("list_contacts", Of(name))
list_email_templates     == get_ses_client("list_email_templates", Args)
get_email_template(name) == get_ses_client("get_email_template", Of(name))
create_template(name)    == get_ses_client("create_template", Of(name))
update_template(name)    == get_ses_client("update_template", Of(name))
delete_template(name)    == get_ses_client("delete_template", Of(name))

send_raw(tos) == get_ses_client("send", [Args EXCEPT !.to = tos])

send_simple(tos, ccs, bccs) == get_ses_client("send", [Args EXCEPT !.to = tos \cup ccs \cup bccs])

send_template_with_bcc(template, tos, ccs, bccs) ==
  get_ses_client("send", [Of(template) EXCEPT !.to = tos \cup ccs \cup bccs])

send_template(template, tos) == send_template_with_bcc(template, tos, {}, {})

send_bulk_emails(template, users) == get_ses_client("bulk", [Of(template) EXCEPT !.to = users])
send_bulk_template(template, users) == send_bulk_emails(template, users)
send_bulk_inline_template(users)    == send_bulk_emails(Inline, users)

publish(topic) == get_sns_client("publish", At(Empty, topic))

get_object(object, bucket)  == get_s3_client("get_object", At(object, bucket))
get_bytes(object, bucket)   == get_s3_client("get_bytes", At(object, bucket))
get_string(object, bucket)  == get_s3_client("get_string", At(object, bucket))
get_json(object, bucket)    == get_s3_client("get_json", At(object, bucket))
get_presign(object, bucket) == get_s3_client("presign", At(object, bucket))
put_presign(object, bucket) == get_s3_client("presign", At(object, bucket))
list_images(folder, bucket) == get_s3_client("list_images", At(folder, bucket))
delete_object(object, bucket) == get_s3_client("delete_object", At(object, bucket))
put_object(object, body, bucket) ==
  get_s3_client("put_object", [At(object, bucket) EXCEPT !.body = body])

Op(k)   == calls[k].op
Name(k) == calls[k].args.name

\* bucket.unwrap_or(&self.default_bucket), topic_arn.unwrap_or(&self.topic_arn)
In(k) == IF calls[k].args.in = NoName THEN calls[k].client ELSE calls[k].args.in
Place(k) == <<In(k), Name(k)>>

\* With its client a call sends its request.  No topic: there is none.  A
\* signed URL is made without one, if there are credentials to sign with.
Started(k, status) ==
  /\ calls' = [calls EXCEPT ![k].client = cells[Svc(k)], ![k].status = status,
                            ![k].attempt = IF status = "running" THEN 1 ELSE 0]
  /\ wire' = IF status = "running" THEN wire \cup {<<k, 1>>} ELSE wire
  /\ UNCHANGED <<clientVars, templates, objects, done>>

NoTopicArn(k) ==
  Op(k) = "publish" /\ (IF calls[k].args.in = NoName THEN cells["sns"] ELSE calls[k].args.in) = Empty

go(k) ==
  /\ Asks(k) /\ cells[Svc(k)] # NoClient /\ k \notin making
  /\ \/ Op(k) = "put_addon" /\ put_addon(k) /\ UNCHANGED <<templates, objects, wire, done>>
     \/ NoTopicArn(k) /\ Started(k, "refused")
     \/ Op(k) = "presign" /\ \E status \in {"Ok", "refused"} : Started(k, status)
     \/ Op(k) \notin {"put_addon", "presign"} /\ ~NoTopicArn(k) /\ Started(k, "running")

-----------------------------------------------------------------------------
(* The services *)

Answered(k, attempt, reply, items, more) ==
  /\ wire' = wire \ {<<k, attempt>>}
  /\ calls' = IF calls[k].status = "running" /\ calls[k].attempt = attempt
              THEN [calls EXCEPT ![k].reply = reply, ![k].items = items, ![k].more = more]
              ELSE calls
  /\ UNCHANGED clientVars

With(f, x, y) == [z \in DOMAIN f \cup {x} |-> IF z = x THEN y ELSE f[z]]
Did(k, targets) == done' = done \cup {<<k, target>> : target \in targets}
Mail(k) == {<<"mail", to>> : to \in calls[k].args.to}

\* SES takes a message, or publishes one.
serve_send(k, attempt) ==
  /\ \/ Op(k) = "send" /\ (Name(k) = Inline \/ Name(k) \in DOMAIN templates) /\ Did(k, Mail(k))
     \/ Op(k) = "publish" /\ In(k) \in Topics /\ Did(k, {Place(k)})
  /\ Answered(k, attempt, "Ok", {}, FALSE)
  /\ UNCHANGED <<templates, objects>>

\* Of a bulk, the entries one by one: the answer has those that failed.
serve_bulk(k, attempt) ==
  /\ Op(k) = "bulk"
  /\ \E sent \in SUBSET Mail(k) :
       /\ sent = {} \/ Name(k) = Inline \/ Name(k) \in DOMAIN templates
       /\ Did(k, sent) /\ Answered(k, attempt, "Ok", Mail(k) \ sent, FALSE)
  /\ UNCHANGED <<templates, objects>>

serve_template(k, attempt) ==
  /\ \/ Op(k) = "create_template" /\ Name(k) \notin DOMAIN templates /\ templates' = With(templates, Name(k), k)
     \/ Op(k) = "update_template" /\ Name(k) \in DOMAIN templates /\ templates' = [templates EXCEPT ![Name(k)] = k]
     \/ Op(k) = "delete_template" /\ templates' = Restrict(templates, DOMAIN templates \ {Name(k)})
  /\ Did(k, {<<"template", Name(k)>>})
  /\ Answered(k, attempt, "Ok", {}, FALSE)
  /\ UNCHANGED objects

serve_object(k, attempt) ==
  /\ In(k) \in Buckets
  /\ \/ Op(k) = "put_object" /\ objects' = With(objects, Place(k), [by |-> k, kind |-> calls[k].args.body])
     \/ Op(k) = "delete_object" /\ objects' = Restrict(objects, DOMAIN objects \ {Place(k)})
  /\ Did(k, {Place(k)})
  /\ Answered(k, attempt, "Ok", {}, FALSE)
  /\ UNCHANGED templates

Listed(k) ==
  CASE Op(k) = "list_contact_lists"   -> ContactLists
    [] Op(k) = "list_contacts"        -> IF Name(k) \in ContactLists THEN Contacts ELSE {}
    [] Op(k) = "list_email_templates" -> DOMAIN templates
    [] Op(k) = "list_images"          -> {key \in Folders[Name(k)] : <<In(k), key>> \in DOMAIN objects}
    [] OTHER -> {}
PageSize(op) == IF op = "list_images" THEN S3Page ELSE SesPage
SesLists == {"list_contact_lists", "list_contacts", "list_email_templates"}

\* Lists come in pages that are filled; an empty one perhaps as none at all.
serve_list(k, attempt) ==
  /\ \/ Op(k) \in SesLists
     \/ Op(k) = "list_images" /\ In(k) \in Buckets
  /\ \/ \E page \in SUBSET Listed(k) :
          /\ page = Listed(k) \/ Cardinality(page) = PageSize(Op(k))
          /\ Cardinality(page) <= PageSize(Op(k))
          /\ Answered(k, attempt, "Ok", page, page # Listed(k))
     \/ Op(k) \in SesLists /\ Listed(k) = {} /\ Answered(k, attempt, "absent", {}, FALSE)
  /\ UNCHANGED <<templates, objects, done>>

Streamed == {"get_bytes", "get_string", "get_json"}

serve_get(k, attempt) ==
  /\ \/ Op(k) \in Streamed \cup {"get_object"} /\ Place(k) \in DOMAIN objects
        /\ Answered(k, attempt, "Ok", {objects[Place(k)]}, FALSE)
     \/ Op(k) = "get_email_template" /\ Name(k) \in DOMAIN templates
        /\ Answered(k, attempt, "Ok", {[by |-> templates[Name(k)], kind |-> "template"]}, FALSE)
     \/ Op(k) = "get_contact_list" /\ Name(k) \in ContactLists
        /\ Answered(k, attempt, "Ok", {}, FALSE)
  /\ UNCHANGED <<templates, objects, done>>

\* Any request may be turned down.
turn_down(k, attempt) ==
  /\ Answered(k, attempt, "refused", {}, FALSE)
  /\ UNCHANGED <<templates, objects, done>>

serve(k, attempt) ==
  \/ serve_send(k, attempt) \/ serve_bulk(k, attempt)
  \/ serve_template(k, attempt) \/ serve_object(k, attempt)
  \/ serve_list(k, attempt) \/ serve_get(k, attempt) \/ turn_down(k, attempt)

-----------------------------------------------------------------------------
(* What the calls make of the answers *)

Running(k) == calls[k].status = "running"

\* A list with more to come or with none is an error; a bulk with an entry
\* that failed is one; of list_images, what is left out of the page is lost.
\* Mutant: next_token is not looked at.
answer_FirstPage(k) ==
  CASE Op(k) = "bulk" -> IF calls[k].reply = "Ok" /\ calls[k].items = {} THEN "Ok" ELSE "refused"
    [] OTHER -> IF calls[k].reply = "Ok" THEN "Ok" ELSE "refused"
\* Mutant: the entries of a bulk are not looked at.
answer_NoEntries(k) ==
  CASE Op(k) \in SesLists -> IF calls[k].reply = "Ok" /\ ~calls[k].more THEN "Ok" ELSE "refused"
    [] OTHER -> IF calls[k].reply = "Ok" THEN "Ok" ELSE "refused"
answer(k) ==
  IF \/ calls[k].reply # "Ok"
     \/ Op(k) \in SesLists /\ calls[k].more
     \/ Op(k) = "bulk" /\ calls[k].items # {}
  THEN "refused" ELSE "Ok"

\* A late read does nothing, and a late message, once its call has returned,
\* nothing that a call could see: they are left out.
Reads == SesLists \cup Streamed \cup {"list_images", "get_object", "get_email_template", "get_contact_list"}
Without(k, ops) == IF Op(k) \in ops THEN {m \in wire : m[1] # k} ELSE wire

\* A call goes on, or returns, with what it has of the answer; what it does
\* not need any more is forgotten.
Goes(k, status, items) ==
  /\ calls' = [calls EXCEPT ![k].status = status, ![k].reply = "none", ![k].more = FALSE,
                            ![k].attempt = IF status = "refused" THEN @ ELSE 0,
                            ![k].items = IF status = "refused" THEN {} ELSE items]
  /\ wire' = Without(k, Reads \cup {"send", "bulk", "publish"})
  /\ UNCHANGED <<clientVars, templates, objects, done>>

\* Mutant: a bulk is sent again until none of its entries fails.
hear_Resends(k) ==
  /\ Running(k) /\ calls[k].reply # "none"
  /\ IF Op(k) = "bulk" /\ calls[k].items # {}
     THEN /\ calls' = [calls EXCEPT ![k].attempt = 1, ![k].reply = "none", ![k].items = {}]
          /\ wire' = wire \cup {<<k, 1>>}
          /\ UNCHANGED <<clientVars, templates, objects, done>>
     ELSE Goes(k, IF Op(k) \in Streamed /\ calls[k].reply = "Ok" THEN "reads" ELSE answer(k), calls[k].items)
hear(k) ==
  /\ Running(k) /\ calls[k].reply # "none"
  /\ Goes(k, IF Op(k) \in Streamed /\ calls[k].reply = "Ok" THEN "reads" ELSE answer(k),
          IF Op(k) = "list_images" THEN calls[k].items \cap Images ELSE calls[k].items)

\* The body comes after the answer; it may break off.
Parses(op, kind) ==
  /\ op = "get_string" => kind \in {"text", "json"}
  /\ op = "get_json"   => kind = "json"

Got(c, got) == [by |-> c.by, kind |-> c.kind, got |-> got]

\* Mutant: what came before it broke off is taken.
collect_Broken(k) ==
  /\ calls[k].status = "reads"
  /\ \E got \in {"all", "some"}, c \in calls[k].items :
       Goes(k, IF Parses(Op(k), c.kind) THEN "Ok" ELSE "refused", {Got(c, got)})
collect(k) ==
  /\ calls[k].status = "reads"
  /\ \E got \in {"all", "some"}, c \in calls[k].items :
       Goes(k, IF got = "all" /\ Parses(Op(k), c.kind) THEN "Ok" ELSE "refused", {Got(c, got)})

\* Mutant: one attempt more.
LastAttempt_OneMore(k) == calls[k].attempt > MaxAttempts
LastAttempt(k) == calls[k].attempt = MaxAttempts

retry(k) ==
  /\ Running(k) /\ ~LastAttempt(k)
  /\ calls' = [calls EXCEPT ![k].attempt = @ + 1, ![k].reply = "none", ![k].items = {}, ![k].more = FALSE]
  /\ wire' = Without(k, Reads) \cup {<<k, calls[k].attempt + 1>>}
  /\ UNCHANGED <<clientVars, templates, objects, done>>

\* The SDK gives up on a connection that is not made in time.  The crates set
\* no timeout for a request that was taken: this may never come.
give_up(k) == Running(k) /\ LastAttempt(k) /\ Goes(k, "timed_out", {})

-----------------------------------------------------------------------------

Ask_of_others ==
  \/ \E table \in Tables, key \in AddonKeys : get_dynamo_client(table, "put_addon", Of(key))
  \/ \E key \in AddonKeys : get_s3_client("put_addon", Of(key))
  \/ \E key \in AddonKeys, svc \in {"dynamo", "s3"} : get_addon(key, svc)

Ask_of_ses ==
  \/ list_contact_lists \/ list_email_templates
  \/ \E name \in ContactLists : get_contact_list(name) \/ list_contacts(name)
  \/ \E name \in TemplateNames :
       \/ get_email_template(name) \/ create_template(name)
       \/ update_template(name) \/ delete_template(name)
       \/ send_template(name, {"a", "b"})
       \/ send_bulk_template(name, {"a", "b"})
  \/ send_raw({"a", "b"})
  \/ send_simple({"a"}, {"b"}, {})
  \/ send_bulk_inline_template({"a", "b"})

Ask_of_s3 ==
  \E bucket \in BucketArgs :
    \/ \E key \in Keys :
         \/ get_object(key, bucket) \/ get_bytes(key, bucket)
         \/ get_string(key, bucket) \/ get_json(key, bucket)
         \/ delete_object(key, bucket)
         \/ \E body \in Bodies : put_object(key, body, bucket)
         \/ get_presign(key, bucket) \/ put_presign(key, bucket)
    \/ \E folder \in DOMAIN Folders : list_images(folder, bucket)

Sdk(k) == hear(k) \/ collect(k) \/ retry(k) \/ give_up(k)

\* What a call does itself, and what it awaits: the settings of a client, an
\* answer, a body.
Own(k) ==
  \/ begin(k) /\ UNCHANGED <<templates, objects, wire, done>>
  \/ go(k)
Awaits(k) ==
  \/ end(k) /\ UNCHANGED <<templates, objects, wire, done>>
  \/ Sdk(k)

Step(k)   == Own(k) \/ Awaits(k)

Steps == \E k \in DOMAIN calls : Step(k)

Next ==
  \/ (Ask_of_others \/ Ask_of_ses \/ Ask_of_s3 \/ \E topic \in TopicArgs : publish(topic))
     /\ UNCHANGED <<templates, objects, wire, done>>
  \/ Steps
  \/ \E m \in wire : serve(m[1], m[2])

\* The executor runs as long as a call can go on by itself.
Spec == Init /\ [][Next]_vars /\ WF_vars(\E k \in DOMAIN calls : Own(k))

-----------------------------------------------------------------------------
(* Properties *)

Ok(k) == calls[k].status = "Ok"
\* Where a call means to go: where it says, or where the environment does.
Meant(k, default) == <<IF calls[k].args.in = NoName THEN default ELSE calls[k].args.in, Name(k)>>
MeantPlace(k) == Meant(k, Setting("BUCKET", "ici-uploads", ~env.lambda))
Wanted(k) ==
  CASE Op(k) \in {"send", "bulk"} -> Mail(k)
    [] Op(k) \in {"create_template", "update_template", "delete_template"} -> {<<"template", Name(k)>>}
    [] Op(k) \in {"put_object", "delete_object"} -> {MeantPlace(k)}
    [] Op(k) = "publish" -> {Meant(k, Setting("TOPIC_ARN", Empty, ~env.lambda))}
    [] OTHER -> {}

Settings(name, default) == {Setting(name, default, withFile) : withFile \in BOOLEAN}
TableNames == Tables \cup Settings("TABLE_NAME", "ici-users")
Targets ==
  {NoClient, Empty} \cup TableNames \cup Settings("BUCKET", "ici-uploads") \cup Settings("TOPIC_ARN", Empty)

CallTyped(c, k) ==
  /\ c.attempt \in 0..MaxAttempts /\ c.reply \in {"none", "Ok", "refused", "absent"}
  /\ c.status \in {"asks", "running", "reads", "Ok", "refused", "timed_out"}
  /\ c.status \in {"running", "reads"} => c.client # NoClient
  /\ \A j \in c.before : j \in DOMAIN calls /\ j < k

\* Type invariant.
TypeOK ==
  /\ cells \in [Services -> Targets] /\ loaded \in BOOLEAN
  /\ making \subseteq {k \in DOMAIN calls : Asks(k)}
  /\ Range(templates) \cup {c.by : c \in Range(objects)} \subseteq 0..Len(calls)
  /\ \A k \in DOMAIN calls : CallTyped(calls[k], k)
  /\ wire \subseteq (DOMAIN calls) \X (1..MaxAttempts)
  /\ {d[1] : d \in done} \subseteq DOMAIN calls

\* Ok means that all was done that was asked for, each recipient of a bulk
\* included; and a request turned down at its first attempt did nothing,
\* unless it is a bulk, of which any part may have been sent.
OkIsDone ==
  \A k \in DOMAIN calls :
    /\ Ok(k) /\ calls[k].client # NoClient => {k} \X Wanted(k) \subseteq done
    /\ calls[k].status = "refused" /\ calls[k].attempt <= 1 /\ Op(k) # "bulk" => k \notin {d[1] : d \in done}

\* A list of SES that is Ok has all the names that were there throughout;
\* one of S3 has the images, and all of them if they and the other keys of
\* the folder fit into a page.
Lasting(k) ==
  IF Op(k) = "list_email_templates"
  THEN {name \in DOMAIN templates :
         /\ templates[name] \in {0} \cup {j \in calls[k].before : Ok(j)}
         /\ \A j \in DOMAIN calls : Op(j) = "delete_template" => Name(j) # name}
  ELSE {name \in Listed(k) :
         Op(k) = "list_images" =>
           /\ objects[<<In(k), name>>].by \in {0} \cup {j \in calls[k].before : Ok(j)}
           /\ \A j \in DOMAIN calls : Op(j) = "delete_object" => Name(j) # name}
Ever(k) == {key \in Folders[Name(k)] :
              \/ <<In(k), key>> \in DOMAIN Stored
              \/ \E j \in DOMAIN calls : Op(j) = "put_object" /\ Place(j) = <<In(k), key>>}
ListsWhole ==
  \A k \in DOMAIN calls :
    /\ Ok(k) /\ Op(k) \in SesLists => Lasting(k) \subseteq calls[k].items
    /\ Ok(k) /\ Op(k) = "list_images" =>
         /\ calls[k].items \subseteq Images \cap Folders[Name(k)]
         /\ Cardinality(Ever(k)) <= S3Page => Lasting(k) \cap Images \subseteq calls[k].items

\* What a call reads is what some call wrote to that place, all of it (unless
\* it hands on the body itself), and of the kind asked for; and not what was
\* there at first once a call that came before has written or deleted it, both
\* by the default bucket and by name.
ReadsTrue ==
  \A k \in DOMAIN calls : Ok(k) /\ Op(k) \in Streamed \cup {"get_object"} =>
    \E c \in calls[k].items :
      /\ Op(k) \in Streamed => c.got = "all"
      /\ Parses(Op(k), c.kind)
      /\ IF c.by = 0
         THEN /\ c.kind = Stored[MeantPlace(k)].kind
              /\ \A j \in calls[k].before :
                   Ok(j) /\ Op(j) \in {"put_object", "delete_object"} => MeantPlace(j) # MeantPlace(k)
         ELSE c.kind = calls[c.by].args.body /\ MeantPlace(c.by) = MeantPlace(k)

\* If what is awaited comes in the end, an answer or an error (which no timeout
\* of this code sees to), then again and again no call is waiting: every one
\* returns, in so many requests, those too that wait for another to make the
\* client.
CallsEnd == WF_vars(\E k \in DOMAIN calls : Awaits(k))
CallsReturn == CallsEnd => []<>(\A k \in DOMAIN calls : Returned(k))
=============================================================================
