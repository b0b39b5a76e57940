--------------------------- MODULE ServiceClients ---------------------------
(***************************************************************************)
(* The clients of the AWS services: one for each service in a process, in  *)
(* a OnceCell, made by the first call that asks for it, from settings in   *)
(* the environment.  Outside Lambda, making any of them loads the file     *)
(* .env into the environment first; what is set already wins.  A handler   *)
(* gets its clients from the Router's AddonHolder.                         *)
(***************************************************************************)
EXTENDS Integers, Sequences, FiniteSets, TLC, SequencesExt

CONSTANTS
  Environments,    \* [lambda, process, file]: settings by name
  AddonKeys,       \* keys of the AddonHolder
  MaxCalls,        \* bound on the calls
  NoClient, NoName

ASSUME MaxCallsAssumption == MaxCalls \in Nat

Services == {"dynamo", "ses", "sns", "s3"}
Empty == ""      \* no name, no topic

VARIABLES
  env,       \* the process's environment and its .env file
  loaded,    \* whether the file has been loaded
  cells,     \* the client of each service: the setting it was made with
  making,    \* calls that are making one
  addons,    \* the AddonHolder: a client and its type under each key
  calls      \* the calls, in the order in which they began

clientVars == <<env, loaded, cells, making, addons>>

NoAddon == [svc |-> "none", client |-> NoClient]

InitClients ==
  /\ env \in Environments /\ loaded = FALSE
  /\ cells = [svc \in Services |-> NoClient] /\ making = {}
  /\ addons = [key \in AddonKeys |-> NoAddon]
  /\ calls = <<>>

\* env::var(name).unwrap_or(default)
Setting(name, default, withFile) ==
  IF name \in DOMAIN env.process THEN env.process[name]
  ELSE IF withFile /\ name \in DOMAIN env.file THEN env.file[name]
  ELSE default

\* The file is not loaded where LAMBDA_TASK_ROOT is set.
dotenv == loaded \/ ~env.lambda

Returned(k) == calls[k].status \in {"Ok", "refused", "timed_out"}

NewCall(svc, name, op, args) ==
  [svc |-> svc, name |-> name, op |-> op, args |-> args, client |-> NoClient, status |-> "asks",
   attempt |-> 0, reply |-> "none", items |-> {}, more |-> FALSE,
   before |-> {k \in DOMAIN calls : Returned(k)}]

\* A call: it needs a client, and then makes one request.
Ask(svc, name, op, args) ==
  /\ Len(calls) < MaxCalls
  /\ calls' = Append(calls, NewCall(svc, name, op, args))
  /\ UNCHANGED clientVars

\* The name of the table is settled before the cell is looked at, and so
\* before .env is loaded for the first client.
get_dynamo_client(given, op, args) ==
  Ask("dynamo", IF given = NoName THEN Setting("TABLE_NAME", "ici-users", loaded) ELSE given,
      op, [args EXCEPT !.table = given])
get_ses_client(op, args) == Ask("ses", Empty, op, args)
get_sns_client(op, args) == Ask("sns", Empty, op, args)
get_s3_client(op, args)  == Ask("s3", Empty, op, args)

Svc(k) == calls[k].svc
Asks(k) == calls[k].status = "asks"

\* get_or_init: one call at a time makes the client, the others wait.
\* Mutant: they do not.
Free_Always(k) == TRUE
Free(k) == \A j \in making : Svc(j) # Svc(k)

begin(k) ==
  /\ Asks(k) /\ cells[Svc(k)] = NoClient /\ k \notin making /\ Free(k)
  /\ making' = making \cup {k} /\ loaded' = dotenv
  /\ UNCHANGED <<env, cells, addons, calls>>

\* S3Client::new reads BUCKET, and SnsClient::new TOPIC_ARN, after the file
\* was loaded.
\* Mutant: they look at the process's own environment only.
new_NoFile(svc, name) ==
  CASE svc = "s3"  -> Setting("BUCKET", "ici-uploads", FALSE)
    [] svc = "sns" -> Setting("TOPIC_ARN", Empty, FALSE)
    [] OTHER -> name
new(svc, name) ==
  CASE svc = "s3"  -> Setting("BUCKET", "ici-uploads", loaded)
    [] svc = "sns" -> Setting("TOPIC_ARN", Empty, loaded)
    [] OTHER -> name

end(k) ==
  /\ k \in making
  /\ cells' = [cells EXCEPT ![Svc(k)] = new(Svc(k), calls[k].name)] /\ making' = making \ {k}
  /\ UNCHANGED <<env, loaded, addons, calls>>

\* The call has its client, and leaves it under a key of the AddonHolder,
\* where the last one stays.
put_addon(k) ==
  /\ addons' = [addons EXCEPT ![calls[k].args.name] = [svc |-> Svc(k), client |-> cells[Svc(k)]]]
  /\ calls' = [calls EXCEPT ![k].client = cells[Svc(k)], ![k].status = "Ok"]
  /\ UNCHANGED <<env, loaded, cells, making>>

\* get_addon and get find what is under the key if it has the type asked for.
get_addon(key, svc) ==
  LET found == IF addons[key].svc = svc THEN addons[key].client ELSE NoClient
      call  == NewCall(svc, Empty, "get_addon", {})
  IN  /\ Len(calls) < MaxCalls
      /\ calls' = Append(calls,
           [call EXCEPT !.client = found, !.status = IF found = NoClient THEN "refused" ELSE "Ok"])
      /\ UNCHANGED clientVars

-----------------------------------------------------------------------------
(* Properties *)

\* There is one client of each service: all calls and the AddonHolder have
\* the one in the cell, whichever call made it and however many asked.
OneClient ==
  /\ \A k \in DOMAIN calls : calls[k].client \in {NoClient, cells[Svc(k)]}
  /\ \A key \in AddonKeys : addons[key] # NoAddon => addons[key].client = cells[addons[key].svc]

\* The bucket and the topic are those of the environment or of .env, in
\* whatever order the clients are made.  The table is one that a call asked
\* for, and a call that names none means the one of .env only once another
\* has been given a client.
NamesFound ==
  LET found(name, default) == Setting(name, default, ~env.lambda) IN
  /\ cells["s3"]  \in {NoClient, found("BUCKET", "ici-uploads")}
  /\ cells["sns"] \in {NoClient, found("TOPIC_ARN", Empty)}
  /\ cells["dynamo"] \in {NoClient} \cup {calls[k].name : k \in DOMAIN calls}
  /\ \A k \in DOMAIN calls :
       (/\ Svc(k) = "dynamo" /\ calls[k].op # "get_addon" /\ calls[k].args.table = NoName
        /\ \E j \in calls[k].before : calls[j].client # NoClient)
       => calls[k].name = found("TABLE_NAME", "ici-users")
=============================================================================
