------------------------------- MODULE Router -------------------------------
(***************************************************************************)
(* Router::route of crate iciaws_router in one process: requests in        *)
(* flight, each a future of its own, and the process-wide cell that holds  *)
(* the PASETO verifier.                                                    *)
(*                                                                         *)
(* Only a request with a jwt cookie looks at the cell.  The first to find  *)
(* it empty takes the cell's one permit and asks the key source for the    *)
(* key; those that come meanwhile wait.  Success fills the cell for good   *)
(* and wakes all of them; failure, or the loss of the future that held the *)
(* permit, passes it on to one of them, which asks again.                  *)
(*                                                                         *)
(* tokio queues the waiters in order; nothing here depends on it, so the   *)
(* permit goes to any of them.                                             *)
(***************************************************************************)
EXTENDS RequestInput, FiniteSets

CONSTANTS
  Requests,          \* the requests this process receives
  Inputs,            \* what a request may be
  NoKey, NoRequest

ASSUME InputsAssumption ==
  Inputs \subseteq Request /\ NoRequest \notin Request /\ NoKey \notin Keys \cup {Forged}

VARIABLES
  keyNow,      \* the public key the key source gives out
  reachable,   \* whether the key source answers
  cell,        \* PASETO_VERIFIER: the key of its verifier, or NoKey
  pc,          \* where the future of each request is
  input,       \* each request, once received
  fetched,     \* what paseto_verifier() returned to each request
  claims,      \* the claims map each request ends up with
  answer       \* the status of each answer, 0 before it

vars   == <<keyNow, reachable, cell, pc, input, fetched, claims, answer>>
source == <<keyNow, reachable>>

Waiting      == {r \in Requests : pc[r] = "waiting"}
Initialising == {r \in Requests : pc[r] = "initialising"}

Init ==
  /\ keyNow \in Keys /\ reachable \in BOOLEAN
  /\ cell = NoKey
  /\ pc = [r \in Requests |-> "new"]
  /\ input = [r \in Requests |-> NoRequest]
  /\ fetched = [r \in Requests |-> "none"]
  /\ claims = [r \in Requests |-> NoClaims]
  /\ answer = [r \in Requests |-> 0]

-----------------------------------------------------------------------------
(* The key source: AWS KMS, or the process environment *)

Rotate(k) ==
  /\ keyNow' = k
  /\ UNCHANGED <<reachable, cell, pc, input, fetched, claims, answer>>

Outage ==
  /\ reachable' = FALSE
  /\ UNCHANGED <<keyNow, cell, pc, input, fetched, claims, answer>>

Recover ==
  /\ reachable' = TRUE
  /\ UNCHANGED <<keyNow, cell, pc, input, fetched, claims, answer>>

-----------------------------------------------------------------------------
(* Requests *)

\* A token under the verifier's key adds its claims, any other adds nothing.
parse_jwt_for_claims(in, key) ==
  IF in.jwt # NoToken /\ in.jwt.key = key THEN merge_paseto_claims(in.jwt, get_claims(in)) ELSE get_claims(in)

\* Up to the first await that may suspend.
\* Mutant: the verifier is fetched for requests without a jwt cookie too.
from_request_AlwaysFetches(r, in) ==
  /\ pc[r] = "new"
  /\ input' = [input EXCEPT ![r] = in]
  /\ claims' = [claims EXCEPT ![r] = get_claims(in)]
  /\ pc' = [pc EXCEPT ![r] = IF Initialising = {} /\ cell = NoKey THEN "initialising" ELSE "waiting"]
  /\ UNCHANGED <<source, cell, fetched, answer>>
from_request(r, in) ==
  /\ pc[r] = "new"
  /\ input' = [input EXCEPT ![r] = in]
  /\ \/ /\ in.jwt = NoToken
        /\ claims' = [claims EXCEPT ![r] = get_claims(in)]
        /\ pc' = [pc EXCEPT ![r] = "handling"]
        /\ UNCHANGED fetched
     \/ /\ in.jwt # NoToken /\ cell # NoKey
        /\ claims' = [claims EXCEPT ![r] = parse_jwt_for_claims(in, cell)]
        /\ fetched' = [fetched EXCEPT ![r] = "Ok"]
        /\ pc' = [pc EXCEPT ![r] = "handling"]
     \/ /\ in.jwt # NoToken /\ cell = NoKey
        /\ claims' = [claims EXCEPT ![r] = get_claims(in)]
        /\ pc' = [pc EXCEPT ![r] = IF Initialising = {} THEN "initialising" ELSE "waiting"]
        /\ UNCHANGED fetched
  /\ UNCHANGED <<source, cell, answer>>

\* r leaves the permit: a waiter, if there is one, gets it.
\* Mutant: the permit is lost.
PassPermit_Lost(r, next) == pc' = [pc EXCEPT ![r] = next]
PassPermit(r, next) ==
  \/ Waiting = {} /\ pc' = [pc EXCEPT ![r] = next]
  \/ \E q \in Waiting : pc' = [pc EXCEPT ![r] = next, ![q] = "initialising"]

\* The key source answers the holder of the permit: the cell is filled, and
\* the permit is never needed again.
initialise(r) ==
  /\ pc[r] = "initialising" /\ reachable
  /\ cell' = keyNow
  /\ claims' = [claims EXCEPT ![r] = parse_jwt_for_claims(input[r], keyNow)]
  /\ fetched' = [fetched EXCEPT ![r] = "Ok"]
  /\ pc' = [pc EXCEPT ![r] = "handling"]
  /\ UNCHANGED <<source, input, answer>>

\* It does not: the error is logged, the request goes on without its token's
\* claims and the cell stays empty.
\* Mutant: the permit stays with the request that failed.
initialise_fails_Keeps(r) ==
  /\ pc[r] = "initialising" /\ ~reachable
  /\ fetched' = [fetched EXCEPT ![r] = "Err"]
  /\ pc' = [pc EXCEPT ![r] = "handling"]
  /\ UNCHANGED <<source, cell, input, claims, answer>>
initialise_fails(r) ==
  /\ pc[r] = "initialising" /\ ~reachable
  /\ fetched' = [fetched EXCEPT ![r] = "Err"]
  /\ PassPermit(r, "handling")
  /\ UNCHANGED <<source, cell, input, claims, answer>>

\* A waiter wakes to a full cell.
\* Mutant: it takes the key of the moment instead.
wake_Refetch(r) ==
  /\ pc[r] = "waiting" /\ cell # NoKey
  /\ claims' = [claims EXCEPT ![r] = parse_jwt_for_claims(input[r], keyNow)]
  /\ fetched' = [fetched EXCEPT ![r] = "Ok"]
  /\ pc' = [pc EXCEPT ![r] = "handling"]
  /\ UNCHANGED <<source, cell, input, answer>>
wake(r) ==
  /\ pc[r] = "waiting" /\ cell # NoKey
  /\ claims' = [claims EXCEPT ![r] = parse_jwt_for_claims(input[r], cell)]
  /\ fetched' = [fetched EXCEPT ![r] = "Ok"]
  /\ pc' = [pc EXCEPT ![r] = "handling"]
  /\ UNCHANGED <<source, cell, input, answer>>

\* The handler runs on the claims; what it returns becomes the answer.
respond(r) ==
  /\ pc[r] = "handling"
  /\ answer' = [answer EXCEPT ![r] = route(input[r], claims[r])]
  /\ pc' = [pc EXCEPT ![r] = "done"]
  /\ UNCHANGED <<source, cell, input, fetched, claims>>

\* The future of a request is dropped while it is suspended.
\* Mutant: a permit it holds is lost.
drop_Keeps(r) ==
  /\ pc[r] \in {"waiting", "initialising", "handling"}
  /\ pc' = [pc EXCEPT ![r] = "dropped"]
  /\ UNCHANGED <<source, cell, input, fetched, claims, answer>>
drop(r) ==
  /\ \/ pc[r] \in {"waiting", "handling"} /\ pc' = [pc EXCEPT ![r] = "dropped"]
     \/ pc[r] = "initialising" /\ PassPermit(r, "dropped")
  /\ UNCHANGED <<source, cell, input, fetched, claims, answer>>

Next ==
  \/ \E k \in Keys : Rotate(k)
  \/ Outage \/ Recover
  \/ \E r \in Requests :
       \/ \E in \in Inputs : from_request(r, in)
       \/ initialise(r) \/ initialise_fails(r)
       \/ wake(r) \/ respond(r) \/ drop(r)

\* A woken future is polled, a handler returns.
Fairness == \A r \in Requests : WF_vars(wake(r)) /\ WF_vars(respond(r))

Spec == Init /\ [][Next]_vars /\ Fairness

-----------------------------------------------------------------------------
(* Properties *)

\* Type invariant.
TypeOK ==
  /\ keyNow \in Keys /\ reachable \in BOOLEAN
  /\ cell \in Keys \cup {NoKey}
  /\ pc \in [Requests -> {"new", "waiting", "initialising", "handling", "done", "dropped"}]
  /\ input \in [Requests -> Inputs \cup {NoRequest}]
  /\ fetched \in [Requests -> {"none", "Ok", "Err"}]
  /\ claims \in [Requests -> ClaimsMap]
  /\ answer \in [Requests -> {0, 200, 400, 403, 500}]

\* One request at a time asks the key source, none once the cell is full,
\* and while some wait for an empty cell one of them is asking.
PermitHeld ==
  /\ Cardinality(Initialising) <= 1
  /\ Initialising # {} => cell = NoKey
  /\ Waiting # {} /\ cell = NoKey => Initialising # {}

\* The user ids a request may act as: its verified token's and its authorizer's.
Principals(in) ==
  {get_claims(in).uid} \cup
  {Over(t.sub, t.uid) : t \in {u \in {in.jwt} \ {NoToken} : u.key = cell}}

\* The guards never fail open, outage or not: a guarded handler answers 200
\* only to the owner of the path, to an admin, or on localhost.
GuardsHold ==
  \A r \in Requests :
    /\ pc[r] = "done" /\ answer[r] = 200 /\ input[r].route \in Routes
    => /\ RouteMap[input[r].route] = "owner" /\ ~input[r].localhost =>
            get_path_value(input[r]) \in Principals(input[r]) \ {Absent}
       /\ RouteMap[input[r].route] = "admin" =>
            \/ get_claims(input[r]).role = "admin"
            \/ input[r].jwt # NoToken /\ input[r].jwt.key = cell /\ input[r].jwt.role = "admin"

\* A valid token is ignored only by a request that itself met a key source
\* failure, and the token's subject wins over every other uid.
TokenCounts ==
  \A r \in Requests :
    /\ pc[r] \in {"handling", "done"}
    /\ input[r].jwt # NoToken /\ fetched[r] # "Err"
    => IF input[r].jwt.key = cell
       THEN /\ input[r].jwt.sub # Absent => claims[r].uid = input[r].jwt.sub
            /\ input[r].jwt.role # Absent => claims[r].role = input[r].jwt.role
       ELSE claims[r] = get_claims(input[r])

\* The detailed router keeps the promise of Gateway.
Promise == INSTANCE Gateway WITH trusted <- cell
KeepsPromise == Promise!Spec

Finished(r) == pc[r] \in {"done", "dropped"}

\* Every call to the key source ends, with a key or an error.
CallsEnd == \A r \in Requests : WF_vars(initialise(r) \/ initialise_fails(r))

\* If calls to the key source end, every request is answered, whatever fails
\* and whoever is dropped.
EveryRequestAnswered ==
  CallsEnd => \A r \in Requests : pc[r] # "new" ~> Finished(r)

\* A request without a jwt cookie is answered even if a call to the key
\* source never ends.
AnonymousAnswered ==
  \A r \in Requests : (pc[r] # "new" /\ input[r].jwt = NoToken) ~> Finished(r)

\* The cell is not poisoned: once the key source answers for good, a request
\* that is still to be initialised or woken gets a verifier, however many
\* attempts failed before.
NotPoisoned ==
  CallsEnd =>
    \A r \in Requests :
      (r \in Waiting \cup Initialising /\ []reachable) ~> (fetched[r] = "Ok" \/ pc[r] = "dropped")
=============================================================================
