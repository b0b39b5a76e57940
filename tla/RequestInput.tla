---------------------------- MODULE RequestInput ----------------------------
(***************************************************************************)
(* What crate iciaws_router makes of one request, as functions of the      *)
(* request: the claims it extracts, the guards a handler may call, and the *)
(* HTTP status of the answer.                                              *)
(*                                                                         *)
(* A claims map has the three entries the guards look at.  Absent: the map *)
(* has no such entry.  NotString: it has one whose JSON value is not a     *)
(* string.                                                                 *)
(***************************************************************************)
EXTENDS Naturals

CONSTANTS
  Ids,        \* user ids, as they occur in tokens, authorizers and paths
  Apps,       \* application ids
  Roles,      \* roles, "admin" among them
  Keys,       \* public keys a verifier may hold
  Forged,     \* stands for the key of a token no key verifies, or expired
  Routes,     \* the method paths with a handler
  RouteMap,   \* the kind of handler of each route
  Absent, NotString, NoToken

\* Handlers call no guard, its_my_path, i_am_a("admin"), or fail with an
\* error that is no RouterError.
HandlerKinds == {"open", "owner", "admin", "faulty"}

ASSUME RoutesAssumption == RouteMap \in [Routes -> HandlerKinds]
ASSUME RolesAssumption  == "admin" \in Roles
ASSUME ForgedAssumption == Forged \notin Keys
ASSUME AbsentAssumption ==
  Absent \notin Ids \cup Apps \cup Roles \cup {NotString} /\ NotString \notin Ids \cup Apps \cup Roles

Entry(S)  == S \cup {Absent, NotString}
ClaimsMap == [uid : Entry(Ids), appid : Entry(Apps), role : Entry(Roles)]
NoClaims  == [uid |-> Absent, appid |-> Absent, role |-> Absent]

\* sub and aud are registered claims, the rest is the application's.
Token ==
  [key : Keys \cup {Forged}, sub : Ids \cup {Absent}, aud : Apps \cup {Absent},
   uid : Entry(Ids), appid : Entry(Apps), role : Entry(Roles)]

\* authorizer: the fields of the request context's authorizer; jwt: what the
\* jwt cookie holds; options: whether the method is OPTIONS.
Request ==
  [route : STRING, options : BOOLEAN, authorizer : ClaimsMap, jwt : Token \cup {NoToken},
   uid : Ids \cup {Absent}, hid : Ids \cup {Absent}, localhost : BOOLEAN]

\* An entry inserted into a map takes the place of an older one.
Over(new, old) == IF new # Absent THEN new ELSE old

\* The authorizer's fields count only if "uid" is among them.
get_claims(in) == IF in.authorizer.uid # Absent THEN in.authorizer ELSE NoClaims

\* Custom claims are copied over the authorizer's; the derived entries win
\* over both.  Mutant: the copy comes last and wins.
merge_paseto_claims_CopyLast(t, out) ==
  [uid   |-> Over(t.uid, Over(t.sub, out.uid)),
   appid |-> Over(t.appid, Over(t.aud, out.appid)),
   role  |-> Over(t.role, out.role)]
merge_paseto_claims(t, out) ==
  [uid   |-> Over(t.sub, Over(t.uid, out.uid)),
   appid |-> Over(t.aud, Over(t.appid, out.appid)),
   role  |-> Over(t.role, out.role)]

get_path_value(in) == Over(in.uid, in.hid)

\* Each guard ends "Ok" or with the RouterError it returns.
get_claim(value) == IF value \in {Absent, NotString} THEN "BadRequest" ELSE "Ok"

\* The path names the caller, unless the host is localhost.
\* Mutant: a missing uid claim is let through.
its_my_path_NoClaimNeeded(in, claims) ==
  CASE get_path_value(in) = Absent -> "BadRequest"
    [] get_path_value(in) # Absent /\
         (in.localhost \/ claims.uid \in {Absent, get_path_value(in)}) -> "Ok"
    [] OTHER -> "Unauthorized"
its_my_path(in, claims) ==
  CASE get_path_value(in) = Absent -> "BadRequest"
    [] get_path_value(in) # Absent /\ (in.localhost \/ claims.uid = get_path_value(in)) -> "Ok"
    [] OTHER -> IF get_claim(claims.uid) = "Ok" THEN "Unauthorized" ELSE get_claim(claims.uid)

i_am_a(role, claims) == IF claims.role = role THEN "Ok" ELSE "Unauthorized"

\* Mutant: a failed guard is a 401.
status_code_As401(result) ==
  CASE result = "Ok"           -> 200
    [] result = "BadRequest"   -> 400
    [] result = "Unauthorized" -> 401
    [] OTHER                   -> 500
status_code(result) ==
  CASE result = "Ok"           -> 200
    [] result = "BadRequest"   -> 400
    [] result = "Unauthorized" -> 403
    [] OTHER                   -> 500

handle(kind, in, claims) ==
  CASE kind = "open"  -> "Ok"
    [] kind = "owner" -> its_my_path(in, claims)
    [] kind = "admin" -> i_am_a("admin", claims)
    [] OTHER          -> "InternalService"

\* The status route() answers with; no handler: preflight or a 403.
route(in, claims) ==
  IF in.route \in Routes THEN status_code(handle(RouteMap[in.route], in, claims))
  ELSE IF in.options THEN 200 ELSE 403
=============================================================================
