---------------------------- MODULE RouterProofs ----------------------------
(***************************************************************************)
(* Proofs about Router for any requests, keys, routes and inputs: its      *)
(* safety, and that it keeps the promise of Gateway.                       *)
(***************************************************************************)
EXTENDS Router, TLAPS, FiniteSetTheorems

-----------------------------------------------------------------------------
(* The inductive invariant *)

Places == {"new", "waiting", "initialising", "handling", "done", "dropped"}

\* PermitHeld, request by request.
Held ==
  /\ \A q, r \in Requests : pc[q] = "initialising" /\ pc[r] = "initialising" => q = r
  /\ \A r \in Requests : pc[r] = "initialising" => cell = NoKey
  /\ \A r \in Requests : pc[r] = "waiting" /\ cell = NoKey =>
       \E q \in Requests : pc[q] = "initialising"

\* The claims a handler is given: those of the request and of its token under
\* the cell's key, or without the token if there was none or no verifier.
ClaimsOf(r) ==
  \/ fetched[r] = "none" /\ input[r].jwt = NoToken /\ claims[r] = get_claims(input[r])
  \/ fetched[r] = "Err" /\ claims[r] = get_claims(input[r])
  \/ /\ fetched[r] = "Ok" /\ cell # NoKey
     /\ claims[r] = parse_jwt_for_claims(input[r], cell)

\* What the place of a request's future says of the rest of it.
Placed(r) ==
  /\ pc[r] = "new" => input[r] = NoRequest /\ fetched[r] = "none"
  /\ pc[r] # "new" => input[r] \in Inputs
  /\ pc[r] \in {"waiting", "initialising"} => claims[r] = get_claims(input[r])
  /\ pc[r] \in {"handling", "done"} => ClaimsOf(r)
  /\ pc[r] # "done" => answer[r] = 0
  /\ pc[r] = "done" => answer[r] = route(input[r], claims[r])

AllPlaced == \A r \in Requests : Placed(r)

IInv == TypeOK /\ Held /\ AllPlaced

-----------------------------------------------------------------------------
(* Lemmas about the operators *)

\* Whatever the request and the key, the claims are a claims map.
LEMMA ClaimsTyped ==
  ASSUME NEW in \in Inputs, NEW key
  PROVE  get_claims(in) \in ClaimsMap /\ parse_jwt_for_claims(in, key) \in ClaimsMap
<1>1. in.authorizer \in ClaimsMap /\ in.jwt \in Token \cup {NoToken}
  BY InputsAssumption DEF Request
<1>2. NoClaims \in ClaimsMap
  BY DEF NoClaims, ClaimsMap, Entry
<1>3. get_claims(in) \in ClaimsMap
  BY <1>1, <1>2 DEF get_claims
<1>4. ASSUME NEW t \in Token, NEW out \in ClaimsMap
      PROVE  merge_paseto_claims(t, out) \in ClaimsMap
  BY DEF merge_paseto_claims, Over, Token, ClaimsMap, Entry
<1> QED BY <1>1, <1>3, <1>4 DEF parse_jwt_for_claims

\* Whatever the claims, the answer has one of four statuses.
LEMMA RouteTyped ==
  ASSUME NEW in, NEW c
  PROVE  route(in, c) \in {200, 400, 403, 500}
BY DEF route, status_code

\* A request no step touches stays as it is placed.
LEMMA PlacedUnchanged ==
  ASSUME NEW x \in Requests, Placed(x), cell' = cell,
         pc'[x] = pc[x], input'[x] = input[x], fetched'[x] = fetched[x],
         claims'[x] = claims[x], answer'[x] = answer[x]
  PROVE  Placed(x)'
BY DEF Placed, ClaimsOf, parse_jwt_for_claims

\* Passing the permit on keeps it with one request, if any still waits.
LEMMA PassPermitOK ==
  ASSUME TypeOK, Held, NEW r \in Requests, pc[r] = "initialising",
         NEW next \in {"handling", "dropped"}, PassPermit(r, next), cell' = cell
  PROVE  /\ Held'
         /\ pc' \in [Requests -> Places]
         /\ pc'[r] = next
         /\ \A x \in Requests \ {r} :
              pc'[x] = pc[x] \/ (pc[x] = "waiting" /\ pc'[x] = "initialising")
<1>1. CASE Waiting = {} /\ pc' = [pc EXCEPT ![r] = next]
  <2>1. pc' \in [Requests -> Places] /\ pc'[r] = next
    BY <1>1 DEF TypeOK, Places
  <2>2. \A x \in Requests \ {r} : pc'[x] = pc[x] /\ pc[x] \notin {"initialising", "waiting"}
    BY <1>1 DEF TypeOK, Held, Waiting
  <2>3. Held'
    BY <2>1, <2>2 DEF Held
  <2> QED BY <2>1, <2>2, <2>3
<1>2. ASSUME NEW q \in Waiting, pc' = [pc EXCEPT ![r] = next, ![q] = "initialising"]
      PROVE  /\ Held'
             /\ pc' \in [Requests -> Places]
             /\ pc'[r] = next
             /\ \A x \in Requests \ {r} :
                  pc'[x] = pc[x] \/ (pc[x] = "waiting" /\ pc'[x] = "initialising")
  <2>1. q \in Requests /\ pc[q] = "waiting" /\ q # r
    BY <1>2 DEF Waiting
  <2>2. pc' \in [Requests -> Places] /\ pc'[q] = "initialising" /\ pc'[r] = next
    BY <1>2, <2>1 DEF TypeOK, Places
  <2>3. \A x \in Requests \ {q, r} : pc'[x] = pc[x] /\ pc[x] # "initialising"
    BY <1>2, <2>1 DEF TypeOK, Held
  <2>4. Held'
    BY <2>1, <2>2, <2>3 DEF Held
  <2> QED BY <2>1, <2>2, <2>3, <2>4
<1> QED BY <1>1, <1>2 DEF PassPermit

-----------------------------------------------------------------------------
(* The invariant is inductive *)

\* No request has been received and nobody holds the permit.
LEMMA InitIInv == Init => IInv
<1> SUFFICES ASSUME Init PROVE IInv
  OBVIOUS
<1>1. NoClaims \in ClaimsMap
  BY DEF NoClaims, ClaimsMap, Entry
<1>2. TypeOK
  BY <1>1 DEF Init, TypeOK
<1>3. Held /\ AllPlaced
  BY DEF Init, Held, AllPlaced, Placed
<1> QED BY <1>2, <1>3 DEF IInv

\* The key source does not look at requests or at the cell.
LEMMA SourceIInv ==
  ASSUME IInv, (\E k \in Keys : Rotate(k)) \/ Outage \/ Recover
  PROVE  IInv'
<1>1. /\ keyNow' \in Keys /\ reachable' \in BOOLEAN
      /\ UNCHANGED <<cell, pc, input, fetched, claims, answer>>
  <2>1. ASSUME NEW k \in Keys, Rotate(k)
        PROVE  /\ keyNow' \in Keys /\ reachable' = reachable
               /\ UNCHANGED <<cell, pc, input, fetched, claims, answer>>
    BY <2>1 DEF Rotate
  <2>2. CASE Outage \/ Recover
    <3>1. reachable' \in BOOLEAN
      BY <2>2 DEF Outage, Recover
    <3>2. UNCHANGED <<keyNow, cell, pc, input, fetched, claims, answer>>
      BY <2>2 DEF Outage, Recover
    <3> QED BY <3>1, <3>2 DEF IInv, TypeOK
  <2> QED BY <2>1, <2>2 DEF IInv, TypeOK
<1>2. TypeOK'
  BY <1>1 DEF IInv, TypeOK
<1>3. Held'
  BY <1>1 DEF IInv, Held
<1>4. AllPlaced'
  BY <1>1, PlacedUnchanged DEF IInv, AllPlaced
<1> QED BY <1>2, <1>3, <1>4 DEF IInv

\* A request is received: it goes to its handler, queues, or takes the permit
\* nobody holds.
LEMMA FromRequestIInv ==
  ASSUME IInv, NEW r \in Requests, NEW in \in Inputs, from_request(r, in)
  PROVE  IInv'
<1> USE DEF IInv
<1>1. /\ pc[r] = "new" /\ input'[r] = in /\ in # NoRequest
      /\ get_claims(in) \in ClaimsMap /\ parse_jwt_for_claims(in, cell) \in ClaimsMap
      /\ cell' = cell /\ answer' = answer
  BY ClaimsTyped, InputsAssumption DEF from_request, TypeOK
<1>2. /\ pc' \in [Requests -> Places]
      /\ input' = [input EXCEPT ![r] = in]
      /\ claims' \in [Requests -> ClaimsMap]
      /\ fetched' \in [Requests -> {"none", "Ok", "Err"}]
      /\ \A x \in Requests \ {r} :
           pc'[x] = pc[x] /\ claims'[x] = claims[x] /\ fetched'[x] = fetched[x]
  BY <1>1 DEF from_request, TypeOK, Places
<1>3. TypeOK'
  BY <1>1, <1>2 DEF TypeOK, from_request, source, Places
<1>4. Held'
  <2>1. CASE in.jwt = NoToken \/ cell # NoKey
    <3>1. pc'[r] = "handling"
      BY <2>1 DEF from_request, TypeOK
    <3> QED BY <1>1, <1>2, <3>1 DEF Held
  <2>2. CASE in.jwt # NoToken /\ cell = NoKey
    <3>1. pc'[r] = IF Initialising = {} THEN "initialising" ELSE "waiting"
      BY <2>2 DEF from_request, TypeOK
    <3>2. CASE Initialising = {}
      BY <1>1, <1>2, <2>2, <3>1, <3>2 DEF Held, Initialising
    <3>3. CASE Initialising # {}
      BY <1>1, <1>2, <2>2, <3>1, <3>3 DEF Held, Initialising
    <3> QED BY <3>2, <3>3
  <2> QED BY <2>1, <2>2
<1>5. Placed(r)'
  BY <1>1, InputsAssumption DEF from_request, TypeOK, AllPlaced, Placed, ClaimsOf, parse_jwt_for_claims
<1>6. ASSUME NEW x \in Requests \ {r} PROVE Placed(x)'
  <2>1. input'[x] = input[x]
    BY <1>2 DEF TypeOK
  <2> QED BY <1>1, <1>2, <2>1, PlacedUnchanged DEF AllPlaced
<1> QED BY <1>3, <1>4, <1>5, <1>6 DEF AllPlaced

\* The cell is filled while only r can hold the permit.
LEMMA InitialiseIInv ==
  ASSUME IInv, NEW r \in Requests, initialise(r)
  PROVE  IInv'
<1> USE DEF IInv
<1>1. /\ pc[r] = "initialising" /\ cell = NoKey /\ input[r] \in Inputs /\ answer[r] = 0
      /\ cell' = keyNow /\ cell' \in Keys /\ cell' # NoKey
      /\ parse_jwt_for_claims(input[r], keyNow) \in ClaimsMap
      /\ input' = input /\ answer' = answer
  BY ClaimsTyped, InputsAssumption DEF initialise, TypeOK, Held, AllPlaced, Placed
<1>2. /\ pc' = [pc EXCEPT ![r] = "handling"]
      /\ claims' = [claims EXCEPT ![r] = parse_jwt_for_claims(input[r], keyNow)]
      /\ fetched' = [fetched EXCEPT ![r] = "Ok"]
  BY DEF initialise
<1>3. TypeOK'
  BY <1>1, <1>2 DEF initialise, source, TypeOK
<1>4. Held'
  BY <1>1, <1>2 DEF Held, TypeOK
<1>5. Placed(r)'
  <2>1. pc'[r] = "handling" /\ fetched'[r] = "Ok" /\ claims'[r] = parse_jwt_for_claims(input[r], keyNow)
    BY <1>2 DEF TypeOK
  <2> QED BY <1>1, <2>1 DEF Placed, ClaimsOf, parse_jwt_for_claims
<1>6. ASSUME NEW x \in Requests \ {r} PROVE Placed(x)'
  BY <1>1, <1>2 DEF TypeOK, AllPlaced, Placed, ClaimsOf
<1> QED BY <1>3, <1>5, <1>4, <1>6 DEF AllPlaced

\* A request that passes the permit on leaves the others as they are placed.
LEMMA PassPermitPlaced ==
  ASSUME IInv, NEW r \in Requests, NEW x \in Requests \ {r}, cell' = cell,
         pc'[x] = pc[x] \/ (pc[x] = "waiting" /\ pc'[x] = "initialising"),
         input' = input, claims' = claims, answer' = answer, fetched'[x] = fetched[x]
  PROVE  Placed(x)'
<1>1. CASE pc'[x] = pc[x]
  BY <1>1, PlacedUnchanged DEF IInv, AllPlaced
<1>2. CASE pc[x] = "waiting" /\ pc'[x] = "initialising"
  BY <1>2 DEF IInv, AllPlaced, Placed
<1> QED BY <1>1, <1>2

\* A failure is the failing request's alone.
LEMMA InitialiseFailsIInv ==
  ASSUME IInv, NEW r \in Requests, initialise_fails(r)
  PROVE  IInv'
<1> USE DEF IInv
<1>1. /\ pc[r] = "initialising" /\ PassPermit(r, "handling")
      /\ fetched' = [fetched EXCEPT ![r] = "Err"]
      /\ UNCHANGED <<keyNow, reachable, cell, input, claims, answer>>
  BY DEF initialise_fails, source
<1>2. /\ Held'
      /\ pc' \in [Requests -> Places]
      /\ pc'[r] = "handling"
      /\ \A x \in Requests \ {r} :
           pc'[x] = pc[x] \/ (pc[x] = "waiting" /\ pc'[x] = "initialising")
  BY <1>1, PassPermitOK
<1>3. TypeOK'
  BY <1>1, <1>2 DEF TypeOK, Places
<1>4. Placed(r)'
  <2>1. fetched'[r] = "Err"
    BY <1>1 DEF TypeOK
  <2> QED BY <1>1, <1>2, <2>1 DEF AllPlaced, Placed, ClaimsOf
<1>5. ASSUME NEW x \in Requests \ {r} PROVE Placed(x)'
  <2>1. fetched'[x] = fetched[x]
    BY <1>1 DEF TypeOK
  <2> QED BY <1>1, <1>2, <2>1, PassPermitPlaced
<1> QED BY <1>2, <1>3, <1>4, <1>5 DEF AllPlaced

\* A waiter that wakes verifies under the key in the cell.
LEMMA WakeIInv ==
  ASSUME IInv, NEW r \in Requests, wake(r)
  PROVE  IInv'
<1> USE DEF IInv
<1>1. /\ pc[r] = "waiting" /\ cell # NoKey /\ input[r] \in Inputs /\ answer[r] = 0
      /\ parse_jwt_for_claims(input[r], cell) \in ClaimsMap
      /\ UNCHANGED <<keyNow, reachable, cell, input, answer>>
  BY ClaimsTyped DEF wake, source, TypeOK, AllPlaced, Placed
<1>2. /\ pc' = [pc EXCEPT ![r] = "handling"]
      /\ claims' = [claims EXCEPT ![r] = parse_jwt_for_claims(input[r], cell)]
      /\ fetched' = [fetched EXCEPT ![r] = "Ok"]
  BY DEF wake
<1>3. TypeOK'
  BY <1>1, <1>2 DEF TypeOK, Places
<1>4. Held'
  BY <1>1, <1>2 DEF Held, TypeOK
<1>5. Placed(r)'
  <2>1. pc'[r] = "handling" /\ fetched'[r] = "Ok" /\ claims'[r] = parse_jwt_for_claims(input[r], cell)
    BY <1>2 DEF TypeOK
  <2> QED BY <1>1, <2>1 DEF Placed, ClaimsOf, parse_jwt_for_claims
<1>6. ASSUME NEW x \in Requests \ {r} PROVE Placed(x)'
  BY <1>1, <1>2, PlacedUnchanged DEF TypeOK, AllPlaced
<1> QED BY <1>3, <1>4, <1>5, <1>6 DEF AllPlaced

\* The answer is the one route gives for the claims of the request.
LEMMA RespondIInv ==
  ASSUME IInv, NEW r \in Requests, respond(r)
  PROVE  IInv'
<1> USE DEF IInv
<1>1. /\ pc[r] = "handling"
      /\ pc' = [pc EXCEPT ![r] = "done"]
      /\ answer' = [answer EXCEPT ![r] = route(input[r], claims[r])]
      /\ UNCHANGED <<keyNow, reachable, cell, input, fetched, claims>>
  BY DEF respond, source
<1>2. TypeOK'
  BY <1>1, RouteTyped DEF TypeOK
<1>3. Held'
  BY <1>1 DEF Held, TypeOK
<1>4. Placed(r)'
  <2>1. pc'[r] = "done" /\ answer'[r] = route(input[r], claims[r])
    BY <1>1 DEF TypeOK
  <2>2. ClaimsOf(r)'
    BY <1>1 DEF AllPlaced, Placed, ClaimsOf, parse_jwt_for_claims
  <2> QED BY <1>1, <2>1, <2>2 DEF AllPlaced, Placed
<1>5. ASSUME NEW x \in Requests \ {r} PROVE Placed(x)'
  BY <1>1, PlacedUnchanged DEF TypeOK, AllPlaced
<1> QED BY <1>2, <1>3, <1>4, <1>5 DEF AllPlaced

\* A future that is dropped gives back the permit, if it had it.
LEMMA DropIInv ==
  ASSUME IInv, NEW r \in Requests, drop(r)
  PROVE  IInv'
<1> USE DEF IInv
<1>1. UNCHANGED <<keyNow, reachable, cell, input, fetched, claims, answer>>
  BY DEF drop, source
<1>2. /\ Held'
      /\ pc' \in [Requests -> Places]
      /\ pc[r] \notin {"new", "done"} /\ pc'[r] = "dropped"
      /\ \A x \in Requests \ {r} :
           pc'[x] = pc[x] \/ (pc[x] = "waiting" /\ pc'[x] = "initialising")
  <2>1. CASE pc[r] \in {"waiting", "handling"} /\ pc' = [pc EXCEPT ![r] = "dropped"]
    <3>1. /\ pc' \in [Requests -> Places] /\ pc'[r] = "dropped"
          /\ \A x \in Requests \ {r} : pc'[x] = pc[x]
      BY <2>1 DEF TypeOK, Places
    <3>2. Held'
      BY <1>1, <2>1, <3>1 DEF Held
    <3> QED BY <2>1, <3>1, <3>2
  <2>2. CASE pc[r] = "initialising" /\ PassPermit(r, "dropped")
    BY <1>1, <2>2, PassPermitOK
  <2> QED BY <2>1, <2>2 DEF drop
<1>3. TypeOK'
  BY <1>1, <1>2 DEF TypeOK, Places
<1>4. Placed(r)'
  BY <1>1, <1>2 DEF AllPlaced, Placed
<1>5. ASSUME NEW x \in Requests \ {r} PROVE Placed(x)'
  BY <1>1, <1>2, PassPermitPlaced
<1> QED BY <1>2, <1>3, <1>4, <1>5 DEF AllPlaced

\* Every step preserves the invariant.
LEMMA NextIInv == IInv /\ [Next]_vars => IInv'
<1> SUFFICES ASSUME IInv, [Next]_vars PROVE IInv'
  OBVIOUS
<1>1. CASE UNCHANGED vars
  BY <1>1, PlacedUnchanged DEF vars, IInv, TypeOK, Held, AllPlaced
<1>2. CASE (\E k \in Keys : Rotate(k)) \/ Outage \/ Recover
  BY <1>2, SourceIInv
<1>3. ASSUME NEW r \in Requests, NEW in \in Inputs, from_request(r, in) PROVE IInv'
  BY <1>3, FromRequestIInv
<1>4. ASSUME NEW r \in Requests, initialise(r) PROVE IInv'
  BY <1>4, InitialiseIInv
<1>5. ASSUME NEW r \in Requests, initialise_fails(r) PROVE IInv'
  BY <1>5, InitialiseFailsIInv
<1>6. ASSUME NEW r \in Requests, wake(r) PROVE IInv'
  BY <1>6, WakeIInv
<1>7. ASSUME NEW r \in Requests, respond(r) PROVE IInv'
  BY <1>7, RespondIInv
<1>8. ASSUME NEW r \in Requests, drop(r) PROVE IInv'
  BY <1>8, DropIInv
<1> QED BY <1>1, <1>2, <1>3, <1>4, <1>5, <1>6, <1>7, <1>8 DEF Next

\* The invariant holds in every reachable state.
THEOREM Invariance == Spec => []IInv
<1>1. Init => IInv BY InitIInv
<1>2. IInv /\ [Next]_vars => IInv' BY NextIInv
<1> QED BY <1>1, <1>2, PTL DEF Spec

-----------------------------------------------------------------------------
(* The properties *)

\* Every reachable state is well-typed.
THEOREM TypeCorrect == Spec => []TypeOK
BY Invariance, PTL DEF IInv

\* One request at a time asks the key source, none once the cell is full, and
\* one does while others wait for an empty cell.
THEOREM PermitCorrect == Spec => []PermitHeld
<1>1. ASSUME IInv PROVE PermitHeld
  <2>1. Cardinality(Initialising) <= 1
    <3>1. CASE Initialising = {}
      BY <3>1, FS_EmptySet
    <3>2. ASSUME NEW r \in Initialising PROVE Cardinality(Initialising) <= 1
      <4>1. Initialising = {r}
        BY <1>1, <3>2 DEF IInv, Held, Initialising
      <4> QED BY <4>1, FS_Singleton
    <3> QED BY <3>1, <3>2
  <2>2. Initialising # {} => cell = NoKey
    BY <1>1 DEF IInv, Held, Initialising
  <2>3. Waiting # {} /\ cell = NoKey => Initialising # {}
    BY <1>1 DEF IInv, Held, Initialising, Waiting
  <2> QED BY <2>1, <2>2, <2>3 DEF PermitHeld
<1> QED BY <1>1, Invariance, PTL

\* A valid token counts for every request that did not itself meet a failure
\* of the key source.
THEOREM TokenCorrect == Spec => []TokenCounts
<1>1. ASSUME IInv, NEW r \in Requests, pc[r] \in {"handling", "done"},
             input[r].jwt # NoToken, fetched[r] # "Err"
      PROVE  IF input[r].jwt.key = cell
             THEN /\ input[r].jwt.sub # Absent => claims[r].uid = input[r].jwt.sub
                  /\ input[r].jwt.role # Absent => claims[r].role = input[r].jwt.role
             ELSE claims[r] = get_claims(input[r])
  <2>1. claims[r] = parse_jwt_for_claims(input[r], cell)
    BY <1>1 DEF IInv, AllPlaced, Placed, ClaimsOf
  <2> QED BY <1>1, <2>1 DEF parse_jwt_for_claims, merge_paseto_claims, Over
<1>2. IInv => TokenCounts
  BY <1>1 DEF TokenCounts
<1> QED BY <1>2, Invariance, PTL

\* A guard lets through only the owner of the path, an admin, or localhost.
THEOREM GuardsCorrect == Spec => []GuardsHold
<1>1. ASSUME IInv, NEW r \in Requests, pc[r] = "done", answer[r] = 200, input[r].route \in Routes
      PROVE  /\ RouteMap[input[r].route] = "owner" /\ ~input[r].localhost =>
                  get_path_value(input[r]) \in Principals(input[r]) \ {Absent}
             /\ RouteMap[input[r].route] = "admin" =>
                  \/ get_claims(input[r]).role = "admin"
                  \/ input[r].jwt # NoToken /\ input[r].jwt.key = cell /\ input[r].jwt.role = "admin"
  <2> DEFINE in == input[r]  c == claims[r]  kind == RouteMap[in.route]
  <2>1. ClaimsOf(r) /\ status_code(handle(kind, in, c)) = 200
    BY <1>1 DEF IInv, AllPlaced, Placed, route
  <2>2. handle(kind, in, c) = "Ok"
    BY <2>1 DEF status_code
  <2>3. \/ c = get_claims(in)
        \/ /\ in.jwt # NoToken /\ in.jwt.key = cell
           /\ c = merge_paseto_claims(in.jwt, get_claims(in))
    BY <2>1 DEF ClaimsOf, parse_jwt_for_claims
  <2>4. ASSUME kind = "owner", ~in.localhost
        PROVE  get_path_value(in) \in Principals(in) \ {Absent}
    <3>1. its_my_path(in, c) = "Ok"
      BY <2>2, <2>4 DEF handle
    <3>2. get_path_value(in) # Absent /\ c.uid = get_path_value(in)
      BY <2>4, <3>1 DEF its_my_path
    <3>3. c.uid \in Principals(in) \cup {Absent}
      BY <2>3 DEF Principals, merge_paseto_claims, Over
    <3> QED BY <3>2, <3>3
  <2>5. ASSUME kind = "admin"
        PROVE  \/ get_claims(in).role = "admin"
               \/ in.jwt # NoToken /\ in.jwt.key = cell /\ in.jwt.role = "admin"
    <3>1. c.role = "admin"
      BY <2>2, <2>5 DEF handle, i_am_a
    <3> QED BY <2>3, <3>1 DEF merge_paseto_claims, Over
  <2> QED BY <2>4, <2>5
<1>2. IInv => GuardsHold
  BY <1>1 DEF GuardsHold
<1> QED BY <1>2, Invariance, PTL

-----------------------------------------------------------------------------
(* The promise of Gateway *)

\* Both modules mean the same by the functions of RequestInput.
LEMMA SameOperators ==
  ASSUME NEW in, NEW c, NEW t
  PROVE  /\ Promise!get_claims(in) = get_claims(in)
         /\ Promise!merge_paseto_claims(t, c) = merge_paseto_claims(t, c)
         /\ Promise!route(in, c) = route(in, c)
<1>1. Promise!get_claims(in) = get_claims(in)
  BY DEF Promise!get_claims, get_claims, Promise!NoClaims, NoClaims
<1>2. Promise!merge_paseto_claims(t, c) = merge_paseto_claims(t, c)
  BY DEF Promise!merge_paseto_claims, merge_paseto_claims, Promise!Over, Over
<1>3. Promise!route(in, c) = route(in, c)
  BY DEF Promise!route, route, Promise!status_code, status_code, Promise!handle, handle,
         Promise!its_my_path, its_my_path, Promise!i_am_a, i_am_a, Promise!get_claim, get_claim,
         Promise!get_path_value, get_path_value, Promise!Over, Over
<1> QED BY <1>1, <1>2, <1>3

\* Every step of the router is a step of Gateway, or none at all.
LEMMA StepKeepsPromise == IInv /\ [Next]_vars => [Promise!Next]_<<cell, input, answer>>
<1> SUFFICES ASSUME IInv, [Next]_vars PROVE Promise!Next \/ UNCHANGED <<cell, input, answer>>
  OBVIOUS
<1>1. CASE UNCHANGED vars
  BY <1>1 DEF vars
<1>2. CASE (\E k \in Keys : Rotate(k)) \/ Outage \/ Recover
  BY <1>2 DEF Rotate, Outage, Recover
<1>3. ASSUME NEW r \in Requests, NEW in \in Inputs, from_request(r, in) PROVE Promise!Receive(r, in)
  BY <1>3 DEF from_request, IInv, AllPlaced, Placed, Promise!Receive
<1>4. ASSUME NEW r \in Requests, initialise(r) PROVE \E k \in Keys : Promise!Trust(k)
  BY <1>4 DEF initialise, IInv, TypeOK, Held, Promise!Trust
<1>5. ASSUME NEW r \in Requests, initialise_fails(r) \/ wake(r) \/ drop(r)
      PROVE  UNCHANGED <<cell, input, answer>>
  BY <1>5 DEF initialise_fails, wake, drop
<1>6. ASSUME NEW r \in Requests, respond(r) PROVE Promise!Answer(r)
  <2>1. /\ pc[r] = "handling" /\ input[r] # NoRequest /\ answer[r] = 0 /\ ClaimsOf(r)
        /\ UNCHANGED <<cell, input>>
        /\ answer' = [answer EXCEPT ![r] = Promise!route(input[r], claims[r])]
    BY <1>6, SameOperators, InputsAssumption DEF respond, IInv, AllPlaced, Placed
  <2>2. claims[r] \in Promise!MayClaim(input[r])
    <3>1. CASE claims[r] = get_claims(input[r])
      BY <3>1, SameOperators DEF Promise!MayClaim
    <3>2. CASE /\ input[r].jwt # NoToken /\ input[r].jwt.key = cell
               /\ claims[r] = merge_paseto_claims(input[r].jwt, get_claims(input[r]))
      BY <3>2, SameOperators DEF Promise!MayClaim
    <3> QED BY <2>1, <3>1, <3>2 DEF ClaimsOf, parse_jwt_for_claims
  <2> QED BY <2>1, <2>2 DEF Promise!Answer
<1> QED BY <1>1, <1>2, <1>3, <1>4, <1>5, <1>6 DEF Next, Promise!Next

\* The router implements Gateway.
THEOREM PromiseKept == Spec => KeepsPromise
<1>1. Init => Promise!Init
  BY DEF Init, Promise!Init
<1>2. IInv /\ [Next]_vars => [Promise!Next]_<<cell, input, answer>>
  BY StepKeepsPromise
<1> QED BY <1>1, <1>2, Invariance, PTL DEF Spec, KeepsPromise, Promise!Spec
=============================================================================
