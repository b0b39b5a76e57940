------------------------------ MODULE MCRouter ------------------------------
(* Router with one route of each kind, two users and two keys.              *)
EXTENDS Router

CONSTANTS ann, bob, app, k1, k2, r1, r2

MCRouteMap == [x \in {"GET/open", "GET/own", "GET/admin", "GET/faulty"} |->
  CASE x = "GET/open" -> "open" [] x = "GET/own" -> "owner"
    [] x = "GET/admin" -> "admin" [] OTHER -> "faulty"]

Nobody      == NoClaims
Ann         == [uid |-> ann, appid |-> app, role |-> "user"]
AnnAdmin    == [uid |-> ann, appid |-> app, role |-> "admin"]
NoUid       == [uid |-> Absent, appid |-> app, role |-> "admin"]

Minted(k, role, custom) ==
  [key |-> k, sub |-> bob, aud |-> app, uid |-> custom, appid |-> Absent, role |-> role]
\* Signed by the application itself, without a subject.
Custom(k, uid) ==
  [key |-> k, sub |-> Absent, aud |-> Absent, uid |-> uid, appid |-> Absent, role |-> NotString]

Get(r, auth, jwt, uid) ==
  [route |-> r, options |-> FALSE, authorizer |-> auth, jwt |-> jwt,
   uid |-> uid, hid |-> Absent, localhost |-> FALSE]

MCInputs ==
  { Get("GET/own", Nobody, Minted(k1, Absent, Absent), bob),
    Get("GET/own", Ann, Minted(k1, "user", ann), ann),
    Get("GET/own", Nobody, Custom(k2, ann), ann),
    Get("GET/own", NoUid, NoToken, ann),
    [Get("GET/own", Nobody, Minted(Forged, Absent, Absent), Absent) EXCEPT !.hid = bob],
    Get("GET/own", Nobody, NoToken, Absent),
    [Get("GET/own", Nobody, NoToken, bob) EXCEPT !.localhost = TRUE],
    Get("GET/admin", AnnAdmin, Minted(k1, "user", Absent), Absent),
    Get("GET/admin", NoUid, NoToken, Absent),
    Get("GET/admin", Nobody, Minted(k2, "admin", Absent), Absent),
    Get("GET/open", Ann, NoToken, Absent),
    Get("GET/faulty", Nobody, NoToken, Absent),
    [Get("OPTIONS/other", Nobody, Minted(k1, Absent, Absent), Absent) EXCEPT !.options = TRUE],
    Get("GET/other", Nobody, NoToken, Absent) }

=============================================================================
