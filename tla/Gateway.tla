------------------------------ MODULE Gateway ------------------------------
(***************************************************************************)
(* What route() promises its callers, with no cell, no key service and no  *)
(* interleaving: a process comes to trust at most one key, for good, and   *)
(* answers each request once, in one step, from that request alone.  The   *)
(* claims a token adds are those of a token under the trusted key.  A      *)
(* token may be ignored, but no request is answered with another's claims. *)
(***************************************************************************)
EXTENDS RequestInput

CONSTANTS
  Requests, Inputs, NoKey, NoRequest

VARIABLES
  trusted,   \* the key tokens are verified with, once there is one
  input,     \* the requests received
  answer     \* the status of each answer, 0 before it

Init ==
  /\ trusted = NoKey
  /\ input = [r \in Requests |-> NoRequest]
  /\ answer = [r \in Requests |-> 0]

Trust(k) ==
  /\ trusted = NoKey
  /\ trusted' = k
  /\ UNCHANGED <<input, answer>>

Receive(r, in) ==
  /\ input[r] = NoRequest
  /\ input' = [input EXCEPT ![r] = in]
  /\ UNCHANGED <<trusted, answer>>

\* The claims maps a handler may be given for a request.
MayClaim(in) ==
  {get_claims(in)} \cup
  {merge_paseto_claims(t, get_claims(in)) : t \in {u \in {in.jwt} \ {NoToken} : u.key = trusted}}

Answer(r) ==
  /\ input[r] # NoRequest /\ answer[r] = 0
  /\ \E claims \in MayClaim(input[r]) : answer' = [answer EXCEPT ![r] = route(input[r], claims)]
  /\ UNCHANGED <<trusted, input>>

Next ==
  \/ \E k \in Keys : Trust(k)
  \/ \E r \in Requests, in \in Inputs : Receive(r, in)
  \/ \E r \in Requests : Answer(r)

Spec == Init /\ [][Next]_<<trusted, input, answer>>
=============================================================================
