------------------------------ MODULE Listing -------------------------------
(***************************************************************************)
(* What reading a list promises, whatever the number of requests it takes: *)
(* one answer, with every wanted item that was there all the while and no  *)
(* item that never was.                                                    *)
(***************************************************************************)
CONSTANTS Items, NotAsked, Pending, Unfinished

VARIABLES
  lasting,   \* the items that have been there since the reading began
  ever,      \* the items that have been there at some time since
  wanted,    \* those the caller asks for
  answer     \* what the caller has been given

vars == <<lasting, ever, wanted, answer>>

Init ==
  /\ lasting \in SUBSET Items /\ ever \in SUBSET Items
  /\ wanted = {} /\ answer = NotAsked

Begin ==
  /\ lasting' \in SUBSET Items /\ ever' \in SUBSET Items /\ wanted' \in SUBSET Items
  /\ answer = NotAsked /\ answer' = Pending

Change ==
  /\ lasting' \in SUBSET lasting /\ ever' \in SUBSET Items /\ ever \subseteq ever'
  /\ UNCHANGED <<wanted, answer>>

Answer ==
  /\ answer = Pending
  /\ \E items \in SUBSET (ever \cap wanted) : lasting \cap wanted \subseteq items /\ answer' = items
  /\ UNCHANGED <<lasting, ever, wanted>>

\* An error, or a first page of several.
StopShort == answer = Pending /\ answer' = Unfinished /\ UNCHANGED <<lasting, ever, wanted>>

Next == Begin \/ Change \/ Answer \/ StopShort

Spec == Init /\ [][Next]_vars
=============================================================================
