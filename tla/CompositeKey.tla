---------------------------- MODULE CompositeKey ----------------------------
(***************************************************************************)
(* Keys of items as one text (ckey.rs) and as maps of two attributes.      *)
(* A text is the sequence of the codes of its characters.                  *)
(***************************************************************************)
EXTENDS Integers, Sequences, SequencesExt

Hash == 35
Star == 42
SEP  == 126

Texts == Seq(Nat)

\* The order of DynamoDB: code by code, the shorter text first.
Less(s, t) ==
  \E n \in 0..Len(s) :
    /\ n < Len(t) /\ SubSeq(s, 1, n) = SubSeq(t, 1, n)
    /\ n < Len(s) => s[n + 1] < t[n + 1]

EndsWith(t, c) == t # <<>> /\ t[Len(t)] = c

Key(pk, sk) == [pk |-> pk, sk |-> sk]

key_as_string(pk, sk) == pk \o <<SEP>> \o sk

\* Only the first separator counts; without one the sort key is "#".
\* Mutant: the last separator counts.
CompositeKeyOf_LastSep(text) ==
  LET seps == {n \in DOMAIN text : text[n] = SEP}
  IN  IF seps = {} THEN Key(text, <<Hash>>)
      ELSE Key(SubSeq(text, 1, Max(seps) - 1), SubSeq(text, Max(seps) + 1, Len(text)))
CompositeKeyOf(text) ==
  LET seps == {n \in DOMAIN text : text[n] = SEP}
  IN  IF seps = {} THEN Key(text, <<Hash>>)
      ELSE Key(SubSeq(text, 1, Min(seps) - 1), SubSeq(text, Min(seps) + 1, Len(text)))

keys_to_resid(key) == key_as_string(key.pk, key.sk)
resid_to_keys(resid) == CompositeKeyOf(resid)

\* A query by a composite key takes the sort key as a prefix if it ends with
\* "#" or "*", and drops the "*"; a read or an update by it does neither.
IsPattern(ck) == EndsWith(ck.sk, Hash) \/ EndsWith(ck.sk, Star)
sk(ck) == IF EndsWith(ck.sk, Star) THEN SubSeq(ck.sk, 1, Len(ck.sk) - 1) ELSE ck.sk
=============================================================================
