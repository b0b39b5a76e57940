-------------------------- MODULE MCTokenService --------------------------
(* TokenService on one alias, two P-384 keys and an Ed25519 key.           *)
EXTENDS TokenService, Encodings, TLC

CONSTANTS p1, p2, ed, alias, v1, foot, s1

MCKeys    == {p1, p2, ed}
MCSpecOf  == [k \in MCKeys |-> IF k = ed THEN "ECC_NIST_EDWARDS25519" ELSE "ECC_NIST_P384"]
MCSkew    == [v \in {v1} |-> -1]

RawValue(f)  == [form |-> f, key |-> ed]

\* A deployed function, whose raw keys no constructor takes, and a
\* developer's machine; only the Ed25519 key is
\* ever given as raw bytes, so the two P-384 keys are interchangeable.
OnLambda     == [lambda |-> TRUE, keyId |-> alias, prv |-> RawValue("missing"), pub |-> RawValue("notBase64")]
Local        == [lambda |-> FALSE, keyId |-> NoRef, prv |-> RawValue("key"), pub |-> RawValue("key")]
MCConfigs    == {OnLambda, Local}

\* Bytes to the base 4; a curve of points that come in pairs, (x, y) and
\* (x, 15 - y).
MCEdPrefix   == <<3, 0, 2>>
MCP384Prefix == <<3, 1, 2, 0, 1>>
MCV3         == <<3, 0>>
MCV4         == <<3, 1>>
MCOnCurve(x, y) ==
  LET m == (4 * x[1] + x[2]) % 8
      n == 4 * y[1] + y[2]
  IN  n \in {m, 15 - m}

\* What is framed, signed, read from KMS and put together is the bytes that it
\* stands for: no two signed contents share their bytes, no leading zero of a
\* signature is lost, a public key is of the kind its decoder is for, tokens
\* come apart where they were joined.  (This is about no state: it is
\* evaluated at the first.)
BytesTrue ==
  (now = 0 /\ issued = {} /\ \A s \in Signers : signer[s] = Absent) => EncodingsTrue

MCSymmetry   == Permutations({p1, p2})
=============================================================================
