----------------------------- MODULE Encodings ------------------------------
(***************************************************************************)
(* The bytes that crate iciaws_token makes and takes apart itself where a  *)
(* key is held by KMS: lengths and pieces of what is signed, public keys   *)
(* in SubjectPublicKeyInfo, signatures in DER, the parts of a token.       *)
(* Bytes are digits to the base Base, so that small bases can be checked   *)
(* throughout; the code's is 256.  base64url, JSON and the curves belong   *)
(* to libraries.                                                           *)
(***************************************************************************)
EXTENDS Integers, Sequences, FiniteSets, SequencesExt

CONSTANTS
  Base,            \* 256
  Width,           \* bytes of r and of s, of x and of y: 48
  EdPrefix,        \* ED25519_SPKI_PREFIX
  EdLen,           \* bytes of an Ed25519 key: 32
  P384Prefix,      \* what precedes the point in an SPKI of P-384
  OnCurve(_, _),   \* whether x and y are a point
  V3_HEADER, V4_HEADER

ASSUME BaseAssumption == Base \in Nat \ {0} /\ Base % 2 = 0 /\ Width \in Nat \ {0}

\* Base to the power of n.
Power[n \in Nat] == IF n = 0 THEN 1 ELSE Base * Power[n - 1]

\* The fixed parts are bytes, of a length that 8 bytes can say; the two kinds
\* of SPKI differ in length.
Bytes == Seq(0..(Base - 1))
ASSUME PartsAssumption ==
  /\ {EdPrefix, P384Prefix, V3_HEADER, V4_HEADER} \subseteq Bytes
  /\ {Len(V3_HEADER), Len(V4_HEADER), 1 + Width} \subseteq 0..(Power[8] \div 2 - 1)
  /\ EdLen \in Nat \ {0} /\ Len(EdPrefix) + EdLen # Len(P384Prefix) + 1 + 2 * Width

Err == <<-1>>   \* no string of bytes
SEC1_UNCOMPRESSED_TAG == 4

\* n in 8 bytes, the least significant first, without the top bit.
le64(n) ==
  LET n_tmp[i \in 1..8] == IF i = 1 THEN n ELSE n_tmp[i - 1] \div Base
  IN  [i \in 1..8 |-> n_tmp[i] % (IF i = 8 THEN Base \div 2 ELSE Base)]

\* Mutant: the pieces follow each other without their lengths.
pae_NoLengths(pieces) == le64(Len(pieces)) \o FlattenSeq(pieces)
pae(pieces) ==
  le64(Len(pieces)) \o FlattenSeq([i \in DOMAIN pieces |-> le64(Len(pieces[i])) \o pieces[i]])

\* What KMS signs; for v3 the compressed public key comes first.
signed(version, key, payload, footer) ==
  CASE version = "V4" -> pae(<<V4_HEADER, payload, footer, <<>>>>)
    [] version = "V3" /\ Len(key) = 1 + Width -> pae(<<key, V3_HEADER, payload, footer, <<>>>>)
    [] OTHER -> Err

ed25519_public_key_from_spki(spki) ==
  IF Len(spki) = Len(EdPrefix) + EdLen /\ SubSeq(spki, 1, Len(EdPrefix)) = EdPrefix
  THEN SubSeq(spki, Len(EdPrefix) + 1, Len(spki)) ELSE Err

\* y is left to its parity, which the first byte has.
compressed(x, y) == <<2 + (y[Width] % 2)>> \o x
p384_public_key_from_spki(spki) ==
  LET sec1 == SubSeq(spki, Len(P384Prefix) + 1, Len(spki))
      x == SubSeq(sec1, 2, Width + 1)
      y == SubSeq(sec1, Width + 2, 2 * Width + 1)
  IN  IF Len(spki) = Len(P384Prefix) + 1 + 2 * Width /\ sec1[1] = SEC1_UNCOMPRESSED_TAG /\ OnCurve(x, y)
      THEN compressed(x, y) ELSE Err

\* The number that bytes are, the most significant first; the same number in
\* so many bytes.
Number(bytes) ==
  LET read[k \in 0..Len(bytes)] == IF k = 0 THEN 0 ELSE read[k - 1] * Base + bytes[k]
  IN  read[Len(bytes)]
Fixed(n, width) == [i \in 1..width |-> (n \div Power[width - i]) % Base]

\* A signature in DER is two numbers as short as they can be, but with the
\* top bit of the first byte clear; fixed width puts the leading zeros back.
IsDer(bytes) ==
  /\ bytes # <<>> /\ 2 * bytes[1] < Base
  /\ Len(bytes) > 1 /\ bytes[1] = 0 => 2 * bytes[2] >= Base
ecdsa_der_to_raw96(der) ==
  IF \A n \in {1, 2} : IsDer(der[n]) /\ Number(der[n]) \in 1..(Power[Width] - 1)
  THEN Fixed(Number(der[1]), Width) \o Fixed(Number(der[2]), Width) ELSE Err

\* body.footer, or body alone; the other side knows how long a signature is.
assembled(message, signature, footer) ==
  IF footer = <<>> THEN <<message \o signature>> ELSE <<message \o signature, footer>>
taken_apart(token, sigLen) ==
  LET body == token[1]
      n == Len(body) - sigLen
  IN  <<SubSeq(body, 1, n), SubSeq(body, n + 1, Len(body)), IF Len(token) = 2 THEN token[2] ELSE <<>>>>

-----------------------------------------------------------------------------
(* What they promise, for small strings of bytes *)

Short(n) == BoundedSeq(0..(Base - 1), n)
Numbers == 1..(Power[Width] - 1)
Point == {<<Fixed(m, Width), Fixed(n, Width)>> : m, n \in 0..(Power[Width] - 1)}
Points == {p \in Point : OnCurve(p[1], p[2])}
\* A point is told from the other one above or below x by the parity of its y.
ASSUME CurveAssumption ==
  \A p, q \in Points : p[1] = q[1] /\ p[2][Width] % 2 = q[2][Width] % 2 => p = q
\* The SPKI of a point, the tag out of the range of small bases as it is.
Spki(p) == P384Prefix \o <<SEC1_UNCOMPRESSED_TAG>> \o p[1] \o p[2]
Keys384 == {compressed(p[1], p[2]) : p \in Points}
Ders(n) == {bytes \in Short(Width + 1) : IsDer(bytes) /\ Number(bytes) = n}

\* A length is kept up to the top bit, which is dropped.
LengthsKept ==
  \A n \in 0..300 \cup {Power[7] - 1, Power[7], Power[8] \div 2 - 1, Power[8] \div 2, Power[8] - 1} :
    Number(Reverse(le64(n))) = n % (Power[8] \div 2)

\* Two signed contents with the same bytes are the same: version, key,
\* payload and footer.
SignedUnambiguously ==
  LET contents == ({<<"V4", <<>>>>} \cup {<<"V3", key>> : key \in Keys384}) \X Short(2) \X Short(1)
      bytes == {signed(c[1][1], c[1][2], c[2], c[3]) : c \in contents}
  IN  Err \notin bytes /\ Cardinality(bytes) = Cardinality(contents)

\* Each number has one DER form, and comes back from it whole.
SignaturesWhole ==
  /\ \A n \in Numbers : Cardinality(Ders(n)) = 1
  /\ \A r, s \in {1, Base - 1, Power[Width - 1], Power[Width] - 1} : \A d \in Ders(r) \X Ders(s) :
       LET raw == ecdsa_der_to_raw96(d) IN
       /\ Len(raw) = 2 * Width
       /\ Number(SubSeq(raw, 1, Width)) = r /\ Number(SubSeq(raw, Width + 1, 2 * Width)) = s
  /\ Err \notin {ecdsa_der_to_raw96(<<d, d>>) : d \in UNION {Ders(n) : n \in Numbers}}

\* A key comes back from its SPKI, one for each point; neither decoder takes
\* the SPKI of the other kind of key, and that of Ed25519 none of a third.
KeysOfTheirKind ==
  /\ \A p \in Points :
       /\ p384_public_key_from_spki(Spki(p)) = compressed(p[1], p[2])
       /\ ed25519_public_key_from_spki(Spki(p)) = Err
  /\ Cardinality(Keys384) = Cardinality(Points)
  /\ \A key \in [1..EdLen -> 0..(Base - 1)] :
       /\ ed25519_public_key_from_spki(EdPrefix \o key) = key
       /\ p384_public_key_from_spki(EdPrefix \o key) = Err
       /\ \A prefix \in [DOMAIN EdPrefix -> 0..(Base - 1)] :
            prefix # EdPrefix => ed25519_public_key_from_spki(prefix \o key) = Err

TokensSplit ==
  \A m \in Short(2), f \in Short(1), sig \in [1..2 -> 0..(Base - 1)] :
    taken_apart(assembled(m, sig, f), 2) = <<m, sig, f>>

\* All of it.
EncodingsTrue ==
  LengthsKept /\ SignedUnambiguously /\ SignaturesWhole /\ KeysOfTheirKind /\ TokensSplit
=============================================================================
