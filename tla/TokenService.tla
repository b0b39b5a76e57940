---------------------------- MODULE TokenService ----------------------------
(***************************************************************************)
(* The PASETO token service of crate iciaws_token: Signer and Verifier     *)
(* instances, each living in one process (a Lambda execution environment   *)
(* or a developer's machine), and the key store they share.                *)
(*                                                                         *)
(* An instance reads its configuration and its key ONCE, when it is built, *)
(* and keeps version and public key for its whole life.  A KMS signer      *)
(* nevertheless signs by REFERENCE: every Sign call names kms_key_id,      *)
(* which may be an alias that has been repointed since.  The v3 message it *)
(* sends starts with the public key cached at construction.                *)
(*                                                                         *)
(* A key reference has an epoch, incremented each time it is repointed;    *)
(* keyAt[r][e] is the key it names in epoch e and retiredAt[r][e] the time *)
(* at which epoch e ended.                                                 *)
(***************************************************************************)
EXTENDS Integers, FiniteSets

CONSTANTS
  Keys,            \* asymmetric key pairs
  SpecOf,          \* the AWS KeySpec of each key
  KeyRefs,         \* what KMS_KEY_ID or the key_id argument may name
  Signers,         \* processes that hold a Signer
  Verifiers,       \* processes that hold a Verifier
  Skew,            \* how far the clock of a verifier's machine is off
  Configs,         \* process environments a deployment may have
  SourceArgs,      \* "source" arguments of the constructors in use
  Extras,          \* values of "typ" in the extra claims callers pass
  Footers,         \* footers passed to sign_claims and to the verifier
  NoKey, NoRef, NoFooter,
  AccessSeconds,   \* ACCESS_TOKEN_SECONDS
  RefreshSeconds,  \* REFRESH_TOKEN_SECONDS
  CustomSeconds,   \* lifetimes of claims given to sign_claims directly
  MaxTime,         \* bound on the clock
  MaxRotations,    \* bound on how often a reference is repointed
  MaxTokens        \* bound on the tokens minted

KeySpecs == {"ECC_NIST_P384", "ECC_NIST_EDWARDS25519", "RSA_2048"}
Versions == {"V3", "V4"}
Epochs   == 0..MaxRotations
Typs     == {"none", "refresh"} \cup Extras   \* the "typ" claim: absent, or a value

\* The raw value of PASETO_PRV_KEY or PASETO_PUB_KEY.
RawKey == [form : {"key", "missing", "notBase64", "wrongLength"}, key : Keys]

\* What a process finds in its environment: LAMBDA_TASK_ROOT, KMS_KEY_ID
\* and the two raw keys.
Config == [lambda : BOOLEAN, keyId : KeyRefs \cup {NoRef}, prv : RawKey, pub : RawKey]

ASSUME KeysAssumption ==
  /\ SpecOf \in [Keys -> KeySpecs]
  /\ NoKey \notin Keys /\ NoRef \notin KeyRefs /\ NoFooter \notin Footers
ASSUME EnvironmentAssumption ==
  /\ Configs \subseteq Config
  /\ Skew \in [Verifiers -> Int]
ASSUME LifetimeAssumption ==
  /\ AccessSeconds \in Nat /\ RefreshSeconds \in Nat
  /\ AccessSeconds < RefreshSeconds
  /\ CustomSeconds \subseteq Nat
ASSUME BoundAssumption ==
  MaxTime \in Nat /\ MaxRotations \in Nat /\ MaxTokens \in Nat

VARIABLES
  now,        \* the wall clock
  config,     \* the deployed process environment
  keyAt,      \* KMS: the key a reference names in each epoch
  epoch,      \* KMS: the current epoch of each reference
  retiredAt,  \* when each past epoch of a reference ended
  signer,     \* the Signer of each signing process
  pending,    \* the KMS Sign call a signer is waiting for
  verifier,   \* the Verifier of each verifying process
  issued      \* every token handed out

vars == <<now, config, keyAt, epoch, retiredAt, signer, pending, verifier, issued>>
kms  == <<keyAt, epoch, retiredAt>>

CurrentKey(r) == keyAt[r][epoch[r]]

-----------------------------------------------------------------------------
(* Instances *)

Instance ==
  [st : {"absent", "failed", "ready"}, err : {"none", "KeyPairError", "Unauthenticated"},
   source : {"none", "Env", "Kms"}, version : Versions \cup {"none"},
   ref : KeyRefs \cup {NoRef}, key : Keys \cup {NoKey}, epoch : Epochs]

Unready(st, err) ==
  [st |-> st, err |-> err, source |-> "none", version |-> "none",
   ref |-> NoRef, key |-> NoKey, epoch |-> 0]
Absent      == Unready("absent", "none")
Failed(err) == Unready("failed", err)
Ready(source, version, r, k, e) ==
  [st |-> "ready", err |-> "none", source |-> source, version |-> version,
   ref |-> r, key |-> k, epoch |-> e]

from_key_spec(spec) ==
  CASE spec = "ECC_NIST_EDWARDS25519" -> "V4"
    [] spec = "ECC_NIST_P384"         -> "V3"
    [] OTHER                          -> "unsupported"

\* Raw key bytes carry no KeySpec: their length selects the version, that of
\* the secret half for a signer, of the public half for a verifier.
RawLen(half, spec) ==
  CASE spec = "ECC_NIST_EDWARDS25519" -> IF half = "secret" THEN 64 ELSE 32
    [] spec = "ECC_NIST_P384"         -> IF half = "secret" THEN 48 ELSE 49
    [] OTHER                          -> 0

\* Mutant: the two lengths are mixed up.
from_secret_len_Swapped(len) ==
  CASE len = 64 -> "V3" [] len = 48 -> "V4" [] OTHER -> "unsupported"
from_secret_len(len) ==
  CASE len = 64 -> "V4" [] len = 48 -> "V3" [] OTHER -> "unsupported"
from_key_len(len) ==
  CASE len = 32 -> "V4" [] len = 49 -> "V3" [] OTHER -> "unsupported"

RawVersion(half, spec) ==
  IF half = "secret" THEN from_secret_len(RawLen(half, spec)) ELSE from_key_len(RawLen(half, spec))

\* The only arguments resolve reads; PASETO_KEY_SOURCE is not among them.
resolve(source) ==
  CASE source \in {"none", "auto"} -> IF config.lambda THEN "Kms" ELSE "Env"
    [] source = "kms"              -> "Kms"
    [] source = "env"              -> "Env"
    [] OTHER                       -> "invalid"

\* A non-blank argument wins over KMS_KEY_ID.
resolve_key_id(arg) == IF arg # NoRef THEN arg ELSE config.keyId

from_env_keys(half, raw) ==
  LET version == RawVersion(half, SpecOf[raw.key])
  IN  CASE raw.form = "notBase64" -> Failed("Unauthenticated")
        [] raw.form = "key" /\ version \in Versions -> Ready("Env", version, NoRef, raw.key, 0)
        [] OTHER -> Failed("KeyPairError")

\* One GetPublicKey call, answered for the key the reference names now.  The
\* call may fail, or come without a key that can be decoded; a key that is
\* decoded and that pasetors does not take is a failure of the other kind.
from_kms(arg) ==
  LET r == resolve_key_id(arg)
      k == CurrentKey(r)
      fetched == IF r # NoRef /\ from_key_spec(SpecOf[k]) \in Versions
                 THEN {Ready("Kms", from_key_spec(SpecOf[k]), r, k, epoch[r]), Failed("Unauthenticated")}
                 ELSE {}
  IN  fetched \cup {Failed("KeyPairError")}

\* What a constructor may end with, given the half of a key this side reads
\* and its raw value.
build(half, raw, source, arg) ==
  CASE resolve(source) = "Env" -> {from_env_keys(half, raw)}
    [] resolve(source) = "Kms" -> from_kms(arg)
    [] OTHER                   -> {Failed("KeyPairError")}

-----------------------------------------------------------------------------
(* Claims and tokens *)

Claims ==
  [kind : {"access", "refresh", "custom"}, typ : Typs, iat : Nat, exp : Nat,
   footer : Footers \cup {NoFooter}]

\* Mutant: the lifetime is subtracted.
build_claims_Past(kind, typ, secs, footer) ==
  [kind |-> kind, typ |-> typ, iat |-> now, exp |-> now - secs, footer |-> footer]
build_claims(kind, typ, secs, footer) ==
  [kind |-> kind, typ |-> typ, iat |-> now, exp |-> now + secs, footer |-> footer]

\* extra: the value under "typ" in the caller's extra claims.
gen_access_token(extra)  == build_claims("access", extra, AccessSeconds, NoFooter)

\* Mutant: the caller's extras are merged after the discriminator.
gen_refresh_token_ExtrasLast(extra) ==
  build_claims("refresh", IF extra = "none" THEN "refresh" ELSE extra, RefreshSeconds, NoFooter)
gen_refresh_token(extra) == build_claims("refresh", "refresh", RefreshSeconds, NoFooter)

\* What a caller may ask a signer for now: the two generators, or its own
\* claims and footer through sign_claims.
SignRequests ==
  {gen_access_token(x) : x \in {"none"} \cup Extras}
    \cup {gen_refresh_token(x) : x \in {"none"} \cup Extras}
    \cup {build_claims("custom", x, secs, f) :
            x \in {"none"} \cup Extras, secs \in CustomSeconds, f \in Footers \cup {NoFooter}}

Tokens ==
  [claims : Claims, version : Versions, signedBy : Keys, framed : Keys \cup {NoKey},
   via : {"Env", "Kms"}, ref : KeyRefs \cup {NoRef}, built : Epochs, epoch : Epochs]

\* The key piece of the PAE: v3 puts the public key first, v4 has none.
\* Mutant: the v3 message is framed like a v4 one.
kms_message_NoKey(i) == NoKey
kms_message(i) == IF i.version = "V3" THEN i.key ELSE NoKey

signing_algorithm(version) == IF version = "V3" THEN "ECDSA_SHA_384" ELSE "ED25519_SHA_512"

\* KMS signs with the key the reference names when the call arrives, if that
\* key supports the algorithm asked for.
KmsSupports(k, algorithm) ==
  \/ SpecOf[k] = "ECC_NIST_P384" /\ algorithm = "ECDSA_SHA_384"
  \/ SpecOf[k] = "ECC_NIST_EDWARDS25519" /\ algorithm = "ED25519_SHA_512"

\* built: the epoch in which the signer cached the key it frames with;
\* epoch: the one in which the signature was made.
assemble_token(i, claims, framed, k, e) ==
  [claims |-> claims, version |-> i.version, signedBy |-> k, framed |-> framed,
   via |-> i.source, ref |-> i.ref, built |-> i.epoch, epoch |-> e]

Idle == [signing |-> FALSE]
InFlight(claims, framed) == [signing |-> TRUE, claims |-> claims, framed |-> framed]

Pending ==
  [signing : {FALSE}] \cup [signing : {TRUE}, claims : Claims, framed : Keys \cup {NoKey}]

-----------------------------------------------------------------------------
(* Actions *)

Init ==
  /\ now = 0
  /\ config \in Configs
  /\ keyAt \in {[r \in KeyRefs |-> [e \in Epochs |-> first[r]]] : first \in [KeyRefs -> Keys]}
  /\ epoch = [r \in KeyRefs |-> 0]
  /\ retiredAt = [r \in KeyRefs |-> [e \in Epochs |-> 0]]
  /\ signer = [s \in Signers |-> Absent]
  /\ pending = [s \in Signers |-> Idle]
  /\ verifier = [v \in Verifiers |-> Absent]
  /\ issued = {}

Tick ==
  /\ now < MaxTime
  /\ now' = now + 1
  /\ UNCHANGED <<config, kms, signer, pending, verifier, issued>>

\* The operator deploys another environment; running processes keep theirs.
Redeploy(c) ==
  /\ config' = c
  /\ UNCHANGED <<now, kms, signer, pending, verifier, issued>>

\* The operator repoints a reference, possibly at a key it named before.
Rotate(r, k) ==
  /\ epoch[r] < MaxRotations
  /\ k # CurrentKey(r)
  /\ epoch' = [epoch EXCEPT ![r] = @ + 1]
  /\ keyAt' = [keyAt EXCEPT ![r][epoch[r] + 1] = k]
  /\ retiredAt' = [retiredAt EXCEPT ![r][epoch[r]] = now]
  /\ UNCHANGED <<now, config, signer, pending, verifier, issued>>

\* Signer::new(arg) is source = "none", Signer::with_source(arg, source) the rest.
BuildSigner(s, source, arg) ==
  /\ signer[s].st # "ready"
  /\ \E i \in build("secret", config.prv, source, arg) : signer' = [signer EXCEPT ![s] = i]
  /\ UNCHANGED <<now, config, kms, pending, verifier, issued>>

BuildVerifier(v, source, arg) ==
  /\ verifier[v].st # "ready"
  /\ \E i \in build("public", config.pub, source, arg) : verifier' = [verifier EXCEPT ![v] = i]
  /\ UNCHANGED <<now, config, kms, signer, pending, issued>>

\* The platform ends a process: its instance and its pending call are gone.
StopSigner(s) ==
  /\ signer[s].st # "absent"
  /\ signer' = [signer EXCEPT ![s] = Absent]
  /\ pending' = [pending EXCEPT ![s] = Idle]
  /\ UNCHANGED <<now, config, kms, verifier, issued>>

StopVerifier(v) ==
  /\ verifier[v].st # "absent"
  /\ verifier' = [verifier EXCEPT ![v] = Absent]
  /\ UNCHANGED <<now, config, kms, signer, pending, issued>>

Issue(t) ==
  /\ Cardinality(issued) < MaxTokens
  /\ issued' = issued \cup {t}

\* Env source: signing performs no I/O, the claims and the token are one step.
sign_local(s, claims) ==
  /\ signer[s].st = "ready" /\ signer[s].source = "Env"
  /\ Issue(assemble_token(signer[s], claims, kms_message(signer[s]), signer[s].key, 0))
  /\ UNCHANGED <<now, config, kms, signer, pending, verifier>>

\* KMS source: claims and message are fixed here, before the Sign call.
sign_via_kms(s, claims) ==
  /\ signer[s].st = "ready" /\ signer[s].source = "Kms"
  /\ pending[s] = Idle
  /\ pending' = [pending EXCEPT ![s] = InFlight(claims, kms_message(signer[s]))]
  /\ UNCHANGED <<now, config, kms, signer, verifier, issued>>

\* The Sign call succeeds under the key the reference names by now.
kms_sign(s) ==
  LET i == signer[s]
      k == CurrentKey(i.ref)
  IN  /\ pending[s].signing
      /\ KmsSupports(k, signing_algorithm(i.version))
      /\ Issue(assemble_token(i, pending[s].claims, pending[s].framed, k, epoch[i.ref]))
      /\ pending' = [pending EXCEPT ![s] = Idle]
      /\ UNCHANGED <<now, config, kms, signer, verifier>>

\* The Sign call fails, is refused for its algorithm, or its signature cannot
\* be taken apart: no token, by whichever error (a signature that is not DER
\* is told as one of the caller, signer.rs:290 notwithstanding).
kms_sign_fails(s) ==
  /\ pending[s].signing
  /\ pending' = [pending EXCEPT ![s] = Idle]
  /\ UNCHANGED <<now, config, kms, signer, verifier, issued>>

RefArgs == KeyRefs \cup {NoRef}

SignerStep(s) ==
  \/ \E source \in SourceArgs, arg \in RefArgs : BuildSigner(s, source, arg)
  \/ \E claims \in SignRequests : sign_local(s, claims) \/ sign_via_kms(s, claims)
  \/ kms_sign(s) \/ kms_sign_fails(s) \/ StopSigner(s)

VerifierStep(v) ==
  \/ \E source \in SourceArgs, arg \in RefArgs : BuildVerifier(v, source, arg)
  \/ StopVerifier(v)

Next ==
  \/ Tick
  \/ \E c \in Configs : Redeploy(c)
  \/ \E r \in KeyRefs, k \in Keys : Rotate(r, k)
  \/ \E s \in Signers : SignerStep(s)
  \/ \E v \in Verifiers : VerifierStep(v)

Spec == Init /\ [][Next]_vars

-----------------------------------------------------------------------------
(* Verification: a function of the verifier, the token and the clock that  *)
(* changes no state.                                                       *)

Clock(v) == now + Skew[v]

\* iat and exp; at the instant exp itself the claims library may go either
\* way, and is taken to accept.  Mutant: exp is not looked at.
validated_claims_NoExp(claims, clock) == claims.iat <= clock
validated_claims(claims, clock) == claims.iat <= clock /\ clock <= claims.exp

\* What pasetors verifies: the signature, over a message that for v3 starts
\* with the verifier's own key.  Mutant: v3 is verified like v4.
SignatureVerifies_Unframed(i, t) == t.signedBy = i.key
SignatureVerifies(i, t) ==
  /\ t.signedBy = i.key
  /\ i.version = "V3" => t.framed = i.key

\* With no expected footer, any footer passes.
verify_token_with_footer(v, t, expected) ==
  /\ verifier[v].st = "ready"
  /\ t.version = verifier[v].version
  /\ SignatureVerifies(verifier[v], t)
  /\ expected # NoFooter => t.claims.footer = expected
  /\ validated_claims(t.claims, Clock(v))

verify_token(v, t) == verify_token_with_footer(v, t, NoFooter)

-----------------------------------------------------------------------------
(* Properties *)

\* Type invariant.
TypeOK ==
  /\ now \in 0..MaxTime
  /\ config \in Configs
  /\ keyAt \in [KeyRefs -> [Epochs -> Keys]]
  /\ epoch \in [KeyRefs -> Epochs]
  /\ retiredAt \in [KeyRefs -> [Epochs -> 0..MaxTime]]
  /\ signer \in [Signers -> Instance]
  /\ pending \in [Signers -> Pending]
  /\ verifier \in [Verifiers -> Instance]
  /\ issued \subseteq Tokens

\* The header of every token handed out is that of the kind of key that
\* signed it, although the header is the pinned version's and the key is
\* whatever the reference named when KMS got the call.
HeaderMatchesKey == \A t \in issued : from_key_spec(SpecOf[t.signedBy]) = t.version

\* Tokens of the KMS source that a KMS verifier of the same reference accepts.
SameRef(v, t) ==
  /\ verifier[v].st = "ready" /\ verifier[v].source = "Kms"
  /\ t.via = "Kms" /\ t.ref = verifier[v].ref

\* How long a retired key lives on in warm verifiers: a token whose key was
\* retired is accepted, anywhere, no later than one lifetime of that token
\* after the retirement, even if no verifier is ever restarted.
OverlapBounded ==
  \A v \in Verifiers, t \in issued, f \in Footers \cup {NoFooter} :
    /\ verify_token_with_footer(v, t, f)
    /\ t.via = "Kms" /\ t.epoch < epoch[t.ref]
    => Clock(v) <= retiredAt[t.ref][t.epoch] + (t.claims.exp - t.claims.iat)

\* Signer cache, KMS and verifier cache were filled in the same epoch: the
\* token is accepted from its issue until it expires, whatever restarts,
\* rotations and pending calls there were in between.
SameEpochInterop ==
  \A v \in Verifiers, t \in issued :
    /\ SameRef(v, t)
    /\ t.built = t.epoch /\ verifier[v].epoch = t.epoch
    /\ t.claims.iat <= Clock(v) /\ Clock(v) < t.claims.exp
    => verify_token(v, t) /\ verify_token_with_footer(v, t, t.claims.footer)

\* Acceptance across a rotation happens only where the rotation came back to
\* the same key; for v3 the signer's cache must be of that key as well, so a
\* token framed with a stale key is never accepted.
AcceptedAcrossEpochs ==
  \A v \in Verifiers, t \in issued :
    SameRef(v, t) /\ verify_token(v, t) =>
      /\ keyAt[t.ref][verifier[v].epoch] = keyAt[t.ref][t.epoch]
      /\ t.version = "V3" => keyAt[t.ref][t.built] = keyAt[t.ref][t.epoch]

\* A refresh token carries typ = "refresh" and the refresh lifetime, whatever
\* extra claims its caller passes and however long the Sign call takes.
RefreshIsMarked ==
  \A t \in issued : t.claims.kind = "refresh" =>
    t.claims.typ = "refresh" /\ t.claims.exp = t.claims.iat + RefreshSeconds

-----------------------------------------------------------------------------
(* What the documentation says, and the code does not do *)

\* "Rotating the KMS key invalidates every previously issued v3 token
\* immediately [...] there is no overlap window" (signer.rs, Key rotation).
RotationIsImmediate ==
  \A v \in Verifiers, t \in issued :
    SameRef(v, t) /\ verify_token(v, t) /\ t.version = "V3" =>
      t.signedBy = CurrentKey(t.ref)

\* A signer fails loudly rather than "mint tokens no implementation could
\* verify" (signer.rs, from_kms): every v3 token is framed with the key that
\* signed it.
NoUnverifiableToken ==
  \A t \in issued : t.version = "V3" => t.framed = t.signedBy

=============================================================================
