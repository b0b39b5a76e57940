------------------------- MODULE TokenServiceProofs -------------------------
(***************************************************************************)
(* Proofs about TokenService for any number of keys, references, signers,  *)
(* verifiers and rotations, any clock skew and any lifetimes.              *)
(***************************************************************************)
EXTENDS TokenService, TLAPS

-----------------------------------------------------------------------------
(* The inductive invariant: what the caches, the calls in flight and the   *)
(* tokens remember of the epochs they come from.                           *)

\* A ready instance holds a key of its pinned version; a KMS instance holds
\* the key its reference named in the epoch of its construction.
Pinned(i) ==
  i.st = "ready" =>
    /\ i.source \in {"Env", "Kms"}
    /\ i.key \in Keys
    /\ i.version \in Versions
    /\ from_key_spec(SpecOf[i.key]) = i.version
    /\ i.source = "Kms" => /\ i.ref \in KeyRefs
                           /\ i.epoch <= epoch[i.ref]
                           /\ i.key = keyAt[i.ref][i.epoch]

ClaimsOK(c) ==
  /\ c.iat <= now
  /\ c.kind = "refresh" => c.typ = "refresh" /\ c.exp = c.iat + RefreshSeconds

\* A call in flight belongs to a living KMS signer and was framed with its key.
InFlightOK(s) ==
  pending[s].signing =>
    /\ signer[s].st = "ready" /\ signer[s].source = "Kms"
    /\ pending[s].framed = kms_message(signer[s])
    /\ ClaimsOK(pending[s].claims)

\* A KMS token was signed with the key of its epoch, framed (v3) with that of
\* the epoch its signer was built in, and claims no issue time after its
\* epoch ended.
TokenOK(t) ==
  /\ ClaimsOK(t.claims)
  /\ from_key_spec(SpecOf[t.signedBy]) = t.version
  /\ t.via = "Kms" =>
       /\ t.ref \in KeyRefs
       /\ t.built <= epoch[t.ref] /\ t.epoch <= epoch[t.ref]
       /\ t.signedBy = keyAt[t.ref][t.epoch]
       /\ t.version = "V3" => t.framed = keyAt[t.ref][t.built]
       /\ t.epoch < epoch[t.ref] => t.claims.iat <= retiredAt[t.ref][t.epoch]

SignersPinned   == \A s \in Signers : Pinned(signer[s])
VerifiersPinned == \A v \in Verifiers : Pinned(verifier[v])
PendingOK       == \A s \in Signers : InFlightOK(s)
IssuedOK        == \A t \in issued : TokenOK(t)

IInv == TypeOK /\ SignersPinned /\ VerifiersPinned /\ PendingOK /\ IssuedOK

-----------------------------------------------------------------------------
(* Lemmas about the operators *)

\* A constructor ends with a well-typed instance that satisfies Pinned.
LEMMA BuildPinned ==
  ASSUME TypeOK, NEW half, NEW raw \in RawKey, NEW source \in SourceArgs, NEW arg \in RefArgs,
         NEW i \in build(half, raw, source, arg)
  PROVE  i \in Instance /\ Pinned(i)
<1>1. Failed("KeyPairError") \in Instance /\ Pinned(Failed("KeyPairError"))
  BY KeysAssumption, BoundAssumption DEF Failed, Unready, Instance, Pinned, Epochs
<1>2. Failed("Unauthenticated") \in Instance /\ Pinned(Failed("Unauthenticated"))
  BY KeysAssumption, BoundAssumption DEF Failed, Unready, Instance, Pinned, Epochs
<1>3. from_env_keys(half, raw) \in Instance /\ Pinned(from_env_keys(half, raw))
  <2>1. CASE raw.form = "key" /\ RawVersion(half, SpecOf[raw.key]) \in Versions
    <3>1. raw.key \in Keys /\ SpecOf[raw.key] \in KeySpecs
      BY KeysAssumption DEF RawKey
    <3>2. from_key_spec(SpecOf[raw.key]) = RawVersion(half, SpecOf[raw.key])
      BY <3>1, <2>1 DEF KeySpecs, Versions, from_key_spec, from_key_len, from_secret_len, RawLen, RawVersion
    <3>3. from_env_keys(half, raw)
            = Ready("Env", RawVersion(half, SpecOf[raw.key]), NoRef, raw.key, 0)
      BY <2>1 DEF from_env_keys
    <3> QED
      BY <2>1, <3>1, <3>2, <3>3, BoundAssumption DEF Ready, Instance, Pinned, Epochs
  <2>2. CASE ~(raw.form = "key" /\ RawVersion(half, SpecOf[raw.key]) \in Versions)
    <3>1. from_env_keys(half, raw) \in {Failed("KeyPairError"), Failed("Unauthenticated")}
      BY <2>2 DEF from_env_keys
    <3> QED BY <1>1, <1>2, <3>1
  <2> QED BY <2>1, <2>2
<1>4. ASSUME NEW j \in from_kms(arg) PROVE j \in Instance /\ Pinned(j)
  <2> DEFINE r == resolve_key_id(arg)
             k == CurrentKey(r)
  <2>1. CASE j = Failed("KeyPairError") BY <1>1, <2>1
  <2>2. CASE j = Failed("Unauthenticated") BY <1>2, <2>2
  <2>3. CASE j \notin {Failed("KeyPairError"), Failed("Unauthenticated")}
    <3>1. /\ r # NoRef /\ from_key_spec(SpecOf[k]) \in Versions
          /\ j = Ready("Kms", from_key_spec(SpecOf[k]), r, k, epoch[r])
      BY <1>4, <2>3 DEF from_kms
    <3>2. r \in KeyRefs
      BY <3>1, EnvironmentAssumption DEF resolve_key_id, RefArgs, TypeOK, Config
    <3>3. epoch[r] \in Epochs /\ epoch[r] <= epoch[r] /\ k \in Keys
      BY <3>2, BoundAssumption DEF TypeOK, CurrentKey, Epochs
    <3> QED BY <3>1, <3>2, <3>3 DEF Ready, Instance, Pinned, CurrentKey
  <2> QED BY <2>1, <2>2, <2>3
<1> QED BY <1>1, <1>3, <1>4 DEF build

\* Claims built now are well-typed and satisfy ClaimsOK.
LEMMA RequestsOK ==
  ASSUME now \in Nat, NEW c \in SignRequests
  PROVE  c \in Claims /\ ClaimsOK(c)
<1>1. AccessSeconds \in Nat /\ RefreshSeconds \in Nat /\ CustomSeconds \subseteq Nat
  BY LifetimeAssumption
<1>2. ASSUME NEW x \in Typs, c = gen_access_token(x)
      PROVE  c \in Claims /\ ClaimsOK(c)
  BY <1>1, <1>2 DEF gen_access_token, build_claims, Claims, ClaimsOK
<1>3. ASSUME NEW x \in Typs, c = gen_refresh_token(x)
      PROVE  c \in Claims /\ ClaimsOK(c)
  BY <1>1, <1>3 DEF gen_refresh_token, build_claims, Claims, ClaimsOK, Typs
<1>4. ASSUME NEW x \in Typs, NEW secs \in CustomSeconds, NEW f \in Footers \cup {NoFooter},
             c = build_claims("custom", x, secs, f)
      PROVE  c \in Claims /\ ClaimsOK(c)
  BY <1>1, <1>4 DEF build_claims, Claims, ClaimsOK
<1>5. {"none"} \cup Extras \subseteq Typs
  BY DEF Typs
<1> QED BY <1>2, <1>3, <1>4, <1>5 DEF SignRequests

\* What KMS signs for an algorithm is a key of the version asking for it.
LEMMA AlgorithmFitsVersion ==
  ASSUME NEW version \in Versions, NEW k \in Keys,
         KmsSupports(k, signing_algorithm(version))
  PROVE  from_key_spec(SpecOf[k]) = version
BY DEF Versions, KmsSupports, signing_algorithm, from_key_spec

-----------------------------------------------------------------------------
(* The invariant is inductive *)

\* Nothing is built, signed or repointed yet.
LEMMA InitIInv == Init => IInv
<1> SUFFICES ASSUME Init PROVE IInv
  OBVIOUS
<1>1. 0 \in Epochs /\ 0 \in 0..MaxTime
  BY BoundAssumption DEF Epochs
<1>2. Absent \in Instance /\ Pinned(Absent)
  BY <1>1, KeysAssumption DEF Absent, Unready, Instance, Pinned
<1>3. Idle \in Pending /\ ~Idle.signing
  BY DEF Idle, Pending
<1>4. TypeOK
  BY <1>1, <1>2, <1>3 DEF Init, TypeOK
<1>5. SignersPinned /\ VerifiersPinned /\ PendingOK /\ IssuedOK
  BY <1>2, <1>3 DEF Init, SignersPinned, VerifiersPinned, PendingOK, InFlightOK, IssuedOK
<1> QED BY <1>4, <1>5 DEF IInv

\* Steps that leave KMS and the clock alone keep what instances remember.
LEMMA PinnedUnchanged ==
  ASSUME UNCHANGED kms, NEW i
  PROVE  Pinned(i) <=> Pinned(i)'
BY DEF kms, Pinned

\* The same for what a token remembers.
LEMMA TokenUnchanged ==
  ASSUME UNCHANGED <<now, kms>>, NEW t
  PROVE  TokenOK(t) <=> TokenOK(t)'
BY DEF kms, TokenOK, ClaimsOK

\* Time passing keeps the invariant: epochs that ended stay in the past.
LEMMA TickIInv == IInv /\ Tick => IInv'
<1> SUFFICES ASSUME IInv, Tick PROVE IInv'
  OBVIOUS
<1> USE DEF IInv
<1>1. now \in Nat /\ now' = now + 1 /\ now' \in 0..MaxTime
  BY BoundAssumption DEF Tick, TypeOK
<1>2. TypeOK'
  BY <1>1 DEF Tick, TypeOK, kms
<1>3. \A i : Pinned(i) <=> Pinned(i)'
  BY DEF Tick, kms, Pinned
<1>4. SignersPinned' /\ VerifiersPinned'
  BY <1>3 DEF Tick, SignersPinned, VerifiersPinned
<1>5. \A c \in Claims : ClaimsOK(c) => ClaimsOK(c)'
  BY <1>1 DEF ClaimsOK, Claims
<1>6. PendingOK'
  <2>1. \A s \in Signers : pending[s].signing => pending[s].claims \in Claims
    BY DEF TypeOK, Pending
  <2> QED BY <2>1, <1>5 DEF Tick, PendingOK, InFlightOK, kms
<1>7. IssuedOK'
  <2>1. \A t \in issued : t.claims \in Claims
    BY DEF TypeOK, Tokens
  <2> QED BY <2>1, <1>5 DEF Tick, IssuedOK, TokenOK, kms
<1> QED BY <1>2, <1>4, <1>6, <1>7

\* A new environment changes no process that is running.
LEMMA RedeployIInv ==
  ASSUME IInv, NEW c \in Configs, Redeploy(c)
  PROVE  IInv'
<1> USE DEF IInv
<1>1. TypeOK'
  BY DEF Redeploy, TypeOK, kms
<1>2. SignersPinned' /\ VerifiersPinned'
  BY PinnedUnchanged DEF Redeploy, SignersPinned, VerifiersPinned
<1>3. PendingOK'
  BY DEF Redeploy, PendingOK, InFlightOK, ClaimsOK
<1>4. IssuedOK'
  BY TokenUnchanged DEF Redeploy, IssuedOK
<1> QED BY <1>1, <1>2, <1>3, <1>4

\* Repointing writes only the entry of the new epoch and the end of the old
\* one, so nothing an instance or a token remembers is overwritten.
LEMMA RotateIInv ==
  ASSUME IInv, NEW r \in KeyRefs, NEW k \in Keys, Rotate(r, k)
  PROVE  IInv'
<1> USE DEF IInv
<1>1. /\ epoch[r] \in Nat /\ epoch[r] < MaxRotations /\ epoch[r] + 1 \in Epochs
      /\ now \in Nat /\ now \in 0..MaxTime
  BY BoundAssumption DEF Rotate, TypeOK, Epochs
<1>2. TypeOK'
  BY <1>1 DEF Rotate, TypeOK
<1>3. ASSUME NEW q \in KeyRefs
      PROVE  /\ epoch[q] \in Int /\ epoch'[q] \in Int /\ epoch[q] <= epoch'[q]
             /\ \A e \in Epochs : e <= epoch[q] => keyAt'[q][e] = keyAt[q][e]
             /\ \A e \in Epochs : e < epoch[q] => retiredAt'[q][e] = retiredAt[q][e]
             /\ \A e \in Epochs : e <= epoch[q] /\ e < epoch'[q] /\ ~(e < epoch[q]) =>
                  retiredAt'[q][e] = now
  <2>1. /\ epoch' = [epoch EXCEPT ![r] = epoch[r] + 1]
        /\ keyAt' = [keyAt EXCEPT ![r] = [keyAt[r] EXCEPT ![epoch[r] + 1] = k]]
        /\ retiredAt' = [retiredAt EXCEPT ![r] = [retiredAt[r] EXCEPT ![epoch[r]] = now]]
    BY DEF Rotate
  <2>2. /\ epoch \in [KeyRefs -> Epochs] /\ keyAt \in [KeyRefs -> [Epochs -> Keys]]
        /\ retiredAt \in [KeyRefs -> [Epochs -> 0..MaxTime]]
        /\ \A e \in Epochs : e \in Int
    BY DEF TypeOK, Epochs
  <2>3. CASE q = r
    <3>1. epoch'[q] = epoch[q] + 1
      BY <2>1, <2>2, <2>3
    <3>2. \A e \in Epochs : e # epoch[q] + 1 => keyAt'[q][e] = keyAt[q][e]
      BY <2>1, <2>2, <2>3
    <3>3. \A e \in Epochs : retiredAt'[q][e] = IF e = epoch[q] THEN now ELSE retiredAt[q][e]
      BY <2>1, <2>2, <2>3
    <3>4. epoch[q] \in Int /\ epoch'[q] \in Int /\ epoch[q] <= epoch'[q]
      BY <1>1, <2>3, <3>1
    <3>5. \A e \in Epochs : e <= epoch[q] => keyAt'[q][e] = keyAt[q][e]
      BY <2>2, <3>2, <3>4
    <3>6. \A e \in Epochs : e < epoch[q] => retiredAt'[q][e] = retiredAt[q][e]
      BY <2>2, <3>3, <3>4
    <3>7. \A e \in Epochs : e <= epoch[q] /\ ~(e < epoch[q]) => retiredAt'[q][e] = now
      <4>1. \A e, n \in Int : e <= n /\ ~(e < n) => e = n
        OBVIOUS
      <4>2. \A e \in Epochs : e <= epoch[q] /\ ~(e < epoch[q]) => e = epoch[q]
        BY <2>2, <3>4, <4>1
      <4> QED BY <3>3, <4>2
    <3> QED BY <3>4, <3>5, <3>6, <3>7
  <2>4. CASE q # r
    <3>1. /\ epoch'[q] = epoch[q] /\ keyAt'[q] = keyAt[q] /\ retiredAt'[q] = retiredAt[q]
          /\ epoch[q] \in Epochs
      BY <2>1, <2>2, <2>4
    <3>2. epoch[q] \in Int
      BY <3>1 DEF Epochs
    <3> QED BY <2>2, <3>1, <3>2
  <2> QED BY <2>3, <2>4
<1>4. ASSUME NEW i \in Instance, Pinned(i) PROVE Pinned(i)'
  <2>1. i.epoch \in Epochs
    BY DEF Instance
  <2>2. CASE i.st = "ready" /\ i.source = "Kms"
    <3>1. i.ref \in KeyRefs /\ i.epoch <= epoch[i.ref] /\ i.key = keyAt[i.ref][i.epoch]
      BY <1>4, <2>2 DEF Pinned
    <3>2. i.epoch \in Int
      BY <2>1 DEF Epochs
    <3>3. i.epoch <= epoch'[i.ref] /\ i.key = keyAt'[i.ref][i.epoch]
      BY <1>3, <2>1, <3>1, <3>2
    <3> QED BY <1>4, <3>1, <3>3 DEF Pinned
  <2>3. CASE ~(i.st = "ready" /\ i.source = "Kms")
    BY <1>4, <2>3 DEF Pinned
  <2> QED BY <2>2, <2>3
<1>5. SignersPinned' /\ VerifiersPinned'
  BY <1>4 DEF Rotate, SignersPinned, VerifiersPinned, TypeOK
<1>6. PendingOK'
  BY DEF Rotate, PendingOK, InFlightOK, ClaimsOK
<1>7. ASSUME NEW t \in issued PROVE TokenOK(t)'
  <2>1. /\ TokenOK(t) /\ t.built \in Epochs /\ t.epoch \in Epochs
        /\ t.claims.iat \in Nat /\ t.claims.iat <= now
    BY DEF IssuedOK, TypeOK, Tokens, Claims, TokenOK, ClaimsOK
  <2>2. ClaimsOK(t.claims)'
    BY <2>1 DEF TokenOK, ClaimsOK, Rotate
  <2>3. CASE t.via = "Kms"
    <3>1. t.ref \in KeyRefs /\ t.built <= epoch[t.ref] /\ t.epoch <= epoch[t.ref]
      BY <2>1, <2>3 DEF TokenOK
    <3>2. t.built \in Int /\ t.epoch \in Int
      BY <2>1 DEF Epochs
    <3>3. t.built <= epoch'[t.ref] /\ t.epoch <= epoch'[t.ref]
      BY <1>3, <3>1, <3>2
    <3>4. /\ keyAt'[t.ref][t.epoch] = keyAt[t.ref][t.epoch]
          /\ keyAt'[t.ref][t.built] = keyAt[t.ref][t.built]
      BY <1>3, <2>1, <3>1
    <3>5. t.epoch < epoch'[t.ref] => t.claims.iat <= retiredAt'[t.ref][t.epoch]
      BY <1>3, <2>1, <2>3, <3>1 DEF TokenOK
    <3> QED BY <2>1, <2>2, <2>3, <3>1, <3>3, <3>4, <3>5 DEF TokenOK
  <2>4. CASE t.via # "Kms"
    BY <2>1, <2>2, <2>4 DEF TokenOK
  <2> QED BY <2>3, <2>4
<1>8. IssuedOK'
  BY <1>7 DEF IssuedOK, Rotate
<1> QED BY <1>2, <1>5, <1>6, <1>8

\* Building replaces one instance that was not ready, so no call is pending there.
LEMMA BuildSignerIInv ==
  ASSUME IInv, NEW s \in Signers, NEW source \in SourceArgs, NEW arg \in RefArgs,
         BuildSigner(s, source, arg)
  PROVE  IInv'
<1> USE DEF IInv
<1>1. PICK i \in build("secret", config.prv, source, arg) : signer' = [signer EXCEPT ![s] = i]
  BY DEF BuildSigner
<1>2. config.prv \in RawKey
  BY EnvironmentAssumption DEF TypeOK, Config
<1>3. i \in Instance /\ Pinned(i)
  BY <1>1, <1>2, BuildPinned
<1>4. TypeOK'
  BY <1>1, <1>3 DEF BuildSigner, TypeOK, kms
<1>5. SignersPinned'
  <2>1. \A j : Pinned(j) <=> Pinned(j)'
    BY DEF BuildSigner, kms, Pinned
  <2> QED BY <1>1, <1>3, <2>1 DEF SignersPinned, TypeOK
<1>6. VerifiersPinned'
  BY PinnedUnchanged DEF BuildSigner, VerifiersPinned
<1>7. PendingOK'
  BY <1>1 DEF BuildSigner, PendingOK, InFlightOK, ClaimsOK, TypeOK
<1>8. IssuedOK'
  BY TokenUnchanged DEF BuildSigner, IssuedOK
<1> QED BY <1>4, <1>5, <1>6, <1>7, <1>8

\* An instance that is gone remembers nothing, nor does its pending call.
LEMMA StopSignerIInv ==
  ASSUME IInv, NEW s \in Signers, StopSigner(s)
  PROVE  IInv'
<1> USE DEF IInv
<1>1. Absent \in Instance /\ Idle \in Pending /\ ~Idle.signing
  BY KeysAssumption, BoundAssumption
     DEF Absent, Unready, Instance, Idle, Pending, Epochs
<1>2. TypeOK'
  BY <1>1 DEF StopSigner, TypeOK, kms
<1>3. SignersPinned'
  <2>1. \A j : Pinned(j) <=> Pinned(j)'
    BY DEF StopSigner, kms, Pinned
  <2>2. Pinned(Absent)
    BY DEF Pinned, Absent, Unready
  <2> QED BY <2>1, <2>2 DEF StopSigner, SignersPinned, TypeOK
<1>4. VerifiersPinned'
  BY PinnedUnchanged DEF StopSigner, VerifiersPinned
<1>5. PendingOK'
  BY <1>1 DEF StopSigner, PendingOK, InFlightOK, ClaimsOK, TypeOK
<1>6. IssuedOK'
  BY TokenUnchanged DEF StopSigner, IssuedOK
<1> QED BY <1>2, <1>3, <1>4, <1>5, <1>6

\* Building and stopping verifiers, which nothing else refers to.
LEMMA VerifierStepIInv ==
  ASSUME IInv, NEW v \in Verifiers, VerifierStep(v)
  PROVE  IInv'
<1> USE DEF IInv
<1>1. PICK i \in Instance : Pinned(i) /\ verifier' = [verifier EXCEPT ![v] = i]
  <2>1. ASSUME NEW source \in SourceArgs, NEW arg \in RefArgs, BuildVerifier(v, source, arg)
        PROVE  \E i \in Instance : Pinned(i) /\ verifier' = [verifier EXCEPT ![v] = i]
    <3>1. config.pub \in RawKey
      BY EnvironmentAssumption DEF TypeOK, Config
    <3>2. \A i \in build("public", config.pub, source, arg) : i \in Instance /\ Pinned(i)
      BY <3>1, BuildPinned
    <3> QED BY <2>1, <3>2 DEF BuildVerifier
  <2>2. CASE StopVerifier(v)
    <3>1. Absent \in Instance /\ Pinned(Absent)
      BY KeysAssumption, BoundAssumption DEF Absent, Unready, Instance, Pinned, Epochs
    <3> QED BY <2>2, <3>1 DEF StopVerifier
  <2> QED BY <2>1, <2>2 DEF VerifierStep
<1>2. UNCHANGED <<now, config, kms, signer, pending, issued>>
  BY DEF VerifierStep, BuildVerifier, StopVerifier
<1>3. TypeOK'
  BY <1>1, <1>2 DEF TypeOK, kms
<1>4. SignersPinned' /\ VerifiersPinned'
  <2>1. \A j : Pinned(j) <=> Pinned(j)'
    BY <1>2 DEF kms, Pinned
  <2> QED BY <1>1, <1>2, <2>1 DEF SignersPinned, VerifiersPinned, TypeOK
<1>5. PendingOK'
  BY <1>2 DEF PendingOK, InFlightOK, ClaimsOK
<1>6. IssuedOK'
  BY <1>2, TokenUnchanged DEF IssuedOK
<1> QED BY <1>3, <1>4, <1>5, <1>6

\* A token of a ready instance satisfies TokenOK if it is signed with a key of
\* the instance's version, which for KMS is the key of the current epoch.
LEMMA AssembledOK ==
  ASSUME IInv, NEW s \in Signers, signer[s].st = "ready",
         NEW c \in Claims, ClaimsOK(c), NEW k \in Keys, NEW e \in Epochs,
         from_key_spec(SpecOf[k]) = signer[s].version,
         signer[s].source = "Kms" =>
           e = epoch[signer[s].ref] /\ k = CurrentKey(signer[s].ref)
  PROVE  LET t == assemble_token(signer[s], c, kms_message(signer[s]), k, e)
         IN  t \in Tokens /\ TokenOK(t)
<1> DEFINE i == signer[s]
           t == assemble_token(i, c, kms_message(i), k, e)
<1>1. /\ i \in Instance /\ Pinned(i)
      /\ i.source \in {"Env", "Kms"} /\ i.key \in Keys /\ i.version \in Versions
  BY DEF IInv, TypeOK, SignersPinned, Pinned
<1>2. kms_message(i) \in Keys \cup {NoKey}
  BY <1>1 DEF kms_message
<1>3. t \in Tokens
  BY <1>1, <1>2 DEF assemble_token, Tokens, Instance
<1>4. TokenOK(t)
  <2>1. /\ t.claims = c /\ t.version = i.version /\ t.signedBy = k /\ t.framed = kms_message(i)
        /\ t.via = i.source /\ t.ref = i.ref /\ t.built = i.epoch /\ t.epoch = e
    BY DEF assemble_token
  <2>2. CASE i.source = "Kms"
    <3>1. /\ i.ref \in KeyRefs /\ i.epoch <= epoch[i.ref] /\ i.key = keyAt[i.ref][i.epoch]
          /\ epoch[i.ref] \in Int
      BY <1>1, <2>2, BoundAssumption DEF Pinned, IInv, TypeOK, Epochs
    <3>2. ~(t.epoch < epoch[t.ref]) /\ t.epoch <= epoch[t.ref]
      BY <2>1, <2>2, <3>1
    <3>3. t.version = "V3" => t.framed = keyAt[t.ref][t.built]
      BY <2>1, <3>1 DEF kms_message
    <3> QED BY <2>1, <2>2, <3>1, <3>2, <3>3 DEF TokenOK, CurrentKey
  <2>3. CASE i.source # "Kms"
    BY <2>1, <2>3 DEF TokenOK
  <2> QED BY <2>2, <2>3
<1> QED BY <1>3, <1>4

\* Handing out a token that satisfies TokenOK.
LEMMA IssueIInv ==
  ASSUME IInv, NEW t \in Tokens, TokenOK(t), Issue(t),
         UNCHANGED <<now, config, kms, signer, verifier>>,
         pending' \in [Signers -> Pending], PendingOK'
  PROVE  IInv'
<1>1. TypeOK'
  BY DEF Issue, IInv, TypeOK, kms
<1>2. SignersPinned' /\ VerifiersPinned'
  BY PinnedUnchanged DEF IInv, SignersPinned, VerifiersPinned
<1>3. IssuedOK'
  BY TokenUnchanged DEF Issue, IInv, IssuedOK
<1> QED BY <1>1, <1>2, <1>3 DEF IInv

\* A token signed in the process is signed with the key that frames it.
LEMMA SignLocalIInv ==
  ASSUME IInv, NEW s \in Signers, NEW c \in SignRequests, sign_local(s, c)
  PROVE  IInv'
<1>1. c \in Claims /\ ClaimsOK(c)
  BY RequestsOK, BoundAssumption DEF IInv, TypeOK
<1>2. /\ signer[s].st = "ready" /\ signer[s].source = "Env"
      /\ signer[s].key \in Keys /\ 0 \in Epochs
      /\ from_key_spec(SpecOf[signer[s].key]) = signer[s].version
  BY BoundAssumption DEF sign_local, IInv, SignersPinned, Pinned, Epochs
<1> DEFINE t == assemble_token(signer[s], c, kms_message(signer[s]), signer[s].key, 0)
<1>3. t \in Tokens /\ TokenOK(t)
  BY <1>1, <1>2, AssembledOK
<1>4. Issue(t) /\ UNCHANGED <<now, config, kms, signer, verifier>> /\ pending' = pending
  BY DEF sign_local
<1>5. pending' \in [Signers -> Pending] /\ PendingOK'
  BY <1>4 DEF IInv, TypeOK, PendingOK, InFlightOK, ClaimsOK
<1> HIDE DEF t
<1> QED BY <1>3, <1>4, <1>5, IssueIInv

\* A pending call holds claims of its caller and the key its signer caches.
LEMMA SignViaKmsIInv ==
  ASSUME IInv, NEW s \in Signers, NEW c \in SignRequests, sign_via_kms(s, c)
  PROVE  IInv'
<1> USE DEF IInv
<1>1. c \in Claims /\ ClaimsOK(c)
  BY RequestsOK, BoundAssumption DEF TypeOK
<1>2. kms_message(signer[s]) \in Keys \cup {NoKey}
  BY DEF sign_via_kms, SignersPinned, Pinned, kms_message
<1>3. TypeOK'
  BY <1>1, <1>2 DEF sign_via_kms, TypeOK, Pending, InFlight, kms
<1>4. SignersPinned' /\ VerifiersPinned'
  BY PinnedUnchanged DEF sign_via_kms, SignersPinned, VerifiersPinned
<1>5. PendingOK'
  BY <1>1 DEF sign_via_kms, PendingOK, InFlightOK, InFlight, ClaimsOK, TypeOK, kms_message
<1>6. IssuedOK'
  BY TokenUnchanged DEF sign_via_kms, IssuedOK
<1> QED BY <1>3, <1>4, <1>5, <1>6

\* KMS signs with the key of the current epoch, if that has the signer's version.
LEMMA KmsSignIInv ==
  ASSUME IInv, NEW s \in Signers, kms_sign(s)
  PROVE  IInv'
<1> DEFINE i == signer[s]
           k == CurrentKey(i.ref)
           t == assemble_token(i, pending[s].claims, pending[s].framed, k, epoch[i.ref])
<1>1. /\ i.st = "ready" /\ i.source = "Kms"
      /\ pending[s].framed = kms_message(i) /\ ClaimsOK(pending[s].claims)
  BY DEF kms_sign, IInv, PendingOK, InFlightOK
<1>2. pending[s].claims \in Claims
  BY DEF kms_sign, IInv, TypeOK, Pending
<1>3. i.ref \in KeyRefs /\ i.version \in Versions
  BY <1>1 DEF IInv, SignersPinned, Pinned
<1>4. k \in Keys /\ epoch[i.ref] \in Epochs
  BY <1>3 DEF IInv, TypeOK, CurrentKey
<1>5. from_key_spec(SpecOf[k]) = i.version
  BY <1>3, <1>4, AlgorithmFitsVersion DEF kms_sign
<1>6. t \in Tokens /\ TokenOK(t)
  BY <1>1, <1>2, <1>4, <1>5, AssembledOK
<1>7. /\ Issue(t) /\ UNCHANGED <<now, config, kms, signer, verifier>>
      /\ pending' = [pending EXCEPT ![s] = Idle]
  BY DEF kms_sign
<1>8. pending' \in [Signers -> Pending] /\ PendingOK'
  BY <1>7 DEF IInv, TypeOK, PendingOK, InFlightOK, ClaimsOK, Idle, Pending
<1> HIDE DEF t
<1> QED BY <1>6, <1>7, <1>8, IssueIInv

\* A Sign call that fails leaves no token.
LEMMA KmsSignFailsIInv ==
  ASSUME IInv, NEW s \in Signers, kms_sign_fails(s)
  PROVE  IInv'
<1> USE DEF IInv
<1>1. Idle \in Pending /\ ~Idle.signing
  BY DEF Idle, Pending
<1>2. TypeOK'
  BY <1>1 DEF kms_sign_fails, TypeOK, kms
<1>3. SignersPinned' /\ VerifiersPinned'
  BY PinnedUnchanged DEF kms_sign_fails, SignersPinned, VerifiersPinned
<1>4. PendingOK'
  BY <1>1 DEF kms_sign_fails, PendingOK, InFlightOK, ClaimsOK, TypeOK
<1>5. IssuedOK'
  BY TokenUnchanged DEF kms_sign_fails, IssuedOK
<1> QED BY <1>2, <1>3, <1>4, <1>5

\* The invariant is inductive.
LEMMA NextIInv == IInv /\ [Next]_vars => IInv'
<1> SUFFICES ASSUME IInv, [Next]_vars PROVE IInv'
  OBVIOUS
<1>1. CASE Tick
  BY <1>1, TickIInv
<1>2. ASSUME NEW c \in Configs, Redeploy(c) PROVE IInv'
  BY <1>2, RedeployIInv
<1>3. ASSUME NEW r \in KeyRefs, NEW k \in Keys, Rotate(r, k) PROVE IInv'
  BY <1>3, RotateIInv
<1>4. ASSUME NEW s \in Signers, SignerStep(s) PROVE IInv'
  BY <1>4, BuildSignerIInv, StopSignerIInv, SignLocalIInv, SignViaKmsIInv, KmsSignIInv,
     KmsSignFailsIInv DEF SignerStep
<1>5. ASSUME NEW v \in Verifiers, VerifierStep(v) PROVE IInv'
  BY <1>5, VerifierStepIInv
<1>6. CASE UNCHANGED vars
  <2>1. UNCHANGED <<now, config, kms, signer, pending, verifier, issued>>
    BY <1>6 DEF vars, kms
  <2>2. TypeOK'
    BY <2>1 DEF IInv, TypeOK, kms
  <2>3. SignersPinned' /\ VerifiersPinned'
    BY <2>1, PinnedUnchanged DEF IInv, SignersPinned, VerifiersPinned
  <2>4. PendingOK'
    BY <2>1 DEF IInv, PendingOK, InFlightOK, ClaimsOK
  <2>5. IssuedOK'
    BY <2>1, TokenUnchanged DEF IInv, IssuedOK
  <2> QED BY <2>2, <2>3, <2>4, <2>5 DEF IInv
<1> QED BY <1>1, <1>2, <1>3, <1>4, <1>5, <1>6 DEF Next

\* The inductive invariant holds in every reachable state.
THEOREM Invariance == Spec => []IInv
<1>1. Init => IInv BY InitIInv
<1>2. IInv /\ [Next]_vars => IInv' BY NextIInv
<1> QED BY <1>1, <1>2, PTL DEF Spec

-----------------------------------------------------------------------------
(* The properties *)

\* Every reachable state is well-typed.
THEOREM TypeCorrect == Spec => []TypeOK
BY Invariance, PTL DEF IInv

\* The header of a token always fits the key that signed it.
THEOREM HeaderCorrect == Spec => []HeaderMatchesKey
<1>1. IInv => HeaderMatchesKey
  BY DEF IInv, IssuedOK, TokenOK, HeaderMatchesKey
<1> QED BY <1>1, Invariance, PTL

\* Refresh tokens are always marked and live for the refresh lifetime.
THEOREM RefreshCorrect == Spec => []RefreshIsMarked
<1>1. IInv => RefreshIsMarked
  BY DEF IInv, IssuedOK, TokenOK, ClaimsOK, RefreshIsMarked
<1> QED BY <1>1, Invariance, PTL

\* A warm verifier accepts a token of a retired key for at most one lifetime
\* of that token after the retirement.
THEOREM OverlapCorrect == Spec => []OverlapBounded
<1>1. ASSUME IInv, NEW v \in Verifiers, NEW t \in issued, NEW f \in Footers \cup {NoFooter},
             verify_token_with_footer(v, t, f), t.via = "Kms", t.epoch < epoch[t.ref]
      PROVE  Clock(v) <= retiredAt[t.ref][t.epoch] + (t.claims.exp - t.claims.iat)
  <2>1. t \in Tokens /\ TokenOK(t)
    BY <1>1 DEF IInv, TypeOK, IssuedOK
  <2>2. t.claims.iat \in Int /\ t.claims.exp \in Int
    BY <2>1 DEF Tokens, Claims
  <2>3. t.ref \in KeyRefs /\ t.claims.iat <= retiredAt[t.ref][t.epoch]
    BY <1>1, <2>1 DEF TokenOK
  <2>4. retiredAt[t.ref][t.epoch] \in Int
    BY <1>1, <2>1, <2>3 DEF IInv, TypeOK, Tokens
  <2>5. Clock(v) \in Int
    BY <1>1, EnvironmentAssumption DEF IInv, TypeOK, Clock
  <2>6. Clock(v) <= t.claims.exp
    BY <1>1 DEF verify_token_with_footer, validated_claims
  <2> QED BY <2>2, <2>3, <2>4, <2>5, <2>6
<1>2. IInv => OverlapBounded
  BY <1>1 DEF OverlapBounded
<1> QED BY <1>2, Invariance, PTL

\* Caches filled in the same epoch understand each other until expiry.
THEOREM InteropCorrect == Spec => []SameEpochInterop
<1>1. ASSUME IInv, NEW v \in Verifiers, NEW t \in issued, SameRef(v, t),
             t.built = t.epoch, verifier[v].epoch = t.epoch,
             t.claims.iat <= Clock(v), Clock(v) < t.claims.exp
      PROVE  verify_token(v, t) /\ verify_token_with_footer(v, t, t.claims.footer)
  <2>1. t \in Tokens /\ TokenOK(t) /\ Pinned(verifier[v]) /\ verifier[v].st = "ready"
    BY <1>1 DEF IInv, TypeOK, IssuedOK, VerifiersPinned, SameRef
  <2>2. verifier[v].key = keyAt[t.ref][t.epoch]
    BY <1>1, <2>1 DEF Pinned, SameRef
  <2>3. t.signedBy = verifier[v].key /\ t.version = verifier[v].version
    BY <1>1, <2>1, <2>2 DEF TokenOK, Pinned, SameRef
  <2>4. t.version = "V3" => t.framed = verifier[v].key
    BY <1>1, <2>1, <2>2 DEF TokenOK, SameRef
  <2>5. validated_claims(t.claims, Clock(v))
    <3>1. t.claims.exp \in Int /\ Clock(v) \in Int
      BY <1>1, <2>1, EnvironmentAssumption DEF Tokens, Claims, IInv, TypeOK, Clock
    <3> QED BY <1>1, <3>1 DEF validated_claims
  <2> QED BY <2>1, <2>3, <2>4, <2>5
          DEF verify_token, verify_token_with_footer, SignatureVerifies
<1>2. IInv => SameEpochInterop
  BY <1>1 DEF SameEpochInterop
<1> QED BY <1>2, Invariance, PTL

\* Acceptance across epochs only where the reference names the same key in
\* both, and never of a v3 token framed with a stale key.
THEOREM AcrossEpochsCorrect == Spec => []AcceptedAcrossEpochs
<1>1. ASSUME IInv, NEW v \in Verifiers, NEW t \in issued, SameRef(v, t), verify_token(v, t)
      PROVE  /\ keyAt[t.ref][verifier[v].epoch] = keyAt[t.ref][t.epoch]
             /\ t.version = "V3" => keyAt[t.ref][t.built] = keyAt[t.ref][t.epoch]
  <2>1. TokenOK(t) /\ Pinned(verifier[v])
    BY <1>1 DEF IInv, IssuedOK, VerifiersPinned
  <2>2. /\ t.signedBy = verifier[v].key /\ t.version = verifier[v].version
        /\ t.version = "V3" => t.framed = verifier[v].key
    BY <1>1 DEF verify_token, verify_token_with_footer, SignatureVerifies
  <2> QED BY <1>1, <2>1, <2>2 DEF TokenOK, Pinned, SameRef
<1>2. IInv => AcceptedAcrossEpochs
  BY <1>1 DEF AcceptedAcrossEpochs
<1> QED BY <1>2, Invariance, PTL
=============================================================================
