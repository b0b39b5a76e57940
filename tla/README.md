# Formal models of iciaws

TLA+ models of the parts of iciaws that decide something, the TLC
configurations that check them on small instances, and machine-checked proofs
about them. iciaws is a Rust workspace for AWS Lambda back ends: PASETO tokens,
an HTTP router, and thin clients of DynamoDB, S3, SES and SNS.

Tools: `tlc -config X.cfg M` checks module `M`, `tlapm M.tla` checks proofs.

| To see | Module | Configuration |
|---|---|---|
| the token service | `TokenService` | `MCTokenService`, `TokenService.cfg` |
| its theorems | `TokenServiceProofs` | (tlapm) |
| its bytes, and theorems about them | `Encodings`, `EncodingsProofs` | with the token service |
| the router | `Router`, `Gateway`, `RequestInput` | `MCRouter`, `Router.cfg` |
| its theorems | `RouterProofs` | (tlapm) |
| DynamoDB writes | `DynamoWrites` | `MCDynamoWrites`, `DynamoWrites.cfg` |
| its theorems | `DynamoWritesProofs` | (tlapm) |
| DynamoDB updates | `DynamoUpdates`, `UpdateExpressions` | `MCDynamoUpdates`, `DynamoUpdates.cfg` |
| its theorems | `DynamoUpdatesProofs` | (tlapm) |
| DynamoDB reads | `DynamoReads`, `Listing`, `Queries`, `CompositeKey` | `MCDynamoReads`, `DynamoReads.cfg` |
| its theorems | `ReadRequestsProofs`, `DynamoReadsProofs` | (tlapm) |
| SES, SNS, S3, the clients' cells | `Services`, `ServiceClients` | `MCServices`, `Services.cfg` |
| its theorems | `ServicesProofs` | (tlapm) |
| where code and documentation disagree | | the six configurations under "Findings" |

## 1. The system

A Lambda execution environment is one process. It receives one invocation at a
time, but `Router::route(&self)` takes a shared reference and is `async`: a
caller may have several requests in flight, and a local server does. A request
passes through the parts like this:

    request -> Router::route -> from_request -> Verifier (cell, KMS or env key)
                                    |                 ^ tokens minted by a Signer
                                    v                   in some other process
                               handler(input, addons) -> DynamoClient, S3, SES, SNS
                                    |
                               error -> status code -> answer

### Token service (`iciaws_token`)

*State.* Each process holds a `Signer` or a `Verifier`: the source of its key
(environment or KMS), a PASETO version (v3 for P-384, v4 for Ed25519), the key
reference and a cached public key. All of it is fixed at construction. Outside
the processes: what each KMS alias names today, and the tokens handed out.

*Operations.* `new`/`with_source` (resolve the source, read an environment key
or call GetPublicKey), `gen_access_token`, `gen_refresh_token`, `sign_claims`
(locally, or one KMS Sign call), `verify_token`, `verify_token_with_footer`.

*What is hard.* The signer caches the public key but signs by reference: an
alias may be repointed between the construction of a signer, the framing of a
message, the arrival of the Sign call and a verification. Verifiers keep a key
for life. Clocks differ between machines.

*Correct when* the header of a token fits the key that signed it; a token of
one key epoch is accepted until it expires by every verifier of the epoch; no
token framed with a stale key is accepted; a retired key dies out in bounded
time; refresh tokens are marked whatever the caller adds.

### Router (`iciaws_router`)

*State.* A route map and an `AddonHolder`, both filled before the first
request, and the process-wide `PASETO_VERIFIER`, a `tokio::sync::OnceCell`.
Each request's future has its own input, claims and place.

*Operations.* `from_request` (claims of the authorizer, claims of a token in
the `jwt` cookie, merged), the cell's `get_or_try_init`, the guards
`its_my_path`, `i_am_owner`, `i_am_a`, the handler, the mapping of
`RouterError` to a status.

*What is hard.* Several first requests find the cell empty; the key source
fails, hangs or rotates while they wait; the future that holds the cell's
permit is dropped. A failure to verify is swallowed and the handler runs
without the token's claims, so safety rests on guards that must fail closed.

*Correct when* one request at a time initialises the cell and all use the
result; a failure is not cached and blocks nobody; guards admit only the owner,
the admin or localhost, outage or not; every request is answered, those without
a token even while the key source hangs.

*AddonHolder.* A map from names to `Any` behind an `RwLock`: `put_addon`
replaces, `get` fails with `AddonMissing` for an absent name and also for a
present one of another type.

### DynamoDB client (`iciaws_dynamo`)

*State.* A client and a default table name in a process-wide cell, set by the
first caller of `get_dynamo_client`; the state that matters is the table's.

*Writes and deletes.* `put` (conditional), `put_over`, `batch_put`,
`delete_by_pksk`, `delete` (conditional), `batch_delete` (chunks of 25, stops
at the first error), `delete_by_pk` (one Query, then `batch_delete`). Hard: the
SDK repeats a request whose reply is lost; DynamoDB may process part of a
batch; other clients write between chunks. Correct when what a delete confirms
is gone, a failed one touched only what it sent, and a confirmed conditional
put is never replaced by another.

*Updates.* `update`, `update_s`, `update_n`, `update_add`, `update_add_ts`,
`update_add_list`, `update_add_list_str`, `update_remove_attr`, and the
conditional `delete`. Hard: an update of an item that is gone creates it; a
request heard nothing of is sent again and both may take effect, the first one
perhaps after a newer update. Correct when no addition confirmed to a caller is
lost to the callers beside it, lists keep their order, and what an earlier call
wrote comes back by nothing but a resend.

*Reads and paging.* `get*`, `query*`, `scan*`, `QueriesBuilder`, and the page
key encoded for URLs in `pagekey.rs`. Hard: a filter is applied after the page
limit; the table changes between pages; reads are eventually consistent; a page
key that does not decode silently becomes "from the start". Correct when a
reading that gets to its end is one reading of the list.

*Keys and expressions.* `CompositeKey` (`pk~sk` strings) and `UpdatesBuilder`.
Hard: separators inside keys, placeholders that collide. Pure functions.

### S3, SES, SNS and the clients

*State.* For each service one client in a process-wide `OnceCell`, made by the
first call that needs it; the bucket, the topic and the table's name come from
the environment, which outside Lambda `.env` is loaded into when the first
client is made. The services keep templates, objects and messages.

*Operations.* One AWS call per method. `list_contact_lists`,
`list_email_templates` and `list_contacts` read one page and fail if there is
more; `list_images` reads one page and drops the rest; `send_bulk_emails` fails
if any recipient failed; `get_bytes`, `get_string` and `get_json` collect a body
after the answer.

*What is hard.* Callers race to make a client, under different names; the
environment changes while they do; requests are sent again; bodies break off.

*Correct when* all calls get one client, with the names the environment means;
Ok means that everything asked for was done; what is read is what was written,
whole.

### The remaining crates

`iciaws_macros` generates code at compile time. `iciaws_test_helper` builds
requests for tests.

## 2. The models and the code

### TokenService

One action per operation of a process, plus what happens around it.

| Model | Code |
|---|---|
| `signer[s]`, `verifier[v]` | the structs `Signer` and `Verifier`; `absent`, `failed` and `ready` are a process before, after a failed, and after a successful construction |
| `BuildSigner`, `BuildVerifier` | `new`, `with_source`, `build`, `from_env_keys`, `from_kms` |
| `sign_local` | a token signed with an environment key: no I/O, one step |
| `sign_via_kms`, `kms_sign`, `kms_sign_fails` | claims and message are fixed before the `.await` of the Sign call; the call is answered under the key the reference names then |
| `verify_token*`, `validated_claims` | pure operators of verifier, token and clock |
| `Rotate`, `Redeploy`, `StopSigner`, `StopVerifier`, `Tick` | the operator, the platform, time |

A reference has an *epoch*, the number of times it was repointed. `keyAt` and
`retiredAt` remember every epoch, and tokens and instances carry the epoch they
come from. Nothing in the code reads these: they are there to state properties.

Abstracted: bytes (a signature is the key that made it plus the key its message
was framed with; `Encodings` has the bytes); `nbf`, which equals `iat`;
caller extras other than `typ` (one that names a registered claim makes minting
fail, without a token); the instant `now = exp`, where the claims library
decides and the model accepts. The GetPublicKey call and the end of a
constructor are one step: nothing is read after the reply. A key in the
environment says its version by its length, a secret one with 64 or 48 bytes
(`from_secret_len`, in `signer.rs`) and a public one with 32 or 49
(`from_key_len`, in `kms.rs`). A failed constructor keeps the kind of its error,
a failed Sign call does not: either way there is no token.

### Encodings

`le64`, `pae`, `ed25519_public_key_from_spki`, `p384_public_key_from_spki`,
`ecdsa_der_to_raw96` and `assembled` (`assemble_token`) as functions on strings
of digits to a base, `signed` the message of `kms_message`; `taken_apart`,
`IsDer` and `compressed` are what pasetors and p384 do on the other side. The
lengths, prefixes, base and curve are constants. What is stated of them refers
to nothing but their meaning: different contents are never signed as the same
bytes, each pair of numbers comes back whole from its DER form, each decoder
takes the keys of its kind alone, a token comes apart where it was put
together. base64url and JSON are left to the libraries.

Assumed of the constants: the base is even; prefixes and headers are bytes, and
of a length that 8 bytes can say; the SPKI of the two kinds of key differ in
length; the points of the curve with the same x differ in the parity of their y.
An error (`Err`) is no string of bytes.

### RequestInput, Gateway, Router

`RequestInput` holds what the crate makes of one request as functions of it:
`get_claims`, `merge_paseto_claims`, the guards, `status_code`, `route`. A
claims map has the three entries the guards look at, each a value, absent, or
present with a JSON value that is not a string. A token signed by no known key
and an expired one are alike: `Forged`.

`Gateway` is the abstract specification: a process comes to trust one key and
answers each request in one step, from that request alone, with its token's
claims or without.

`Router` is the code: `pc[r]` says where the future of a request is. `new`
becomes `handling` at once if there is no cookie or the cell is full; otherwise
the request takes the permit (`initialising`) or queues (`waiting`).
`initialise`, `initialise_fails`, `wake` and `respond` are the steps between
the awaits, `drop` is the loss of a future, `Rotate`, `Outage` and `Recover`
the key source. tokio's queue is first in, first out; the model gives the
permit to any waiter, so that what holds depends on no order.

Abstracted: bodies, headers, CORS, cookies and the text of answers. Handlers
are of four kinds: no guard, `its_my_path`, `i_am_a("admin")`, an error that is
no `RouterError`.

### DynamoWrites

Each client has one call under way (`op[c]`) and one request of that call at
DynamoDB (`req[c]`). `put`, `put_over`, `delete_by_pksk`, `batch_put`,
`batch_delete` and `delete_by_pk` start a call. `serve_*` and `refuse_batch`
are DynamoDB. `resend`, `fail`, `return_ok`, `next_chunk` and `page_received`
are the client and the SDK under it: `resend` may happen before or after the
request was served, so its effect may happen twice with other clients' writes
between. `next_chunk` does not look at the reply's unprocessed items and
`page_received` not at the last evaluated key, because the code does not.
`remover`, `op[c].seen` and `op[c].unprocessed` are history for the properties.

Abstracted: an item is the call and attempt that wrote it; 25 items a chunk and
1 MB a page become `ChunkSize` and `PageItems`. Assumed: a Query sees the table
as it is (the code asks for the default, eventually consistent read, which adds
stale pages but no other steps); a request the SDK gave up on does not arrive
later; items given to `batch_delete` have a pk and an sk (the code panics
otherwise).

### CompositeKey, Queries, Listing, DynamoReads

`Listing` is the abstract specification: a reader asks once and gets one answer,
with every wanted item that lasted and none that never was.

`CompositeKey` and `Queries` are the code's pure part: keys as texts, the
`QueriesBuilder` chain, page keys, and DynamoDB's side, pages and what it
refuses (`Fits`). A text is a sequence of codes, so that the separator, `#` and
`*` may occur anywhere in it. A page key is the key with a mark that it is
base64; a garbled one is a value that does not decode.

`DynamoReads` has one action for each of the functions of `DynamoClient` that
read. Each gives two things: the request the code makes of its arguments, and,
apart from it, what those arguments mean: the items (`wants`) and their order
(`ascending`, `AsMeant`). `serve_page`, `serve_get`, `refuse` and `fail` are
DynamoDB, which answers from the table or from a `copy` that lags behind;
`follow` is the caller, who goes on with the page key it was given, with a
garbled one or with one of another list. `page` is the last page and `given`
those before. The code takes a garbled key for none, so the list begins again,
and `page` and `given` with it. `put_over`, `delete` and `catch_up` happen
meanwhile, to the `Contested` items, without end. `lasting` and `ever` are
history.

`ReadsList` refines `Listing` from that: `answer` (`Told`) is what was given
once the last page has come. A function without a page key has no way beyond
its first page, and if there is more its answer counts as `Unfinished`. So that
`query_by_pk` is to give all items, as its guide has it, is not in `ReadsList`;
`LatestByPk` is about what it leaves out.

What callers may ask is limited by assumptions: a filter is one that DynamoDB
would take in a scan, does not look at the table's keys (DynamoDB forbids that in
a query) and does not use the placeholders the functions use themselves; the
partition keys of composite keys do not contain the separator; no two statuses
and no two page keys that mean different things look the same. A filter may come
without names; for `scan_with_filter2` they are then an empty map (`EmptyMap`),
which DynamoDB refuses.

Abstracted: 1 MB a page and 100 keys a batch are `PageItems` and
`BatchGetLimit`; projections, and turning items into the caller's type.

### UpdateExpressions, DynamoUpdates

`UpdateExpressions` has the methods of `UpdatesBuilder` (`With`, by its name
and arguments), the request they build, and what DynamoDB does with it: what is
malformed, what does not suit the item, what it becomes (`Apply`, which says for
each attribute what is there afterwards, `After`). An item that is not there
has no attributes. `Meant` is the reference: what each call says, one by one
(`Together`). `Possible` says which calls have operands that fit: an append of a
list, an addition of a number. Calls DynamoDB refuses for the type of an operand
are built as well, and `BuiltAsMeant` does not claim that they are taken;
`AppendIsTaken` is about the documented one among them.

`DynamoUpdates` sends such requests, those of the `update_*` functions and
conditional deletes, on one item. `wire` holds what was sent and has not taken
effect: `retry` sends again without taking the first one back, which may be
late, behind the second or after the call has returned. What a call writes
bears its number (`Own`), so the item tells which calls are in it. `held`,
`cut`, `settled`, `before` and `effects` are history.

What callers build is limited by `StepsAssumption` and `ItemsAssumption`, so that
the properties have something to say: they set an attribute of its own kind to
their own value, append an element of their own to a list, add one to a
counter, or remove these, and the item they find is of that kind. Builds of
other kinds are what `BuiltAsMeant` is about: `BuildsAssumption` only says that
they are sequences of calls of the six methods, `SamplesAssumption` that an item
maps names to values and that lists are sequences.

### ServiceClients, Services

`ServiceClients` is the four cells, the environment and the `AddonHolder`:
`begin` and `end` are the two sides of the `.await` in an initialiser, `begin`
loads `.env`. A call of `get_dynamo_client` settles its table's name when it is
made, before the cell is looked at, as the code does; those of S3 and SNS are
read in the initialiser.

`Services` has one operator for each method of `S3Client`, `SesClient` and
`SnsClient`, which says what is asked of the service. `go` sends it, `serve_*`
and `turn_down` are the services, `hear`, `collect`, `retry` and `give_up` the
method and the SDK under it. Content is the call that wrote it, its kind
(bytes, text, JSON) and, for a reader, how much of it came (`Got`: all or a
part, since a body may break off while it is collected). `done` and `before`
are history.

Abstracted: the text of mails; pages of a list are filled before the next is
begun; a duplicate of a read, or of a message whose call has returned, has no
effect that a call could see and is left out; `.env` is loaded in one step.
Presigned URLs need no request. The crates configure no timeout, and the SDK's
default is one for connecting only: `give_up` may come after any attempt that
got no answer, and nothing says that it must.

## 3. What the runs check

| Run | Shows | Bounds |
|---|---|---|
| `token` (passes) | `HeaderMatchesKey`, `OverlapBounded`, `SameEpochInterop`, `AcceptedAcrossEpochs`, `RefreshIsMarked`; `BytesTrue` for the encodings | one alias; two P-384 keys and an Ed25519 key; one signer; one verifier whose clock is a second behind; two rotations; clock to 2; one token; lifetimes 0, 1, 2; a caller may add a `typ` of its own; digits to the base 4, numbers of 2 digits |
| `router` (passes) | `PermitHeld`, `GuardsHold`, `TokenCounts`, the refinement `KeepsPromise`, and liveness: `EveryRequestAnswered`, `AnonymousAnswered`, `NotPoisoned` | two requests of 14 kinds, two keys, four routes and an unknown one, any number of rotations and outages |
| `dynamo_writes` (passes) | `ConfirmedDeleted`, `OnlySentDeleted`, `PutSticks`, and `CallReturns` | two clients with one call each, three items of a partition, chunks of 2, two attempts a request |
| `dynamo_reads` (passes) | `NothingSkipped`, `InOrder`, `RefusedForCause`, the refinement `ReadsList`, and liveness: `ReadingEnds` | one reading by any function; three items of a partition and one of another; pages of 1, 2 or no items; two versions of one item, written and deleted without end; one garbled page key |
| `dynamo_updates` (passes) | `EveryAdditionCounts`, `AppendsInOrder`, `SetSticks`, `NoComeback`, `OutcomeTrue`; `BuiltAsMeant` for the builder | two calls of any kind on one item that is there or not, two attempts each; builds of up to three steps of 14 kinds, each against three items |
| `services` (passes) | `OneClient`, `NamesFound`, `OkIsDone`, `ListsWhole`, `ReadsTrue`, and liveness: `CallsReturn` | two calls of any kind, two attempts each; in Lambda, where `.env` is not read, and outside; two buckets; pages of two names |

Why the bounds are enough for the interesting cases:

- *token*: an alias needs two rotations to come back to a key it named before
  (the case `AcceptedAcrossEpochs` distinguishes), and three keys to pass
  between the versions and between two keys of one version. A token is judged
  alone, so one suffices. The clock reaches a token's expiry and the second
  after it. The theorems lift every one of these bounds. The P-384 keys are
  interchangeable, hence the symmetry set; no liveness is checked there.
- *router*: one request initialises, the other waits, is passed the permit,
  wakes or arrives late. A third would only add a waiter.
- *dynamo_writes*: two clients are what it takes for one to write between two
  attempts, two chunks, or the query and the deletion of another; three items
  are one more than a chunk; a second attempt is a retry.

- *encodings*: two digits are what it takes for leading zeros, for a top bit
  that is set and for both sides of a parity; eight digits of a length are
  those of `le64`, checked around the top bit. The base 4 is even, like 256.
- *dynamo_reads*: a page of one item is full with more behind it, also when a
  filter empties it; writes remove, add and move the item a page key names, or
  the one behind it, as often as they like; the sort keys have `#`, `*` and the separator at their
  ends, and one extends another. Items outside the partition or the prefix are
  there to be left out.
- *dynamo_updates*: a second call is what it takes to lose an addition, to
  append out of order or to delete between two attempts of the first; a second
  attempt is a retry. Three steps are two that share a placeholder, and one more.
- *services*: two calls race for a cell, or one follows the other and reads what
  it wrote; a list of templates grows from two names, one page, to three.

`CHECK_DEADLOCK FALSE` is set for `DynamoWrites`, `DynamoUpdates` and `Services`
because the bound on calls ends every behaviour, and for `DynamoReads` because a
reading ends. The other specifications never stop (a redeployment or a rotation
is always possible).

### Fairness

- `Router`: weak fairness of `wake` and `respond`. A woken future is polled by
  its executor and handlers return. No fairness for the key source:
  `EveryRequestAnswered` and `NotPoisoned` assume `CallsEnd` (every call to it
  ends, with a key or an error), which nothing in the code provides and which is
  stated as a premise; `AnonymousAnswered` does without it. None for `Rotate`,
  `Recover`, `drop` or new requests.
- `DynamoWrites`: weak fairness of each client's next step: a request is
  served, heard of or given up. That is a premise on DynamoDB and the network:
  the crate configures no timeout for a request that was taken and is never
  answered. Attempts are bounded by the SDK.
- `DynamoReads`: weak fairness of DynamoDB's answers and of the caller's
  following, together: a request is answered or fails (the same premise), and a
  caller who is given a page key goes on, with one that is not garbled for ever
  (`MaxGarbled`). None for the writers, who may go on for ever, and none that
  makes the copy catch up.
- `Services`: weak fairness of a call's own steps, which the executor polls, and
  none for what a call awaits. `CallsReturn` has that as its premise, `CallsEnd`:
  what is awaited comes in the end, an answer or an error. The crates take the
  SDK's defaults (`iciaws_ses/src/lib.rs`, line 56; `iciaws_s3/src/lib.rs`, line
  28; `iciaws_sns/src/lib.rs`, line 21), which end an attempt to connect but not a
  request that was taken and is never answered, so without the premise a call may
  hang.
- `TokenService`, `DynamoUpdates`: none; only safety is claimed.

### Findings

Six runs check one sentence of the repository's own documentation each, and TLC
shows the code does something else.

| Run | Says | Does |
|---|---|---|
| `token_rotation` | rotating the KMS key invalidates v3 tokens immediately (`signer.rs`, `kms.rs`) | a warm verifier keeps the old key and accepts them until they expire; `OverlapBounded` is what does hold |
| `token_stale_signer` | a signer fails loudly rather than mint tokens nobody can verify (`signer.rs`) | a warm v3 signer whose alias was repointed frames with one key and signs with another |
| `dynamo_unprocessed` | `batch_delete` returns nothing if successful, else an error (`lib.rs`) | it returns Ok with unprocessed items left |
| `dynamo_one_page` | `delete_by_pk` deletes all items sharing a pk (`lib.rs`) | it deletes those of the first page |
| `dynamo_latest` | `query_by_pk` gives all items of a pk, descending by sk (`llms.txt`, line 304) | it gives the first page, ascending, with no way to go on (`lib.rs`, line 192): what is missing is the latest |
| `dynamo_append` | `append("tags", &json!("new_tag"))` appends one element (`llms.txt`, line 421; the test at `builder.rs`, line 290, appends an object) | the value goes to `list_append` as it is (`builder.rs`, line 163), which takes lists only: DynamoDB refuses the update |

Read while modelling, and with no run of its own: `query_gsi_by_pksk`
(`iciaws_dynamo/src/lib.rs`, line 363) gives its key condition in two calls of
which the second replaces the first. What is sent has no condition on the hash
key and a placeholder that is not used, so DynamoDB refuses it every time;
`RefusedForCause` has to except it by name. `append` and `add_map_element` of
`UpdatesBuilder` use fixed placeholders: two of them in one update, or one
beside an attribute of such a name, overwrite each other's value, which
`BuiltAsMeant` excepts (`SharesValue`). JSON makes no set, so the `DELETE
#set_attr :subset` and the `ADD` to a set in the builder's comments (lines 188
and 177) are refused as well. `scan_with_filter2` takes a map of names, and an
empty one, for a filter that needs none, is refused (`RefusedForCause`). Two `remove` of elements of one list take
those that had these places before the update, since DynamoDB counts places in
the item as it was: `remove("l[1]")` and then `remove("l[2]")` is not what the
two do one after another (`TakesTwo`). A conditional `delete` that is sent
again after its answer was lost is refused although the item was deleted
(`OutcomeTrue` is about calls sent once). The first caller of
`get_dynamo_client` outside Lambda does not see a TABLE_NAME that is only in
`.env` (`NamesFound`). 
In the router, a missing claim and a failed guard are 401 in the guide
(`llms.txt`, lines 153 and 154), and 400 and 403 in the code (`errors.rs`, line
70). In the token crate, a constructor fails with `KeyPairError`, as the comments
on `signer.rs`, line 135, and `verifier.rs`, line 101, have it, and a router
relies on it (`input.rs`, line 34). But a key variable that is not base64
fails with `Unauthenticated`, the error that stands for a 401 (`kms.rs`, line
205), and so does key material from KMS that pasetors rejects (line 204). A Sign
answer that is not DER is told as that error too, against `signer.rs`, line 290.
The policy at `kms.rs`, lines 191 to 194, and the token crate's `errors.rs` do
list such failures as 401, of a caller's token: the comments disagree.
`PASETO_KEY_SOURCE` (`kms.rs`, line 66) is named and documented, but no code
reads it; `resolve` in the model has no such input.

## 4. What is proved

`TokenServiceProofs` proves about `TokenService`, for any sets of keys,
references, signers and verifiers, any number of rotations and tokens, any
lifetimes and any clock skew, from the named assumptions of the module only:

| Theorem | States |
|---|---|
| `TypeCorrect` | `Spec => []TypeOK` |
| `HeaderCorrect` | `Spec => []HeaderMatchesKey` |
| `OverlapCorrect` | `Spec => []OverlapBounded` |
| `InteropCorrect` | `Spec => []SameEpochInterop` |
| `AcrossEpochsCorrect` | `Spec => []AcceptedAcrossEpochs` |
| `RefreshCorrect` | `Spec => []RefreshIsMarked` |

They follow from one inductive invariant, `IInv` (theorem `Invariance`). None
of the properties is inductive by itself: that a token's header fits its key
depends on what its signer had pinned when the call went out, which depends on
what the alias named when the signer was built. `IInv` says so for each place a
key can be remembered:

- `Pinned`: a ready KMS instance holds the key its reference named in the epoch
  of its construction, of the version it pinned;
- `InFlightOK`: a pending Sign call belongs to a living KMS signer and was
  framed with that signer's cached key;
- `TokenOK`: a KMS token was signed with the key of its epoch, framed with that
  of the epoch its signer was built in, and claims no issue time after its
  epoch ended.

One lemma per action shows it preserved; past epochs are never rewritten, which
is what carries the memories over a rotation.

`EncodingsProofs` proves about `Encodings`, for any base, lengths, prefixes,
headers and curve, and for strings of any length where the run takes short ones:

| Theorem | States |
|---|---|
| `PaeUnambiguous` | `pae` of two sequences of pieces is the same only if they are the same, for any number of pieces and any lengths below 2^63 |
| `SignedApart` | so version, payload, footer and, with v3, the key can be told from what is signed |
| `SignatureWhole` | any two numbers come whole from DER into the fixed width |
| `TokenSplit` | a token comes apart where it was put together |
| `BytesCorrect` | `Spec => []BytesTrue`, all that the run checks |

These are inductions over bytes. The prover has no induction rule it could
instantiate, so the module derives one over sets of numbers (`AllNumbers`, from
the order of the naturals being well-founded) and from it what a recursive
function computes (`Recursion`): powers, the digits of a number and the number of
its digits, sequences joined. A length has one encoding up to its top bit, so
with the lengths in front the first piece of two equal encodings is the same,
and then the rest. A number has one form in DER because its length there is the
one L with Power[L - 1] <= 2n < Power[L].

`RouterProofs` proves about `Router`, for any requests, inputs, keys, routes and
handlers:

| Theorem | States |
|---|---|
| `TypeCorrect` | `Spec => []TypeOK` |
| `PermitCorrect` | `Spec => []PermitHeld` |
| `TokenCorrect` | `Spec => []TokenCounts` |
| `GuardsCorrect` | `Spec => []GuardsHold` |
| `PromiseKept` | `Spec => KeepsPromise`: the router implements `Gateway` |

Here `IInv` (theorem `Invariance`) has two parts besides types.
`Held` is `PermitHeld` request by request, the form in which a step that passes
the permit on can be followed. `Placed` ties each request to the point its
future has reached: before the verifier is fetched its claims are the
authorizer's; after it, `ClaimsOf` gives the three cases (no token, a failed
fetch, or the token under the key in the cell); once done, the answer is
`route` of those claims. The guards need the second part because the claims
were made at one time and the cell is looked at in another: nothing changes a
full cell, and that follows from `Held`, since only the holder of the permit
fills it and nobody holds it once it is full. The refinement maps `trusted` to
`cell`; `initialise` is `Trust`, `from_request` is `Receive`, `respond` is
`Answer`, and the rest stutter.

`DynamoWritesProofs` proves about `DynamoWrites`, for any clients, keys,
batches, chunk and page sizes, attempts and calls:

| Theorem | States |
|---|---|
| `TypeCorrect` | `Spec => []TypeOK` |
| `DeletedCorrect` | `Spec => []ConfirmedDeleted` |
| `SentCorrect` | `Spec => []OnlySentDeleted` |
| `PutCorrect` | `Spec => []PutSticks` |

That what was deleted stays deleted needs to know that nothing writes the same
item again, whoever resends what. The parts of `IInv` are

- `AllSpent`: an item, in the table or remembered by a call, bears an attempt
  whose turn to take effect is over;
- `DeletedSoFar`: that chunk by chunk, and also for a reply that has been sent
  and not heard, what a delete saw is gone;
- `Removed`: a removal bears a call that has been made and sent that key, also
  when the same client has gone on to another call;
- `PutSoFar`: what an accepted put wrote is there from the moment it was
  accepted, or a call came that may replace it.

`DynamoUpdatesProofs` proves about `DynamoUpdates`, for any item, updates,
conditions, calls and attempts:

| Theorem | States |
|---|---|
| `TypeCorrect` | `Spec => []TypeOK` |
| `AdditionsCorrect` | `Spec => []EveryAdditionCounts` |
| `OrderCorrect` | `Spec => []AppendsInOrder` |
| `SticksCorrect` | `Spec => []SetSticks` |
| `OutcomeCorrect` | `Spec => []OutcomeTrue` |
| `NothingComesBack` | `Spec => []NothingComes`: of the calls that were answered at their first attempt when the item was deleted, none has a request left |
| `ComebackCorrect` | `Spec => []NoComeback` |
| `BuilderCorrect` | `Spec => []BuiltAsMeant` |

`IInv` (theorem `Invariance`) has two halves. `Inv` counts: a call's effects and
its requests on the wire are together no more than its attempts (`Counted`). So
an answer to the first attempt leaves nothing behind it, and a refusal of the
only attempt means no effect (`Honest`). The other half ties the item to the
calls, which the properties cannot do by themselves: they speak of calls that
were told Ok, while a request takes effect before anyone is told, and again
after.

- `CallsOwned`, `ItemOwned`: what a call writes bears its number, and so does
  what is in the item; a call is in it no more often than it took effect.
- `Additions`: the counter is at least the number of additions that took effect,
  told Ok or still running, and that nothing reset since (`Standing`), and at
  most the attempts spent; each such append has an element in the list, and a
  call has no more elements there than it took effect.
- `InOrder`: an append that was told Ok before another call began has a place in
  the list before all places of that call.
- `Stuck`: where an update took effect on `Mark` or `Stamp`, no earlier call that
  was sent once has left its value there.
- `Gone`: nothing of a settled call is in the item.

Underneath are lemmas about `Apply`: what one request makes of each attribute,
for every shape of update the assumptions allow.

`BuilderCorrect` is about data and not about steps: for chains of calls of any
length and any items. By induction over the chain, the builder holds one clause
for each call, in the list of its kind and in the order of the calls
(`BuilderIs`), and a name and a value under each placeholder, the last that a
call gave. If no two calls share a placeholder of the builder's own, each
stands for what its call gave (`NamesHold`, `ValuesHold`). What DynamoDB
accepts is then of calls for different attributes, unless they take elements
from one list (`AcceptedApart`). A second induction compares what the calls mean one
after another with `Apply`, attribute by attribute (`MeantTogether`): all calls
but one leave it alone, and that one finds it as it was before the update.

`ServicesProofs` proves about `Services` and `ServiceClients`, for any
environment, services, contents, callers and attempts:

| Theorem | States |
|---|---|
| `TypeCorrect` | `Spec => []TypeOK` |
| `OneClientCorrect` | `Spec => []OneClient` |
| `NamesCorrect` | `Spec => []NamesFound` |
| `OkCorrect` | `Spec => []OkIsDone` |
| `ReadsCorrect` | `Spec => []ReadsTrue` |
| `ListsCorrect` | `Spec => []ListsWhole` |

The invariant has five layers, each proved with the help of those before it.
`Shape`: calls are records of the operations of their service. `ClientsInv`: one
call makes a client, only while there is none, and `.env` was loaded before; so
no two clients are made, and names do not change once one is. `DoneInv` (`Sound`,
call by call): an answer Ok, also one still on its way, vouches for what was
done, and before the first answer to a first attempt nothing was. `ReadsInv`:
what a bucket holds is what some call meant to leave there, so that what a
reader was given is true at the time it was served and stays so; and a reader
that collects the body returns Ok only with all of it. `ListsInv`: a
template or an object that nobody deletes is there from the start, or from the
call that wrote it, until now; a name that was there before a list was asked is
therefore on its pages.

Two modules prove about the reads, for any items, tables, arguments, filters,
page sizes and writers. `ReadRequestsProofs` has first what holds of any request:
the order of texts is total, that of a list follows from it, a page is the front
of what is due and its end is where the next one starts, and what a request
selects, with one condition or two, does not depend on where it starts. Then it
goes through the 21 functions of `DynamoClient`:

| Theorem | States |
|---|---|
| `AskedIsMeant` | whatever is asked, the request selects the items its caller means, and DynamoDB takes it unless `Meant` names the cause (a page of no items, too many keys, `query_gsi_by_pksk`, a `scan_with_filter2` without names); the order is the caller's too, but for `query_by_pk` |

`DynamoReadsProofs` builds on it:

| Theorem | States |
|---|---|
| `TypeCorrect` | `Spec => []TypeOK` |
| `SkippedCorrect` | `Spec => []NothingSkipped` |
| `OrderCorrect` | `Spec => []InOrder` |
| `RefusedCorrect` | `Spec => []RefusedForCause` |
| `ListKept` | `Spec => ReadsList`: the reads implement `Listing` |

The parts of `Inv` are

- `TablesInv`: what lasted is in the table and in the copy, and what was in
  either is in `ever`; of a key of which a version lasted there was no other,
  which is why an item that others move may come twice and one left alone may not;
- `ReadInv`: from its first page on, the request is the one `AskedIsMeant` is
  about, with the caller's order;
- `PagesInv`: all that was given so far comes before the key from which the
  reading goes on, or is the item of that key (`Reached`). A page is cut from
  what comes after that key, in a table that others have changed since;
- `SkippedInv`, `OrderInv`: the two properties for the order of the request
  rather than the caller's; that these are one is `MeantIsAsked`.

After a garbled page key the list begins again, and what is claimed is about the
list from there on. In the refinement
the call is `Begin`, the page that ends the list `Answer`, an error or a caller
who stops `StopShort`, others' writes are `Change`, and the rest stutter.

*Assumptions.* The theorems use the named assumptions of the modules, which TLC
evaluates in each run: sizes and bounds are numbers, sentinels (`NoKey`,
`NoRef`, ...) are not values, keys in a table are unique, and those on callers and
on the fixed parts of encodings that section 2 names.

*Model-checked only.* Liveness (`EveryRequestAnswered`, `AnonymousAnswered`,
`NotPoisoned`, `CallReturns`, `ReadingEnds`, `CallsReturn`): fairness and ENABLED
are outside the prover.

## 5. Not modelled

- base64url, JSON and the arithmetic of curves, which are the libraries'.
- The contents of mails, objects and items beyond what the properties tell
  apart, and turning items into the caller's types.
- Macros (compile time) and the test helper.
- Query strings, bodies, cookies and CORS in the router: formatting of one
  request, nothing concurrent.

## 6. Plan

Every component that decides something at run time is modelled and checked, and
every safety property, action property and refinement of the passing runs is
proved. What is left is liveness, which stays with TLC. None of the modules
declares a RECURSIVE operator.
