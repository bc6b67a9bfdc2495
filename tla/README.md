# TLA+ models of rauthy's upstream identity federation

This directory models the upstream-login core of rauthy
(`src/rauthy-models/src/entity/auth_provider.rs`) and lists what is not
modelled. Everything is plain TLA+ checked with TLC. Each module states
the source lines it translates; `PROJECT.json` maps every definition to its
lines.

## 1. Inventory

### Components, their state and operations

| Component | Source | State | Operations |
|---|---|---|---|
| Provider Registry | `AuthProvider` (104-295, 370-379), `AuthProviderTemplate` (776-838) | `auth_providers` table; 12h HA cache entries `provider_<id>`, `provider_all`, template | `create`, `find`, `find_all`, `update`/`save`, `delete`, `invalidate_cache_all`, `get_all_json_template` |
| Scope normalization | `cleanup_scope` (302-309) | none (pure) | split on `' '`, drop empty, trim, join with `+` |
| Provider Client Factory | `build_client` (311-339) | none | builds a reqwest client: 10s timeouts, insecure or TLS 1.3 + optional root PEM |
| Discovery Resolver | `lookup_config` (381-463) | none | issuer to discovery URL, GET, map `WellKnown` to a lookup response |
| Client secret encryption | `secret_encrypted`, `get_secret_cleartext` (465-483) | none (process-wide key in cryptr) | encrypt / decrypt |
| Upstream Login Session | `AuthProviderCallback` (486-774) | callback cache `CACHE_NAME_AUTH_PROVIDER_CALLBACK`: id -> record (xsrf token, client request snapshot, provider snapshot, PKCE challenge) | `save`, `find`, `delete`, `login_start`, `login_finish` |
| Identity Reconciler | `AuthProviderIdClaims::validate_update_user` (868-1037) | users table and user values (external stores) | validate claims, find by email, find by federation uid, forbidden save, update save, create federated, values find + upsert |
| FedCM handlers | `fed_cm.rs` | none of its own | accounts, client meta, config, disconnect (`todo!()`), token, well-known |

### How they interact

`login_start` reads the registry (`AuthProvider::find`) and the client store,
then writes one callback record and hands the browser an encrypted cookie with
the record's id. The id also goes to the upstream as `state`. The upstream
redirects back with `state` and a code. `login_finish` decrypts the cookie and
compares the id with `state`, reads the record (`find`), then checks the xsrf
token and the PKCE verifier. Each of these three check failures deletes the
record. It then POSTs the code to the token endpoint with a client from
`build_client` and the decrypted secret, and passes the `id_token` to the
reconciler. The reconciler reads and writes the user and user-values stores.
Both success branches after the reconciler end in `todo!()`.

All of these run as concurrent actix request tasks. They share only the
caches and the database. Every `.await` is a point where another task's step
can come in between.

### What is hard

- Concurrent `login_finish` requests for one callback id, from an honest
  browser, a replay, or a forged/mixed request. The record is read, checked,
  and used across awaits.
- Failure branches that do or do not delete the record. Cache deletes that
  fail themselves. Timeouts of the token request followed by a user retry.
- Cache expiry at any point of a flow.
- The reconciler reads a user, decides, and saves the whole record later.
  Concurrent logins against the same account or the same identity interleave
  between lookup and save.
- The provider caches are filled read-through with no versioning. A fill can
  race with a create, update or delete.

### Properties that make each component correct

- Session: only a request carrying one login's cookie, `state`, xsrf token
  and verifier reaches the token endpoint. A callback rejected by a check can
  never pass later. A callback is single use.
- Reconciler: no federated login enters an account created by another
  identity or by a local signup. Failed logins are counted exactly. There is
  one account per upstream identity. Forbidden is answered only for a real
  email conflict.
- Registry: a cached provider is never older than the database for longer
  than one propagation window. The cache never holds a provider the database
  does not hold.
- Scope normalization: the result has no empty tokens, and normalizing twice
  changes nothing.
- Provider configuration: a secure discovery lookup never succeeds over
  plain http or without certificate checks; a saved proposal keeps what the
  document advertised.
- Session completeness: a callback carrying exactly one login's issued
  values is never rejected by the checks.

## 2. Plan

In order of importance:

1. **UpstreamLogin** (done). Session state machine with concurrent finish
   tasks.
2. **IdentityReconciler** (done). Concurrent `validate_update_user`.
3. **ProviderRegistry** (done). DB plus the three cache entries, with
   each admin operation and each reader split at its awaits, cache TTL
   eviction, and failing cache operations.
4. **ScopeCleanup** and **ProviderConfig** (done). `cleanup_scope` as
   RECURSIVE operators over strings of a letter, a space and a tab, checked
   against the spec's normal form; `lookup_config`, `build_client`,
   `try_from_id_req`, the type conversions and the secret encryption as the
   component that turns an admin's input into a stored row.
5. **FederatedLogin**. Composes UpstreamLogin and IdentityReconciler:
   `login_finish_reconcile` becomes the reconciler tasks, and the upstream
   identity that authorized a code becomes the token's claims. It checks
   that a login's resulting account belongs to the upstream identity that
   logged in through that browser.
6. An abstract per-id callback lifecycle with a refinement mapping was
   tried and dropped: everything it checked beyond NoPassAfterRejection
   held by the model's shape (fresh ids, atomic checks), and a failing
   delete mapped to a stutter, so it caught nothing the other properties
   miss.
7. Reconciler: the email revert and the user-values lost update were
   confirmed by TLC (see the hazards in `PROJECT.json`) and are not kept
   as runs because they share the counter's root cause.
8. FedCM is not planned (see §6).

## 3. Modules and how they map to the code

### UpstreamLogin.tla (AuthProviderCallback)

- `cache`: the callback cache, id -> record or `NoRecord`.
- `issued`: what `login_start` produced. It is history and ids never repeat.
- `pc`, `payload`, `slf`: each `login_finish` task's position, input and
  record copy.
- `rejected`, `consumed`: history sets. `rejected` holds ids answered with a
  check error. `consumed` holds ids answered after passing the checks.
- Random values (callback id, xsrf token, verifier) are model values.
  `Enc` (cookie encryption) and `S256` (SHA-256 + base64url) are injective
  tags, so only the right input decrypts or matches.
- Actions:
  - `login_start`: a fresh id, `save`.
  - `login_finish_decrypt`: input, decrypt, `state` comparison.
  - `login_finish_state_mismatch`: delete the cookie's id.
  - `login_finish_find`: `find` plus the xsrf and PKCE comparisons.
  - `login_finish_check_failed`: delete.
  - `login_finish_delete_error`: a failing `cache_del` returns its own
    error.
  - `login_finish_token_error` / `login_finish_token_ok`: the POST and the
    `id_token` requirement.
  - `login_finish_reconcile`: the reconciler's error, or `todo!()`.
  - `expire`: the cache TTL.
- Each request may send any mix of issued and forged values
  (`Payloads(IssuedIds)`). This covers honest requests, replays, CSRF
  attempts and values of two logins combined.

### IdentityReconciler.tla (validate_update_user)

- `users`, `values`: the stores.
- `pc`, `prov`, `token`, `uid`, `snap`, `vsnap`: each task's position and
  copies.
- `createdBy` (history): the identity whose login created an account, or
  `Local`.
- `forbidden` (history): forbidden attempts since the last successful login.
- The store holds one local account at the start. Tokens are any
  combination of provider, sub, email (or none) and the present optional
  claims, or `Malformed`.
- The user store keeps emails unique. This is an assumption about the table
  outside `src/`, marked spec-modelled.

### ProviderRegistry.tla (AuthProvider, AuthProviderTemplate)

- `db`: the `auth_providers` table, id -> configuration or `None`. A
  configuration is the number of the operation that wrote it, so two writes
  are always told apart.
- `single`, `all`, `template`: the `CACHE_NAME_12HR` entries
  `cache_idx(id)`, `cache_idx("all")` and `IDX_AUTH_PROVIDER_TEMPLATE`, or
  `Miss`. The list and the template are the table snapshot they were built
  from; the template projects id, name and `use_pkce`, all of which a write
  can change.
- `pc`, `op`, `row`, `rows`: each handler task's position, operation and
  what it read. `ops` bounds the number of operations, `created` the ids
  `new_store_id` handed out. `failed` is history: a cache operation failed.
- Actions, one per await: `create_db`, `create_cache`; `invalidate_all`,
  `invalidate_template` (shared by create, delete and save, which then
  return, drop the entry, or re-insert it); `find_cache`, `find_db`,
  `find_put`; `all_cache`, `all_db`, `all_put`; `delete_db`,
  `delete_single`; `update_db` (an UPDATE matching no row is no error),
  `update_cache`; `template_cache`, `template_put` (its miss runs find_all's
  steps). `cache_op_fails` ends an operation at any cache write, `evict` is
  the TTL.

### ScopeCleanup.tla (cleanup_scope, lookup_config's scope)

- Pure operators, no state. A string is a sequence of characters. The
  discovery words `openid`, `profile` and `email` are single
  non-whitespace symbols, because `cleanup_scope` only tells a space, other
  whitespace and the rest apart.
- `Split`, `Trim` and `Join` are `str::split(' ')`, `str::trim` and
  `join("+")`. `cleanup_scope` keeps a piece when it is non-empty *before*
  trimming, as the code does. `LookupScope` pushes `"<word> "` for each
  advertised word.
- `NormalForm` is the reference: tokens split on any whitespace, none
  empty, joined by one `+`.

### ProviderConfig.tla (lookup_config, build_client, try_from_id_req)

- `build_client(insecure, pem)` is the client's policy: insecure mode
  allows http and invalid certificates and never parses the PEM; secure
  mode is https-only with TLS 1.3 and fails on a bad PEM.
- `IssuerUrl`/`ConfigUrl`: an issuer is a sequence of the symbols
  `http://`, `https://`, a host letter and `/`. A missing scheme gets
  `https://`; the discovery path is appended after one `/`.
- `LookupResult`: the client error, then an `http://` URL refused by an
  https-only client, then the answer of the GET (send error or 10 s
  timeout, non-2xx, unparsable, or a `WellKnown` document mapped by
  `Proposal`).
- `Row(r)` is `try_from_id_req` with the INSERT/UPDATE: cleaned scope,
  `secret_encrypted` (an injective tag `Enc`), type string `as_str`,
  `danger_allow_insecure.unwrap_or(false)`.
- State: `lookup` (the last lookup: URL, flag, client, answer, result),
  `req` and `provider` (the row, or the encryption error). Actions:
  `lookup_config` (repeatable while the form is open), `try_from_id_req`
  (a typed request, or the last successful proposal with a secret typed in;
  a failing `EncValue::encrypt` writes nothing), `Done`. One save per
  behaviour is enough because neither function reads stored state and an
  update re-derives the whole row from its request.

## 4. Runs

| Run | Expect | Bounds | Shows |
|---|---|---|---|
| `login_checks` (`MC_UpstreamLogin.cfg`) | pass, ~40k states | 2 ids, 2 tasks | `ExchangeBoundToOneLogin`, `HonestCallbackAccepted`, `NoPassAfterRejection`, `TypeOK` |
| `login_single_use` (`MC_UpstreamLogin_SingleUse.cfg`) | violation | same | a callback that passed and then failed at the token endpoint passes again on resubmission |
| `reconciler_takeover` (`MC_IdentityReconciler.cfg`) | pass, ~67k states | 3 user ids, 3 emails, 2 subs, 2 providers, 3 tasks | `NoAccountTakeover`, `TypeOK` |
| `reconciler_failed_counter` | violation | 2 tasks | two concurrent forbidden logins count as one |
| `reconciler_duplicate_account` | violation | 2 tasks | two accounts for one identity |
| `reconciler_sub_collision` | violation | 2 tasks | a new user of provider B is forbidden because of provider A's account with the same sub |
| `registry_coherent` (`MC_ProviderRegistry.cfg`) | pass | 2 ids, 1 task, 5 operations | `CacheMatchesStore`, `TypeOK`: one write at a time with no failing cache op leaves every entry coherent |
| `registry_fill_race` | violation | 2 ids, 2 tasks, 3 operations | a find_all fill re-caches the list read before a concurrent create |
| `registry_phantom` | violation | 1 task, 3 operations | an update of an unknown id caches a provider that has no row |
| `registry_partial_failure` | violation | 1 task, 3 operations | a failing `invalidate_cache_all` in save skips the re-cache, so the provider entry keeps the old version |
| `provider_config` (`MC_ProviderConfig.cfg`) | pass, ~7.8k states (35 s) | all 121 typed scopes of up to 4 of `a`, space, tab; all 21 issuers of up to 2 symbols; secure/insecure; 3 PEM cases; 32 discovery documents and 3 error answers; one secret | `SpacesNormalized` (inputs without a tab), `ProposalRoundTrip`, `SecureLookupOverTls`, `TypeOK` |
| `scope_empty_token` | violation | same | `"a \t"` is stored as `"a+"` |

Why the bounds are enough:

- Two callback ids and two tasks give every case the properties talk
  about: one honest task plus one forged, mixed or replayed task, with
  expiry anywhere.
- Three emails let a local account, a federated account and a changed
  email coexist.
- Two providers with two subs give the cross-provider collisions.
- Three tasks give a creation, a conflicting login and a third concurrent
  step.

- Two provider ids and five operations give create, find_all/template,
  update and delete of one id with another id present; every action fires.
- Issuers of two symbols include `http://h` (refused in secure mode),
  `h/` (a trailing slash) and a bare host; every flag of a discovery
  document that `lookup_config` reads is varied.
- Four characters hold every case of `cleanup_scope`: leading, trailing
  and repeated spaces, and a tab alone or beside a letter.

Symmetry is used on all model-value sets. The properties are safety only,
so symmetry is sound.

### Findings

1. **Callback not single use**
   (`auth_provider.rs:704`, `login_single_use`). Only the three check
   failures delete the record. After the checks pass, no path deletes it:
   not the token errors, not a reconciler error, not the `todo!()` ends. A
   resubmitted callback passes the checks again until the cache entry
   expires. The spec says every failure deletes the record and a second
   finish fails as not-found.
2. **Lost update of the failed-login counter**
   (`:931`, `reconciler_failed_counter`). The forbidden branch increments a
   stale copy and saves the whole record. Concurrent attempts count once.
   The same stale save can revert a concurrent email update.
3. **Duplicate linked accounts**
   (`:909`/`:988`, `reconciler_duplicate_account`). The lookups and
   `create_federated` are not atomic.
4. **Cross-provider sub collision**
   (`:909`, `reconciler_sub_collision`). `find_by_federation_uid` takes the
   sub alone. The spec looks up by this provider's subject.
5. **Stale provider cache fill** (`:214`, and `:187`, `:812`,
   `registry_fill_race`). Readers insert what they read after further
   awaits; an invalidation in between is undone for up to 12 hours.
6. **Phantom provider** (`:284`, `registry_phantom`). `save` ignores an
   UPDATE that matched no row and caches the config anyway.
7. **Non-atomic invalidation** (`:282`, `registry_partial_failure`). The
   SQL write commits; a failing cache op returns before the rest of the
   invalidation. TLC's trace: create i1 (its `invalidate_cache_all`
   fails, which changes nothing yet), then update i1, whose UPDATE writes
   version 2 and whose `invalidate_cache_all` fails at 282, so `save`
   returns before the `cache_insert` at 284 and the provider entry keeps
   version 1.
8. **Empty scope tokens** (`:305`, `scope_empty_token`). `cleanup_scope`
   tests a piece for emptiness before trimming it. A piece of tab or newline
   becomes an empty token (`"a \t"` gives `"a+"`, `"a \t b"` gives
   `"a++b"`). The spec says the stored scope has no empty tokens.

## 5. Fairness

Browsers and administrators are not obliged to act, so starting a login,
a callback or a registry operation is never fair. What the code does
guarantee:

- A handler task, once started, runs its fixed sequence of awaits to an
  answer: actix polls the future to completion, and every SQL, cache and
  HTTP call returns a result or an error (the token POST is bounded by
  `build_client`'s 10 s timeout). This justifies weak fairness on the steps
  of a begun task.
- The provider entries live in `CACHE_NAME_12HR`, a cache with a time to
  live, so an entry that stays is eventually removed: weak fairness on
  `evict`.

No liveness property is checked, and so no fairness is assumed. Under
these two assumptions "every task eventually answers" holds by the shape
of the model: each task's program counter only moves forward. "A stale
provider entry is eventually gone" holds by bounded operations and a fair
`evict`, whatever the handlers do. Neither could be broken by a mutant of
the code.
Instead, `HonestCallbackAccepted`
states the completeness the spec asks of the session ("valid start->finish
sequences succeed") as a safety property: an honest callback is never
answered with a check error. This catches checks that reject too much,
which the other properties would not notice.

Faults: a node restart loses the in-memory caches. The model covers this
with `expire` (callback records) and `evict` (provider entries), which may
happen at any step. Failing cache operations are `login_finish_delete_error`
and `cache_op_fails`; upstream timeouts and errors are error outcomes of
the token POST and of the discovery GET.

## 6. Not modelled, and why

- The success path after the reconciler is not modelled beyond it: both
  branches are `todo!()`. Forced MFA and local token issuance do not exist
  in the code.
- The HTTP transport, TLS and the cryptr cipher are library code. Their
  failures appear as error outcomes (`login_finish_token_error`, an
  undecryptable cookie, a lookup send error); `build_client`'s policy and
  the encryption's round trip are in ProviderConfig.
- User names, timestamps, the language, `client_scope`, redirect URI and
  nonce are copied data that no property tells apart.
- In the registry, `try_from_id_req`'s validation and SQL errors end an
  operation before it writes anything, so they are left out.
- The endpoint URLs a lookup copies verbatim and the issuer of the
  document are left out: no code inspects them.
- FedCM (`fed_cm.rs`): the spec leaves it out of scope as request/response
  glue. Its token handler's decisions rest on
  `User::find_for_fed_cm_validated` and
  `ReqPrincipal::validate_session_auth`, which are not in this repository.
  `disconnect` is `todo!()`.
- `AuthProviderType`: `From<String>` (`FromString`, the lenient fallback
  to `OIDC`) is modelled but used only where rows are read, in code
  outside this repository. Because of that fallback, a wrong `as_str` would
  go unnoticed there.
- The HA cache's replication (redhac, outside the repository) is not
  modelled: each cache is one store. A callback record saved with
  `AckLevel::Once` and looked up on another node before it replicated
  looks like an expired one.
