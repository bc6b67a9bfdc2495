-------------------------- MODULE ProviderConfig --------------------------
(***************************************************************************)
(* How rauthy turns an administrator's input into a stored upstream       *)
(* provider (src/rauthy-models/src/entity/auth_provider.rs):              *)
(* lookup_config fetches the issuer's discovery document with a client    *)
(* from build_client and proposes a configuration; try_from_id_req        *)
(* derives the stored row from a ProviderRequest (typed, or the proposal   *)
(* taken over by the admin UI) with the scope cleaned up, the secret      *)
(* encrypted and the type set; create/save write that row.                *)
(*                                                                         *)
(* Neither function reads stored state, and save re-derives the whole row *)
(* from its request, so one save per behaviour shows every row a request  *)
(* can produce; the provider registry's caches are in ProviderRegistry.    *)
(***************************************************************************)
EXTENDS Naturals, Sequences, SequencesExt, ScopeCleanup

CONSTANTS
    Typed,         \* characters an administrator may type into the scope
    MaxLen,        \* longest typed scope
    MaxIssuerLen,  \* longest issuer typed into the lookup form
    Secrets,       \* client secrets in clear text
    None           \* Option::None; also: no lookup, request or row yet

(* Symbols of an issuer: the two schemes lookup_config tests for are      *)
(* single symbols, a host is one letter.                                   *)
Http == "http://"
Https == "https://"
Slash == "/"
WellKnown == ".well-known/openid-configuration"

Issuers == BoundedSeq({Http, Https, "h", Slash}, MaxIssuerLen)

(* lookup_config: an issuer without scheme gets https://, then the       *)
(* discovery path is appended with exactly one '/' added.                 *)
IssuerUrl(issuer) ==
    IF IsPrefix(<<Http>>, issuer) \/ IsPrefix(<<Https>>, issuer)
    THEN issuer ELSE <<Https>> \o issuer

ConfigUrl(issuer) ==
    LET url == IssuerUrl(issuer)
    IN  IF IsSuffix(<<Slash>>, url) THEN url \o <<WellKnown>>
        ELSE url \o <<Slash, WellKnown>>

(* root_pem of the form: none, a PEM reqwest parses, or one it rejects *)
Pems == {None, "pem_ok", "pem_bad"}

(* An error outcome of a call *)
Err(kind) == [error |-> kind]

BuildError == Err("build")

(* Mutant: the secure branch does not set https_only *)
build_client_allows_http(insecure, pem) ==
    IF insecure
    THEN [https_only |-> FALSE, accept_invalid_certs |-> TRUE,
          min_tls13 |-> FALSE, extra_root |-> FALSE]
    ELSE IF pem = "pem_bad" THEN BuildError
    ELSE [https_only |-> FALSE, accept_invalid_certs |-> FALSE,
          min_tls13 |-> TRUE, extra_root |-> pem # None]

(* AuthProvider::build_client: insecure mode accepts any certificate and *)
(* plain http (root_pem is not even parsed); secure mode enforces https   *)
(* and TLS 1.3, adds the root certificate, and fails on a bad PEM.        *)
(* Both use 10 s timeouts, which end a request with a send error.          *)
build_client(insecure, pem) ==
    IF insecure
    THEN [https_only |-> FALSE, accept_invalid_certs |-> TRUE,
          min_tls13 |-> FALSE, extra_root |-> FALSE]
    ELSE IF pem = "pem_bad" THEN BuildError
    ELSE [https_only |-> TRUE, accept_invalid_certs |-> FALSE,
          min_tls13 |-> TRUE, extra_root |-> pem # None]

Clients == [https_only: BOOLEAN, accept_invalid_certs: BOOLEAN,
            min_tls13: BOOLEAN, extra_root: BOOLEAN]

(* The parts of a WellKnown document lookup_config reads.  Only whether  *)
(* client_secret_post and S256 are listed matters to it.                   *)
Docs == [scopes_supported: SUBSET ToSet(DiscoveryScopes),
         token_endpoint_auth_methods_supported: SUBSET {"client_secret_post"},
         code_challenge_methods_supported: SUBSET {"S256"}]

(* What the GET can give: a send error (connection, TLS, 10 s timeout),  *)
(* a non-2xx status, a body that is no WellKnown, or a document.           *)
LookupErrors == {Err(k) : k \in {"build", "send", "status", "unparsable"}}
Answers == {Err(k) : k \in {"send", "status", "unparsable"}} \cup Docs

(* ProviderLookupResponse built from a document *)
Proposal(doc, insecure) ==
    [token_auth_method_basic |->
        "client_secret_post" \notin doc.token_endpoint_auth_methods_supported,
     use_pkce |-> "S256" \in doc.code_challenge_methods_supported,
     danger_allow_insecure |-> insecure,
     scope |-> LookupScope(doc.scopes_supported)]

(* The outcome of lookup_config: the client error comes first, then an   *)
(* http:// URL refused by an https_only client, then the answer.           *)
LookupResult(url, client, insecure, answer) ==
    CASE client = BuildError                          -> BuildError
      [] client.https_only /\ ~IsPrefix(<<Https>>, url) -> Err("send")
      [] answer \notin Docs                           -> answer
      [] OTHER                                        -> Proposal(answer, insecure)

-----------------------------------------------------------------------------
(* AuthProviderType and its string conversions *)
OIDC == "OIDC"
InvalidType == "invalid_type"

AsStr(typ) == CASE typ = OIDC -> "oidc"

TryFromStr(value) == IF value = "oidc" THEN OIDC ELSE InvalidType

(* From<String>: whatever TryFrom rejects is taken as OIDC *)
FromString(value) == IF TryFromStr(value) = InvalidType THEN OIDC ELSE TryFromStr(value)

(* Encryption with the process-wide key: an injective tag *)
Enc(secret) == <<"enc", secret>>

(* secret_encrypted: EncValue::encrypt of the secret, None stays None *)
secret_encrypted(secret) == IF secret = None THEN None ELSE Enc(secret)

(* get_secret_cleartext: decrypt, then String::from_utf8_lossy, which    *)
(* gives back any string that was encrypted.                               *)
get_secret_cleartext(secret) == IF secret = None THEN None ELSE secret[2]

Inputs == BoundedSeq(Typed, MaxLen)

(* The ProviderRequest fields try_from_id_req turns into stored values   *)
TypedRequests ==
    [scope: Inputs, client_secret: Secrets \cup {None},
     danger_allow_insecure: {None, TRUE, FALSE}, use_pkce: BOOLEAN]

(* The request the admin UI sends after a lookup: the proposal's scope  *)
(* and flags as they are, and a client secret typed in.                   *)
ProposalRequests(p) ==
    [scope: {p.scope}, client_secret: Secrets \cup {None},
     danger_allow_insecure: {p.danger_allow_insecure}, use_pkce: {p.use_pkce}]

EncryptFailed == Err("encrypt")

(* try_from_id_req, and the row create (INSERT) and save (UPDATE) write *)
Row(r) ==
    [typ |-> AsStr(OIDC),
     scope |-> cleanup_scope(r.scope),
     secret |-> secret_encrypted(r.client_secret),
     allow_insecure_requests |->
        IF r.danger_allow_insecure = None THEN FALSE ELSE r.danger_allow_insecure,
     use_pkce |-> r.use_pkce]

-----------------------------------------------------------------------------
VARIABLES
    lookup,    \* the last lookup_config call and its outcome, or None
    req,       \* the ProviderRequest of the create/update, or None
    provider   \* the auth_providers row it wrote, EncryptFailed, or None

vars == <<lookup, req, provider>>

Init ==
    /\ lookup = None
    /\ req = None
    /\ provider = None

(* AuthProvider::lookup_config(issuer, danger_allow_insecure, root_pem) *)
(* while the provider form is open; an admin may look up again.           *)
lookup_config ==
    /\ provider = None
    /\ \E issuer \in Issuers, insecure \in BOOLEAN, pem \in Pems, answer \in Answers :
         LET client == build_client(insecure, pem)
             url == ConfigUrl(issuer)
         IN  lookup' = [url |-> url, insecure |-> insecure, client |-> client,
                        answer |-> answer,
                        result |-> LookupResult(url, client, insecure, answer)]
    /\ UNCHANGED <<req, provider>>

(* AuthProvider::create / update: try_from_id_req, then the INSERT or    *)
(* UPDATE of the row.  A request is typed without a lookup, or taken      *)
(* from a successful lookup's proposal: try_from_id_req reads nothing but *)
(* the request, so a typed request after a lookup adds no row.  A failing *)
(* EncValue::encrypt returns through `?` before anything is written.      *)
try_from_id_req ==
    /\ provider = None
    /\ \E r \in IF lookup = None THEN TypedRequests
                ELSE IF lookup.result \in LookupErrors THEN {}
                ELSE ProposalRequests(lookup.result) :
         /\ req' = r
         /\ \/ provider' = Row(r)
            \/ /\ r.client_secret # None
               /\ provider' = EncryptFailed
    /\ UNCHANGED lookup

(* The provider is written: the model's bound of one save *)
Done ==
    /\ provider # None
    /\ UNCHANGED vars

Next == lookup_config \/ try_from_id_req \/ Done

Spec == Init /\ [][Next]_vars

-----------------------------------------------------------------------------
Rows == [typ: {AsStr(OIDC)}, scope: Seq(Typed \cup ToSet(DiscoveryScopes) \cup {Plus}),
         secret: {Enc(s) : s \in Secrets} \cup {None},
         allow_insecure_requests: BOOLEAN, use_pkce: BOOLEAN]

TypeOK ==
    /\ lookup \in [url: Seq({Http, Https, "h", Slash, WellKnown}), insecure: BOOLEAN,
                   client: Clients \cup {BuildError}, answer: Answers,
                   result: LookupErrors \cup {Proposal(d, i) : d \in Docs, i \in BOOLEAN}]
                  \cup {None}
    /\ req \in TypedRequests \cup {None}
          \cup UNION {ProposalRequests(Proposal(d, i)) : d \in Docs, i \in BOOLEAN}
    /\ provider \in Rows \cup {EncryptFailed, None}

Saved == provider \notin {None, EncryptFailed}

(* A stored scope has no empty token: unless it is empty, it neither      *)
(* starts nor ends with '+' and has no "++" (the spec's invariant of      *)
(* AuthProvider.scope, which cleanup_scope's filter is meant to give).     *)
NoEmptyToken ==
    Saved /\ provider.scope # <<>> =>
        \A i \in 1..Len(Split(provider.scope, Plus)) : Split(provider.scope, Plus)[i] # <<>>

(* Where the request separates scopes with spaces only, cleanup_scope    *)
(* gives the normal form however many spaces there are and wherever.      *)
SpacesNormalized ==
    Saved /\ ToSet(req.scope) \cap Whitespace \subseteq {Space} =>
        provider.scope = NormalForm(req.scope)

(* Saving a lookup_config proposal as it is stores a provider that asks  *)
(* for exactly the advertised scopes among openid, profile, email, in     *)
(* that order and joined by '+' (lookup's trailing space dropped), uses   *)
(* PKCE exactly when the document lists S256, and allows insecure         *)
(* requests exactly when the lookup was made insecurely.                   *)
ProposalRoundTrip ==
    Saved /\ lookup # None =>
        /\ provider.scope =
             Join(SelectSeq([i \in 1..Len(DiscoveryScopes) |-> <<DiscoveryScopes[i]>>],
                            LAMBDA w : w[1] \in lookup.answer.scopes_supported), Plus)
        /\ provider.use_pkce = ("S256" \in lookup.answer.code_challenge_methods_supported)
        /\ provider.allow_insecure_requests = lookup.insecure

(* Discovery without danger_allow_insecure only ever succeeds over https *)
(* with certificate checks and TLS 1.3, whatever scheme the admin typed:  *)
(* the issuer normalisation, build_client's secure branch and the         *)
(* https_only refusal of an http:// URL together ensure it.               *)
SecureLookupOverTls ==
    lookup # None /\ ~lookup.insecure /\ lookup.result \notin LookupErrors =>
        /\ IsPrefix(<<Https>>, lookup.url)
        /\ ~lookup.client.accept_invalid_certs
        /\ lookup.client.min_tls13
=============================================================================
