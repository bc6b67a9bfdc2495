--------------------------- MODULE UpstreamLogin ---------------------------
(***************************************************************************)
(* The upstream login session of rauthy: AuthProviderCallback in          *)
(* src/rauthy-models/src/entity/auth_provider.rs.                          *)
(*                                                                         *)
(* login_start stores one callback record under a fresh random id in the   *)
(* callback cache and hands the browser an encrypted cookie holding that   *)
(* id, the xsrf token and (through the browser) the PKCE verifier.         *)
(* login_finish runs as concurrent request tasks; each task is split at    *)
(* its await points (cache_del, cache_get, the POST to the token endpoint, *)
(* the reconciler call), so tasks for the same id interleave.              *)
(* Random 32-character values are model values (they never repeat); the   *)
(* cookie encryption and the SHA-256 of the verifier are modelled by what  *)
(* they do: injective tags that only the right input opens or matches.     *)
(***************************************************************************)
EXTENDS Naturals

CONSTANTS
    CallbackId,   \* ids produced by secure_random_alnum(32)
    Requests,     \* login_finish tasks (one callback request each)
    Forged,       \* any cookie, state, token or verifier not issued by login_start
    NoRecord      \* absence of a cache entry

VARIABLES
    cache,    \* CACHE_NAME_AUTH_PROVIDER_CALLBACK: id -> record
    issued,   \* id -> record produced by login_start (history; ids are fresh)
    pc,       \* program counter of each login_finish task
    payload,  \* the cookie and callback payload a task received
    slf,      \* the record a task read with find()
    rejected, \* history: ids some task answered with a cross-check error
    consumed  \* history: ids some task answered after passing the checks

vars == <<cache, issued, pc, payload, slf, rejected, consumed>>

(* What login_start hands out for callback id c *)
Xsrf(c)     == <<"xsrf", c>>
Verifier(c) == <<"verifier", c>>
Enc(c)      == <<"enc", c>>           \* EncValue::encrypt + base64_encode
S256(v)     == <<"s256", v>>           \* base64_url_encode(SHA256(v))

Decrypt(cookie) == IF cookie = Forged THEN Forged ELSE cookie[2]

Record == [callback_id: CallbackId, xsrf_token: {Xsrf(c) : c \in CallbackId},
           pkce_challenge: {S256(Verifier(c)) : c \in CallbackId}]

Payload == [cookie: {Enc(c) : c \in CallbackId} \cup {Forged},
            state: CallbackId \cup {Forged},
            xsrf_token: {Xsrf(c) : c \in CallbackId} \cup {Forged},
            pkce_verifier: {Verifier(c) : c \in CallbackId} \cup {Forged}]

(* Payloads a client can send once the ids in ids were issued: every mix  *)
(* of issued values and forged ones.                                        *)
Payloads(ids) ==
    [cookie: {Enc(c) : c \in ids} \cup {Forged},
     state: ids \cup {Forged},
     xsrf_token: {Xsrf(c) : c \in ids} \cup {Forged},
     pkce_verifier: {Verifier(c) : c \in ids} \cup {Forged}]

PC == {"idle", "del_state", "find", "del_check", "token", "reconcile",
       "failed", "rejected", "panicked"}

(* Tasks that passed all three checks of login_finish *)
Passed == {"token", "reconcile", "panicked"}

Init ==
    /\ cache = [c \in CallbackId |-> NoRecord]
    /\ issued = [c \in CallbackId |-> NoRecord]
    /\ pc = [r \in Requests |-> "idle"]
    /\ payload = [r \in Requests |-> NoRecord]
    /\ slf = [r \in Requests |-> NoRecord]
    /\ rejected = {}
    /\ consumed = {}

(* AuthProviderCallback::save, AckLevel::Once *)
save(rec) == cache' = [cache EXCEPT ![rec.callback_id] = rec]

(* AuthProviderCallback::delete *)
delete(c) == cache' = [cache EXCEPT ![c] = NoRecord]

(* mutant: the record keeps the verifier instead of its S256 challenge *)
login_start_keeps_verifier ==
    \E c \in CallbackId :
        /\ issued[c] = NoRecord
        /\ LET rec == [callback_id |-> c, xsrf_token |-> Xsrf(c),
                       pkce_challenge |-> Verifier(c)]
           IN  /\ save(rec)
               /\ issued' = [issued EXCEPT ![c] = rec]
        /\ UNCHANGED <<pc, payload, slf, rejected, consumed>>

(* login_start: provider and client lookups, scope sanitizing, the        *)
(* location and the cookie are all computed before save(); when one of    *)
(* them fails nothing is stored, which is a stuttering step.              *)
login_start ==
    \E c \in CallbackId :
        /\ issued[c] = NoRecord
        /\ LET rec == [callback_id |-> c, xsrf_token |-> Xsrf(c),
                       pkce_challenge |-> S256(Verifier(c))]
           IN  /\ save(rec)
               /\ issued' = [issued EXCEPT ![c] = rec]
        /\ UNCHANGED <<pc, payload, slf, rejected, consumed>>

IssuedIds == {c \in CallbackId : issued[c] # NoRecord}

(* login_finish up to the first await: decrypt the cookie, then compare   *)
(* the decrypted id with `state`.  An undecryptable cookie fails at `?`   *)
(* with nothing deleted.                                                   *)
login_finish_decrypt(r) ==
    /\ pc[r] = "idle"
    /\ \E p \in Payloads(IssuedIds) :
        /\ payload' = [payload EXCEPT ![r] = p]
        /\ pc' = [pc EXCEPT ![r] =
                    CASE Decrypt(p.cookie) = Forged  -> "failed"
                      [] Decrypt(p.cookie) # p.state -> "del_state"
                      [] OTHER                       -> "find"]
    /\ UNCHANGED <<cache, issued, slf, rejected, consumed>>

(* `state` does not match: delete the id from the cookie, answer BadRequest *)
login_finish_state_mismatch(r) ==
    /\ pc[r] = "del_state"
    /\ delete(Decrypt(payload[r].cookie))
    /\ pc' = [pc EXCEPT ![r] = "rejected"]
    /\ rejected' = rejected \cup {Decrypt(payload[r].cookie)}
    /\ UNCHANGED <<issued, payload, slf, consumed>>

(* mutant: the xsrf comparison is left out *)
CheckXsrf_skipped(p, rec) == TRUE

CheckXsrf(p, rec) == rec.xsrf_token = p.xsrf_token

(* mutant: the verifier is compared with the challenge without hashing *)
CheckPkce_unhashed(p, rec) == rec.pkce_challenge = p.pkce_verifier

CheckPkce(p, rec) == rec.pkce_challenge = S256(p.pkce_verifier)

(* find(): a missing record is NotFound; then the xsrf token and the PKCE *)
(* verifier are compared with the record, with no await in between.       *)
login_finish_find(r) ==
    /\ pc[r] = "find"
    /\ LET c   == payload[r].state
           rec == cache[c]
       IN  IF rec = NoRecord
           THEN /\ pc' = [pc EXCEPT ![r] = "failed"]
                /\ UNCHANGED slf
           ELSE /\ slf' = [slf EXCEPT ![r] = rec]
                /\ pc' = [pc EXCEPT ![r] =
                        IF CheckXsrf(payload[r], rec) /\ CheckPkce(payload[r], rec)
                        THEN "token" ELSE "del_check"]
    /\ UNCHANGED <<cache, issued, payload, rejected, consumed>>

(* mutant: the check-failure branches answer without deleting *)
login_finish_check_failed_keeps_record(r) ==
    /\ pc[r] = "del_check"
    /\ pc' = [pc EXCEPT ![r] = "rejected"]
    /\ rejected' = rejected \cup {slf[r].callback_id}
    /\ UNCHANGED <<cache, issued, payload, slf, consumed>>

(* invalid CSRF token / invalid PKCE verifier: delete, answer Unauthorized *)
login_finish_check_failed(r) ==
    /\ pc[r] = "del_check"
    /\ delete(slf[r].callback_id)
    /\ pc' = [pc EXCEPT ![r] = "rejected"]
    /\ rejected' = rejected \cup {slf[r].callback_id}
    /\ UNCHANGED <<issued, payload, slf, consumed>>

(* A failing cache_del returns its own error through `?` before the check *)
(* error is built: the record stays and the task fails.                    *)
login_finish_delete_error(r) ==
    /\ pc[r] \in {"del_state", "del_check"}
    /\ pc' = [pc EXCEPT ![r] = "failed"]
    /\ UNCHANGED <<cache, issued, payload, slf, rejected, consumed>>

(* POST to the token endpoint: a send error or timeout, a non-2xx status, *)
(* an undeserializable body or a token set without id_token all return an *)
(* error; none of these branches deletes the record.                       *)
login_finish_token_error(r) ==
    /\ pc[r] = "token"
    /\ pc' = [pc EXCEPT ![r] = "failed"]
    /\ consumed' = consumed \cup {slf[r].callback_id}
    /\ UNCHANGED <<cache, issued, payload, slf, rejected>>

login_finish_token_ok(r) ==
    /\ pc[r] = "token"
    /\ pc' = [pc EXCEPT ![r] = "reconcile"]
    /\ UNCHANGED <<cache, issued, payload, slf, rejected, consumed>>

(* validate_update_user: its error propagates; on success both the       *)
(* force_mfa branch and the rest of the function end in todo!(), which    *)
(* panics the task.  No branch deletes the record.                         *)
login_finish_reconcile(r) ==
    /\ pc[r] = "reconcile"
    /\ \E outcome \in {"failed", "panicked"} :
           pc' = [pc EXCEPT ![r] = outcome]
    /\ consumed' = consumed \cup {slf[r].callback_id}
    /\ UNCHANGED <<cache, issued, payload, slf, rejected>>

(* The callback cache entry outlives UPSTREAM_AUTH_CALLBACK_TIMEOUT_SECS *)
(* by no more than the cache's TTL: it may disappear at any point.        *)
expire ==
    \E c \in CallbackId :
        /\ cache[c] # NoRecord
        /\ delete(c)
        /\ UNCHANGED <<issued, pc, payload, slf, rejected, consumed>>

Final == {"failed", "rejected", "panicked"}

(* Every id was used and every task has answered: the model's bound.     *)
Done ==
    /\ IssuedIds = CallbackId
    /\ \A r \in Requests : pc[r] \in Final
    /\ UNCHANGED vars

Next ==
    \/ login_start
    \/ expire
    \/ \E r \in Requests :
        \/ login_finish_decrypt(r)
        \/ login_finish_state_mismatch(r)
        \/ login_finish_find(r)
        \/ login_finish_check_failed(r)
        \/ login_finish_delete_error(r)
        \/ login_finish_token_error(r)
        \/ login_finish_token_ok(r)
        \/ login_finish_reconcile(r)
    \/ Done

Spec == Init /\ [][Next]_vars

-----------------------------------------------------------------------------
TypeOK ==
    /\ cache \in [CallbackId -> Record \cup {NoRecord}]
    /\ issued \in [CallbackId -> Record \cup {NoRecord}]
    /\ pc \in [Requests -> PC]
    /\ payload \in [Requests -> Payload \cup {NoRecord}]
    /\ slf \in [Requests -> Record \cup {NoRecord}]
    /\ rejected \subseteq CallbackId
    /\ consumed \subseteq CallbackId

(* Every task that reaches the token endpoint presents, for one callback *)
(* id c, the cookie, the `state`, the xsrf token and the PKCE verifier    *)
(* that login_start issued for c: a request mixing values of two logins,  *)
(* or carrying a forged one, never gets the code exchanged (login_finish  *)
(* state, xsrf and PKCE checks, read against a possibly stale record).    *)
ExchangeBoundToOneLogin ==
    \A r \in Requests : pc[r] \in Passed =>
        LET c == payload[r].state IN
        /\ issued[c] # NoRecord
        /\ payload[r].cookie = Enc(c)
        /\ payload[r].xsrf_token = issued[c].xsrf_token
        /\ S256(payload[r].pkce_verifier) = issued[c].pkce_challenge

(* A callback that carries exactly what login_start issued for one id  *)
(* (its cookie, the id as `state`, its xsrf token and the verifier whose  *)
(* S256 went into the record) is never answered with a state, xsrf or     *)
(* PKCE error, whatever other requests for that id do meanwhile: they can *)
(* make it NotFound, never rejected.  This is the spec's "valid            *)
(* start->finish sequences succeed", which no safety property above sees  *)
(* fail when the checks reject too much.                                   *)
Honest(p) ==
    \E c \in CallbackId :
        /\ issued[c] # NoRecord
        /\ p = [cookie |-> Enc(c), state |-> c, xsrf_token |-> Xsrf(c),
                pkce_verifier |-> Verifier(c)]

HonestCallbackAccepted ==
    \A r \in Requests : pc[r] = "rejected" => ~Honest(payload[r])

(* Once some task has answered a callback with a state, xsrf or PKCE     *)
(* error, no task can afterwards pass the checks for that callback id:    *)
(* the delete in each check-failure branch of login_finish happens before *)
(* the error is returned, so a rejected callback cannot be retried.       *)
NoPassAfterRejection ==
    [][\A r \in Requests :
         (pc[r] = "find" /\ pc'[r] = "token") => payload[r].state \notin rejected
      ]_vars

(* The spec: the callback record is single use, "a second finish call    *)
(* reusing the same already-consumed session id fails as not-found", and  *)
(* every failure branch deletes it so a failed callback cannot be        *)
(* resubmitted.  Stated for a second task that starts its lookup after    *)
(* the first one has answered, which leaves aside the concurrent double   *)
(* submission the spec calls an open question.                            *)
SingleUseCallback ==
    [][\A r \in Requests :
         (pc[r] = "find" /\ pc'[r] = "token") => payload[r].state \notin consumed
      ]_vars
=============================================================================
