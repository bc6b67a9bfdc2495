------------------------ MODULE IdentityReconciler ------------------------
(***************************************************************************)
(* AuthProviderIdClaims::validate_update_user in                           *)
(* src/rauthy-models/src/entity/auth_provider.rs: the ID token of an       *)
(* upstream login is matched to a local user (by email, then by the       *)
(* federation uid), checked against the account-takeover rules, and the   *)
(* user is saved or created; optional claims are upserted into the user's *)
(* profile values.  Several logins run as concurrent tasks; each task is  *)
(* split at its awaits (the two lookups, the save or create, the values   *)
(* find and upsert), and every save writes back the whole record the task *)
(* read before.                                                            *)
(*                                                                         *)
(* The user and user-values stores are outside src/; their operations     *)
(* are modelled from the interfaces of the spec (section 6), with the      *)
(* users table's unique email.  Names, timestamps and the language are    *)
(* data no property tells apart and are left out.                          *)
(***************************************************************************)
EXTENDS Naturals, FiniteSets

CONSTANTS
    Users,        \* user ids the store can hand out
    Emails,
    Subs,         \* upstream subject identifiers (`sub`)
    Providers,    \* auth provider ids
    ClaimFields,  \* optional claims that go to the user values
    Tasks,        \* concurrent validate_update_user calls
    Local,        \* creator of an account not made by a federated login
    None,
    Malformed     \* a token without claims part or with undecodable claims

VARIABLES
    users,      \* user id -> record, or None
    values,     \* user id -> user values (claim field -> stored or None)
    pc,
    prov,       \* auth_provider_id the task was called with
    token,      \* the decoded claims of the task's ID token
    uid,        \* the user the task matched or created
    snap,       \* the user record the task read
    vsnap,      \* the user values the task read
    createdBy,  \* history: user id -> identity whose login created it
    forbidden   \* history: forbidden attempts on a user since its last login

vars == <<users, values, pc, prov, token, uid, snap, vsnap, createdBy, forbidden>>

Identity == Providers \X Subs

(* A local account has neither federation uid nor provider; a federated  *)
(* one has both.                                                           *)
UserRec == [email: Emails, federation_uid: {None}, auth_provider_id: {None},
            failed_login_attempts: Nat]
           \cup
           [email: Emails, federation_uid: Subs, auth_provider_id: Providers,
            failed_login_attempts: Nat]

Claims == [sub: Subs, email: Emails \cup {None}, extra: SUBSET ClaimFields]

NoValues == [f \in ClaimFields |-> None]

PC == {"idle", "by_email", "by_fed", "check", "create", "values", "upsert",
       "ok", "forbidden", "failed"}

(* A store holding one account created locally (password or passkey),    *)
(* under any email.                                                        *)
Init ==
    /\ \E u0 \in Users, e0 \in Emails :
         /\ users = [u \in Users |->
                       IF u = u0
                       THEN [email |-> e0, federation_uid |-> None,
                             auth_provider_id |-> None, failed_login_attempts |-> 0]
                       ELSE None]
         /\ createdBy = [u \in Users |-> IF u = u0 THEN Local ELSE None]
    /\ values = [u \in Users |-> NoValues]
    /\ pc = [t \in Tasks |-> "idle"]
    /\ prov = [t \in Tasks |-> None]
    /\ token = [t \in Tasks |-> None]
    /\ uid = [t \in Tasks |-> None]
    /\ snap = [t \in Tasks |-> None]
    /\ vsnap = [t \in Tasks |-> None]
    /\ forbidden = [u \in Users |-> 0]

-----------------------------------------------------------------------------
(* The user store (spec section 6); email is unique in the users table.  *)

EmailTaken(e, u) == \E v \in Users : v # u /\ users[v] # None /\ users[v].email = e

(* User::save writes the whole record; a duplicate email is a DB error    *)
save(u, rec) == users' = [users EXCEPT ![u] = rec]

-----------------------------------------------------------------------------
(* Split the token, base64-decode and deserialize its claims; a missing   *)
(* `email` is rejected before any user is read.                           *)
validate_claims(t) ==
    /\ pc[t] = "idle"
    /\ \E p \in Providers, tok \in Claims \cup {Malformed} :
         /\ prov' = [prov EXCEPT ![t] = p]
         /\ token' = [token EXCEPT ![t] = tok]
         /\ pc' = [pc EXCEPT ![t] =
                     IF tok = Malformed \/ tok.email = None THEN "failed" ELSE "by_email"]
    /\ UNCHANGED <<users, values, uid, snap, vsnap, createdBy, forbidden>>

(* User::find_by_email; any error falls through to the second lookup    *)
find_by_email(t) ==
    /\ pc[t] = "by_email"
    /\ IF \E u \in Users : users[u] # None /\ users[u].email = token[t].email
       THEN \E u \in Users :
              /\ users[u] # None /\ users[u].email = token[t].email
              /\ uid' = [uid EXCEPT ![t] = u]
              /\ snap' = [snap EXCEPT ![t] = users[u]]
              /\ pc' = [pc EXCEPT ![t] = "check"]
       ELSE /\ pc' = [pc EXCEPT ![t] = "by_fed"]
            /\ UNCHANGED <<uid, snap>>
    /\ UNCHANGED <<users, values, prov, token, vsnap, createdBy, forbidden>>

(* User::find_by_federation_uid(sub): looks up the subject alone, not the *)
(* subject at this provider; fetch_optional takes any matching row.       *)
find_by_federation_uid(t) ==
    /\ pc[t] = "by_fed"
    /\ LET linked == {u \in Users : users[u] # None
                                    /\ users[u].federation_uid = token[t].sub}
       IN  IF linked # {}
           THEN \E u \in linked :
                  /\ uid' = [uid EXCEPT ![t] = u]
                  /\ snap' = [snap EXCEPT ![t] = users[u]]
                  /\ pc' = [pc EXCEPT ![t] = "check"]
           ELSE /\ pc' = [pc EXCEPT ![t] = "create"]
                /\ UNCHANGED <<uid, snap>>
    /\ UNCHANGED <<users, values, prov, token, vsnap, createdBy, forbidden>>

(* mutant: the auth provider comparison is left out *)
IsForbidden_any_provider(rec, p, sub) ==
    \/ rec.federation_uid = None
    \/ rec.federation_uid # sub

(* The takeover rules: the stored federation uid must be the token's sub *)
(* and the stored auth provider the caller's.                             *)
IsForbidden(rec, p, sub) ==
    \/ rec.federation_uid = None
    \/ rec.federation_uid # sub
    \/ rec.auth_provider_id # p

(* Existing user: either count the failed login and save, answering      *)
(* Forbidden, or take the token's email, reset the counter and save.      *)
(* Both saves write back the record read by the lookup.                    *)
save_existing(t) ==
    /\ pc[t] = "check"
    /\ LET rec == snap[t]
           u   == uid[t]
           new == IF IsForbidden(rec, prov[t], token[t].sub)
                  THEN [rec EXCEPT !.failed_login_attempts = @ + 1]
                  ELSE [rec EXCEPT !.email = token[t].email,
                                   !.failed_login_attempts = 0]
       IN  IF EmailTaken(new.email, u)
           THEN /\ pc' = [pc EXCEPT ![t] = "failed"]
                /\ UNCHANGED <<users, forbidden>>
           ELSE /\ save(u, new)
                /\ IF IsForbidden(rec, prov[t], token[t].sub)
                   THEN /\ pc' = [pc EXCEPT ![t] = "forbidden"]
                        /\ forbidden' = [forbidden EXCEPT ![u] = @ + 1]
                   ELSE /\ pc' = [pc EXCEPT ![t] = "values"]
                        /\ forbidden' = [forbidden EXCEPT ![u] = 0]
    /\ UNCHANGED <<values, prov, token, uid, snap, vsnap, createdBy>>

(* mutant: the new user is created without its auth_provider_id *)
create_federated_without_provider(t) ==
    /\ pc[t] = "create"
    /\ IF EmailTaken(token[t].email, None)
       THEN /\ pc' = [pc EXCEPT ![t] = "failed"]
            /\ UNCHANGED <<users, uid, createdBy>>
       ELSE \E u \in Users :
              /\ users[u] = None /\ createdBy[u] = None
              /\ users' = [users EXCEPT ![u] =
                             [email |-> token[t].email,
                              federation_uid |-> token[t].sub,
                              auth_provider_id |-> None,
                              failed_login_attempts |-> 0]]
              /\ createdBy' = [createdBy EXCEPT ![u] = <<prov[t], token[t].sub>>]
              /\ uid' = [uid EXCEPT ![t] = u]
              /\ pc' = [pc EXCEPT ![t] = "values"]
    /\ UNCHANGED <<values, prov, token, snap, vsnap, forbidden>>

(* User::create_federated with the token's email, sub and the provider   *)
create_federated(t) ==
    /\ pc[t] = "create"
    /\ IF EmailTaken(token[t].email, None)
       THEN /\ pc' = [pc EXCEPT ![t] = "failed"]
            /\ UNCHANGED <<users, uid, createdBy>>
       ELSE \E u \in Users :
              /\ users[u] = None /\ createdBy[u] = None
              /\ users' = [users EXCEPT ![u] =
                             [email |-> token[t].email,
                              federation_uid |-> token[t].sub,
                              auth_provider_id |-> prov[t],
                              failed_login_attempts |-> 0]]
              /\ createdBy' = [createdBy EXCEPT ![u] = <<prov[t], token[t].sub>>]
              /\ uid' = [uid EXCEPT ![t] = u]
              /\ pc' = [pc EXCEPT ![t] = "values"]
    /\ UNCHANGED <<values, prov, token, snap, vsnap, forbidden>>

(* UserValues::find; the upsert follows only when the token carried an   *)
(* optional claim.                                                         *)
find_values(t) ==
    /\ pc[t] = "values"
    /\ vsnap' = [vsnap EXCEPT ![t] = values[uid[t]]]
    /\ pc' = [pc EXCEPT ![t] = IF token[t].extra = {} THEN "ok" ELSE "upsert"]
    /\ UNCHANGED <<users, values, prov, token, uid, snap, createdBy, forbidden>>

(* UserValues::upsert of the values read, with each claim present set    *)
upsert_values(t) ==
    /\ pc[t] = "upsert"
    /\ values' = [values EXCEPT ![uid[t]] =
                    [f \in ClaimFields |->
                       IF f \in token[t].extra THEN t ELSE vsnap[t][f]]]
    /\ pc' = [pc EXCEPT ![t] = "ok"]
    /\ UNCHANGED <<users, prov, token, uid, snap, vsnap, createdBy, forbidden>>

Final == {"ok", "forbidden", "failed"}

(* Every login has been answered: the model's bound *)
Done ==
    /\ \A t \in Tasks : pc[t] \in Final
    /\ UNCHANGED vars

Next ==
    \/ \E t \in Tasks :
        \/ validate_claims(t)
        \/ find_by_email(t)
        \/ find_by_federation_uid(t)
        \/ save_existing(t)
        \/ create_federated(t)
        \/ find_values(t)
        \/ upsert_values(t)
    \/ Done

Spec == Init /\ [][Next]_vars

-----------------------------------------------------------------------------
TypeOK ==
    /\ users \in [Users -> UserRec \cup {None}]
    /\ values \in [Users -> [ClaimFields -> Tasks \cup {None}]]
    /\ pc \in [Tasks -> PC]
    /\ prov \in [Tasks -> Providers \cup {None}]
    /\ token \in [Tasks -> Claims \cup {Malformed, None}]
    /\ uid \in [Tasks -> Users \cup {None}]
    /\ snap \in [Tasks -> UserRec \cup {None}]
    /\ vsnap \in [Tasks -> [ClaimFields -> Tasks \cup {None}] \cup {None}]
    /\ createdBy \in [Users -> Identity \cup {Local, None}]
    /\ forbidden \in [Users -> Nat]

(* No account takeover: a federated login is accepted for an account only *)
(* when that account was created by a login of the same upstream identity *)
(* (provider, sub).  An account created locally is never entered through  *)
(* an upstream provider, whatever email the token asserts, and an account *)
(* of one provider never through another, however the lookups and saves   *)
(* of concurrent logins interleave (validate_update_user, lines 903-968). *)
NoAccountTakeover ==
    \A t \in Tasks :
        pc[t] \in {"values", "upsert", "ok"} =>
            createdBy[uid[t]] = <<prov[t], token[t].sub>>

OneAccountPerIdentity ==
    \A u, v \in Users :
        /\ u # v
        /\ users[u] # None /\ users[v] # None
        /\ users[u].federation_uid # None
        => <<users[u].auth_provider_id, users[u].federation_uid>>
             # <<users[v].auth_provider_id, users[v].federation_uid>>

(* The spec falls back to "this provider's federation subject identifier" *)
(* when no user has the token's email: a login is then answered Forbidden *)
(* only because of an account that holds the token's email, never because *)
(* another provider happens to use the same `sub`.                         *)
ForbiddenOnlyForEmailConflict ==
    \A t \in Tasks : pc[t] = "forbidden" => snap[t].email = token[t].email

=============================================================================
