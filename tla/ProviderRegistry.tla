------------------------- MODULE ProviderRegistry -------------------------
(***************************************************************************)
(* The upstream provider registry of rauthy: AuthProvider and             *)
(* AuthProviderTemplate in src/rauthy-models/src/entity/auth_provider.rs. *)
(*                                                                         *)
(* The auth_providers table is `db`.  Three entries of the 12h HA cache    *)
(* hold copies of it: one per provider (cache_idx(id)), the list of all    *)
(* providers (cache_idx("all")) and the login-page template.  Handler     *)
(* tasks run concurrently, each handling one operation at a time, split at *)
(* every await: the SQL query and each cache_get / cache_insert /         *)
(* cache_del.  A provider's configuration is a version number, the number *)
(* of the operation that wrote it; the template is the list it was built  *)
(* from (it projects id, name and use_pkce, which a write may change).     *)
(***************************************************************************)
EXTENDS Naturals

CONSTANTS
    Ids,      \* provider ids (new_store_id for create; any id for the rest)
    Tasks,    \* concurrent handler tasks
    MaxOps,   \* operations in one behaviour (bounds the versions)
    None,     \* no row in the table
    Miss      \* no cache entry

VARIABLES
    db,        \* auth_providers: id -> version or None
    single,    \* cache_idx(id): id -> version or Miss
    all,       \* cache_idx("all"): a list (id -> version or None) or Miss
    template,  \* IDX_AUTH_PROVIDER_TEMPLATE: the list it was built from, or Miss
    pc,
    op,        \* the operation each task is running and its id
    row,       \* the row find read
    rows,      \* the list find_all read (from the cache or the table)
    ops,       \* operations started so far
    created,   \* ids handed out by new_store_id
    failed     \* history: some cache operation returned an error

vars == <<db, single, all, template, pc, op, row, rows, ops, created, failed>>

Versions == 1..MaxOps
List == [Ids -> Versions \cup {None}]

Ops == {"create", "find", "find_all", "delete", "update", "template"}

PC == {"idle", "create_db", "create_cache", "inv_all", "inv_tpl", "find_cache",
       "find_db", "find_put", "all_cache", "all_db", "all_put", "delete_db",
       "delete_single", "update_db", "update_cache", "tpl_cache", "tpl_put"}

(* Steps that write the cache; each may fail and return through `?`      *)
CacheWrites == {"create_cache", "inv_all", "inv_tpl", "find_put", "all_put",
                "delete_single", "update_cache", "tpl_put"}

Init ==
    /\ db = [i \in Ids |-> None]
    /\ single = [i \in Ids |-> Miss]
    /\ all = Miss
    /\ template = Miss
    /\ pc = [t \in Tasks |-> "idle"]
    /\ op = [t \in Tasks |-> [name |-> "find_all", id |-> None, n |-> 0]]
    /\ row = [t \in Tasks |-> None]
    /\ rows = [t \in Tasks |-> [i \in Ids |-> None]]
    /\ ops = 0
    /\ created = {}
    /\ failed = FALSE

Goto(t, label) == pc' = [pc EXCEPT ![t] = label]

(* The first step of each operation.  create takes a fresh id from       *)
(* new_store_id; find, delete and update take any id (from the URL).      *)
begin(t) ==
    /\ pc[t] = "idle"
    /\ ops < MaxOps
    /\ ops' = ops + 1
    /\ \/ \E i \in Ids \ created :
            /\ op' = [op EXCEPT ![t] = [name |-> "create", id |-> i, n |-> ops + 1]]
            /\ created' = created \cup {i}
            /\ Goto(t, "create_db")
       \/ \E i \in Ids, o \in {"find", "delete", "update"} :
            /\ op' = [op EXCEPT ![t] = [name |-> o, id |-> i, n |-> ops + 1]]
            /\ Goto(t, CASE o = "find" -> "find_cache"
                         [] o = "delete" -> "delete_db"
                         [] o = "update" -> "update_db")
            /\ UNCHANGED created
       \/ \E o \in {"find_all", "template"} :
            /\ op' = [op EXCEPT ![t] = [name |-> o, id |-> None, n |-> ops + 1]]
            /\ Goto(t, IF o = "find_all" THEN "all_cache" ELSE "tpl_cache")
            /\ UNCHANGED created
    /\ UNCHANGED <<db, single, all, template, row, rows, failed>>

(* AuthProvider::create: INSERT, then cache_insert of the new entry,     *)
(* then invalidate_cache_all.                                              *)
create_db(t) ==
    /\ pc[t] = "create_db"
    /\ db' = [db EXCEPT ![op[t].id] = op[t].n]
    /\ Goto(t, "create_cache")
    /\ UNCHANGED <<single, all, template, op, row, rows, ops, created, failed>>

create_cache(t) ==
    /\ pc[t] = "create_cache"
    /\ single' = [single EXCEPT ![op[t].id] = op[t].n]
    /\ Goto(t, "inv_all")
    /\ UNCHANGED <<db, all, template, op, row, rows, ops, created, failed>>

(* invalidate_cache_all: cache_del of the list, then of the template;    *)
(* create returns, delete goes on to drop the entry, save re-inserts it.  *)
invalidate_all(t) ==
    /\ pc[t] = "inv_all"
    /\ all' = Miss
    /\ Goto(t, "inv_tpl")
    /\ UNCHANGED <<db, single, template, op, row, rows, ops, created, failed>>

invalidate_template(t) ==
    /\ pc[t] = "inv_tpl"
    /\ template' = Miss
    /\ Goto(t, CASE op[t].name = "create" -> "idle"
                 [] op[t].name = "delete" -> "delete_single"
                 [] op[t].name = "update" -> "update_cache")
    /\ UNCHANGED <<db, single, all, op, row, rows, ops, created, failed>>

(* AuthProvider::find: cache first, else SELECT (no row is an error),     *)
(* then cache_insert of what was read.                                     *)
find_cache(t) ==
    /\ pc[t] = "find_cache"
    /\ Goto(t, IF single[op[t].id] # Miss THEN "idle" ELSE "find_db")
    /\ UNCHANGED <<db, single, all, template, op, row, rows, ops, created, failed>>

(* Mutant: a missing row is cached instead of returned as an error *)
find_db_caches_miss(t) ==
    /\ pc[t] = "find_db"
    /\ row' = [row EXCEPT ![t] = db[op[t].id]]
    /\ Goto(t, "find_put")
    /\ UNCHANGED <<db, single, all, template, op, rows, ops, created, failed>>

find_db(t) ==
    /\ pc[t] = "find_db"
    /\ row' = [row EXCEPT ![t] = db[op[t].id]]
    /\ Goto(t, IF db[op[t].id] = None THEN "idle" ELSE "find_put")
    /\ UNCHANGED <<db, single, all, template, op, rows, ops, created, failed>>

find_put(t) ==
    /\ pc[t] = "find_put"
    /\ single' = [single EXCEPT ![op[t].id] = row[t]]
    /\ Goto(t, "idle")
    /\ UNCHANGED <<db, all, template, op, row, rows, ops, created, failed>>

(* AuthProvider::find_all: cache first, else SELECT *, then cache_insert. *)
(* get_all_json_template calls it and goes on to build the template.      *)
AfterFindAll(t) == IF op[t].name = "template" THEN "tpl_put" ELSE "idle"

all_cache(t) ==
    /\ pc[t] = "all_cache"
    /\ IF all # Miss
       THEN /\ rows' = [rows EXCEPT ![t] = all]
            /\ Goto(t, AfterFindAll(t))
       ELSE /\ Goto(t, "all_db")
            /\ UNCHANGED rows
    /\ UNCHANGED <<db, single, all, template, op, row, ops, created, failed>>

all_db(t) ==
    /\ pc[t] = "all_db"
    /\ rows' = [rows EXCEPT ![t] = db]
    /\ Goto(t, "all_put")
    /\ UNCHANGED <<db, single, all, template, op, row, ops, created, failed>>

all_put(t) ==
    /\ pc[t] = "all_put"
    /\ all' = rows[t]
    /\ Goto(t, AfterFindAll(t))
    /\ UNCHANGED <<db, single, template, op, row, rows, ops, created, failed>>

(* AuthProvider::delete: DELETE, invalidate_cache_all, cache_del entry   *)
delete_db(t) ==
    /\ pc[t] = "delete_db"
    /\ db' = [db EXCEPT ![op[t].id] = None]
    /\ Goto(t, "inv_all")
    /\ UNCHANGED <<single, all, template, op, row, rows, ops, created, failed>>

delete_single(t) ==
    /\ pc[t] = "delete_single"
    /\ single' = [single EXCEPT ![op[t].id] = Miss]
    /\ Goto(t, "idle")
    /\ UNCHANGED <<db, all, template, op, row, rows, ops, created, failed>>

(* AuthProvider::update = try_from_id_req + save: UPDATE ... WHERE id,   *)
(* which changes no row when the id is not in the table and is no error,  *)
(* then invalidate_cache_all, then cache_insert of the new config.        *)
(* Mutant: save re-inserts the entry without invalidate_cache_all *)
update_db_skips_invalidation(t) ==
    /\ pc[t] = "update_db"
    /\ db' = IF db[op[t].id] # None THEN [db EXCEPT ![op[t].id] = op[t].n] ELSE db
    /\ Goto(t, "update_cache")
    /\ UNCHANGED <<single, all, template, op, row, rows, ops, created, failed>>

update_db(t) ==
    /\ pc[t] = "update_db"
    /\ db' = IF db[op[t].id] # None THEN [db EXCEPT ![op[t].id] = op[t].n] ELSE db
    /\ Goto(t, "inv_all")
    /\ UNCHANGED <<single, all, template, op, row, rows, ops, created, failed>>

update_cache(t) ==
    /\ pc[t] = "update_cache"
    /\ single' = [single EXCEPT ![op[t].id] = op[t].n]
    /\ Goto(t, "idle")
    /\ UNCHANGED <<db, all, template, op, row, rows, ops, created, failed>>

(* AuthProviderTemplate::get_all_json_template: cache first, else        *)
(* find_all, map to templates, cache_insert.                               *)
template_cache(t) ==
    /\ pc[t] = "tpl_cache"
    /\ Goto(t, IF template # Miss THEN "idle" ELSE "all_cache")
    /\ UNCHANGED <<db, single, all, template, op, row, rows, ops, created, failed>>

template_put(t) ==
    /\ pc[t] = "tpl_put"
    /\ template' = rows[t]
    /\ Goto(t, "idle")
    /\ UNCHANGED <<db, single, all, op, row, rows, ops, created, failed>>

(* A cache_insert or cache_del returns an error (e.g. no quorum): the    *)
(* operation ends there with whatever it already wrote.                    *)
cache_op_fails(t) ==
    /\ pc[t] \in CacheWrites
    /\ failed' = TRUE
    /\ Goto(t, "idle")
    /\ UNCHANGED <<db, single, all, template, op, row, rows, ops, created>>

(* CACHE_NAME_12HR entries expire *)
evict ==
    /\ \/ \E i \in Ids : single[i] # Miss /\ single' = [single EXCEPT ![i] = Miss]
                         /\ UNCHANGED <<all, template>>
       \/ all # Miss /\ all' = Miss /\ UNCHANGED <<single, template>>
       \/ template # Miss /\ template' = Miss /\ UNCHANGED <<single, all>>
    /\ UNCHANGED <<db, pc, op, row, rows, ops, created, failed>>

Quiescent == \A t \in Tasks : pc[t] = "idle"

(* Every operation has run: the model's bound *)
Done ==
    /\ ops = MaxOps
    /\ Quiescent
    /\ UNCHANGED vars

Next ==
    \/ \E t \in Tasks :
        \/ begin(t)
        \/ create_db(t) \/ create_cache(t)
        \/ invalidate_all(t) \/ invalidate_template(t)
        \/ find_cache(t) \/ find_db(t) \/ find_put(t)
        \/ all_cache(t) \/ all_db(t) \/ all_put(t)
        \/ delete_db(t) \/ delete_single(t)
        \/ update_db(t) \/ update_cache(t)
        \/ template_cache(t) \/ template_put(t)
        \/ cache_op_fails(t)
    \/ evict
    \/ Done

Spec == Init /\ [][Next]_vars

-----------------------------------------------------------------------------
TypeOK ==
    /\ db \in List
    /\ single \in [Ids -> Versions \cup {Miss}]
    /\ all \in List \cup {Miss}
    /\ template \in List \cup {Miss}
    /\ pc \in [Tasks -> PC]
    /\ op \in [Tasks -> [name : Ops, id : Ids \cup {None}, n : 0..MaxOps]]
    /\ row \in [Tasks -> Versions \cup {None}]
    /\ rows \in [Tasks -> List]
    /\ ops \in 0..MaxOps
    /\ created \subseteq Ids
    /\ failed \in BOOLEAN

(* Every cache entry is absent or equal to what the table holds; a       *)
(* single entry is only compared while its row exists (NoPhantomProvider  *)
(* is about the rest).                                                     *)
Coherent ==
    /\ \A i \in Ids : single[i] # Miss /\ db[i] # None => single[i] = db[i]
    /\ all \in {Miss, db}
    /\ template \in {Miss, db}

(* Once no create, update, delete or reader is in flight, and no cache    *)
(* operation has failed, no cache entry (provider, all providers, login   *)
(* template) serves a configuration other than the table's latest write:  *)
(* each write of create/save/delete runs invalidate_cache_all after the    *)
(* SQL write, and find/find_all/get_all_json_template fill only on a miss. *)
CacheMatchesStore == Quiescent /\ ~failed => Coherent

(* The same without the no-failure premise: a failing cache_insert or     *)
(* cache_del (returned through ?) after the SQL write must not leave a     *)
(* stale aggregate behind.                                                 *)
InvalidatedDespiteErrors == Quiescent => Coherent

(* find never serves a provider that has no row in auth_providers, once   *)
(* no operation is in flight and no cache operation failed: save inserts  *)
(* its config into the cache after an UPDATE that may have matched no row. *)
NoPhantomProvider ==
    Quiescent /\ ~failed => \A i \in Ids : single[i] # Miss => db[i] # None
=============================================================================
