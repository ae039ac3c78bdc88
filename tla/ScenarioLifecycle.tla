------------------------- MODULE ScenarioLifecycle -------------------------
(***************************************************************************)
(* The life of a scenario in Supplier Mock Factory: the MongoDB rows       *)
(* (services/scenario_service.py, db/repository.py), the background tasks  *)
(* that create, refresh and tear down a scenario, and the state they       *)
(* change in the shared systems around them: MockServer expectations,      *)
(* Backoffice contracts, apiKeys, SmartBooking entities and supplier       *)
(* records, and Business Rules (core/orchestrator.py).                     *)
(*                                                                         *)
(* A background task runs on one event loop and gives it up only where it  *)
(* awaits an HTTP call, so a step here is one awaited call, or a run of    *)
(* calls on what only this scenario touches (the expectations of one       *)
(* supplier, the Business Rules of a scenario), together with the code     *)
(* that runs up to the next one.  Tasks interleave at these points.  A     *)
(* call that took effect and then raised (a lost answer) is a successful   *)
(* step followed by a failure of the next one.                             *)
(***************************************************************************)
EXTENDS Naturals, FiniteSets

CONSTANTS
    Scenarios,      \* scenario ids (uuid4: never issued twice)
    Namespaces,     \* namespaces a caller may choose
    Slugs,          \* what build_expectation_id makes of a namespace
    Slug,           \* [Namespaces -> Slugs]: lower case, spaces to dashes
    Suppliers,      \* supplier instance keys
    Envs,           \* backend environments, each with its own MockServer
    SbEnvs,         \* those whose tenant has SmartBooking
    ExistingKeys,   \* apiKeys SMF did not create
    NoKey,          \* "no apiKey"
    Null,           \* "no row", "no owner"
    RequestsOf,     \* [Scenarios -> SUBSET Request]: what may be asked for
    Jobs,           \* slots for background tasks; bounds their concurrency
    MaxFailures,    \* bound on failing calls
    MaxCrashes,     \* bound on process crashes
    Overlap         \* may a caller start a task on a busy scenario?

Parts == {"shop", "book"}      \* Search, Packages, ... / the booking flow
Depths == {"contract_only", "contract_br", "full"}
Pins == {"keep", "true", "false"}
Prebooking == {"absent", "true", "false"}
Keys == Scenarios \cup ExistingKeys    \* a created apiKey is named by its maker
Contracts == Scenarios \X Suppliers
MockIds == Envs \X Slugs \X Suppliers \X Parts
SbKinds == {"group", "config"}

\* ScenarioRequest, reduced to the fields that steer the control flow.
Request == [ns : Namespaces, env : Envs, suppliers : SUBSET Suppliers,
            depth : Depths, key : ExistingKeys \cup {NoKey}, sb : BOOLEAN,
            assignBr : BOOLEAN, pin : [Suppliers -> Pins]]

\* ScenarioRequest._validate_provisioning_depth: `full` creates its own
\* apiKey, and SmartBooking needs an apiKey to be assigned to.
Valid(req) == /\ req.suppliers # {}
              /\ req.depth = "full" => req.key = NoKey
              /\ req.sb => req.depth = "full"
              /\ \A p \in Suppliers : req.pin[p] # "keep" => p \in req.suppliers

\* What a bundle, and then a row, says was provisioned.
Assets == [key : Keys \cup {NoKey}, ext : BOOLEAN, contracts : SUBSET Suppliers,
           sb : SUBSET SbKinds, br : BOOLEAN,
           restore : [Suppliers -> Prebooking \cup {"none"}]]

NoAssets == [key |-> NoKey, ext |-> FALSE, contracts |-> {}, sb |-> {},
             br |-> FALSE, restore |-> [p \in Suppliers |-> "none"]]

Row == [req : Request, status : {"PENDING", "READY", "FAILED"}, assets : Assets]
Entry == [sid : Scenarios, row : Row]

ASSUME ConstantsAssumption ==
    /\ Slug \in [Namespaces -> Slugs]
    /\ SbEnvs \subseteq Envs
    /\ Scenarios \cap ExistingKeys = {}
    /\ NoKey \notin Keys
    /\ Null \notin Scenarios /\ Null \notin Row /\ Null \notin Request
    /\ Null \notin Envs /\ Null \notin Namespaces
    /\ RequestsOf \in [Scenarios -> SUBSET Request]
    /\ \A s \in Scenarios : \A req \in RequestsOf[s] : Valid(req)
    /\ MaxFailures \in Nat /\ MaxCrashes \in Nat
    /\ Overlap \in BOOLEAN

VARIABLES
    rows,        \* the scenarios collection: [Scenarios -> Row or Null]
    jobs,        \* the background tasks
    mocks,       \* MockServer: expectation id -> scenario that wrote it, or Null
    contracts,   \* Backoffice contracts that exist
    liveKeys,    \* Backoffice apiKeys that exist
    keyRefs,     \* contracts each existing apiKey lists
    sbEntities,  \* SmartBooking groups and configurations that exist
    brRules,     \* scenarios with Business Rules provisioned
    prebooking,  \* endpointsSupported.prebooking of each supplier record
    asked,       \* history: the request each issued id was created with
    refreshed,   \* history: scenarios whose row a refresh has rewritten
    failed,      \* history: scenarios for which some call failed
    killed,      \* history: scenarios a task of which died in a crash
    crashes, failures   \* how much of the two budgets is used

backoffice == <<contracts, liveKeys, keyRefs, sbEntities, prebooking>>
world == <<mocks, backoffice, brRules>>
budgets == <<crashes, failures>>
history == <<asked, refreshed, failed, killed>>
vars == <<rows, jobs, world, history, budgets>>

Kinds == {"idle", "create", "refresh", "teardown", "teardown_all"}
CreateCalls == {"register", "prebookGet", "prebookPut", "contracts", "sbGroup",
                "sbConfig", "createKey", "attachGet", "attachPut", "clearCache",
                "provisionBr"}
TeardownCalls == {"restore", "cleanBr", "unmock", "detachGet", "detachPut",
                  "deleteContracts", "deleteKey", "deleteSb"}
PCs == {"idle", "load", "reregister", "finish", "next", "sweep", "removeRow"}
       \cup CreateCalls \cup TeardownCalls

\* A task: what it works on, its own copy of the row (rec), the bundle it is
\* filling (out), the items of the loop it is in (todo), what it read of an
\* apiKey (seen) and, for a teardown of everything, the rows it listed (queue)
\* and the environment it clears when one of them was torn down (torn).
Job == [kind : Kinds, pc : PCs, sid : Scenarios \cup {Null}, rec : Row \cup {Null},
        out : Assets, todo : SUBSET Suppliers, seen : SUBSET Contracts,
        sbTodo : SUBSET SbKinds, queue : SUBSET Entry, env : Envs \cup {Null},
        torn : BOOLEAN, ok : BOOLEAN]

IdleJob == [kind |-> "idle", pc |-> "idle", sid |-> Null, rec |-> Null,
            out |-> NoAssets, todo |-> {}, seen |-> {}, sbTodo |-> {},
            queue |-> {}, env |-> Null, torn |-> FALSE, ok |-> TRUE]

Init == /\ rows = [s \in Scenarios |-> Null]
        /\ jobs = [j \in Jobs |-> IdleJob]
        /\ mocks = [m \in MockIds |-> Null]
        /\ contracts = {}
        /\ liveKeys = ExistingKeys
        /\ keyRefs = [k \in ExistingKeys |-> {}]
        /\ sbEntities = {}
        /\ brRules = {}
        /\ prebooking = [x \in Envs \X Suppliers |-> "absent"]
        /\ asked = [s \in Scenarios |-> Null]
        /\ refreshed = {} /\ failed = {} /\ killed = {}
        /\ crashes = 0 /\ failures = 0

-----------------------------------------------------------------------------
\* Moving a task along.

Pinned(req) == {p \in Suppliers : req.pin[p] # "keep"}
NeedsBr(req) == \/ req.depth = "contract_br"
                \/ req.depth = "full" /\ (req.sb \/ req.assignBr)

ToBr(b) == [b EXCEPT !.pc = IF NeedsBr(b.rec.req) THEN "provisionBr" ELSE "finish"]
ToKey(b) == IF b.rec.req.depth = "full" THEN [b EXCEPT !.pc = "createKey"]
            ELSE IF b.rec.req.key # NoKey THEN [b EXCEPT !.pc = "attachGet"]
            ELSE ToBr(b)
\* Mutant: the SmartBooking entities are never made.
ToSb_Skipped(b) == ToKey(b)
ToSb(b) == IF b.rec.req.sb THEN [b EXCEPT !.pc = "sbGroup"] ELSE ToKey(b)
ToContracts(b) == [b EXCEPT !.pc = "contracts", !.todo = b.rec.req.suppliers]
ToPrebook(b) == IF Pinned(b.rec.req) = {} THEN ToContracts(b)
                ELSE [b EXCEPT !.pc = "prebookGet", !.todo = Pinned(b.rec.req)]

ToRemoveRow(b) == [b EXCEPT !.pc = "removeRow", !.todo = {}]
\* Mutant: SmartBooking entities are left behind.
ToDeleteSb_Skipped(b) == ToRemoveRow(b)
ToDeleteSb(b) == IF "group" \in b.rec.assets.sb /\ b.rec.assets.key # NoKey
                 THEN [b EXCEPT !.pc = "deleteSb", !.sbTodo = b.rec.assets.sb]
                 ELSE ToRemoveRow(b)
\* Mutant: the apiKey is deleted whoever made it.
ToDeleteKey_Unguarded(b) == IF b.rec.assets.key # NoKey
                            THEN [b EXCEPT !.pc = "deleteKey"] ELSE ToDeleteSb(b)
ToDeleteKey(b) == IF b.rec.assets.key # NoKey /\ ~b.rec.assets.ext
                  THEN [b EXCEPT !.pc = "deleteKey"] ELSE ToDeleteSb(b)
ToDeleteContracts(b) ==
    IF b.rec.assets.contracts # {}
    THEN [b EXCEPT !.pc = "deleteContracts", !.todo = b.rec.assets.contracts]
    ELSE ToDeleteKey(b)
\* Mutant: contracts are deleted without being detached first.
ToDetach_Skipped(b) == ToDeleteContracts(b)
ToDetach(b) == IF /\ b.rec.assets.ext /\ b.rec.assets.key # NoKey
                  /\ b.rec.assets.contracts # {}
               THEN [b EXCEPT !.pc = "detachGet"] ELSE ToDeleteContracts(b)
ToUnmock(b) == [b EXCEPT !.pc = "unmock", !.todo = b.rec.req.suppliers]
ToCleanBr(b) == IF b.rec.assets.br THEN [b EXCEPT !.pc = "cleanBr"] ELSE ToUnmock(b)
Altered(row) == {p \in Suppliers : row.assets.restore[p] # "none"}
ToRestore(b) == IF Altered(b.rec) = {} THEN ToCleanBr(b)
                ELSE [b EXCEPT !.pc = "restore", !.todo = Altered(b.rec)]

\* The loop at the head of task b is done with item p; go on with Then(_).
Loop(b, p, done) == IF b.todo = {p} THEN done
                    ELSE [b EXCEPT !.todo = @ \ {p}]

At(j, pc) == jobs[j].pc = pc
Becomes(j, b) == jobs' = [jobs EXCEPT ![j] = b]
\* Mutant: the namespace is not part of the expectation id.
MockId_NoNamespace(req, p, part) == <<req.env, CHOOSE x \in Slugs : TRUE, p, part>>
MockId(req, p, part) == <<req.env, Slug[req.ns], p, part>>

\* ScenarioRepository.save: replace the whole document, inserting it when it is
\* not there; the unique index refuses a namespace another row holds.
\* Mutant: neither the pre-check nor the index looks at other rows.
TakenByOther_Unchecked(s, ns) == FALSE
TakenByOther(s, ns) == \E t \in Scenarios \ {s} : rows[t] # Null /\ rows[t].req.ns = ns
Saved(s, row) == IF TakenByOther(s, row.req.ns) THEN rows
                 ELSE [rows EXCEPT ![s] = row]

\* scenario_service.apply_bundle.  br, restore and sb are only overwritten when
\* the bundle carries them; key, ext and contracts always are.
\* Mutants: the bundle's progress status is saved; a bundle without restore values
\* wipes the row's.
ApplyBundle_Progress(row, b) ==
    [row EXCEPT !.status = "CREATING_API_KEY", !.assets = b]
ApplyBundle_WipesRestore(row, b) ==
    [row EXCEPT !.status = "READY",
                !.assets = [b EXCEPT !.sb = row.assets.sb \cup @,
                                     !.br = row.assets.br \/ @]]
ApplyBundle(row, b) ==
    [row EXCEPT !.status = "READY",
                !.assets = [b EXCEPT !.sb = row.assets.sb \cup @,
                                     !.br = row.assets.br \/ @,
                                     !.restore = IF @ = NoAssets.restore
                                                 THEN row.assets.restore ELSE @]]

\* What the exception handler of run_create_scenario saves: the row it read.
\* Mutant: the handler forgets the status.
FailedRow_Forgets(row) == row
FailedRow(row) == [row EXCEPT !.status = "FAILED"]

\* What run_refresh_booking_ids copies from the row into its bundle: the flag
\* api_key_is_external is not among it, and a bundle's default is False.
RefreshBundle(row) == [NoAssets EXCEPT !.key = row.assets.key,
                                       !.contracts = row.assets.contracts]

-----------------------------------------------------------------------------
\* Requests from callers.  With Overlap = FALSE a caller waits for a scenario's
\* task to end before asking for another (as the run-template endpoint does), and
\* a teardown of everything runs alone.

Idle(j) == jobs[j].kind = "idle"
Sids(b) == ({b.sid} \ {Null}) \cup {e.sid : e \in b.queue}
Quiet(s) == \A j \in Jobs : s \notin Sids(jobs[j])
NoTeardownAll == \A j \in Jobs : jobs[j].kind # "teardown_all"
MayStart(s) == Overlap \/ (Quiet(s) /\ NoTeardownAll)

Spawn(kind, s) == \E j \in Jobs :
    /\ Idle(j)
    /\ Becomes(j, [IdleJob EXCEPT !.kind = kind, !.pc = "load", !.sid = s])

\* POST /scenarios: create_pending, then run_create_scenario in the background.
Submit(s) ==
    /\ asked[s] = Null
    /\ MayStart(s)
    /\ \E req \in RequestsOf[s] :
         /\ ~TakenByOther(s, req.ns)
         /\ rows' = [rows EXCEPT ![s] = [req |-> req, status |-> "PENDING",
                                         assets |-> NoAssets]]
         /\ asked' = [asked EXCEPT ![s] = req]
    /\ Spawn("create", s)
    /\ UNCHANGED <<world, refreshed, failed, killed, budgets>>

\* POST /scenarios/{id}/refresh-booking-ids: only for a READY row.
AskRefresh(s) ==
    /\ rows[s] # Null /\ rows[s].status = "READY"
    /\ MayStart(s)
    /\ Spawn("refresh", s)
    /\ UNCHANGED <<rows, world, history, budgets>>

\* DELETE /scenarios/{id}: any row (the 409 for TORN_DOWN never applies, since
\* a torn-down row is deleted in the same step that marks it).
AskTeardown(s) ==
    /\ rows[s] # Null
    /\ MayStart(s)
    /\ Spawn("teardown", s)
    /\ UNCHANGED <<rows, world, history, budgets>>

\* list_tearable_records: PENDING rows are not listed.
\* Mutant: rows of every environment are listed.
Tearable_AnyEnv(e) == {x \in [sid : Scenarios, row : {rows[t] : t \in Scenarios} \ {Null}] :
                          x.row = rows[x.sid] /\ x.row.status \in {"READY", "FAILED"}}
Tearable(e) == {x \in [sid : Scenarios, row : {rows[t] : t \in Scenarios} \ {Null}] :
                   /\ x.row = rows[x.sid]
                   /\ x.row.req.env = e /\ x.row.status \in {"READY", "FAILED"}}

\* DELETE /scenarios/all, for the environment the caller has selected.
AskTeardownAll(e) ==
    /\ Tearable(e) # {}
    /\ Overlap \/ \A j \in Jobs : Idle(j)
    /\ \E j \in Jobs : /\ Idle(j)
                       /\ Becomes(j, [IdleJob EXCEPT !.kind = "teardown_all",
                                                     !.pc = "load", !.env = e])
    /\ UNCHANGED <<rows, world, history, budgets>>

-----------------------------------------------------------------------------
\* The first step of every task: read the row again.

StillWanted(kind, row) == row # Null /\ (kind = "refresh" => row.status = "READY")

Load(j) ==
    /\ At(j, "load")
    /\ LET b == jobs[j]
           row == rows[b.sid]
       IN \/ /\ b.kind = "teardown_all"
             /\ Becomes(j, [b EXCEPT !.pc = "next", !.queue = Tearable(b.env)])
          \/ /\ b.kind # "teardown_all" /\ ~StillWanted(b.kind, row)
             /\ Becomes(j, IdleJob)
          \/ /\ b.kind = "create" /\ StillWanted(b.kind, row)
             /\ Becomes(j, [b EXCEPT !.pc = "register", !.rec = row,
                                     !.todo = row.req.suppliers])
          \/ /\ b.kind = "refresh" /\ StillWanted(b.kind, row)
             /\ Becomes(j, [b EXCEPT !.pc = "reregister", !.rec = row,
                                     !.todo = row.req.suppliers,
                                     !.out = RefreshBundle(row)])
          \/ /\ b.kind = "teardown" /\ StillWanted(b.kind, row)
             /\ Becomes(j, ToRestore([b EXCEPT !.rec = row]))
    /\ UNCHANGED <<rows, world, history, budgets>>

-----------------------------------------------------------------------------
\* create_scenario, one awaited call at a time.

\* register_built_expectations: the expectations of one supplier.
Register(j) ==
    /\ At(j, "register")
    /\ LET b == jobs[j] IN \E p \in b.todo :
         /\ mocks' = [m \in MockIds |-> IF \E part \in Parts : m = MockId(b.rec.req, p, part)
                                        THEN b.sid ELSE mocks[m]]
         /\ Becomes(j, Loop(b, p, ToPrebook(b)))
    /\ UNCHANGED <<rows, backoffice, brRules, history, budgets>>

\* set_supplier_prebooking reads the shared supplier record, remembers the
\* previous value and (PrebookPut) writes the pinned one.
PrebookGet(j) ==
    /\ At(j, "prebookGet")
    /\ LET b == jobs[j] IN \E p \in b.todo :
         Becomes(j, [b EXCEPT !.pc = "prebookPut",
                              !.out.restore[p] = prebooking[<<b.rec.req.env, p>>]])
    /\ UNCHANGED <<rows, world, history, budgets>>

PrebookPut(j) ==
    /\ At(j, "prebookPut")
    /\ LET b == jobs[j] IN \E p \in b.todo :
         /\ b.out.restore[p] # "none"
         /\ prebooking' = [prebooking EXCEPT ![<<b.rec.req.env, p>>] = b.rec.req.pin[p]]
         /\ Becomes(j, Loop([b EXCEPT !.pc = "prebookGet"], p, ToContracts(b)))
    /\ UNCHANGED <<rows, mocks, contracts, liveKeys, keyRefs, sbEntities, brRules,
                   history, budgets>>

CreateContract(j) ==
    /\ At(j, "contracts")
    /\ LET b == jobs[j] IN \E p \in b.todo :
         /\ contracts' = contracts \cup {<<b.sid, p>>}
         /\ LET c == [b EXCEPT !.out.contracts = @ \cup {p}]
            IN Becomes(j, Loop(c, p, ToSb(c)))
    /\ UNCHANGED <<rows, mocks, liveKeys, keyRefs, sbEntities, prebooking, brRules,
                   history, budgets>>

CreateSbGroup(j) ==
    /\ At(j, "sbGroup")
    /\ LET b == jobs[j] IN
         /\ b.rec.req.env \in SbEnvs
         /\ sbEntities' = sbEntities \cup {<<b.sid, "group">>}
         /\ Becomes(j, [b EXCEPT !.pc = "sbConfig", !.out.sb = @ \cup {"group"}])
    /\ UNCHANGED <<rows, mocks, contracts, liveKeys, keyRefs, prebooking, brRules,
                   history, budgets>>

CreateSbConfig(j) ==
    /\ At(j, "sbConfig")
    /\ LET b == jobs[j] IN
         /\ sbEntities' = sbEntities \cup {<<b.sid, "config">>}
         /\ Becomes(j, ToKey([b EXCEPT !.out.sb = @ \cup {"config"}]))
    /\ UNCHANGED <<rows, mocks, contracts, liveKeys, keyRefs, prebooking, brRules,
                   history, budgets>>

CreateApiKey(j) ==
    /\ At(j, "createKey")
    /\ LET b == jobs[j] IN
         /\ liveKeys' = liveKeys \cup {b.sid}
         /\ Becomes(j, [b EXCEPT !.pc = "clearCache", !.out.key = b.sid])
    /\ UNCHANGED <<rows, mocks, contracts, keyRefs, sbEntities, prebooking, brRules,
                   history, budgets>>

\* attach_contracts / detach_contracts: read the apiKey's contracts ...
ReadApiKey(j, pc, next) ==
    /\ At(j, pc)
    /\ LET b == jobs[j] IN
         /\ b.rec.req.key \in liveKeys
         /\ Becomes(j, [b EXCEPT !.pc = next, !.seen = keyRefs[b.rec.req.key]])
    /\ UNCHANGED <<rows, world, history, budgets>>

AttachGet(j) == ReadApiKey(j, "attachGet", "attachPut")
DetachGet(j) == ReadApiKey(j, "detachGet", "detachPut")

OwnContracts(s, ps) == {s} \X ps

\* ... and write back what was read with the scenario's own ones added ...
AttachPut(j) ==
    /\ At(j, "attachPut")
    /\ LET b == jobs[j]
           k == b.rec.req.key
       IN /\ k \in liveKeys
          /\ keyRefs' = [keyRefs EXCEPT ![k] = b.seen \cup OwnContracts(b.sid, b.out.contracts)]
          /\ Becomes(j, [b EXCEPT !.pc = "clearCache", !.seen = {},
                                  !.out.key = k, !.out.ext = TRUE])
    /\ UNCHANGED <<rows, mocks, contracts, liveKeys, sbEntities, prebooking, brRules,
                   history, budgets>>

ClearCache(j) ==
    /\ At(j, "clearCache")
    /\ Becomes(j, ToBr(jobs[j]))
    /\ UNCHANGED <<rows, world, history, budgets>>

ProvisionBr(j) ==
    /\ At(j, "provisionBr")
    /\ brRules' = brRules \cup {jobs[j].sid}
    /\ Becomes(j, [jobs[j] EXCEPT !.pc = "finish", !.out.br = TRUE])
    /\ UNCHANGED <<rows, mocks, backoffice, history, budgets>>

\* run_create_scenario / run_refresh_booking_ids save the finished bundle.  A
\* save the index refuses is retried by the exception handler, refused again,
\* and the task dies.
Finish(j) ==
    /\ At(j, "finish")
    /\ LET b == jobs[j] IN
         /\ rows' = Saved(b.sid, ApplyBundle(b.rec, b.out))
         /\ refreshed' = IF b.kind = "refresh" THEN refreshed \cup {b.sid} ELSE refreshed
    /\ Becomes(j, IdleJob)
    /\ UNCHANGED <<world, asked, failed, killed, budgets>>

\* A call of task j fails, within the budget of failures.
CallFails(j) == /\ failures < MaxFailures
                /\ failures' = failures + 1
                /\ failed' = failed \cup {jobs[j].sid}
                /\ UNCHANGED <<asked, refreshed, killed, crashes>>

\* create_scenario raises: run_create_scenario saves the row it read as FAILED
\* and drops the bundle.  SmartBooking on a tenant without it always raises, and
\* so does attaching to an apiKey that no longer exists.
Rejected(b) == \/ b.pc = "sbGroup" /\ b.rec.req.env \notin SbEnvs
               \/ b.pc \in {"attachGet", "attachPut"} /\ b.rec.req.key \notin liveKeys

CreateRaises(j) ==
    /\ jobs[j].kind = "create" /\ jobs[j].pc \in CreateCalls
    /\ LET b == jobs[j] IN
         /\ rows' = Saved(b.sid, FailedRow(b.rec))
         /\ \/ CallFails(j)
            \/ /\ Rejected(b)
               /\ failed' = failed \cup {b.sid}
               /\ UNCHANGED <<asked, refreshed, killed, budgets>>
    /\ Becomes(j, IdleJob)
    /\ UNCHANGED world

-----------------------------------------------------------------------------
\* refresh_booking_ids: re-register the booking flow of every supplier.

Reregister(j) ==
    /\ At(j, "reregister")
    /\ LET b == jobs[j] IN \E p \in b.todo :
         /\ mocks' = [mocks EXCEPT ![MockId(b.rec.req, p, "book")] = b.sid]
         /\ Becomes(j, Loop(b, p, [b EXCEPT !.pc = "finish", !.todo = {}]))
    /\ UNCHANGED <<rows, backoffice, brRules, history, budgets>>

\* The row it read is saved again, with the error and otherwise unchanged.
RefreshRaises(j) ==
    /\ At(j, "reregister")
    /\ rows' = Saved(jobs[j].sid, jobs[j].rec)
    /\ CallFails(j)
    /\ Becomes(j, IdleJob)
    /\ UNCHANGED world

-----------------------------------------------------------------------------
\* teardown_scenario, one awaited call at a time.

RestorePrebooking(j) ==
    /\ At(j, "restore")
    /\ LET b == jobs[j] IN \E p \in b.todo :
         /\ prebooking' = [prebooking EXCEPT ![<<b.rec.req.env, p>>] = b.rec.assets.restore[p]]
         /\ Becomes(j, Loop(b, p, ToCleanBr(b)))
    /\ UNCHANGED <<rows, mocks, contracts, liveKeys, keyRefs, sbEntities, brRules,
                   history, budgets>>

\* A supplier that cannot be restored is logged and passed over.
RestoreFails(j) ==
    /\ At(j, "restore")
    /\ \E p \in jobs[j].todo : Becomes(j, Loop(jobs[j], p, ToCleanBr(jobs[j])))
    /\ CallFails(j)
    /\ UNCHANGED <<rows, world>>

CleanBr(j) ==
    /\ At(j, "cleanBr")
    /\ brRules' = brRules \ {jobs[j].sid}
    /\ Becomes(j, ToUnmock(jobs[j]))
    /\ UNCHANGED <<rows, mocks, backoffice, history, budgets>>

\* delete_by_namespace: by expectation id, whoever registered it last.
Unmock(j) ==
    /\ At(j, "unmock")
    /\ LET b == jobs[j] IN \E p \in b.todo :
         /\ mocks' = [m \in MockIds |-> IF \E part \in Parts : m = MockId(b.rec.req, p, part)
                                        THEN Null ELSE mocks[m]]
         /\ Becomes(j, Loop(b, p, ToDetach(b)))
    /\ UNCHANGED <<rows, backoffice, brRules, history, budgets>>

DetachPut(j) ==
    /\ At(j, "detachPut")
    /\ LET b == jobs[j]
           k == b.rec.req.key
       IN /\ k \in liveKeys
          /\ keyRefs' = [keyRefs EXCEPT ![k] = b.seen \ OwnContracts(b.sid, b.rec.assets.contracts)]
          /\ Becomes(j, ToDeleteContracts([b EXCEPT !.seen = {}]))
    /\ UNCHANGED <<rows, mocks, contracts, liveKeys, sbEntities, prebooking, brRules,
                   history, budgets>>

\* A failed detach is logged; the contracts are deleted all the same.
DetachFails(j) ==
    /\ jobs[j].pc \in {"detachGet", "detachPut"}
    /\ \/ CallFails(j)
       \/ /\ jobs[j].rec.req.key \notin liveKeys
          /\ failed' = failed \cup {jobs[j].sid}
          /\ UNCHANGED <<asked, refreshed, killed, budgets>>
    /\ Becomes(j, ToDeleteContracts([jobs[j] EXCEPT !.seen = {}]))
    /\ UNCHANGED <<rows, world>>

\* Deleting what is already gone (404) is no error.
DeleteContract(j) ==
    /\ At(j, "deleteContracts")
    /\ LET b == jobs[j] IN \E p \in b.todo :
         /\ contracts' = contracts \ {<<b.sid, p>>}
         /\ Becomes(j, Loop(b, p, ToDeleteKey(b)))
    /\ UNCHANGED <<rows, mocks, liveKeys, keyRefs, sbEntities, prebooking, brRules,
                   history, budgets>>

DeleteApiKey(j) ==
    /\ At(j, "deleteKey")
    /\ liveKeys' = liveKeys \ {jobs[j].rec.assets.key}
    /\ Becomes(j, ToDeleteSb(jobs[j]))
    /\ UNCHANGED <<rows, mocks, contracts, keyRefs, sbEntities, prebooking, brRules,
                   history, budgets>>

LoopSb(b, kind) == IF b.sbTodo = {kind} THEN ToRemoveRow([b EXCEPT !.sbTodo = {}])
                   ELSE [b EXCEPT !.sbTodo = @ \ {kind}]

DeleteSb(j) ==
    /\ At(j, "deleteSb")
    /\ \E kind \in jobs[j].sbTodo :
         /\ sbEntities' = sbEntities \ {<<jobs[j].sid, kind>>}
         /\ Becomes(j, LoopSb(jobs[j], kind))
    /\ UNCHANGED <<rows, mocks, contracts, liveKeys, keyRefs, prebooking, brRules,
                   history, budgets>>

DeleteSbFails(j) ==
    /\ At(j, "deleteSb")
    /\ \E kind \in jobs[j].sbTodo : Becomes(j, LoopSb(jobs[j], kind))
    /\ CallFails(j)
    /\ UNCHANGED <<rows, world>>

\* Any other failure ends teardown_scenario there.
\* Mutant: it ends the whole task.
Aborted_NoDelete(b) == IdleJob
Aborted(b) == ToRemoveRow([b EXCEPT !.ok = FALSE])

TeardownRaises(j) ==
    /\ jobs[j].pc \in {"cleanBr", "unmock", "deleteContracts", "deleteKey"}
    /\ Becomes(j, Aborted(jobs[j]))
    /\ CallFails(j)
    /\ UNCHANGED <<rows, world>>

\* The row is deleted whether or not the teardown succeeded.
RemoveRow(j) ==
    /\ At(j, "removeRow")
    /\ LET b == jobs[j] IN
         /\ rows' = [rows EXCEPT ![b.sid] = Null]
         /\ Becomes(j, IF b.kind = "teardown" THEN IdleJob
                       ELSE [b EXCEPT !.pc = "next", !.sid = Null, !.rec = Null,
                                      !.torn = @ \/ b.ok])
    /\ UNCHANGED <<world, history, budgets>>

\* run_teardown_all: the next row of the list it read, as it was then.
TakeNext(j) ==
    /\ At(j, "next")
    /\ \E e \in jobs[j].queue :
         Becomes(j, ToRestore([jobs[j] EXCEPT !.sid = e.sid, !.rec = e.row,
                                              !.queue = @ \ {e}, !.ok = TRUE]))
    /\ UNCHANGED <<rows, world, history, budgets>>

QueueDone(j) ==
    /\ At(j, "next") /\ jobs[j].queue = {}
    /\ Becomes(j, IF jobs[j].torn THEN [jobs[j] EXCEPT !.pc = "sweep"] ELSE IdleJob)
    /\ UNCHANGED <<rows, world, history, budgets>>

\* delete_all_expectations on the MockServer of the environment.
Sweep(j) ==
    /\ At(j, "sweep")
    /\ mocks' = [m \in MockIds |-> IF m[1] = jobs[j].env THEN Null ELSE mocks[m]]
    /\ Becomes(j, IdleJob)
    /\ UNCHANGED <<rows, backoffice, brRules, history, budgets>>

SweepFails(j) ==
    /\ At(j, "sweep")
    /\ failures < MaxFailures /\ failures' = failures + 1
    /\ Becomes(j, IdleJob)
    /\ UNCHANGED <<rows, world, history, crashes>>

-----------------------------------------------------------------------------
\* The process dies and starts again: tasks live in memory only.
Crash ==
    /\ crashes < MaxCrashes
    /\ crashes' = crashes + 1
    /\ killed' = killed \cup UNION {Sids(jobs[j]) : j \in Jobs}
    /\ jobs' = [j \in Jobs |-> IdleJob]
    /\ UNCHANGED <<rows, world, asked, refreshed, failed, failures>>

Ask == \/ \E s \in Scenarios : Submit(s) \/ AskRefresh(s) \/ AskTeardown(s)
       \/ \E e \in Envs : AskTeardownAll(e)

CreateStep(j) == \/ Register(j) \/ PrebookGet(j) \/ PrebookPut(j) \/ CreateContract(j)
                 \/ CreateSbGroup(j) \/ CreateSbConfig(j) \/ CreateApiKey(j)
                 \/ AttachGet(j) \/ AttachPut(j) \/ ClearCache(j) \/ ProvisionBr(j)
                 \/ CreateRaises(j)

RefreshStep(j) == Reregister(j) \/ RefreshRaises(j)

TeardownStep(j) == \/ RestorePrebooking(j) \/ RestoreFails(j) \/ CleanBr(j) \/ Unmock(j)
                   \/ DetachGet(j) \/ DetachPut(j) \/ DetachFails(j) \/ DeleteContract(j)
                   \/ DeleteApiKey(j) \/ DeleteSb(j) \/ DeleteSbFails(j)
                   \/ TeardownRaises(j) \/ RemoveRow(j)

TeardownAllStep(j) == TakeNext(j) \/ QueueDone(j) \/ Sweep(j) \/ SweepFails(j)

Step(j) == \/ Load(j) \/ Finish(j) \/ CreateStep(j) \/ RefreshStep(j)
           \/ TeardownStep(j) \/ TeardownAllStep(j)

Next == Ask \/ Crash \/ \E j \in Jobs : Step(j)

Spec == Init /\ [][Next]_vars

\* The event loop keeps running every task: each awaited call answers or times
\* out, since every HTTP client has a timeout.
FairSpec == Spec /\ \A j \in Jobs : WF_vars(Step(j))

-----------------------------------------------------------------------------
\* Properties.

\* Every variable keeps to its set (rows, tasks and the shared systems).
TypeOK ==
    /\ rows \in [Scenarios -> Row \cup {Null}]
    /\ jobs \in [Jobs -> Job]
    /\ mocks \in [MockIds -> Scenarios \cup {Null}]
    /\ contracts \subseteq Contracts
    /\ liveKeys \subseteq Keys
    /\ keyRefs \in [ExistingKeys -> SUBSET Contracts]
    /\ sbEntities \subseteq Scenarios \X SbKinds
    /\ brRules \subseteq Scenarios
    /\ prebooking \in [Envs \X Suppliers -> Prebooking]
    /\ asked \in [Scenarios -> Request \cup {Null}]
    /\ refreshed \subseteq Scenarios
    /\ failed \subseteq Scenarios
    /\ killed \subseteq Scenarios
    /\ crashes \in 0..MaxCrashes /\ failures \in 0..MaxFailures

Ready(s) == rows[s] # Null /\ rows[s].status = "READY"
Settled(s) == Quiet(s) /\ s \notin killed     \* no task at work or cut short on s

\* Everything of scenario s that exists outside the database.
LiveMocks(s) == {m \in MockIds : mocks[m] = s}
LiveContracts(s) == {p \in Suppliers : <<s, p>> \in contracts}
LiveSb(s) == {kind \in SbKinds : <<s, kind>> \in sbEntities}

\* A READY scenario with no task at work on it serves its own mocks, for every
\* supplier and both halves of the flow: no other scenario's create, teardown or
\* sweep has replaced or removed one of them.
ReadyServesItsMocks ==
    \A s \in Scenarios : Ready(s) /\ Settled(s) =>
        \A p \in rows[s].req.suppliers, part \in Parts :
            mocks[MockId(rows[s].req, p, part)] = s

\* A READY scenario with no task at work on it can be run: its contracts exist,
\* the apiKey it names exists, its SmartBooking entities and rules exist, and the
\* supplier records it pins carry the pinned value.
ReadyIsProvisioned ==
    \A s \in Scenarios : Ready(s) /\ Settled(s) =>
        LET req == rows[s].req
            a == rows[s].assets
        IN /\ LiveContracts(s) = req.suppliers
           /\ (req.depth = "full" \/ req.key # NoKey) => a.key \in liveKeys
           /\ req.sb => LiveSb(s) = SbKinds
           /\ NeedsBr(req) => s \in brRules
           /\ \A p \in Pinned(req) : prebooking[<<req.env, p>>] = req.pin[p]

\* Once a scenario's row is gone and no task works on it, nothing of it is left
\* in any shared system, unless one of its calls failed or a crash cut a task
\* short (ARCHITECTURE.md: teardown removes what the scenario created).
NoOrphans ==
    \A s \in Scenarios \ failed : asked[s] # Null /\ rows[s] = Null /\ Settled(s) =>
        /\ LiveMocks(s) = {} /\ LiveContracts(s) = {} /\ LiveSb(s) = {}
        /\ s \notin liveKeys /\ s \notin brRules

\* An apiKey that exists never lists a contract that does not, unless its scenario
\* was refreshed (and is torn down as if the key were its own), or a detach
\* failed or a crash cut a task short: teardown detaches before it deletes
\* (apikey_provisioner.py:125-126).
NoDanglingRefs ==
    \A k \in ExistingKeys \cap liveKeys : \A c \in keyRefs[k] :
        c[1] \in failed \cup killed \cup refreshed \/ c \in contracts

\* The only way an apiKey SMF did not create is ever deleted is the teardown of
\* a scenario that attached to it and was refreshed: without a refresh the flag
\* api_key_is_external survives every copy of the row a task or a list holds.
ExistingKeyLostOnlyByRefresh ==
    \A k \in ExistingKeys \ liveKeys :
        \E s \in refreshed : asked[s] # Null /\ asked[s].key = k

\* SMF never deletes an apiKey it did not create (models/scenario.py:493-494).
ExistingKeySurvives == ExistingKeys \subseteq liveKeys

\* Whatever a scenario pinned on a shared supplier record is undone once no row
\* and no task is left, unless a call failed or a task was cut short
\* (models/scenario.py:194: the previous value is restored on teardown).
PrebookingRestored ==
    (\A s \in Scenarios : rows[s] = Null /\ Quiet(s)) /\ failed = {} /\ killed = {}
        => \A x \in Envs \X Suppliers : prebooking[x] = "absent"

\* Tasks of one environment leave the mocks and supplier records of every other
\* environment alone, a teardown of everything included.
EnvOf(b) == IF b.kind = "teardown_all" THEN b.env ELSE asked[b.sid].env
EnvIsolation ==
    [][\A e \in Envs :
         \/ \E j \in Jobs : jobs[j].kind # "idle" /\ EnvOf(jobs[j]) = e /\ jobs'[j] # jobs[j]
         \/ /\ \A m \in MockIds : m[1] = e => mocks'[m] = mocks[m]
            /\ \A p \in Suppliers : prebooking'[<<e, p>>] = prebooking[<<e, p>>]]_vars

\* Every accepted create ends: its row becomes READY or FAILED, or is deleted.
Pending(s) == rows[s] # Null /\ rows[s].status = "PENDING"
CreateEnds == \A s \in Scenarios : Pending(s) ~> ~Pending(s)

\* Every teardown that has been accepted deletes the row it was asked for, even
\* when calls of it fail.
BeingTornDown(s) == \E j \in Jobs : jobs[j].kind = "teardown" /\ jobs[j].sid = s
TeardownDeletes == \A s \in Scenarios : BeingTornDown(s) ~> rows[s] = Null

\* The registry a caller sees, as a function of the rows.
Stage(s) == IF asked[s] = Null THEN "new"
            ELSE IF rows[s] = Null THEN "deleted"
            ELSE IF rows[s].status = "PENDING" THEN "pending"
            ELSE IF rows[s].status = "READY" THEN "ready" ELSE "failed"
Registry == INSTANCE ScenarioRegistry
            WITH None <- Null,
                 state <- [s \in Scenarios |-> Stage(s)],
                 holds <- [s \in Scenarios |-> IF rows[s] = Null THEN Null
                                               ELSE rows[s].req.ns]

\* For callers that wait for each operation (Overlap = FALSE) and without
\* crashes, the rows implement ScenarioRegistry, its liveness included.
ImplementsRegistry == Registry!FairSpec
=============================================================================
