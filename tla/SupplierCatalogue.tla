-------------------------- MODULE SupplierCatalogue --------------------------
(***************************************************************************)
(* The supplier catalogue (services/supplier_service.py and the routes of  *)
(* api/routes/suppliers.py): one row per supplier code and environment in  *)
(* Mongo, a cache of them in memory that every scenario build reads, and   *)
(* the templates on disk.                                                  *)
(*                                                                         *)
(* The routes are plain functions, so each request has a thread of its     *)
(* own, and threads switch between a request's calls to Mongo, the cache   *)
(* and the disk.  A request handles one supplier in one environment.       *)
(***************************************************************************)
EXTENDS Naturals, Sequences, FiniteSets, SequencesExt

CONSTANTS
    Requests,     \* the requests, and the builds of the background tasks
    Threads,      \* how many of them are handled at once
    Kinds,        \* what requests ask for, among AllKinds
    Suppliers,    \* <<code, env>> pairs somebody asks about
    BuiltIn,      \* the ones SEED_SUPPLIERS and _BACKOFFICE_IDS define
    SeedConfig,   \* [BuiltIn -> Config]: _config_from_seed
    BootConfig,   \* [BuiltIn -> Config]: the row seed_suppliers inserts
    Payloads,     \* the configurations a client sends
    Plugged,      \* codes with a hand-written plugin
    PluginLogs,   \* the log types such a plugin serves
    LogTypes, Shipped,  \* the templates of the repository: <<code, log type>>
    Restarts,     \* how often the process restarts
    None

Optional == {"CancellationPolicy"}
AllKinds == {"lookup", "codes", "create", "update", "delete",
             "upload", "ingest", "map", "probe"}
CodeOf(s) == s[1]
EnvOf(s) == s[2]
Envs == {EnvOf(s) : s \in Suppliers}
Codes == {CodeOf(s) : s \in Suppliers}

\* What a configuration is to the rest of the system.  path: whether
\* packages_path is empty, points at the rates of the template, or elsewhere.
\* boards: whether board_values admit every board, or leave some out that are
\* then compared on board_key.
Config == [type : {"net", "gross"}, linked : BOOLEAN, logs : SUBSET LogTypes \ {{}},
           mutable : SUBSET LogTypes, path : {"", "wrong", "right"}, boards : {"all", "some"},
           source : BOOLEAN, map : SUBSET LogTypes]

\* Rows, with the ids of the requests that made them (uuid4), or of the seeding.
Documents == [id : Requests \cup BuiltIn, supplier : Suppliers, config : Config]

\* A request: only create and update bring a payload.
Asks == [kind : Kinds \cap {"create", "update"}, of : Suppliers, payload : Payloads]
        \cup [kind : Kinds \ {"create", "update"}, of : Suppliers, payload : {None}]

ASSUME CatalogueAssumption ==
    /\ Kinds \subseteq AllKinds /\ BuiltIn \subseteq Suppliers /\ Payloads \subseteq Config
    /\ Suppliers \cap Envs = {}
    /\ SeedConfig \in [BuiltIn -> Config] /\ BootConfig \in [BuiltIn -> Config]
    /\ PluginLogs \subseteq LogTypes /\ Optional \cup {"Packages"} \subseteq LogTypes
    /\ Shipped \subseteq Codes \X LogTypes /\ Restarts \in Nat /\ Threads \in Nat \ {0}
    /\ None \notin Config \cup Documents \cup Requests \cup BuiltIn \cup Asks
    /\ None \notin {"PENDING", "READY", "FAILED"} /\ Requests \cap BuiltIn = {}
    \* What the seed rows and the plugins have in common.
    /\ \A s \in BuiltIn : BootConfig[s].mutable \subseteq BootConfig[s].logs
    /\ "Packages" \in PluginLogs

VARIABLES
    docs,      \* the suppliers collection: [id, supplier, config]
    cache,     \* _CACHE
    codes,     \* _CODES_CACHE
    disk,      \* templates/{CODE}/{LogType}/v1.json: <<code, log type>>
    scenario,  \* the status of the scenario row that names the supplier
    boots,
    req,       \* each request: where it is, what it asks, the document it has
               \* read, and what its lookups (and a probe's templates) gave
    late,      \* history: deletes whose supplier got a scenario since the check
    overtaken, \* history: requests that hold a row that was written since
    old        \* history: suppliers and environments whose row was misread or
               \* overtaken on its way to the cache, or written by a request that
               \* was told it was not, and whose cache was not cleared since

vars == <<docs, cache, codes, disk, scenario, boots, req, late, overtaken, old>>
caches == <<cache, codes, old>>
world == <<disk, scenario, boots, late>>

RowsOf(s) == {d \in docs : d.supplier = s}
RowOf(s) == IF RowsOf(s) = {} THEN None ELSE CHOOSE d \in RowsOf(s) : TRUE
Seed(s) == IF s \in BuiltIn THEN SeedConfig[s] ELSE None

\* _record_to_model and _apply_payload, as far as they change anything.
ToModel(c) == [c EXCEPT !.mutable = IF @ = {} THEN {"Packages"} ELSE @]
ToRow(c) == [c EXCEPT !.mutable = @ \cap c.logs]

\* What a lookup that misses the cache finds: the row, else the built-in.
Resolve(s) == IF RowOf(s) # None THEN ToModel(RowOf(s).config) ELSE Seed(s)
RowCodes(env) == {CodeOf(d.supplier) : d \in {e \in docs : EnvOf(e.supplier) = env}}
SeedCodes == {CodeOf(s) : s \in BuiltIn}
ResolveCodes(env) == IF RowCodes(env) # {} THEN RowCodes(env) ELSE SeedCodes

\* seed_suppliers: inserts the built-ins that have no row, changes no other.
\* Mutant: every built-in is written again.
Seeded_All(ds) == {d \in ds : d.supplier \notin BuiltIn}
                  \cup {[id |-> s, supplier |-> s, config |-> BootConfig[s]] : s \in BuiltIn}
Seeded(ds) == ds \cup {[id |-> s, supplier |-> s, config |-> BootConfig[s]] :
                         s \in BuiltIn \ {d.supplier : d \in ds}}

At(r, where) == req[r].pc = where
Kind(r) == req[r].ask.kind
Of(r) == req[r].ask.of
Code(r) == CodeOf(Of(r))
Env(r) == EnvOf(Of(r))
Row(r) == req[r].row
Held(r) == req[r].held

\* A request that is answered holds nothing any more; of the answers, only a
\* build that failed is told from the others.
Idle == [pc |-> "idle", ask |-> None, row |-> None, held |-> <<>>]
Failures == {"no template", "linkage", "unknown"}
Answer(r, what) == req' = [req EXCEPT ![r] =
                     [Idle EXCEPT !.pc = IF what \in Failures THEN "failed" ELSE "done"]]
Goes(r, to) == req' = [req EXCEPT ![r].pc = to]
GoesWith(r, to, d) == req' = [req EXCEPT ![r].pc = to, ![r].row = d]
GoesHolding(r, to, c) == req' = [req EXCEPT ![r].pc = to, ![r].held = Append(@, c)]

Init == /\ docs = Seeded({})
        /\ cache = [s \in Suppliers |-> None] /\ codes = [e \in Envs |-> None]
        /\ disk = Shipped
        /\ scenario = [s \in Suppliers |-> None]
        /\ boots = 0
        /\ req = [r \in Requests |-> Idle]
        /\ late = {} /\ overtaken = {} /\ old = {}

-----------------------------------------------------------------------------
(* A request comes in.                                                       *)

InProgress == {r \in Requests : req[r].pc \notin {"idle", "done", "failed"}}
Arrive(r) == /\ At(r, "idle") /\ Cardinality(InProgress) < Threads
             /\ \E a \in Asks : req' = [req EXCEPT ![r].pc = "new", ![r].ask = a]
             /\ UNCHANGED <<docs, caches, world, overtaken>>

(* A restart runs init_db again; the caches and the requests are gone.       *)

Restart == /\ boots < Restarts
           /\ boots' = boots + 1
           /\ docs' = Seeded(docs)
           /\ cache' = [s \in Suppliers |-> None] /\ codes' = [e \in Envs |-> None]
           /\ req' = [r \in Requests |-> IF At(r, "idle") THEN Idle ELSE [Idle EXCEPT !.pc = "done"]]
           /\ late' = {} /\ overtaken' = {} /\ old' = {}
           /\ UNCHANGED <<disk, scenario>>

(* Scenarios come (create_pending does not look at the catalogue), end one   *)
(* way or the other, and go when they are torn down.                         *)

ScenarioStarts(s) ==
    /\ scenario[s] = None
    /\ scenario' = [scenario EXCEPT ![s] = "PENDING"]
    /\ late' = late \cup {r \in Requests : At(r, "remove") /\ Of(r) = s}
    /\ UNCHANGED <<docs, caches, disk, boots, req, overtaken>>

ScenarioChanges(s) ==
    /\ \/ scenario[s] = "PENDING" /\ \E to \in {"READY", "FAILED"} :
                                       scenario' = [scenario EXCEPT ![s] = to]
       \/ scenario[s] \in {"READY", "FAILED"} /\ scenario' = [scenario EXCEPT ![s] = None]
    /\ UNCHANGED <<docs, caches, disk, boots, late, req, overtaken>>

-----------------------------------------------------------------------------
(* get_supplier_config and configured_codes: cache, Mongo or seed, cache.    *)

\* A probe looks its supplier up for the mutation, and again, once it has its
\* templates, for the linkage.
AfterLookup(r, held) ==
    IF Kind(r) = "probe"
    THEN req' = [req EXCEPT ![r].pc = IF Len(held) = 1 THEN "load" ELSE "link", ![r].held = held]
    ELSE Answer(r, "ok")

Looking(r) == At(r, "look") \/ (At(r, "new") /\ Kind(r) = "lookup")

LookupHit(r) == /\ Looking(r) /\ cache[Of(r)] # None
                /\ AfterLookup(r, Append(Held(r), cache[Of(r)]))
                /\ UNCHANGED <<docs, caches, world, overtaken>>

\* A database that does not answer (or that another environment's request has
\* replaced) counts as one without the row.
LookupRead(r) ==
    /\ Looking(r) /\ cache[Of(r)] = None
    /\ \E found \in {Resolve(Of(r)), Seed(Of(r))} :
         IF found = None
         THEN Answer(r, "unknown") /\ UNCHANGED overtaken
         ELSE /\ GoesHolding(r, "fill", found)
              /\ overtaken' = IF found = Resolve(Of(r)) THEN overtaken ELSE overtaken \cup {r}
    /\ UNCHANGED <<docs, caches, world>>

LookupFill(r) == /\ At(r, "fill")
                 /\ cache' = [cache EXCEPT ![Of(r)] = Last(Held(r))]
                 /\ old' = IF r \in overtaken THEN old \cup {Of(r)} ELSE old
                 /\ overtaken' = overtaken \ {r}
                 /\ AfterLookup(r, Held(r))
                 /\ UNCHANGED <<docs, codes, world>>

CodesRead(r) ==
    /\ At(r, "new") /\ Kind(r) = "codes"
    /\ IF codes[Env(r)] # None
       THEN Answer(r, "ok") /\ UNCHANGED overtaken
       ELSE \E found \in {ResolveCodes(Env(r)), SeedCodes} :
              /\ GoesHolding(r, "fill codes", found)
              /\ overtaken' = IF found = ResolveCodes(Env(r)) THEN overtaken ELSE overtaken \cup {r}
    /\ UNCHANGED <<docs, caches, world>>

CodesFill(r) == /\ At(r, "fill codes")
                /\ codes' = [codes EXCEPT ![Env(r)] = Last(Held(r))]
                /\ old' = IF r \in overtaken THEN old \cup {Env(r)} ELSE old
                /\ overtaken' = overtaken \ {r}
                /\ Answer(r, "ok")
                /\ UNCHANGED <<docs, cache, world>>

-----------------------------------------------------------------------------
(* Requests that work on the row.  Each begins by reading it; a database     *)
(* that does not answer ends any of them with an error.                      *)

\* What reading a row leads to: the next step, or the answer.
AfterReading(r, c) == CASE Kind(r) = "update" -> "save"
                        [] Kind(r) = "delete" -> "check"
                        [] Kind(r) = "upload" -> "write"
                        [] Kind(r) = "ingest" -> IF c.source THEN "fetch" ELSE "400"
                        [] Kind(r) = "map"    -> "infer"
                        [] Kind(r) = "probe"  -> "look"

ReadRow(r) ==
    /\ At(r, "new") /\ Kind(r) \notin {"lookup", "codes", "create"}
    /\ LET d == RowOf(Of(r)) IN
       IF d = None THEN Answer(r, "404")
       ELSE IF AfterReading(r, d.config) = "400" THEN Answer(r, "400")
       ELSE GoesWith(r, AfterReading(r, d.config), d)
    /\ UNCHANGED <<docs, caches, world, overtaken>>

NoAnswer(r) == /\ At(r, "new") /\ Kind(r) \notin {"lookup", "codes"}
               /\ Answer(r, "500")
               /\ UNCHANGED <<docs, caches, world, overtaken>>

CreateCheck(r) ==
    /\ At(r, "new") /\ Kind(r) = "create"
    /\ IF RowOf(Of(r)) # None
       THEN Answer(r, "409")
       ELSE GoesWith(r, "save", [id |-> r, supplier |-> Of(r), config |-> req[r].ask.payload])
    /\ UNCHANGED <<docs, caches, world, overtaken>>

\* replace_one with upsert, under the unique index on (code, env).
\* Mutant: the index is missing.
Clashes_Never(d) == FALSE
Clashes(d) == \E e \in RowsOf(d.supplier) : e.id # d.id

\* Requests that hold what they have read of a row, when it is written.
Overtakes(r, s) == {q \in Requests \ {r} :
                      \/ At(q, "fill") /\ Of(q) = s
                      \/ At(q, "fill codes") /\ Env(q) = EnvOf(s)
                      \/ req[q].pc \in {"infer", "reread", "save"} /\ Kind(q) = "map" /\ Of(q) = s}

\* The database applies a write; the request goes on, or is told it failed.
Written(r, ds, next) == /\ docs' = ds
                        /\ overtaken' = (overtaken \cup Overtakes(r, Of(r))) \ {r}
                        /\ \/ Goes(r, next) /\ UNCHANGED old
                           \/ Answer(r, "500") /\ old' = old \cup {Of(r), Env(r)}

\* update_config saves the whole payload on the row it has read; so does the
\* field map, whose payload is the whole configuration it read before.
NewRow(r) == [Row(r) EXCEPT !.config = ToRow(IF Kind(r) = "map" THEN Last(Held(r))
                                             ELSE req[r].ask.payload)]

\* Where a saving request goes on.  Mutant: update does not clear the cache.
AfterSave_NotUpdate(r) == IF Kind(r) = "update" THEN "done" ELSE "invalidate"
AfterSave(r) == "invalidate"

\* The save may fail before it is applied, or after; the caller gets a 500.
Save(r) ==
    /\ At(r, "save")
    /\ LET new == NewRow(r) IN
       \/ /\ ~Clashes(new)
          /\ Written(r, {d \in docs : d.id # new.id} \cup {new}, AfterSave(r))
       \/ Answer(r, "500") /\ UNCHANGED <<docs, old, overtaken>>
    /\ UNCHANGED <<cache, codes, world>>

\* A scenario that is not torn down and names the supplier.
\* Mutant: only scenarios that are ready count.
InUse_Ready(s) == scenario[s] = "READY"
InUse(s) == scenario[s] # None

DeleteCheck(r) == /\ At(r, "check")
                  /\ \/ InUse(Of(r)) /\ Answer(r, "409")
                     \/ ~InUse(Of(r)) /\ Goes(r, "remove")
                     \/ Answer(r, "500")
                  /\ UNCHANGED <<docs, caches, world, overtaken>>

DeleteOne(r) == /\ At(r, "remove")
                /\ \/ Written(r, {d \in docs : d.id # Row(r).id}, "invalidate")
                   \/ Answer(r, "500") /\ UNCHANGED <<docs, old, overtaken>>
                /\ UNCHANGED <<cache, codes, world>>

Invalidate(r) ==
    /\ At(r, "invalidate")
    /\ cache' = [s \in Suppliers |-> IF EnvOf(s) = Env(r) THEN None ELSE cache[s]]
    /\ codes' = [codes EXCEPT ![Env(r)] = None]
    /\ old' = old \ ({Env(r)} \cup {s \in Suppliers : EnvOf(s) = Env(r)})
    /\ Answer(r, "ok")
    /\ UNCHANGED <<docs, world, overtaken>>

-----------------------------------------------------------------------------
(* Templates and the field map.                                              *)

Upload(r) == /\ At(r, "write")
             /\ \E lt \in LogTypes : disk' = disk \cup {<<Code(r), lt>>}
             /\ Answer(r, "ok")
             /\ UNCHANGED <<docs, caches, scenario, boots, late, overtaken>>

\* The logs of a SID yield templates for some log types, or none, or cannot be
\* had; whatever was written, the environment's cache is cleared.
Ingest(r) == /\ At(r, "fetch")
             /\ \/ \E found \in SUBSET LogTypes : /\ disk' = disk \cup ({Code(r)} \X found)
                                                  /\ Goes(r, "invalidate")
                \/ UNCHANGED disk /\ \E code \in {"422", "502"} : Answer(r, code)
             /\ UNCHANGED <<docs, caches, scenario, boots, late, overtaken>>

\* The map covers the configured log types that have a template.
Infer(r) == /\ At(r, "infer")
            /\ LET c == ToModel(Row(r).config) IN
               GoesHolding(r, "reread", [c EXCEPT !.map = {lt \in c.logs : <<Code(r), lt>> \in disk}])
            /\ UNCHANGED <<docs, caches, world, overtaken>>

\* update_config reads the row again, for the record to write to.
Reread(r) == /\ At(r, "reread")
             /\ \/ RowOf(Of(r)) = None /\ Answer(r, "404")
                \/ RowOf(Of(r)) # None /\ GoesWith(r, "save", RowOf(Of(r)))
                \/ Answer(r, "500")
             /\ UNCHANGED <<docs, caches, world, overtaken>>

-----------------------------------------------------------------------------
(* Readiness, and the build it is about.                                    *)

\* missing_templates.  Mutant: no log type is required.
Missing_None(s, c) == {}
Missing(s, c) == {lt \in c.logs \ Optional : <<CodeOf(s), lt>> \notin disk}

\* readiness_for: the blocking checks.
Ready(s, c) == /\ c.linked
               /\ Missing(s, c) = {}
               /\ CodeOf(s) \in Plugged \/ c.path # ""

\* _load_supplier_templates, for the log types of the plugin that resolve_plugin
\* picks: those with a template are built.
Load(r) == /\ At(r, "load")
           /\ LET served == IF Code(r) \in Plugged THEN PluginLogs ELSE Held(r)[1].logs
                  built == {lt \in served : <<Code(r), lt>> \in disk}
              IN IF built # {} /\ served \ Optional \subseteq built
                 THEN GoesHolding(r, "look", built)
                 ELSE Answer(r, "no template")
           /\ UNCHANGED <<docs, caches, world, overtaken>>

\* The mutation has made as many rates as the probe asks for.
Cloned(r) == /\ "Packages" \in Held(r)[1].mutable
             /\ Code(r) \in Plugged \/ Held(r)[1].path = "right"

\* The linkage rules cannot be met, whatever the template holds.
Refused(r) == \/ "Packages" \notin Held(r)[2]
              \/ /\ Code(r) \notin Plugged
                 /\ Held(r)[3].path # "right" \/ Held(r)[3].boards = "some"

\* Without clones it depends on how many rates the template has.
Link(r) == /\ At(r, "link")
           /\ \/ (Refused(r) \/ ~Cloned(r)) /\ Answer(r, "linkage")
              \/ ~Refused(r) /\ Answer(r, "ok")
           /\ UNCHANGED <<docs, caches, world, overtaken>>

-----------------------------------------------------------------------------
Step(r) == \/ Arrive(r) \/ LookupHit(r) \/ LookupRead(r) \/ LookupFill(r) \/ CodesRead(r) \/ CodesFill(r)
           \/ ReadRow(r) \/ NoAnswer(r) \/ CreateCheck(r) \/ Save(r)
           \/ DeleteCheck(r) \/ DeleteOne(r) \/ Invalidate(r)
           \/ Upload(r) \/ Ingest(r) \/ Infer(r) \/ Reread(r) \/ Load(r) \/ Link(r)

Next == \/ Restart
        \/ \E s \in Suppliers : ScenarioStarts(s) \/ ScenarioChanges(s)
        \/ \E r \in Requests : Step(r)

Spec == Init /\ [][Next]_vars

-----------------------------------------------------------------------------
Places == {"idle", "new", "look", "fill", "fill codes", "load", "link", "save", "check", "remove",
           "invalidate", "write", "fetch", "infer", "reread", "done", "failed"}
\* The database, the caches, the disk and the history.
StoresOK ==
    /\ docs \subseteq Documents
    /\ cache \in [Suppliers -> Config \cup {None}]
    /\ codes \in [Envs -> (SUBSET Codes) \cup {None}]
    /\ disk \subseteq Codes \X LogTypes
    /\ scenario \in [Suppliers -> {None, "PENDING", "READY", "FAILED"}]
    /\ boots \in 0..Restarts
    /\ late \subseteq Requests /\ overtaken \subseteq Requests
    /\ old \subseteq Suppliers \cup Envs

TypeOK ==
    /\ StoresOK
    /\ DOMAIN req = Requests
    /\ \A r \in Requests : /\ req[r].pc \in Places
                           /\ req[r].ask \in Asks \cup {None}
                           /\ req[r].row \in Documents \cup {None}
                           /\ \A i \in DOMAIN Held(r) :
                                IF At(r, "fill codes") THEN Held(r)[i] \subseteq Codes
                                ELSE IF i = 2 THEN Held(r)[i] \subseteq LogTypes
                                ELSE Held(r)[i] \in Config

\* What the cache holds is what Mongo, or the built-ins, would say now.  The
\* exceptions: between the write of a row and the clearing of the cache; after a
\* reading that a write has overtaken, or that the database did not answer; and
\* after a write that was applied but reported as failed.
Clearing(env) == \E r \in Requests : At(r, "invalidate") /\ Env(r) = env
CacheFresh ==
    /\ \A s \in Suppliers : cache[s] # None /\ s \notin old /\ ~Clearing(EnvOf(s))
                              => cache[s] = Resolve(s)
    /\ \A e \in Envs : codes[e] # None /\ e \notin old /\ ~Clearing(e)
                         => codes[e] = ResolveCodes(e)

\* A supplier has one row per environment, however creates, updates, deletes
\* and restarts overlap, and also when an update brings back a row that was
\* deleted, and created again, since it read it.
OneRowPerCode == \A s \in Suppliers : Cardinality(RowsOf(s)) <= 1

\* A supplier that an active scenario needs for its teardown is not deleted,
\* unless the scenario came after the delete had looked for it.
DeleteSparesUsers ==
    [][\A s \in Suppliers :
         RowOf(s) # None /\ (RowOf(s) = None)' /\ scenario[s] # None
           => \E r \in Requests : At(r, "remove") /\ Of(r) = s /\ r \in late]_vars

\* A row's configuration changes only by an edit of that row: neither a restart
\* nor the generation of a field map undoes one, except a generation that had
\* read the row before the edit.
EditsKept ==
    [][\A s \in Suppliers :
         LET Was == ToModel(RowOf(s).config)
             Is == ToModel(RowOf(s)'.config) IN
         RowOf(s) # None /\ (RowOf(s) # None)' /\ Was # [Is EXCEPT !.map = Was.map]
           => \E r \in Requests : /\ At(r, "save") /\ Of(r) = s
                                  /\ \/ Kind(r) = "update"
                                     \/ r \in overtaken]_vars

\* A supplier whose readiness shows nothing blocking does build a scenario, as
\* long as the build works from that same configuration; what readiness does
\* not look at: whether Packages is a log type, and one to be mutated, where
\* packages_path points, the board list, and, for a supplier with a plugin, the
\* log types the plugin serves.
ReadyBuilds ==
    [][\A r \in Requests : req[r].pc \in {"load", "link"} /\ At(r, "failed")' =>
         LET c == ToModel(Row(r).config) IN
         \/ ~Ready(Of(r), c)
         \/ \E i \in {1, 3} \cap DOMAIN Held(r) : Held(r)[i] # c
         \/ "Packages" \notin c.logs \cap c.mutable
         \/ IF Code(r) \in Plugged THEN ~(PluginLogs \ Optional \subseteq c.logs)
            ELSE c.path = "wrong" \/ c.boards = "some"]_vars
=============================================================================
