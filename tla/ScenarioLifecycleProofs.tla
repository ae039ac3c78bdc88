----------------------- MODULE ScenarioLifecycleProofs -----------------------
(***************************************************************************)
(* What is proved of ScenarioLifecycle, for any number of scenarios,       *)
(* tasks, suppliers and environments, any failures and any crashes.        *)
(*                                                                         *)
(* First, its types and what tasks do to each other's scenarios.  However  *)
(* tasks overlap, an apiKey SMF did not create is only ever deleted after  *)
(* a refresh of a scenario that attached to it, and a teardown of          *)
(* everything stays in its environment; and when callers wait for an       *)
(* operation before they ask for the next one on the same scenario, the    *)
(* rows behave as the ScenarioRegistry.                                    *)
(*                                                                         *)
(* Then what scenarios make outside their rows, for callers that wait: a   *)
(* teardown that meets no failure leaves nothing behind, a READY scenario  *)
(* has its mocks and all else it asked for, and what it changed of an      *)
(* apiKey or a supplier record is put right.                               *)
(***************************************************************************)
EXTENDS ScenarioLifecycle, TLAPS

\* Two states of a task that differ only in how far it has come.
SameTask(b, c) == /\ c.kind = b.kind /\ c.sid = b.sid /\ c.rec = b.rec /\ c.out = b.out
                  /\ c.queue = b.queue /\ c.env = b.env /\ c.ok = b.ok /\ c.torn = b.torn

\* A task that has its row, and stages of a teardown it may be in.
HasRow(b) == b \in Job /\ b.rec \in Row /\ b.sid \in Scenarios
TearingDown(c) == /\ c.pc \in TeardownCalls \cup {"removeRow"}
                  /\ c.pc = "deleteKey" => ~c.rec.assets.ext
                  /\ c.pc = "restore" => c.todo \subseteq Altered(c.rec)
Creating(c) == /\ c.pc \in CreateCalls \cup {"finish"}
               /\ c.pc \in {"prebookGet", "prebookPut"} => c.todo \subseteq Pinned(c.rec.req)

LEMMA RowFields ==
    ASSUME NEW row \in Row
    PROVE  /\ row.req \in Request /\ row.assets \in Assets
           /\ row.assets.contracts \in SUBSET Suppliers
           /\ row.assets.sb \in SUBSET SbKinds
           /\ row.req.suppliers \in SUBSET Suppliers
  BY DEF Row, Request, Assets

LEMMA RemoveRowStage ==
    ASSUME NEW b, HasRow(b)
    PROVE  SameTask(b, ToRemoveRow(b)) /\ HasRow(ToRemoveRow(b)) /\ TearingDown(ToRemoveRow(b))
  BY DEF HasRow, Job, PCs, SameTask, TearingDown, ToRemoveRow

LEMMA DeleteSbStage ==
    ASSUME NEW b, HasRow(b)
    PROVE  SameTask(b, ToDeleteSb(b)) /\ HasRow(ToDeleteSb(b)) /\ TearingDown(ToDeleteSb(b))
  BY RemoveRowStage, RowFields
     DEF HasRow, Job, PCs, TeardownCalls, SameTask, TearingDown, ToDeleteSb

LEMMA DeleteKeyStage ==
    ASSUME NEW b, HasRow(b)
    PROVE  SameTask(b, ToDeleteKey(b)) /\ HasRow(ToDeleteKey(b)) /\ TearingDown(ToDeleteKey(b))
  BY DeleteSbStage, RowFields
     DEF HasRow, Job, PCs, TeardownCalls, SameTask, TearingDown, ToDeleteKey

LEMMA DeleteContractsStage ==
    ASSUME NEW b, HasRow(b)
    PROVE  SameTask(b, ToDeleteContracts(b)) /\ HasRow(ToDeleteContracts(b))
           /\ TearingDown(ToDeleteContracts(b))
  BY DeleteKeyStage, RowFields
     DEF HasRow, Job, PCs, TeardownCalls, SameTask, TearingDown, ToDeleteContracts

LEMMA DetachStage ==
    ASSUME NEW b, HasRow(b)
    PROVE  SameTask(b, ToDetach(b)) /\ HasRow(ToDetach(b)) /\ TearingDown(ToDetach(b))
  BY DeleteContractsStage, RowFields
     DEF HasRow, Job, PCs, TeardownCalls, SameTask, TearingDown, ToDetach

LEMMA UnmockStage ==
    ASSUME NEW b, HasRow(b)
    PROVE  SameTask(b, ToUnmock(b)) /\ HasRow(ToUnmock(b)) /\ TearingDown(ToUnmock(b))
  BY RowFields DEF HasRow, Job, PCs, TeardownCalls, SameTask, TearingDown, ToUnmock

LEMMA CleanBrStage ==
    ASSUME NEW b, HasRow(b)
    PROVE  SameTask(b, ToCleanBr(b)) /\ HasRow(ToCleanBr(b)) /\ TearingDown(ToCleanBr(b))
  BY UnmockStage, RowFields
     DEF HasRow, Job, PCs, TeardownCalls, SameTask, TearingDown, ToCleanBr

LEMMA RestoreStage ==
    ASSUME NEW b, HasRow(b)
    PROVE  SameTask(b, ToRestore(b)) /\ HasRow(ToRestore(b)) /\ TearingDown(ToRestore(b))
  <1>1. Altered(b.rec) \in SUBSET Suppliers
    BY DEF Altered
  <1>2. CASE Altered(b.rec) = {}
    BY <1>2, CleanBrStage DEF ToRestore
  <1>3. CASE Altered(b.rec) # {}
    <2> DEFINE c == [b EXCEPT !.pc = "restore", !.todo = Altered(b.rec)]
    <2>1. ToRestore(b) = c
      BY <1>3 DEF ToRestore
    <2>2. c \in Job /\ c.pc = "restore" /\ c.todo = Altered(b.rec) /\ SameTask(b, c)
      BY <1>1 DEF HasRow, Job, PCs, TeardownCalls, SameTask
    <2>3. QED
      BY <2>1, <2>2 DEF HasRow, TearingDown, TeardownCalls, SameTask
  <1>4. QED BY <1>2, <1>3

LEMMA BrStage ==
    ASSUME NEW b, HasRow(b)
    PROVE  SameTask(b, ToBr(b)) /\ HasRow(ToBr(b)) /\ Creating(ToBr(b))
  BY RowFields DEF HasRow, Job, PCs, CreateCalls, SameTask, Creating, ToBr

LEMMA KeyStage ==
    ASSUME NEW b, HasRow(b)
    PROVE  SameTask(b, ToKey(b)) /\ HasRow(ToKey(b)) /\ Creating(ToKey(b))
  BY BrStage, RowFields DEF HasRow, Job, PCs, CreateCalls, SameTask, Creating, ToKey

LEMMA SbStage ==
    ASSUME NEW b, HasRow(b)
    PROVE  SameTask(b, ToSb(b)) /\ HasRow(ToSb(b)) /\ Creating(ToSb(b))
  BY KeyStage, RowFields DEF HasRow, Job, PCs, CreateCalls, SameTask, Creating, ToSb

LEMMA ContractsStage ==
    ASSUME NEW b, HasRow(b)
    PROVE  SameTask(b, ToContracts(b)) /\ HasRow(ToContracts(b)) /\ Creating(ToContracts(b))
  BY RowFields DEF HasRow, Job, PCs, CreateCalls, SameTask, Creating, ToContracts

LEMMA PrebookStage ==
    ASSUME NEW b, HasRow(b)
    PROVE  SameTask(b, ToPrebook(b)) /\ HasRow(ToPrebook(b)) /\ Creating(ToPrebook(b))
  <1>1. Pinned(b.rec.req) \in SUBSET Suppliers
    BY DEF Pinned
  <1>2. CASE Pinned(b.rec.req) = {}
    BY <1>2, ContractsStage DEF ToPrebook
  <1>3. CASE Pinned(b.rec.req) # {}
    <2> DEFINE c == [b EXCEPT !.pc = "prebookGet", !.todo = Pinned(b.rec.req)]
    <2>1. ToPrebook(b) = c
      BY <1>3 DEF ToPrebook
    <2>2. c \in Job /\ c.pc = "prebookGet" /\ c.todo = Pinned(b.rec.req) /\ SameTask(b, c)
      BY <1>1 DEF HasRow, Job, PCs, CreateCalls, SameTask
    <2>3. QED
      BY <2>1, <2>2 DEF HasRow, Creating, CreateCalls, SameTask
  <1>4. QED BY <1>2, <1>3

-----------------------------------------------------------------------------
\* What every task satisfies: it has its row once it has read it, it loops over
\* what its stage is about, and it deletes an apiKey only if the row it read
\* says the apiKey is its own.
Working(b) == b.pc \notin {"idle", "load", "next", "sweep"}
JobInv(b) == /\ Working(b) => HasRow(b)
             /\ b.pc = "load" /\ b.kind # "teardown_all" => b.sid \in Scenarios
             /\ b.pc \in TeardownCalls \cup {"removeRow"} => TearingDown(b)
             /\ b.pc \in CreateCalls \cup {"finish"} => Creating(b)
JobsOK == jobs \in [Jobs -> Job] /\ \A j \in Jobs : JobInv(jobs[j])

LEMMA IdleOK == IdleJob \in Job /\ JobInv(IdleJob)
  BY DEF IdleJob, Job, JobInv, Working, Kinds, PCs, CreateCalls, TeardownCalls,
         NoAssets, Assets

LEMMA CreatingOK == ASSUME NEW b, HasRow(b), Creating(b) PROVE b \in Job /\ JobInv(b)
  BY DEF HasRow, JobInv, Creating, CreateCalls, TeardownCalls

LEMMA TearingDownOK == ASSUME NEW b, HasRow(b), TearingDown(b) PROVE b \in Job /\ JobInv(b)
  BY DEF HasRow, JobInv, TearingDown, CreateCalls, TeardownCalls

\* The loop step either moves to the next stage or drops one item.
LEMMA LoopOK ==
    ASSUME NEW b \in Job, JobInv(b), Working(b), NEW p \in b.todo,
           NEW done \in Job, JobInv(done)
    PROVE  Loop(b, p, done) \in Job /\ JobInv(Loop(b, p, done))
  <1>1. CASE b.todo = {p}
    BY <1>1 DEF Loop
  <1>2. CASE b.todo # {p}
    <2> DEFINE c == [b EXCEPT !.todo = b.todo \ {p}]
    <2>1. Loop(b, p, done) = c
      BY <1>2 DEF Loop
    <2>2. c \in Job /\ SameTask(b, c) /\ c.pc = b.pc /\ c.todo \subseteq b.todo
      BY DEF Job, SameTask
    <2>3. JobInv(c)
      BY <2>2 DEF JobInv, Working, HasRow, SameTask, TearingDown, Creating
    <2>4. QED BY <2>1, <2>2, <2>3
  <1>3. QED BY <1>1, <1>2

LEMMA JobsStep ==
    ASSUME JobsOK, NEW j \in Jobs, NEW b \in Job, JobInv(b), Becomes(j, b)
    PROVE  JobsOK'
  BY DEF JobsOK, Becomes

-----------------------------------------------------------------------------
\* Rows and bundles.

LEMMA NoAssetsType == NoAssets \in Assets
  BY DEF NoAssets, Assets

LEMMA RefreshBundleType == ASSUME NEW row \in Row PROVE RefreshBundle(row) \in Assets
  BY NoAssetsType DEF RefreshBundle, Assets, Row

LEMMA ApplyBundleType ==
    ASSUME NEW row \in Row, NEW b \in Assets
    PROVE  ApplyBundle(row, b) \in Row
  BY DEF ApplyBundle, Row, Assets

LEMMA FailedRowType == ASSUME NEW row \in Row PROVE FailedRow(row) \in Row
  BY DEF FailedRow, Row

LEMMA SavedType ==
    ASSUME rows \in [Scenarios -> Row \cup {Null}], NEW s \in Scenarios, NEW row \in Row
    PROVE  Saved(s, row) \in [Scenarios -> Row \cup {Null}]
  BY DEF Saved

LEMMA TearableType ==
    ASSUME rows \in [Scenarios -> Row \cup {Null}], NEW e
    PROVE  Tearable(e) \in SUBSET Entry
  BY DEF Tearable, Entry

LEMMA MockIdType ==
    ASSUME NEW req \in Request, NEW p \in Suppliers, NEW part \in Parts
    PROVE  MockId(req, p, part) \in MockIds
  BY ConstantsAssumption DEF MockId, MockIds, Request

-----------------------------------------------------------------------------
\* Type correctness.  Typed is everything a step must keep.
Typed == TypeOK /\ JobsOK

LEMMA InitTyped == Init => Typed
  BY IdleOK, ConstantsAssumption
     DEF Init, Typed, TypeOK, JobsOK, Keys, Prebooking

LEMMA AskTyped == ASSUME Typed, Ask PROVE Typed'
  <1>1. ASSUME NEW kind \in Kinds, NEW s \in Scenarios, Spawn(kind, s) PROVE JobsOK'
    <2>1. PICK j \in Jobs : Becomes(j, [IdleJob EXCEPT !.kind = kind, !.pc = "load", !.sid = s])
      BY <1>1 DEF Spawn
    <2> DEFINE b == [IdleJob EXCEPT !.kind = kind, !.pc = "load", !.sid = s]
    <2>2. b \in Job /\ b.pc = "load" /\ b.sid = s
      BY IdleOK DEF Job, PCs, IdleJob
    <2>3. JobInv(b)
      BY <2>2 DEF JobInv, Working, CreateCalls, TeardownCalls
    <2>4. QED BY <2>1, <2>2, <2>3, JobsStep DEF Typed
  <1>2. ASSUME NEW s \in Scenarios, Submit(s) PROVE Typed'
    <2>1. JobsOK'
      BY <1>1, <1>2 DEF Submit, Kinds
    <2>2. PICK req \in RequestsOf[s] :
            /\ rows' = [rows EXCEPT ![s] = [req |-> req, status |-> "PENDING",
                                            assets |-> NoAssets]]
            /\ asked' = [asked EXCEPT ![s] = req]
      BY <1>2 DEF Submit
    <2>3. req \in Request /\ [req |-> req, status |-> "PENDING", assets |-> NoAssets] \in Row
      BY ConstantsAssumption, NoAssetsType DEF Row
    <2>4. QED
      BY <1>2, <2>1, <2>2, <2>3
         DEF Submit, Typed, TypeOK, JobsOK, world, backoffice, budgets
  <1>3. ASSUME NEW s \in Scenarios, AskRefresh(s) PROVE Typed'
    BY <1>1, <1>3
       DEF AskRefresh, Kinds, Typed, TypeOK, JobsOK, world, backoffice, history, budgets
  <1>4. ASSUME NEW s \in Scenarios, AskTeardown(s) PROVE Typed'
    BY <1>1, <1>4
       DEF AskTeardown, Kinds, Typed, TypeOK, JobsOK, world, backoffice, history, budgets
  <1>5. ASSUME NEW e \in Envs, AskTeardownAll(e) PROVE Typed'
    <2> DEFINE b == [IdleJob EXCEPT !.kind = "teardown_all", !.pc = "load", !.env = e]
    <2>1. PICK j \in Jobs : Becomes(j, b)
      BY <1>5 DEF AskTeardownAll
    <2>2. b \in Job /\ b.pc = "load" /\ b.kind = "teardown_all"
      BY IdleOK DEF Job, PCs, Kinds, IdleJob
    <2>3. JobInv(b)
      BY <2>2 DEF JobInv, Working, CreateCalls, TeardownCalls
    <2>4. JobsOK'
      BY <2>1, <2>2, <2>3, JobsStep DEF Typed
    <2>5. QED
      BY <1>5, <2>4
         DEF AskTeardownAll, Typed, TypeOK, JobsOK, world, backoffice, history, budgets
  <1>6. QED BY <1>2, <1>3, <1>4, <1>5 DEF Ask

LEMMA LoadTyped == ASSUME Typed, NEW j \in Jobs, Load(j) PROVE Typed'
  <1> DEFINE b == jobs[j]
             row == rows[b.sid]
  <1>1. b \in Job /\ JobInv(b) /\ b.pc = "load"
    BY DEF Typed, JobsOK, Load, At
  <1>2. ASSUME b.kind # "teardown_all", StillWanted(b.kind, row)
        PROVE  row \in Row /\ b.sid \in Scenarios
    BY <1>1, <1>2 DEF Typed, TypeOK, JobInv, StillWanted
  <1>3. JobsOK'
    <2>1. CASE Becomes(j, IdleJob)
      BY <2>1, IdleOK, JobsStep DEF Typed
    <2>2. CASE Becomes(j, [b EXCEPT !.pc = "next", !.queue = Tearable(b.env)])
      <3> DEFINE c == [b EXCEPT !.pc = "next", !.queue = Tearable(b.env)]
      <3>1. Tearable(b.env) \in SUBSET Entry
        BY TearableType DEF Typed, TypeOK
      <3>2. c \in Job /\ c.pc = "next"
        BY <1>1, <3>1 DEF Job, PCs
      <3>3. JobInv(c)
        BY <3>2 DEF JobInv, Working, CreateCalls, TeardownCalls
      <3>4. QED BY <2>2, <3>2, <3>3, JobsStep DEF Typed
    <2>3. CASE /\ b.kind = "create" /\ StillWanted(b.kind, row)
               /\ Becomes(j, [b EXCEPT !.pc = "register", !.rec = row,
                                       !.todo = row.req.suppliers])
      <3> DEFINE c == [b EXCEPT !.pc = "register", !.rec = row, !.todo = row.req.suppliers]
      <3>1. row \in Row /\ b.sid \in Scenarios /\ row.req.suppliers \in SUBSET Suppliers
        BY <1>2, <2>3, RowFields
      <3>2. c \in Job /\ c.pc = "register" /\ c.rec = row /\ c.sid = b.sid
        BY <1>1, <3>1 DEF Job, PCs, CreateCalls
      <3>3. HasRow(c) /\ Creating(c)
        BY <3>1, <3>2 DEF HasRow, Creating, CreateCalls
      <3>4. QED BY <2>3, <3>3, CreatingOK, JobsStep DEF Typed
    <2>4. CASE /\ b.kind = "refresh" /\ StillWanted(b.kind, row)
               /\ Becomes(j, [b EXCEPT !.pc = "reregister", !.rec = row,
                                       !.todo = row.req.suppliers,
                                       !.out = RefreshBundle(row)])
      <3> DEFINE c == [b EXCEPT !.pc = "reregister", !.rec = row,
                                !.todo = row.req.suppliers, !.out = RefreshBundle(row)]
      <3>1. row \in Row /\ b.sid \in Scenarios /\ row.req.suppliers \in SUBSET Suppliers
            /\ RefreshBundle(row) \in Assets
        BY <1>2, <2>4, RowFields, RefreshBundleType
      <3>2. c \in Job /\ c.pc = "reregister" /\ c.rec = row /\ c.sid = b.sid
        BY <1>1, <3>1 DEF Job, PCs
      <3>3. JobInv(c)
        BY <3>1, <3>2 DEF HasRow, JobInv, CreateCalls, TeardownCalls
      <3>4. QED BY <2>4, <3>2, <3>3, JobsStep DEF Typed
    <2>5. CASE /\ b.kind = "teardown" /\ StillWanted(b.kind, row)
               /\ Becomes(j, ToRestore([b EXCEPT !.rec = row]))
      <3> DEFINE c == [b EXCEPT !.rec = row]
      <3>1. row \in Row /\ b.sid \in Scenarios
        BY <1>2, <2>5
      <3>2. HasRow(c)
        BY <1>1, <3>1 DEF Job, HasRow
      <3>3. QED BY <2>5, <3>2, RestoreStage, TearingDownOK, JobsStep DEF Typed
    <2>6. QED BY <2>1, <2>2, <2>3, <2>4, <2>5 DEF Load
  <1>4. QED
    BY <1>3 DEF Load, Typed, TypeOK, JobsOK, world, backoffice, history, budgets

\* A task at one of its calls, and what the steps below need to know of it.
LEMMA AtWork ==
    ASSUME Typed, NEW j \in Jobs, Working(jobs[j])
    PROVE  /\ HasRow(jobs[j]) /\ JobInv(jobs[j])
           /\ jobs[j].rec.req \in Request /\ jobs[j].rec.assets \in Assets
           /\ jobs[j].out \in Assets /\ jobs[j].seen \in SUBSET Contracts
           /\ jobs[j].todo \in SUBSET Suppliers
  BY RowFields DEF Typed, JobsOK, JobInv, HasRow, Job

LEMMA CreateTyped == ASSUME Typed, NEW j \in Jobs, CreateStep(j) PROVE Typed'
  <1> DEFINE b == jobs[j]
  <1>1. CASE Register(j)
    <2>1. Working(b)
      BY <1>1 DEF Register, At, Working
    <2>2. PICK p \in b.todo :
            /\ mocks' = [m \in MockIds |-> IF \E part \in Parts : m = MockId(b.rec.req, p, part)
                                           THEN b.sid ELSE mocks[m]]
            /\ Becomes(j, Loop(b, p, ToPrebook(b)))
      BY <1>1 DEF Register
    <2>3. JobsOK'
      BY <2>1, <2>2, AtWork, PrebookStage, CreatingOK, LoopOK, JobsStep DEF HasRow, Typed
    <2>4. QED
      BY <1>1, <2>1, <2>2, <2>3, AtWork
         DEF Register, Typed, TypeOK, JobsOK, HasRow, backoffice, history, budgets
  <1>2. CASE PrebookGet(j)
    <2>1. Working(b) /\ b.pc = "prebookGet"
      BY <1>2 DEF PrebookGet, At, Working
    <2>2. PICK p \in b.todo :
            Becomes(j, [b EXCEPT !.pc = "prebookPut",
                                 !.out.restore[p] = prebooking[<<b.rec.req.env, p>>]])
      BY <1>2 DEF PrebookGet
    <2> DEFINE r == [b.out.restore EXCEPT ![p] = prebooking[<<b.rec.req.env, p>>]]
               o == [b.out EXCEPT !.restore = r]
               c == [b EXCEPT !.pc = "prebookPut", !.out = o]
    <2>3. r \in [Suppliers -> Prebooking \cup {"none"}]
      BY <2>1, AtWork DEF Typed, TypeOK, Request, Assets
    <2>4. o \in Assets
      BY <2>1, <2>3, AtWork DEF Assets
    <2>5. c = [b EXCEPT !.pc = "prebookPut",
                        !.out.restore[p] = prebooking[<<b.rec.req.env, p>>]]
      BY <2>1, AtWork DEF HasRow, Job, Assets
    <2>6. c \in Job /\ c.pc = "prebookPut" /\ c.rec = b.rec /\ c.sid = b.sid /\ c.todo = b.todo
      BY <2>1, <2>4, AtWork DEF HasRow, Job, PCs, CreateCalls
    <2>7. HasRow(c) /\ Creating(c)
      BY <2>1, <2>6, AtWork DEF HasRow, JobInv, Creating, CreateCalls
    <2>8. JobsOK'
      BY <2>2, <2>5, <2>7, CreatingOK, JobsStep DEF Typed
    <2>9. QED
      BY <1>2, <2>8
         DEF PrebookGet, Typed, TypeOK, JobsOK, world, backoffice, history, budgets
  <1>3. CASE PrebookPut(j)
    <2>1. Working(b) /\ b.pc = "prebookPut"
      BY <1>3 DEF PrebookPut, At, Working
    <2>2. PICK p \in b.todo :
            /\ prebooking' = [prebooking EXCEPT ![<<b.rec.req.env, p>>] = b.rec.req.pin[p]]
            /\ Becomes(j, Loop([b EXCEPT !.pc = "prebookGet"], p, ToContracts(b)))
      BY <1>3 DEF PrebookPut
    <2> DEFINE c == [b EXCEPT !.pc = "prebookGet"]
    <2>3. /\ c \in Job /\ c.pc = "prebookGet" /\ c.rec = b.rec /\ c.sid = b.sid
          /\ c.todo = b.todo
      BY <2>1, AtWork DEF HasRow, Job, PCs, CreateCalls
    <2>4. Creating(b)
      BY <2>1, AtWork DEF JobInv, CreateCalls
    <2>5. HasRow(c) /\ Creating(c) /\ Working(c)
      BY <2>1, <2>3, <2>4, AtWork DEF HasRow, Creating, CreateCalls, Working
    <2>6. JobsOK'
      BY <2>1, <2>2, <2>3, <2>5, AtWork, ContractsStage, CreatingOK, LoopOK, JobsStep
         DEF HasRow, Typed
    <2>7. b.rec.req.pin[p] \in Prebooking
      BY <2>1, <2>4, AtWork DEF Creating, Pinned, Request, Pins, Prebooking
    <2>8. QED
      BY <1>3, <2>1, <2>2, <2>6, <2>7
         DEF PrebookPut, Typed, TypeOK, JobsOK, history, budgets
  <1>4. CASE CreateContract(j)
    <2>1. Working(b) /\ b.pc = "contracts"
      BY <1>4 DEF CreateContract, At, Working
    <2>2. PICK p \in b.todo :
            /\ contracts' = contracts \cup {<<b.sid, p>>}
            /\ LET c == [b EXCEPT !.out.contracts = @ \cup {p}]
               IN Becomes(j, Loop(c, p, ToSb(c)))
      BY <1>4 DEF CreateContract
    <2> DEFINE o == [b.out EXCEPT !.contracts = b.out.contracts \cup {p}]
               c == [b EXCEPT !.out = o]
    <2>3. o \in Assets
      BY <2>1, AtWork DEF Assets
    <2>4. c = [b EXCEPT !.out.contracts = @ \cup {p}]
      BY <2>1, AtWork DEF HasRow, Job, Assets
    <2>5. c \in Job /\ c.pc = "contracts" /\ c.rec = b.rec /\ c.sid = b.sid /\ c.todo = b.todo
      BY <2>1, <2>3, AtWork DEF HasRow, Job
    <2>6. HasRow(c) /\ Creating(c) /\ Working(c)
      BY <2>1, <2>5, AtWork DEF HasRow, Creating, CreateCalls, Working
    <2>7. JobsOK'
      BY <2>2, <2>4, <2>5, <2>6, SbStage, CreatingOK, LoopOK, JobsStep DEF Typed
    <2>8. QED
      BY <1>4, <2>1, <2>2, <2>7, AtWork
         DEF CreateContract, Typed, TypeOK, JobsOK, HasRow, Contracts, history, budgets
  <1>5. CASE CreateSbGroup(j)
    <2> DEFINE o == [b.out EXCEPT !.sb = b.out.sb \cup {"group"}]
               c == [b EXCEPT !.pc = "sbConfig", !.out = o]
    <2>1. Working(b)
      BY <1>5 DEF CreateSbGroup, At, Working
    <2>2. o \in Assets
      BY <2>1, AtWork DEF Assets, SbKinds
    <2>3. c \in Job /\ c.pc = "sbConfig" /\ c.rec = b.rec /\ c.sid = b.sid /\ c = [b EXCEPT !.pc = "sbConfig", !.out.sb = @ \cup {"group"}]
      <3>1. c \in Job /\ c.pc = "sbConfig" /\ c.rec = b.rec /\ c.sid = b.sid
        BY <2>1, <2>2, AtWork DEF HasRow, Job, PCs, CreateCalls
      <3>2. c = [b EXCEPT !.pc = "sbConfig", !.out.sb = @ \cup {"group"}]
        BY <2>1, <2>2, AtWork DEF HasRow, Job, Assets
      <3>3. QED BY <3>1, <3>2
    <2>4. HasRow(c) /\ Creating(c)
      BY <2>1, <2>3, AtWork DEF HasRow, Creating, CreateCalls
    <2>5. JobsOK'
      BY <1>5, <2>3, <2>4, CreatingOK, JobsStep DEF CreateSbGroup, Typed
    <2>6. QED
      BY <1>5, <2>1, <2>5, AtWork
         DEF CreateSbGroup, Typed, TypeOK, JobsOK, HasRow, SbKinds, history, budgets
  <1>6. CASE CreateSbConfig(j)
    <2> DEFINE o == [b.out EXCEPT !.sb = b.out.sb \cup {"config"}]
               c == [b EXCEPT !.out = o]
    <2>1. Working(b)
      BY <1>6 DEF CreateSbConfig, At, Working
    <2>2. o \in Assets
      BY <2>1, AtWork DEF Assets, SbKinds
    <2>3. HasRow(c) /\ c = [b EXCEPT !.out.sb = @ \cup {"config"}]
      BY <2>1, <2>2, AtWork DEF HasRow, Job, Assets
    <2>4. JobsOK'
      BY <1>6, <2>3, KeyStage, CreatingOK, JobsStep DEF CreateSbConfig, Typed
    <2>5. QED
      BY <1>6, <2>1, <2>4, AtWork
         DEF CreateSbConfig, Typed, TypeOK, JobsOK, HasRow, SbKinds, history, budgets
  <1>7. CASE CreateApiKey(j)
    <2> DEFINE o == [b.out EXCEPT !.key = b.sid]
               c == [b EXCEPT !.pc = "clearCache", !.out = o]
    <2>1. Working(b)
      BY <1>7 DEF CreateApiKey, At, Working
    <2>2. o \in Assets
      BY <2>1, AtWork DEF HasRow, Assets, Keys
    <2>3. c \in Job /\ c.pc = "clearCache" /\ c.rec = b.rec /\ c.sid = b.sid /\ c = [b EXCEPT !.pc = "clearCache", !.out.key = b.sid]
      <3>1. c \in Job /\ c.pc = "clearCache" /\ c.rec = b.rec /\ c.sid = b.sid
        BY <2>1, <2>2, AtWork DEF HasRow, Job, PCs, CreateCalls
      <3>2. c = [b EXCEPT !.pc = "clearCache", !.out.key = b.sid]
        BY <2>1, <2>2, AtWork DEF HasRow, Job, Assets
      <3>3. QED BY <3>1, <3>2
    <2>4. HasRow(c) /\ Creating(c)
      BY <2>1, <2>3, AtWork DEF HasRow, Creating, CreateCalls
    <2>5. JobsOK'
      BY <1>7, <2>3, <2>4, CreatingOK, JobsStep DEF CreateApiKey, Typed
    <2>6. QED
      BY <1>7, <2>1, <2>5, AtWork
         DEF CreateApiKey, Typed, TypeOK, JobsOK, HasRow, Keys, history, budgets
  <1>8. CASE AttachGet(j)
    <2> DEFINE c == [b EXCEPT !.pc = "attachPut", !.seen = keyRefs[b.rec.req.key]]
    <2>1. Working(b) /\ b.rec.req.key \in liveKeys /\ Becomes(j, c)
      BY <1>8 DEF AttachGet, ReadApiKey, At, Working
    <2>2. b.rec.req.key \in ExistingKeys
      BY <2>1, AtWork, ConstantsAssumption DEF Typed, TypeOK, Request
    <2>3. c \in Job /\ c.pc = "attachPut" /\ c.rec = b.rec /\ c.sid = b.sid
      <3>1. keyRefs[b.rec.req.key] \in SUBSET Contracts
        BY <2>2 DEF Typed, TypeOK
      <3>2. HasRow(b)
        BY <2>1, AtWork
      <3>3. QED BY <3>1, <3>2 DEF HasRow, Job, PCs, CreateCalls
    <2>4. HasRow(c) /\ Creating(c)
      BY <2>1, <2>3, AtWork DEF HasRow, Creating, CreateCalls
    <2>5. JobsOK'
      BY <2>1, <2>4, CreatingOK, JobsStep DEF Typed
    <2>6. QED
      BY <1>8, <2>5
         DEF AttachGet, ReadApiKey, Typed, TypeOK, JobsOK, world, backoffice, history, budgets
  <1>9. CASE AttachPut(j)
    <2> DEFINE k == b.rec.req.key
               o == [b.out EXCEPT !.key = k, !.ext = TRUE]
               c == [b EXCEPT !.pc = "clearCache", !.seen = {}, !.out = o]
    <2>1. Working(b) /\ k \in liveKeys
      BY <1>9 DEF AttachPut, At, Working
    <2>2. k \in ExistingKeys
      BY <2>1, AtWork, ConstantsAssumption DEF Typed, TypeOK, Request
    <2>3. o \in Assets
      BY <2>1, <2>2, AtWork DEF Assets, Keys
    <2>4. c \in Job /\ c.pc = "clearCache" /\ c.rec = b.rec /\ c.sid = b.sid /\ c = [b EXCEPT !.pc = "clearCache", !.seen = {}, !.out.key = k, !.out.ext = TRUE]
      <3>1. c \in Job /\ c.pc = "clearCache" /\ c.rec = b.rec /\ c.sid = b.sid
        BY <2>1, <2>3, AtWork DEF HasRow, Job, PCs, CreateCalls
      <3>2. c = [b EXCEPT !.pc = "clearCache", !.seen = {}, !.out.key = k, !.out.ext = TRUE]
        BY <2>1, <2>3, AtWork DEF HasRow, Job, Assets
      <3>3. QED BY <3>1, <3>2
    <2>5. HasRow(c) /\ Creating(c)
      BY <2>1, <2>4, AtWork DEF HasRow, Creating, CreateCalls
    <2>6. JobsOK'
      BY <1>9, <2>4, <2>5, CreatingOK, JobsStep DEF AttachPut, Typed
    <2>7. b.seen \cup OwnContracts(b.sid, b.out.contracts) \in SUBSET Contracts
      BY <2>1, AtWork DEF OwnContracts, Contracts, HasRow, Assets
    <2>8. QED
      BY <1>9, <2>2, <2>6, <2>7
         DEF AttachPut, Typed, TypeOK, JobsOK, history, budgets
  <1>10. CASE ClearCache(j)
    <2>1. Working(b)
      BY <1>10 DEF ClearCache, At, Working
    <2>2. JobsOK'
      BY <1>10, <2>1, AtWork, BrStage, CreatingOK, JobsStep DEF ClearCache, Typed
    <2>3. QED
      BY <1>10, <2>2
         DEF ClearCache, Typed, TypeOK, JobsOK, world, backoffice, history, budgets
  <1>11. CASE ProvisionBr(j)
    <2> DEFINE o == [b.out EXCEPT !.br = TRUE]
               c == [b EXCEPT !.pc = "finish", !.out = o]
    <2>1. Working(b)
      BY <1>11 DEF ProvisionBr, At, Working
    <2>2. o \in Assets
      BY <2>1, AtWork DEF Assets
    <2>3. c \in Job /\ c.pc = "finish" /\ c.rec = b.rec /\ c.sid = b.sid /\ c = [b EXCEPT !.pc = "finish", !.out.br = TRUE]
      <3>1. c \in Job /\ c.pc = "finish" /\ c.rec = b.rec /\ c.sid = b.sid
        BY <2>1, <2>2, AtWork DEF HasRow, Job, PCs
      <3>2. c = [b EXCEPT !.pc = "finish", !.out.br = TRUE]
        BY <2>1, <2>2, AtWork DEF HasRow, Job, Assets
      <3>3. QED BY <3>1, <3>2
    <2>4. HasRow(c) /\ Creating(c)
      BY <2>1, <2>3, AtWork DEF HasRow, Creating
    <2>5. JobsOK'
      BY <1>11, <2>3, <2>4, CreatingOK, JobsStep DEF ProvisionBr, Typed
    <2>6. QED
      BY <1>11, <2>1, <2>5, AtWork
         DEF ProvisionBr, Typed, TypeOK, JobsOK, HasRow, backoffice, history, budgets
  <1>12. CASE CreateRaises(j)
    <2>1. Working(b)
      BY <1>12 DEF CreateRaises, CreateCalls, Working
    <2>2. JobsOK'
      BY <1>12, IdleOK, JobsStep DEF CreateRaises, Typed
    <2>3. rows' \in [Scenarios -> Row \cup {Null}]
      BY <1>12, <2>1, AtWork, FailedRowType, SavedType
         DEF CreateRaises, HasRow, Typed, TypeOK
    <2>4. failed' \in SUBSET Scenarios /\ crashes' \in 0..MaxCrashes /\ failures' \in 0..MaxFailures
      BY <1>12, <2>1, AtWork, ConstantsAssumption
         DEF CreateRaises, CallFails, HasRow, Typed, TypeOK, budgets
    <2>5. UNCHANGED <<asked, refreshed, killed>>
      BY <1>12 DEF CreateRaises, CallFails, budgets
    <2>6. QED
      BY <1>12, <2>2, <2>3, <2>4, <2>5
         DEF CreateRaises, Typed, TypeOK, JobsOK, world, backoffice
  <1>13. QED
    BY <1>1, <1>2, <1>3, <1>4, <1>5, <1>6, <1>7, <1>8, <1>9, <1>10, <1>11, <1>12
       DEF CreateStep

LEMMA FinishTyped == ASSUME Typed, NEW j \in Jobs, Finish(j) PROVE Typed'
  <1>1. Working(jobs[j])
    BY DEF Finish, At, Working
  <1>2. JobsOK'
    BY IdleOK, JobsStep DEF Finish, Typed
  <1>3. rows' \in [Scenarios -> Row \cup {Null}] /\ refreshed' \in SUBSET Scenarios
    BY <1>1, AtWork, ApplyBundleType, SavedType DEF Finish, HasRow, Typed, TypeOK
  <1>4. QED
    BY <1>2, <1>3 DEF Finish, Typed, TypeOK, JobsOK, world, backoffice, budgets

LEMMA CallFailsTyped ==
    ASSUME Typed, NEW j \in Jobs, jobs[j].sid \in Scenarios, CallFails(j)
    PROVE  /\ failed' \in SUBSET Scenarios /\ failures' \in 0..MaxFailures
           /\ UNCHANGED <<asked, refreshed, killed, crashes>>
  BY ConstantsAssumption DEF CallFails, Typed, TypeOK

LEMMA RefreshTyped == ASSUME Typed, NEW j \in Jobs, RefreshStep(j) PROVE Typed'
  <1> DEFINE b == jobs[j]
  <1>1. Working(b) /\ b.pc = "reregister"
    BY DEF RefreshStep, Reregister, RefreshRaises, At, Working
  <1>2. CASE Reregister(j)
    <2>1. PICK p \in b.todo :
            /\ mocks' = [mocks EXCEPT ![MockId(b.rec.req, p, "book")] = b.sid]
            /\ Becomes(j, Loop(b, p, [b EXCEPT !.pc = "finish", !.todo = {}]))
      BY <1>2 DEF Reregister
    <2> DEFINE c == [b EXCEPT !.pc = "finish", !.todo = {}]
    <2>2. c \in Job /\ c.pc = "finish" /\ c.rec = b.rec /\ c.sid = b.sid
      BY <1>1, AtWork DEF HasRow, Job, PCs
    <2>3. HasRow(c) /\ Creating(c)
      BY <1>1, <2>2, AtWork DEF HasRow, Creating
    <2>4. JobsOK'
      BY <1>1, <2>1, <2>3, AtWork, CreatingOK, LoopOK, JobsStep DEF HasRow, Typed
    <2>5. mocks' \in [MockIds -> Scenarios \cup {Null}]
      BY <1>1, <2>1, AtWork DEF HasRow, Typed, TypeOK
    <2>6. QED
      BY <1>2, <2>4, <2>5 DEF Reregister, Typed, TypeOK, JobsOK, backoffice, history, budgets
  <1>3. CASE RefreshRaises(j)
    <2>1. JobsOK'
      BY <1>3, IdleOK, JobsStep DEF RefreshRaises, Typed
    <2>2. rows' \in [Scenarios -> Row \cup {Null}]
      BY <1>1, <1>3, AtWork, SavedType DEF RefreshRaises, HasRow, Typed, TypeOK
    <2>3. QED
      BY <1>1, <1>3, <2>1, <2>2, AtWork, CallFailsTyped
         DEF RefreshRaises, HasRow, Typed, TypeOK, JobsOK, world, backoffice
  <1>4. QED BY <1>2, <1>3 DEF RefreshStep

\* A teardown step moves its task to another stage of the teardown or ends it.
LEMMA TeardownTyped == ASSUME Typed, NEW j \in Jobs, TeardownStep(j) PROVE Typed'
  <1> DEFINE b == jobs[j]
  <1>1. Working(b)
    BY DEF TeardownStep, RestorePrebooking, RestoreFails, CleanBr, Unmock, DetachGet,
           ReadApiKey, DetachPut, DetachFails, DeleteContract, DeleteApiKey, DeleteSb,
           DeleteSbFails, TeardownRaises, RemoveRow, At, Working
  <1>2. HasRow(b) /\ JobInv(b) /\ b \in Job /\ b.sid \in Scenarios /\ b.rec \in Row
    BY <1>1, AtWork DEF HasRow
  <1>3. ASSUME NEW c, HasRow(c), TearingDown(c), NEW p \in b.todo
        PROVE  Loop(b, p, c) \in Job /\ JobInv(Loop(b, p, c))
    BY <1>1, <1>2, <1>3, TearingDownOK, LoopOK
  <1>4. CASE RestorePrebooking(j)
    <2>1. PICK p \in b.todo :
            /\ prebooking' = [prebooking EXCEPT ![<<b.rec.req.env, p>>] = b.rec.assets.restore[p]]
            /\ Becomes(j, Loop(b, p, ToCleanBr(b)))
      BY <1>4 DEF RestorePrebooking
    <2>2. JobsOK'
      BY <1>2, <1>3, <2>1, CleanBrStage, JobsStep DEF Typed
    <2>3. p \in Altered(b.rec)
      BY <1>2, <1>4, <2>1 DEF RestorePrebooking, At, JobInv, TearingDown, TeardownCalls
    <2>4. b.rec.assets.restore[p] \in Prebooking
      BY <1>1, <2>3, AtWork DEF Altered, Assets
    <2>5. QED
      BY <1>4, <2>1, <2>2, <2>4
         DEF RestorePrebooking, Typed, TypeOK, JobsOK, history, budgets
  <1>5. CASE RestoreFails(j)
    <2>1. JobsOK'
      BY <1>2, <1>3, <1>5, CleanBrStage, JobsStep DEF RestoreFails, Typed
    <2>2. QED
      BY <1>2, <1>5, <2>1, CallFailsTyped
         DEF RestoreFails, Typed, TypeOK, JobsOK, world, backoffice
  <1>6. CASE CleanBr(j)
    <2>1. JobsOK'
      BY <1>2, <1>6, UnmockStage, TearingDownOK, JobsStep DEF CleanBr, Typed
    <2>2. QED
      BY <1>6, <2>1 DEF CleanBr, Typed, TypeOK, JobsOK, backoffice, history, budgets
  <1>7. CASE Unmock(j)
    <2>1. JobsOK'
      BY <1>2, <1>3, <1>7, DetachStage, JobsStep DEF Unmock, Typed
    <2>2. mocks' \in [MockIds -> Scenarios \cup {Null}]
      <3>1. PICK p \in b.todo :
              mocks' = [m \in MockIds |-> IF \E part \in Parts : m = MockId(b.rec.req, p, part)
                                          THEN Null ELSE mocks[m]]
        BY <1>7 DEF Unmock
      <3>2. QED BY <3>1 DEF Typed, TypeOK
    <2>3. QED
      BY <1>7, <2>1, <2>2 DEF Unmock, Typed, TypeOK, JobsOK, backoffice, history, budgets
  <1>8. CASE DetachGet(j)
    <2> DEFINE c == [b EXCEPT !.pc = "detachPut", !.seen = keyRefs[b.rec.req.key]]
    <2>1. b.rec.req.key \in liveKeys /\ Becomes(j, c)
      BY <1>8 DEF DetachGet, ReadApiKey
    <2>2. b.rec.req.key \in ExistingKeys
      BY <1>1, <2>1, AtWork, ConstantsAssumption DEF Typed, TypeOK, Request
    <2>3. c \in Job /\ c.pc = "detachPut" /\ c.rec = b.rec /\ c.sid = b.sid
      BY <1>2, <2>2 DEF Typed, TypeOK, Job, PCs, TeardownCalls
    <2>4. HasRow(c) /\ TearingDown(c)
      BY <1>2, <2>3 DEF HasRow, TearingDown, TeardownCalls
    <2>5. JobsOK'
      BY <2>1, <2>4, TearingDownOK, JobsStep DEF Typed
    <2>6. QED
      BY <1>8, <2>5
         DEF DetachGet, ReadApiKey, Typed, TypeOK, JobsOK, world, backoffice, history, budgets
  <1>9. HasRow([b EXCEPT !.seen = {}])
    BY <1>2 DEF HasRow, Job
  <1>10. CASE DetachPut(j)
    <2>1. JobsOK'
      BY <1>9, <1>10, DeleteContractsStage, TearingDownOK, JobsStep DEF DetachPut, Typed
    <2>2. b.seen \ OwnContracts(b.sid, b.rec.assets.contracts) \in SUBSET Contracts
      BY <1>1, AtWork
    <2>3. QED
      BY <1>10, <2>1, <2>2 DEF DetachPut, Typed, TypeOK, JobsOK, history, budgets
  <1>11. CASE DetachFails(j)
    <2>1. JobsOK'
      BY <1>9, <1>11, DeleteContractsStage, TearingDownOK, JobsStep DEF DetachFails, Typed
    <2>2. /\ failed' \in SUBSET Scenarios /\ failures' \in 0..MaxFailures
          /\ UNCHANGED <<asked, refreshed, killed, crashes>>
      BY <1>2, <1>11, CallFailsTyped DEF DetachFails, Typed, TypeOK, budgets
    <2>3. QED
      BY <1>11, <2>1, <2>2 DEF DetachFails, Typed, TypeOK, JobsOK, world, backoffice
  <1>12. CASE DeleteContract(j)
    <2>1. JobsOK'
      BY <1>2, <1>3, <1>12, DeleteKeyStage, JobsStep DEF DeleteContract, Typed
    <2>2. QED
      BY <1>12, <2>1 DEF DeleteContract, Typed, TypeOK, JobsOK, history, budgets
  <1>13. CASE DeleteApiKey(j)
    <2>1. JobsOK'
      BY <1>2, <1>13, DeleteSbStage, TearingDownOK, JobsStep DEF DeleteApiKey, Typed
    <2>2. QED
      BY <1>13, <2>1 DEF DeleteApiKey, Typed, TypeOK, JobsOK, history, budgets
  <1>14. ASSUME NEW kind \in b.sbTodo, b.pc = "deleteSb"
         PROVE  HasRow(LoopSb(b, kind)) /\ TearingDown(LoopSb(b, kind))
    <2>1. HasRow([b EXCEPT !.sbTodo = {}])
      BY <1>2 DEF HasRow, Job
    <2> DEFINE c == [b EXCEPT !.sbTodo = b.sbTodo \ {kind}]
    <2>2. HasRow(c) /\ c.pc = b.pc
      BY <1>2 DEF HasRow, Job
    <2>3. TearingDown(c)
      BY <1>14, <2>2 DEF TearingDown, TeardownCalls
    <2>4. QED BY <2>1, <2>2, <2>3, RemoveRowStage DEF LoopSb
  <1>15. CASE DeleteSb(j)
    <2>1. JobsOK'
      BY <1>14, <1>15, TearingDownOK, JobsStep DEF DeleteSb, At, Typed
    <2>2. QED
      BY <1>15, <2>1 DEF DeleteSb, Typed, TypeOK, JobsOK, history, budgets
  <1>16. CASE DeleteSbFails(j)
    <2>1. JobsOK'
      BY <1>14, <1>16, TearingDownOK, JobsStep DEF DeleteSbFails, At, Typed
    <2>2. QED
      BY <1>2, <1>16, <2>1, CallFailsTyped
         DEF DeleteSbFails, Typed, TypeOK, JobsOK, world, backoffice
  <1>17. CASE TeardownRaises(j)
    <2>1. HasRow([b EXCEPT !.ok = FALSE])
      BY <1>2 DEF HasRow, Job
    <2>2. JobsOK'
      BY <1>17, <2>1, RemoveRowStage, TearingDownOK, JobsStep
         DEF TeardownRaises, Aborted, Typed
    <2>3. QED
      BY <1>2, <1>17, <2>2, CallFailsTyped
         DEF TeardownRaises, Typed, TypeOK, JobsOK, world, backoffice
  <1>18. CASE RemoveRow(j)
    <2> DEFINE c == [b EXCEPT !.pc = "next", !.sid = Null, !.rec = Null,
                              !.torn = b.torn \/ b.ok]
    <2>1. c \in Job /\ c.pc = "next"
      BY <1>2 DEF Job, PCs
    <2>2. JobInv(c)
      BY <2>1 DEF JobInv, Working, TeardownCalls, CreateCalls
    <2>3. Becomes(j, IdleJob) \/ Becomes(j, c)
      BY <1>18 DEF RemoveRow
    <2>4. JobsOK'
      BY <2>1, <2>2, <2>3, IdleOK, JobsStep DEF Typed
    <2>5. QED
      BY <1>2, <1>18, <2>4
         DEF RemoveRow, Typed, TypeOK, JobsOK, world, backoffice, history, budgets
  <1>19. QED
    BY <1>4, <1>5, <1>6, <1>7, <1>8, <1>10, <1>11, <1>12, <1>13, <1>15, <1>16, <1>17, <1>18
       DEF TeardownStep

LEMMA TeardownAllTyped == ASSUME Typed, NEW j \in Jobs, TeardownAllStep(j) PROVE Typed'
  <1> DEFINE b == jobs[j]
  <1>1. b \in Job
    BY DEF Typed, JobsOK
  <1>2. CASE TakeNext(j)
    <2>1. PICK e \in b.queue :
            Becomes(j, ToRestore([b EXCEPT !.sid = e.sid, !.rec = e.row,
                                           !.queue = @ \ {e}, !.ok = TRUE]))
      BY <1>2 DEF TakeNext
    <2> DEFINE c == [b EXCEPT !.sid = e.sid, !.rec = e.row, !.queue = @ \ {e}, !.ok = TRUE]
    <2>2. e \in Entry /\ e.sid \in Scenarios /\ e.row \in Row
      BY <1>1, <2>1 DEF Job, Entry
    <2>3. HasRow(c)
      BY <1>1, <2>2 DEF HasRow, Job
    <2>4. JobsOK'
      BY <2>1, <2>3, RestoreStage, TearingDownOK, JobsStep DEF Typed
    <2>5. QED
      BY <1>2, <2>4
         DEF TakeNext, Typed, TypeOK, JobsOK, world, backoffice, history, budgets
  <1>3. CASE QueueDone(j)
    <2> DEFINE c == [b EXCEPT !.pc = "sweep"]
    <2>1. c \in Job /\ c.pc = "sweep"
      BY <1>1 DEF Job, PCs
    <2>2. JobInv(c)
      BY <2>1 DEF JobInv, Working, TeardownCalls, CreateCalls
    <2>3. JobsOK'
      BY <1>3, <2>1, <2>2, IdleOK, JobsStep DEF QueueDone, Typed
    <2>4. QED
      BY <1>3, <2>3
         DEF QueueDone, Typed, TypeOK, JobsOK, world, backoffice, history, budgets
  <1>4. CASE Sweep(j)
    <2>1. JobsOK'
      BY <1>4, IdleOK, JobsStep DEF Sweep, Typed
    <2>2. QED
      BY <1>4, <2>1 DEF Sweep, Typed, TypeOK, JobsOK, backoffice, history, budgets
  <1>5. CASE SweepFails(j)
    <2>1. JobsOK'
      BY <1>5, IdleOK, JobsStep DEF SweepFails, Typed
    <2>2. failures' \in 0..MaxFailures
      BY <1>5, ConstantsAssumption DEF SweepFails, Typed, TypeOK
    <2>3. QED
      BY <1>5, <2>1, <2>2 DEF SweepFails, Typed, TypeOK, JobsOK, world, backoffice, history
  <1>6. QED BY <1>2, <1>3, <1>4, <1>5 DEF TeardownAllStep

LEMMA CrashTyped == ASSUME Typed, Crash PROVE Typed'
  <1>1. JobsOK'
    BY IdleOK DEF Crash, JobsOK
  <1>2. killed' \in SUBSET Scenarios
    BY DEF Crash, Sids, Typed, TypeOK, JobsOK, Job, Entry
  <1>3. crashes' \in 0..MaxCrashes
    BY ConstantsAssumption DEF Crash, Typed, TypeOK
  <1>4. QED
    BY <1>1, <1>2, <1>3 DEF Crash, Typed, TypeOK, JobsOK, world, backoffice

LEMMA NextTyped == Typed /\ [Next]_vars => Typed'
  <1> SUFFICES ASSUME Typed, [Next]_vars PROVE Typed'
    OBVIOUS
  <1>1. CASE UNCHANGED vars
    BY <1>1 DEF vars, Typed, TypeOK, JobsOK, world, backoffice, history, budgets
  <1>2. ASSUME NEW j \in Jobs, Step(j) PROVE Typed'
    BY <1>2, LoadTyped, FinishTyped, CreateTyped, RefreshTyped, TeardownTyped,
       TeardownAllTyped DEF Step
  <1>3. QED
    BY <1>1, <1>2, AskTyped, CrashTyped DEF Next

\* Every state is well typed, and every task has the row and the stage it needs,
\* whatever the constants, the failures and the crashes.
THEOREM TypeCorrect == Spec => []TypeOK
  <1>1. Spec => []Typed
    BY InitTyped, NextTyped, PTL DEF Spec
  <1>2. Typed => TypeOK
    BY DEF Typed
  <1>3. QED BY <1>1, <1>2, PTL

-----------------------------------------------------------------------------
(***************************************************************************)
(* The argument for ExistingKeyLostOnlyByRefresh.  An apiKey is deleted by *)
(* a teardown whose copy of the row names it and does not say that it is   *)
(* external.  Copies of a row live in the collection, in the tasks and in  *)
(* the list a teardown of everything read, and any of them may be written  *)
(* back later, so the invariant speaks of all of them: a copy that names   *)
(* an existing apiKey names the one the scenario asked for, and calls it   *)
(* external unless a refresh has rewritten the row.                        *)
(***************************************************************************)
Bound(s, row, ask, ref) ==
    /\ row.req = ask[s]
    /\ row.assets.key \in ExistingKeys => /\ row.assets.key = row.req.key
                                          /\ row.assets.ext \/ s \in ref

\* The bundle a create or a refresh is filling.
OutOK(b) == b.out.key \in ExistingKeys => /\ b.out.key = b.rec.req.key
                                          /\ b.out.ext \/ b.kind = "refresh"

JobBound(b, ask, ref) ==
    /\ Working(b) => Bound(b.sid, b.rec, ask, ref)
    /\ b.pc \in CreateCalls \cup {"finish", "reregister"} => OutOK(b)
    /\ b.pc = "load" => b.out.key = NoKey
    /\ \A e \in b.queue : Bound(e.sid, e.row, ask, ref)

RowsBound == \A s \in Scenarios : rows[s] # Null => Bound(s, rows[s], asked, refreshed)
JobsBound == \A j \in Jobs : JobBound(jobs[j], asked, refreshed)
KeyInv == Typed /\ RowsBound /\ JobsBound /\ ExistingKeyLostOnlyByRefresh

\* What no step undoes: the request an id was created with, and a refresh.
Kept(ask, ask2, ref, ref2) ==
    /\ \A s \in Scenarios : ask[s] \in Request => ask2[s] = ask[s]
    /\ ref \subseteq ref2

LEMMA BoundKept ==
    ASSUME NEW s \in Scenarios, NEW row \in Row, NEW ask, NEW ask2, NEW ref, NEW ref2,
           Kept(ask, ask2, ref, ref2), Bound(s, row, ask, ref)
    PROVE  Bound(s, row, ask2, ref2)
  BY RowFields DEF Kept, Bound

LEMMA JobBoundKept ==
    ASSUME NEW b \in Job, JobInv(b), NEW ask, NEW ask2, NEW ref, NEW ref2,
           Kept(ask, ask2, ref, ref2), JobBound(b, ask, ref)
    PROVE  JobBound(b, ask2, ref2)
  <1>1. Working(b) => Bound(b.sid, b.rec, ask2, ref2)
    BY BoundKept DEF JobBound, JobInv, HasRow
  <1>2. ASSUME NEW e \in b.queue PROVE Bound(e.sid, e.row, ask2, ref2)
    <2>1. e.sid \in Scenarios /\ e.row \in Row
      BY DEF Job, Entry
    <2>2. QED BY <2>1, BoundKept DEF JobBound
  <1>3. QED BY <1>1, <1>2 DEF JobBound

\* A task that keeps its row, its list and the claims of its bundle.
LEMMA SameClaims ==
    ASSUME NEW b, Working(b), NEW ask, NEW ref, JobBound(b, ask, ref),
           NEW c, c.kind = b.kind, c.sid = b.sid, c.rec = b.rec, c.queue = b.queue,
           c.pc # "load",
           OutOK(c) \/ c.pc \in TeardownCalls \cup {"removeRow"}
    PROVE  JobBound(c, ask, ref)
  BY DEF JobBound, TeardownCalls, CreateCalls

LEMMA IdleBound == ASSUME NEW ask, NEW ref PROVE JobBound(IdleJob, ask, ref)
  BY DEF JobBound, IdleJob, Working, CreateCalls

\* A step that changes one task, to one that is bound, and leaves asked,
\* refreshed and the existing apiKeys alone.
LEMMA OneTask ==
    ASSUME KeyInv, NEW j \in Jobs, NEW b, Becomes(j, b), JobBound(b, asked, refreshed),
           UNCHANGED <<rows, asked, refreshed>>
    PROVE  RowsBound' /\ JobsBound'
  BY DEF KeyInv, RowsBound, JobsBound, Becomes, Typed, JobsOK

LEMMA LostKept ==
    ASSUME KeyInv, Kept(asked, asked', refreshed, refreshed'), liveKeys \subseteq liveKeys'
    PROVE  ExistingKeyLostOnlyByRefresh'
  <1> SUFFICES ASSUME NEW k \in ExistingKeys \ liveKeys'
               PROVE  \E s \in refreshed' : asked'[s] # Null /\ asked'[s].key = k
    BY DEF ExistingKeyLostOnlyByRefresh
  <1>1. PICK s \in refreshed : asked[s] # Null /\ asked[s].key = k
    BY DEF KeyInv, ExistingKeyLostOnlyByRefresh
  <1>2. s \in refreshed' /\ asked'[s] = asked[s]
    BY <1>1 DEF Kept, KeyInv, Typed, TypeOK
  <1>3. QED BY <1>1, <1>2

LEMMA InitKey == Init => KeyInv
  <1> SUFFICES ASSUME Init PROVE KeyInv
    OBVIOUS
  <1>1. RowsBound /\ JobsBound
    BY IdleBound DEF Init, RowsBound, JobsBound
  <1>2. QED
    BY <1>1, InitTyped DEF KeyInv, Init, ExistingKeyLostOnlyByRefresh

\* A step of task j after which it claims no more than before.
LEMMA StepKept ==
    ASSUME KeyInv, NEW j \in Jobs, NEW b, Becomes(j, b), JobBound(b, asked, refreshed),
           UNCHANGED <<rows, asked, refreshed>>, liveKeys \subseteq liveKeys', Typed'
    PROVE  KeyInv'
  BY OneTask, LostKept DEF KeyInv, Kept

LEMMA AskKey == ASSUME KeyInv, Ask PROVE KeyInv'
  <1>1. Typed'
    BY AskTyped DEF KeyInv
  <1>2. ASSUME NEW kind, NEW s, NEW ask, NEW ref
        PROVE  JobBound([IdleJob EXCEPT !.kind = kind, !.pc = "load", !.sid = s], ask, ref)
    BY DEF JobBound, IdleJob, NoAssets, Working, CreateCalls
  <1>3. ASSUME NEW s \in Scenarios, Submit(s) PROVE KeyInv'
    <2>1. PICK req \in RequestsOf[s] :
            /\ rows' = [rows EXCEPT ![s] = [req |-> req, status |-> "PENDING",
                                            assets |-> NoAssets]]
            /\ asked' = [asked EXCEPT ![s] = req]
      BY <1>3 DEF Submit
    <2>2. Kept(asked, asked', refreshed, refreshed')
      BY <1>3, <2>1, ConstantsAssumption DEF Submit, Kept, KeyInv, Typed, TypeOK
    <2>3. Bound(s, [req |-> req, status |-> "PENDING", assets |-> NoAssets], asked', refreshed')
      BY <2>1, ConstantsAssumption DEF Bound, NoAssets, Keys, KeyInv, Typed, TypeOK
    <2>4. RowsBound'
      <3>1. ASSUME NEW t \in Scenarios, t # s, rows'[t] # Null
            PROVE  Bound(t, rows'[t], asked', refreshed')
        BY <2>1, <2>2, <3>1, BoundKept DEF KeyInv, RowsBound, Typed, TypeOK
      <3>2. rows'[s] = [req |-> req, status |-> "PENDING", assets |-> NoAssets]
        BY <2>1 DEF KeyInv, Typed, TypeOK
      <3>3. QED BY <2>3, <3>1, <3>2 DEF RowsBound
    <2>5. PICK j \in Jobs : Becomes(j, [IdleJob EXCEPT !.kind = "create", !.pc = "load", !.sid = s])
      BY <1>3 DEF Submit, Spawn
    <2>6. JobsBound'
      <3>1. ASSUME NEW i \in Jobs, i # j PROVE JobBound(jobs'[i], asked', refreshed')
        <4>1. jobs'[i] = jobs[i] /\ jobs[i] \in Job /\ JobInv(jobs[i])
              /\ JobBound(jobs[i], asked, refreshed)
          BY <2>5, <3>1 DEF Becomes, KeyInv, JobsBound, Typed, JobsOK
        <4>2. QED BY <2>2, <4>1, JobBoundKept
      <3>2. jobs'[j] = [IdleJob EXCEPT !.kind = "create", !.pc = "load", !.sid = s]
        BY <2>5 DEF Becomes, KeyInv, Typed, JobsOK
      <3>3. JobBound(jobs'[j], asked', refreshed')
        BY <3>2 DEF JobBound, IdleJob, NoAssets, Working, CreateCalls
      <3>4. QED BY <3>1, <3>3 DEF JobsBound
    <2>7. QED
      BY <1>1, <1>3, <2>2, <2>4, <2>6, LostKept DEF KeyInv, Submit, world, backoffice
  <1>4. ASSUME NEW s \in Scenarios, NEW kind, Spawn(kind, s),
               UNCHANGED <<rows, world, history, budgets>>
        PROVE  KeyInv'
    BY <1>1, <1>2, <1>4, StepKept DEF Spawn, world, backoffice, history
  <1>5. ASSUME NEW e \in Envs, AskTeardownAll(e) PROVE KeyInv'
    <2> DEFINE c == [IdleJob EXCEPT !.kind = "teardown_all", !.pc = "load", !.env = e]
    <2>1. JobBound(c, asked, refreshed)
      BY DEF JobBound, IdleJob, NoAssets, Working, CreateCalls
    <2>2. QED
      BY <1>1, <1>5, <2>1, StepKept DEF AskTeardownAll, world, backoffice, history
  <1>6. QED
    BY <1>3, <1>4, <1>5 DEF Ask, AskRefresh, AskTeardown

LEMMA LoadKey == ASSUME KeyInv, NEW j \in Jobs, Load(j) PROVE KeyInv'
  <1> DEFINE b == jobs[j]
             row == rows[b.sid]
  <1>1. Typed' /\ b \in Job /\ JobInv(b) /\ b.pc = "load" /\ JobBound(b, asked, refreshed)
    BY LoadTyped DEF KeyInv, Typed, JobsOK, JobsBound, Load, At
  <1>2. UNCHANGED <<rows, asked, refreshed>> /\ liveKeys \subseteq liveKeys'
    BY DEF Load, world, backoffice, history
  <1>3. ASSUME b.kind # "teardown_all", StillWanted(b.kind, row)
        PROVE  /\ row \in Row /\ b.sid \in Scenarios
               /\ Bound(b.sid, row, asked, refreshed) /\ row.assets \in Assets
    BY <1>1, <1>3, RowFields DEF KeyInv, RowsBound, Typed, TypeOK, JobInv, StillWanted
  <1>4. CASE Becomes(j, IdleJob)
    BY <1>1, <1>2, <1>4, IdleBound, StepKept
  <1>5. CASE Becomes(j, [b EXCEPT !.pc = "next", !.queue = Tearable(b.env)])
    <2> DEFINE c == [b EXCEPT !.pc = "next", !.queue = Tearable(b.env)]
    <2>1. \A e \in Tearable(b.env) : Bound(e.sid, e.row, asked, refreshed)
      BY DEF KeyInv, RowsBound, Tearable
    <2>2. c.pc = "next" /\ c.queue = Tearable(b.env)
      BY <1>1 DEF Job
    <2>3. JobBound(c, asked, refreshed)
      BY <2>1, <2>2 DEF JobBound, Working, CreateCalls
    <2>4. QED BY <1>1, <1>2, <1>5, <2>3, StepKept
  <1>6. CASE /\ b.kind = "create" /\ StillWanted(b.kind, row)
             /\ Becomes(j, [b EXCEPT !.pc = "register", !.rec = row,
                                     !.todo = row.req.suppliers])
    <2> DEFINE c == [b EXCEPT !.pc = "register", !.rec = row, !.todo = row.req.suppliers]
    <2>1. c.pc = "register" /\ c.rec = row /\ c.sid = b.sid /\ c.out = b.out /\ c.queue = b.queue
      BY <1>1 DEF Job
    <2>2. JobBound(c, asked, refreshed)
      BY <1>1, <1>3, <1>6, <2>1, ConstantsAssumption DEF JobBound, OutOK, Keys
    <2>3. QED BY <1>1, <1>2, <1>6, <2>2, StepKept
  <1>7. CASE /\ b.kind = "refresh" /\ StillWanted(b.kind, row)
             /\ Becomes(j, [b EXCEPT !.pc = "reregister", !.rec = row,
                                     !.todo = row.req.suppliers, !.out = RefreshBundle(row)])
    <2> DEFINE c == [b EXCEPT !.pc = "reregister", !.rec = row,
                              !.todo = row.req.suppliers, !.out = RefreshBundle(row)]
    <2>1. c.pc = "reregister" /\ c.rec = row /\ c.sid = b.sid /\ c.kind = "refresh"
          /\ c.out = RefreshBundle(row) /\ c.queue = b.queue
      BY <1>1, <1>7 DEF Job
    <2>2. RefreshBundle(row).key = row.assets.key
      BY DEF RefreshBundle, NoAssets
    <2>3. JobBound(c, asked, refreshed)
      BY <1>1, <1>3, <1>7, <2>1, <2>2 DEF JobBound, OutOK, Bound
    <2>4. QED BY <1>1, <1>2, <1>7, <2>3, StepKept
  <1>8. CASE /\ b.kind = "teardown" /\ StillWanted(b.kind, row)
             /\ Becomes(j, ToRestore([b EXCEPT !.rec = row]))
    <2> DEFINE c == [b EXCEPT !.rec = row]
    <2>1. HasRow(c) /\ c.rec = row /\ c.sid = b.sid /\ c.queue = b.queue
      BY <1>1, <1>3, <1>8 DEF HasRow, Job
    <2>2. SameTask(c, ToRestore(c)) /\ TearingDown(ToRestore(c))
      BY <2>1, RestoreStage
    <2>3. JobBound(ToRestore(c), asked, refreshed)
      BY <1>1, <1>3, <1>8, <2>1, <2>2
         DEF JobBound, SameTask, TearingDown, TeardownCalls, CreateCalls
    <2>4. QED BY <1>1, <1>2, <1>8, <2>3, StepKept
  <1>9. QED BY <1>4, <1>5, <1>6, <1>7, <1>8 DEF Load

\* A row that is saved is bound; the others stay as they are.
LEMMA SavedBound ==
    ASSUME KeyInv, NEW s \in Scenarios, NEW row \in Row, rows' = Saved(s, row),
           Kept(asked, asked', refreshed, refreshed'), Bound(s, row, asked', refreshed')
    PROVE  RowsBound'
  <1>1. ASSUME NEW t \in Scenarios, rows'[t] # Null
        PROVE  Bound(t, rows'[t], asked', refreshed')
    <2>1. CASE rows'[t] = rows[t]
      BY <1>1, <2>1, BoundKept DEF KeyInv, RowsBound, Typed, TypeOK
    <2>2. CASE rows'[t] # rows[t]
      BY <2>2 DEF Saved, KeyInv, Typed, TypeOK
    <2>3. QED BY <2>1, <2>2
  <1>2. QED BY <1>1 DEF RowsBound

\* A task that ends after saving a row.
LEMMA EndKept ==
    ASSUME KeyInv, Typed', NEW j \in Jobs, Becomes(j, IdleJob), RowsBound',
           Kept(asked, asked', refreshed, refreshed'), UNCHANGED liveKeys
    PROVE  KeyInv'
  <1>1. ASSUME NEW i \in Jobs PROVE JobBound(jobs'[i], asked', refreshed')
    <2>1. CASE i = j
      BY <2>1, IdleBound DEF Becomes, KeyInv, Typed, JobsOK
    <2>2. CASE i # j
      <3>1. jobs'[i] = jobs[i] /\ jobs[i] \in Job /\ JobInv(jobs[i])
            /\ JobBound(jobs[i], asked, refreshed)
        BY <2>2 DEF Becomes, KeyInv, JobsBound, Typed, JobsOK
      <3>2. QED BY <3>1, JobBoundKept
    <2>3. QED BY <2>1, <2>2
  <1>2. JobsBound'
    BY <1>1 DEF JobsBound
  <1>3. QED BY <1>2, LostKept DEF KeyInv

LEMMA FinishKey == ASSUME KeyInv, NEW j \in Jobs, Finish(j) PROVE KeyInv'
  <1> DEFINE b == jobs[j]
  <1>1. Working(b) /\ b.pc = "finish"
    BY DEF Finish, At, Working
  <1>2. /\ HasRow(b) /\ b.out \in Assets /\ b.rec \in Row /\ b.sid \in Scenarios
        /\ Bound(b.sid, b.rec, asked, refreshed) /\ OutOK(b)
    BY <1>1, AtWork DEF KeyInv, JobsBound, JobBound, HasRow
  <1>3. Kept(asked, asked', refreshed, refreshed')
    BY DEF Finish, Kept
  <1> DEFINE row == ApplyBundle(b.rec, b.out)
  <1>4. row \in Row /\ row.req = b.rec.req /\ row.assets.key = b.out.key
        /\ row.assets.ext = b.out.ext
    BY <1>2, ApplyBundleType DEF ApplyBundle, Row, Assets
  <1>5. Bound(b.sid, row, asked', refreshed')
    BY <1>2, <1>4 DEF Finish, Bound, OutOK
  <1>6. RowsBound'
    BY <1>2, <1>3, <1>4, <1>5, SavedBound DEF Finish
  <1>7. QED
    BY <1>3, <1>6, FinishTyped, EndKept DEF Finish, KeyInv, world, backoffice

\* A task that goes on with the same row and list, and claims no apiKey it may
\* not claim.
Onward(b, c) ==
    /\ c.kind = b.kind /\ c.sid = b.sid /\ c.rec = b.rec /\ c.queue = b.queue
    /\ c.pc # "load"
    /\ OutOK(c) \/ c.pc \in TeardownCalls \cup {"removeRow"}

LEMMA OnwardKept ==
    ASSUME KeyInv, NEW j \in Jobs, Working(jobs[j]), NEW c, Becomes(j, c), Onward(jobs[j], c),
           UNCHANGED <<rows, asked, refreshed>>, liveKeys \subseteq liveKeys', Typed'
    PROVE  KeyInv'
  <1>1. JobBound(jobs[j], asked, refreshed)
    BY DEF KeyInv, JobsBound
  <1>2. JobBound(c, asked, refreshed)
    BY <1>1, SameClaims DEF Onward
  <1>3. QED BY <1>2, StepKept

LEMMA CreatingOnward ==
    ASSUME NEW b, OutOK(b), NEW c, SameTask(b, c), Creating(c)
    PROVE  Onward(b, c)
  BY DEF OutOK, SameTask, Creating, CreateCalls, Onward

LEMMA TearingDownOnward ==
    ASSUME NEW b, NEW c, SameTask(b, c), TearingDown(c)
    PROVE  Onward(b, c)
  BY DEF SameTask, TearingDown, TeardownCalls, Onward

LEMMA LoopOnward ==
    ASSUME NEW b \in Job, OutOK(b) \/ b.pc \in TeardownCalls, b.pc # "load", NEW p,
           NEW done, Onward(b, done)
    PROVE  Onward(b, Loop(b, p, done))
  <1>1. CASE b.todo = {p}
    BY <1>1 DEF Loop
  <1>2. CASE b.todo # {p}
    <2> DEFINE c == [b EXCEPT !.todo = b.todo \ {p}]
    <2>1. Loop(b, p, done) = c
      BY <1>2 DEF Loop
    <2>2. SameTask(b, c) /\ c.pc = b.pc
      BY DEF Job, SameTask
    <2>3. QED BY <2>1, <2>2 DEF Onward, SameTask, OutOK
  <1>3. QED BY <1>1, <1>2

\* No step of a create claims an apiKey other than its own and the one it attached to.
LEMMA CreateKey == ASSUME KeyInv, NEW j \in Jobs, CreateStep(j) PROVE KeyInv'
  <1> DEFINE b == jobs[j]
  <1>1. /\ Typed /\ Typed' /\ UNCHANGED <<asked, refreshed>> /\ liveKeys \subseteq liveKeys'
    <2>1. liveKeys \subseteq liveKeys'
      BY DEF CreateStep, Register, PrebookGet, PrebookPut, CreateContract, CreateSbGroup,
             CreateSbConfig, CreateApiKey, AttachGet, ReadApiKey, AttachPut, ClearCache,
             ProvisionBr, CreateRaises, world, backoffice
    <2>2. UNCHANGED <<asked, refreshed>>
      BY DEF CreateStep, Register, PrebookGet, PrebookPut, CreateContract, CreateSbGroup,
             CreateSbConfig, CreateApiKey, AttachGet, ReadApiKey, AttachPut, ClearCache,
             ProvisionBr, CreateRaises, CallFails, history
    <2>3. QED BY <2>1, <2>2, CreateTyped DEF KeyInv
  <1>2. b.pc \in CreateCalls /\ Working(b)
    BY DEF CreateStep, Register, PrebookGet, PrebookPut, CreateContract, CreateSbGroup,
           CreateSbConfig, CreateApiKey, AttachGet, ReadApiKey, AttachPut, ClearCache,
           ProvisionBr, CreateRaises, At, CreateCalls, Working
  <1>3. HasRow(b) /\ b \in Job /\ b.out \in Assets /\ OutOK(b)
    BY <1>1, <1>2, AtWork DEF KeyInv, JobsBound, JobBound, HasRow
  <1>4. ASSUME NEW o, o.key = b.out.key, o.ext = b.out.ext,
               NEW c, c.kind = b.kind, c.sid = b.sid, c.rec = b.rec, c.queue = b.queue,
               c.out = o, c.pc # "load"
        PROVE  Onward(b, c)
    BY <1>3, <1>4 DEF OutOK, Onward
  <1>5. CASE Register(j)
    BY <1>1, <1>2, <1>3, <1>5, PrebookStage, CreatingOnward, LoopOnward, OnwardKept
       DEF Register, CreateCalls
  <1>6. CASE PrebookGet(j)
    <2>1. PICK p \in b.todo :
            Becomes(j, [b EXCEPT !.pc = "prebookPut",
                                 !.out.restore[p] = prebooking[<<b.rec.req.env, p>>]])
      BY <1>6 DEF PrebookGet
    <2> DEFINE c == [b EXCEPT !.pc = "prebookPut",
                              !.out.restore[p] = prebooking[<<b.rec.req.env, p>>]]
    <2>2. c.out.key = b.out.key /\ c.out.ext = b.out.ext
      BY <1>3 DEF Job, Assets
    <2>3. c.kind = b.kind /\ c.sid = b.sid /\ c.rec = b.rec /\ c.queue = b.queue
          /\ c.pc = "prebookPut"
      BY <1>3 DEF Job
    <2>4. Onward(b, c)
      BY <1>4, <2>2, <2>3
    <2>5. QED
      BY <1>1, <1>2, <1>6, <2>1, <2>4, OnwardKept DEF PrebookGet
  <1>7. CASE PrebookPut(j)
    <2> DEFINE c == [b EXCEPT !.pc = "prebookGet"]
    <2>1. c \in Job /\ SameTask(b, c) /\ c.pc = "prebookGet" /\ HasRow(c)
      BY <1>3 DEF HasRow, Job, PCs, CreateCalls, SameTask
    <2>2. OutOK(c)
      BY <1>3, <2>1 DEF OutOK, SameTask
    <2>3. \A p : Onward(c, Loop(c, p, ToContracts(b)))
      <3>1. Onward(b, ToContracts(b))
        BY <1>3, ContractsStage, CreatingOnward
      <3>2. Onward(c, ToContracts(b))
        BY <2>1, <3>1 DEF Onward, SameTask
      <3>3. QED BY <2>1, <2>2, <3>2, LoopOnward
    <2>4. \A p : Onward(b, Loop(c, p, ToContracts(b)))
      BY <2>1, <2>3 DEF Onward, SameTask
    <2>5. QED
      BY <1>1, <1>2, <1>7, <2>4, OnwardKept DEF PrebookPut
  <1>8. CASE CreateContract(j)
    <2>1. PICK p \in b.todo :
            /\ LET c == [b EXCEPT !.out.contracts = @ \cup {p}]
               IN Becomes(j, Loop(c, p, ToSb(c)))
      BY <1>8 DEF CreateContract
    <2> DEFINE o == [b.out EXCEPT !.contracts = b.out.contracts \cup {p}]
               c == [b EXCEPT !.out = o]
    <2>2. o \in Assets /\ o.key = b.out.key /\ o.ext = b.out.ext
      <3>1. p \in Suppliers
        BY <1>3 DEF Job
      <3>2. QED BY <1>3, <3>1 DEF Assets
    <2>3. c = [b EXCEPT !.out.contracts = @ \cup {p}]
      BY <1>3 DEF Job, Assets
    <2>4. c \in Job /\ HasRow(c) /\ c.pc = "contracts"
          /\ c.kind = b.kind /\ c.sid = b.sid /\ c.rec = b.rec /\ c.queue = b.queue /\ c.out = o
      BY <1>3, <1>8, <2>2 DEF CreateContract, At, HasRow, Job
    <2>5. OutOK(c)
      BY <1>3, <2>2, <2>4 DEF OutOK
    <2>6. Onward(c, Loop(c, p, ToSb(c)))
      BY <2>4, <2>5, SbStage, CreatingOnward, LoopOnward
    <2>7. Onward(b, Loop(c, p, ToSb(c)))
      BY <2>4, <2>6 DEF Onward
    <2>8. QED
      BY <1>1, <1>2, <1>8, <2>1, <2>3, <2>7, OnwardKept DEF CreateContract
  <1>9. CASE CreateSbGroup(j)
    <2> DEFINE c == [b EXCEPT !.pc = "sbConfig", !.out.sb = @ \cup {"group"}]
    <2>1. c.out.key = b.out.key /\ c.out.ext = b.out.ext
      BY <1>3 DEF Job, Assets
    <2>2. c.kind = b.kind /\ c.sid = b.sid /\ c.rec = b.rec /\ c.queue = b.queue
          /\ c.pc = "sbConfig"
      BY <1>3 DEF Job
    <2>3. Onward(b, c)
      BY <1>4, <2>1, <2>2
    <2>4. QED
      BY <1>1, <1>2, <1>9, <2>3, OnwardKept DEF CreateSbGroup
  <1>10. CASE CreateSbConfig(j)
    <2> DEFINE o == [b.out EXCEPT !.sb = b.out.sb \cup {"config"}]
               c == [b EXCEPT !.out = o]
    <2>1. o \in Assets /\ o.key = b.out.key /\ o.ext = b.out.ext
      BY <1>3 DEF Assets, SbKinds
    <2>2. HasRow(c) /\ c = [b EXCEPT !.out.sb = @ \cup {"config"}]
      BY <1>3, <2>1 DEF HasRow, Job, Assets
    <2>3. c.kind = b.kind /\ c.sid = b.sid /\ c.rec = b.rec /\ c.queue = b.queue /\ c.out = o
      BY <1>3 DEF Job
    <2>4. OutOK(c)
      BY <1>3, <2>1, <2>3 DEF OutOK
    <2>5. Onward(b, ToKey(c))
      <3>1. Onward(c, ToKey(c))
        BY <2>2, <2>4, KeyStage, CreatingOnward
      <3>2. QED BY <2>3, <3>1 DEF Onward
    <2>6. QED
      BY <1>1, <1>2, <1>10, <2>2, <2>5, OnwardKept DEF CreateSbConfig
  <1>11. CASE CreateApiKey(j)
    <2> DEFINE c == [b EXCEPT !.pc = "clearCache", !.out.key = b.sid]
    <2>1. c.out.key = b.sid
      BY <1>3 DEF Job, Assets
    <2>2. c.kind = b.kind /\ c.sid = b.sid /\ c.rec = b.rec /\ c.queue = b.queue
          /\ c.pc = "clearCache"
      BY <1>3 DEF Job
    <2>3. b.sid \notin ExistingKeys
      BY <1>3, ConstantsAssumption DEF HasRow
    <2>4. Onward(b, c)
      BY <2>1, <2>2, <2>3 DEF Onward, OutOK
    <2>5. QED
      BY <1>1, <1>2, <1>11, <2>4, OnwardKept DEF CreateApiKey
  <1>12. CASE AttachGet(j)
    <2> DEFINE c == [b EXCEPT !.pc = "attachPut", !.seen = keyRefs[b.rec.req.key]]
    <2>1. c.kind = b.kind /\ c.sid = b.sid /\ c.rec = b.rec /\ c.queue = b.queue
          /\ c.pc = "attachPut" /\ c.out = b.out
      BY <1>3 DEF Job
    <2>2. Onward(b, c)
      BY <1>4, <2>1
    <2>3. QED
      BY <1>1, <1>2, <1>12, <2>2, OnwardKept DEF AttachGet, ReadApiKey
  <1>13. CASE AttachPut(j)
    <2> DEFINE k == b.rec.req.key
               c == [b EXCEPT !.pc = "clearCache", !.seen = {}, !.out.key = k, !.out.ext = TRUE]
    <2>1. c.out.key = k /\ c.out.ext
      BY <1>3 DEF Job, Assets
    <2>2. c.kind = b.kind /\ c.sid = b.sid /\ c.rec = b.rec /\ c.queue = b.queue
          /\ c.pc = "clearCache"
      BY <1>3 DEF Job
    <2>3. Onward(b, c)
      BY <2>1, <2>2 DEF Onward, OutOK
    <2>4. QED
      BY <1>1, <1>2, <1>13, <2>3, OnwardKept DEF AttachPut
  <1>14. CASE ClearCache(j)
    BY <1>1, <1>2, <1>3, <1>14, BrStage, CreatingOnward, OnwardKept DEF ClearCache
  <1>15. CASE ProvisionBr(j)
    <2> DEFINE c == [b EXCEPT !.pc = "finish", !.out.br = TRUE]
    <2>1. c.out.key = b.out.key /\ c.out.ext = b.out.ext
      BY <1>3 DEF Job, Assets
    <2>2. c.kind = b.kind /\ c.sid = b.sid /\ c.rec = b.rec /\ c.queue = b.queue
          /\ c.pc = "finish"
      BY <1>3 DEF Job
    <2>3. Onward(b, c)
      BY <1>4, <2>1, <2>2
    <2>4. QED
      BY <1>1, <1>2, <1>15, <2>3, OnwardKept DEF ProvisionBr
  <1>16. CASE CreateRaises(j)
    <2>1. Bound(b.sid, b.rec, asked, refreshed)
      BY <1>2 DEF KeyInv, JobsBound, JobBound
    <2>2. FailedRow(b.rec) \in Row /\ FailedRow(b.rec).req = b.rec.req
          /\ FailedRow(b.rec).assets = b.rec.assets
      BY <1>3, FailedRowType DEF FailedRow, HasRow, Row
    <2>3. Kept(asked, asked', refreshed, refreshed')
      BY <1>1 DEF Kept
    <2>4. Bound(b.sid, FailedRow(b.rec), asked', refreshed')
      BY <1>1, <2>1, <2>2 DEF Bound
    <2>5. RowsBound'
      BY <1>3, <1>16, <2>2, <2>3, <2>4, SavedBound DEF CreateRaises, HasRow
    <2>6. QED
      BY <1>1, <1>16, <2>3, <2>5, EndKept DEF CreateRaises, world, backoffice
  <1>17. QED
    BY <1>5, <1>6, <1>7, <1>8, <1>9, <1>10, <1>11, <1>12, <1>13, <1>14, <1>15, <1>16
       DEF CreateStep

\* A refresh drops the flag from its bundle; saving that bundle makes the scenario
\* a refreshed one in the same step.
LEMMA RefreshKey == ASSUME KeyInv, NEW j \in Jobs, RefreshStep(j) PROVE KeyInv'
  <1> DEFINE b == jobs[j]
  <1>1. b.pc = "reregister" /\ Working(b)
    BY DEF RefreshStep, Reregister, RefreshRaises, At, Working
  <1>2. HasRow(b) /\ b \in Job /\ OutOK(b) /\ Bound(b.sid, b.rec, asked, refreshed)
    BY <1>1, AtWork DEF KeyInv, JobsBound, JobBound, HasRow
  <1>3. Typed'
    BY RefreshTyped DEF KeyInv
  <1>4. CASE Reregister(j)
    <2> DEFINE c == [b EXCEPT !.pc = "finish", !.todo = {}]
    <2>1. SameTask(b, c) /\ c.pc = "finish"
      BY <1>2 DEF Job, SameTask
    <2>2. Onward(b, c)
      BY <1>2, <2>1 DEF Onward, SameTask, OutOK
    <2>3. \A p : Onward(b, Loop(b, p, c))
      BY <1>1, <1>2, <2>2, LoopOnward
    <2>4. QED
      BY <1>1, <1>3, <1>4, <2>3, OnwardKept DEF Reregister, backoffice, history
  <1>5. CASE RefreshRaises(j)
    <2>1. UNCHANGED <<asked, refreshed>>
      BY <1>5 DEF RefreshRaises, CallFails
    <2>2. Kept(asked, asked', refreshed, refreshed') /\ Bound(b.sid, b.rec, asked', refreshed')
      BY <1>2, <2>1 DEF Kept, Bound
    <2>3. RowsBound'
      BY <1>2, <1>5, <2>2, SavedBound DEF RefreshRaises, HasRow
    <2>4. QED
      BY <1>3, <1>5, <2>2, <2>3, EndKept DEF RefreshRaises, world, backoffice
  <1>6. QED BY <1>4, <1>5 DEF RefreshStep

\* The step that matters: a teardown deletes an existing apiKey only when its copy
\* of the row does not call it external, so the scenario was refreshed.
LEMMA DeleteApiKeyKey == ASSUME KeyInv, NEW j \in Jobs, DeleteApiKey(j) PROVE KeyInv'
  <1> DEFINE b == jobs[j]
  <1>1. Working(b) /\ b.pc = "deleteKey"
    BY DEF DeleteApiKey, At, Working
  <1>2. HasRow(b) /\ b \in Job /\ TearingDown(b) /\ Bound(b.sid, b.rec, asked, refreshed)
    BY <1>1, AtWork DEF KeyInv, JobsBound, JobBound, HasRow, JobInv, TeardownCalls
  <1>3. Typed'
    BY TeardownTyped DEF KeyInv, TeardownStep
  <1>4. UNCHANGED <<rows, asked, refreshed>> /\ Becomes(j, ToDeleteSb(b))
        /\ liveKeys' = liveKeys \ {b.rec.assets.key}
    BY DEF DeleteApiKey, history
  <1>5. RowsBound' /\ JobsBound'
    <2>1. Onward(b, ToDeleteSb(b))
      BY <1>2, DeleteSbStage, TearingDownOnward
    <2>2. JobBound(ToDeleteSb(b), asked, refreshed)
      BY <1>1, <2>1, SameClaims DEF Onward, KeyInv, JobsBound
    <2>3. QED BY <1>4, <2>2, OneTask
  <1>6. ExistingKeyLostOnlyByRefresh'
    <2> SUFFICES ASSUME NEW k \in ExistingKeys \ liveKeys'
                 PROVE  \E s \in refreshed' : asked'[s] # Null /\ asked'[s].key = k
      BY DEF ExistingKeyLostOnlyByRefresh
    <2>1. CASE k \notin liveKeys
      BY <1>4, <2>1 DEF KeyInv, ExistingKeyLostOnlyByRefresh
    <2>2. CASE k \in liveKeys
      <3>1. k = b.rec.assets.key
        BY <1>4, <2>2
      <3>2. ~b.rec.assets.ext
        BY <1>1, <1>2 DEF TearingDown
      <3>3. b.sid \in refreshed /\ b.rec.req = asked[b.sid] /\ b.rec.req.key = k
        BY <1>2, <3>1, <3>2 DEF Bound
      <3>4. asked[b.sid] # Null
        BY <1>2, <3>3, ConstantsAssumption, RowFields DEF HasRow
      <3>5. QED BY <1>4, <3>3, <3>4
    <2>3. QED BY <2>1, <2>2
  <1>7. QED BY <1>3, <1>5, <1>6 DEF KeyInv

LEMMA TeardownKey == ASSUME KeyInv, NEW j \in Jobs, TeardownStep(j) PROVE KeyInv'
  <1> DEFINE b == jobs[j]
  <1>1. Typed' /\ b.pc \in TeardownCalls \cup {"removeRow"}
    BY TeardownTyped
       DEF TeardownStep, RestorePrebooking, RestoreFails, CleanBr, Unmock, DetachGet,
           ReadApiKey, DetachPut, DetachFails, DeleteContract, DeleteApiKey, DeleteSb,
           DeleteSbFails, TeardownRaises, RemoveRow, At, KeyInv, TeardownCalls
  <1>2. Working(b) /\ b.pc # "load"
    BY <1>1 DEF Working, TeardownCalls
  <1>3. HasRow(b) /\ b \in Job /\ JobBound(b, asked, refreshed)
    BY <1>2, AtWork DEF KeyInv, JobsBound, HasRow
  <1>4. ASSUME NEW c, Onward(b, c), Becomes(j, c),
               UNCHANGED <<rows, asked, refreshed>>, liveKeys' = liveKeys
        PROVE  KeyInv'
    BY <1>1, <1>2, <1>4, OnwardKept
  <1>5. ASSUME NEW c, HasRow(c), SameTask(b, c)
        PROVE  /\ Onward(b, ToCleanBr(c)) /\ Onward(b, ToUnmock(c)) /\ Onward(b, ToDetach(c))
               /\ Onward(b, ToDeleteContracts(c)) /\ Onward(b, ToDeleteKey(c))
               /\ Onward(b, ToDeleteSb(c)) /\ Onward(b, ToRemoveRow(c))
    <2>1. \A d : SameTask(c, d) => SameTask(b, d)
      BY <1>5 DEF SameTask
    <2>2. QED
      BY <1>5, <2>1, CleanBrStage, UnmockStage, DetachStage, DeleteContractsStage,
         DeleteKeyStage, DeleteSbStage, RemoveRowStage, TearingDownOnward
  <1>6. SameTask(b, b) /\ \A p, c : b.pc \in TeardownCalls /\ Onward(b, c) => Onward(b, Loop(b, p, c))
    BY <1>2, <1>3, LoopOnward DEF SameTask
  <1>7. CASE RestorePrebooking(j) \/ RestoreFails(j)
    BY <1>3, <1>4, <1>5, <1>6, <1>7
       DEF RestorePrebooking, RestoreFails, CallFails, At, TeardownCalls, world, backoffice,
           history
  <1>8. CASE CleanBr(j)
    BY <1>3, <1>4, <1>5, <1>6, <1>8 DEF CleanBr, backoffice, history
  <1>9. CASE Unmock(j)
    BY <1>3, <1>4, <1>5, <1>6, <1>9 DEF Unmock, At, TeardownCalls, backoffice, history
  <1>10. CASE DetachGet(j)
    <2> DEFINE c == [b EXCEPT !.pc = "detachPut", !.seen = keyRefs[b.rec.req.key]]
    <2>1. SameTask(b, c) /\ c.pc = "detachPut"
      BY <1>3 DEF Job, SameTask
    <2>2. Onward(b, c)
      BY <2>1 DEF Onward, SameTask, TeardownCalls
    <2>3. QED
      BY <1>4, <1>10, <2>2 DEF DetachGet, ReadApiKey, world, backoffice, history
  <1>11. CASE DetachPut(j) \/ DetachFails(j)
    <2> DEFINE c == [b EXCEPT !.seen = {}]
    <2>1. HasRow(c) /\ SameTask(b, c)
      BY <1>3 DEF HasRow, Job, SameTask
    <2>2. Onward(b, ToDeleteContracts(c))
      BY <1>5, <2>1
    <2>3. QED
      BY <1>4, <1>11, <2>2
         DEF DetachPut, DetachFails, CallFails, world, backoffice, history
  <1>12. CASE DeleteContract(j)
    BY <1>3, <1>4, <1>5, <1>6, <1>12 DEF DeleteContract, At, TeardownCalls, history
  <1>13. CASE DeleteApiKey(j)
    BY <1>13, DeleteApiKeyKey
  <1>14. CASE DeleteSb(j) \/ DeleteSbFails(j)
    <2>1. ASSUME NEW kind PROVE Onward(b, LoopSb(b, kind))
      <3> DEFINE c == [b EXCEPT !.sbTodo = {}]
                 d == [b EXCEPT !.sbTodo = b.sbTodo \ {kind}]
      <3>1. HasRow(c) /\ SameTask(b, c)
        BY <1>3 DEF HasRow, Job, SameTask
      <3>2. SameTask(b, d) /\ d.pc = b.pc
        BY <1>3 DEF Job, SameTask
      <3>3. Onward(b, d)
        BY <1>1, <1>2, <3>2 DEF Onward, SameTask
      <3>4. Onward(b, ToRemoveRow(c))
        BY <1>5, <3>1
      <3>5. QED BY <3>3, <3>4 DEF LoopSb
    <2>2. QED
      BY <1>4, <1>14, <2>1 DEF DeleteSb, DeleteSbFails, CallFails, world, backoffice, history
  <1>15. CASE TeardownRaises(j)
    <2> DEFINE c == [b EXCEPT !.ok = FALSE]
    <2>1. HasRow(c) /\ c.kind = b.kind /\ c.sid = b.sid /\ c.rec = b.rec /\ c.queue = b.queue
      BY <1>3 DEF HasRow, Job
    <2>2. Onward(c, ToRemoveRow(c))
      BY <2>1, RemoveRowStage, TearingDownOnward
    <2>3. Onward(b, ToRemoveRow(c))
      BY <2>1, <2>2 DEF Onward
    <2>4. QED
      BY <1>4, <1>15, <2>3 DEF TeardownRaises, Aborted, CallFails, world, backoffice
  <1>16. CASE RemoveRow(j)
    <2> DEFINE c == [b EXCEPT !.pc = "next", !.sid = Null, !.rec = Null,
                              !.torn = @ \/ b.ok]
    <2>1. c.pc = "next" /\ c.queue = b.queue
      BY <1>3 DEF Job
    <2>2. JobBound(c, asked, refreshed)
      BY <1>3, <2>1 DEF JobBound, Working, CreateCalls
    <2>3. Becomes(j, IdleJob) \/ Becomes(j, c)
      BY <1>16 DEF RemoveRow
    <2>4. UNCHANGED <<asked, refreshed, liveKeys>> /\ rows' = [rows EXCEPT ![b.sid] = Null]
      BY <1>16 DEF RemoveRow, world, backoffice, history
    <2>5. RowsBound'
      BY <2>4 DEF KeyInv, RowsBound, Typed, TypeOK
    <2>6. JobsBound'
      BY <2>2, <2>3, <2>4, IdleBound DEF KeyInv, JobsBound, Becomes, Typed, JobsOK
    <2>7. QED
      BY <1>1, <2>4, <2>5, <2>6, LostKept DEF KeyInv, Kept
  <1>17. QED
    BY <1>7, <1>8, <1>9, <1>10, <1>11, <1>12, <1>13, <1>14, <1>15, <1>16 DEF TeardownStep

\* A row taken from a list is bound, however long ago it was listed.
LEMMA TeardownAllKey == ASSUME KeyInv, NEW j \in Jobs, TeardownAllStep(j) PROVE KeyInv'
  <1> DEFINE b == jobs[j]
  <1>1. Typed' /\ b \in Job /\ JobBound(b, asked, refreshed)
    BY TeardownAllTyped DEF KeyInv, Typed, JobsOK, JobsBound
  <1>2. UNCHANGED <<rows, asked, refreshed, liveKeys>>
    BY DEF TeardownAllStep, TakeNext, QueueDone, Sweep, SweepFails, world, backoffice, history
  <1>3. CASE TakeNext(j)
    <2>1. PICK e \in b.queue :
            Becomes(j, ToRestore([b EXCEPT !.sid = e.sid, !.rec = e.row,
                                           !.queue = @ \ {e}, !.ok = TRUE]))
      BY <1>3 DEF TakeNext
    <2> DEFINE c == [b EXCEPT !.sid = e.sid, !.rec = e.row, !.queue = @ \ {e}, !.ok = TRUE]
    <2>2. HasRow(c) /\ c.sid = e.sid /\ c.rec = e.row /\ c.queue \subseteq b.queue
      BY <1>1, <2>1 DEF HasRow, Job, Entry
    <2>3. SameTask(c, ToRestore(c)) /\ TearingDown(ToRestore(c))
      BY <2>2, RestoreStage
    <2>4. JobBound(ToRestore(c), asked, refreshed)
      BY <1>1, <2>1, <2>2, <2>3
         DEF JobBound, SameTask, TearingDown, TeardownCalls, CreateCalls
    <2>5. QED BY <1>1, <1>2, <2>1, <2>4, StepKept
  <1>4. CASE QueueDone(j)
    <2> DEFINE c == [b EXCEPT !.pc = "sweep"]
    <2>1. c.pc = "sweep" /\ c.queue = b.queue
      BY <1>1 DEF Job
    <2>2. JobBound(c, asked, refreshed)
      BY <1>1, <2>1 DEF JobBound, Working, CreateCalls
    <2>3. QED BY <1>1, <1>2, <1>4, <2>2, IdleBound, StepKept DEF QueueDone
  <1>5. CASE Sweep(j) \/ SweepFails(j)
    BY <1>1, <1>2, <1>5, IdleBound, StepKept DEF Sweep, SweepFails
  <1>6. QED BY <1>3, <1>4, <1>5 DEF TeardownAllStep

\* A crash loses the tasks, and with them only copies of rows.
LEMMA CrashKey == ASSUME KeyInv, Crash PROVE KeyInv'
  <1>1. Typed' /\ UNCHANGED <<rows, asked, refreshed, liveKeys>>
    BY CrashTyped DEF KeyInv, Crash, world, backoffice
  <1>2. RowsBound'
    BY <1>1 DEF KeyInv, RowsBound
  <1>3. JobsBound'
    BY IdleBound DEF JobsBound, Crash
  <1>4. QED BY <1>1, <1>2, <1>3, LostKept DEF KeyInv, Kept

LEMMA NextKey == KeyInv /\ [Next]_vars => KeyInv'
  <1> SUFFICES ASSUME KeyInv, [Next]_vars PROVE KeyInv'
    OBVIOUS
  <1>1. CASE UNCHANGED vars
    <2>1. Typed'
      BY <1>1, NextTyped DEF KeyInv
    <2>2. QED
      BY <1>1, <2>1
         DEF vars, world, backoffice, history, KeyInv, RowsBound, JobsBound,
             ExistingKeyLostOnlyByRefresh
  <1>2. ASSUME NEW j \in Jobs, Step(j) PROVE KeyInv'
    BY <1>2, LoadKey, FinishKey, CreateKey, RefreshKey, TeardownKey, TeardownAllKey DEF Step
  <1>3. QED
    BY <1>1, <1>2, AskKey, CrashKey DEF Next

\* An apiKey SMF did not create is only ever deleted by the teardown of a scenario
\* that attached to it and whose row a refresh rewrote, whatever overlaps, fails
\* or crashes: teardown_scenario's guard on api_key_is_external holds as long as
\* every writer of the row keeps the flag, and run_refresh_booking_ids is the one
\* that does not.
THEOREM ExistingKeyLost == Spec => []ExistingKeyLostOnlyByRefresh
  <1>1. Spec => []KeyInv
    BY InitKey, NextKey, PTL DEF Spec
  <1>2. KeyInv => ExistingKeyLostOnlyByRefresh
    BY DEF KeyInv
  <1>3. QED BY <1>1, <1>2, PTL

-----------------------------------------------------------------------------

\* Every kind of task goes through calls of its own; only a teardown of everything
\* has a list, all of one environment.
All == "teardown_all"
TearingPCs == TeardownCalls \cup {"removeRow"}
Lane(b) ==
    /\ b.kind = "idle" => b = IdleJob
    /\ b.kind = "create" => b.pc \in CreateCalls \cup {"load", "finish"}
    /\ b.kind = "refresh" => b.pc \in {"load", "reregister", "finish"}
    /\ b.kind = "teardown" => b.pc \in TearingPCs \cup {"load"}
    /\ b.kind = All => /\ b.pc \in TearingPCs \cup {"load", "next", "sweep"}
                       /\ b.env \in Envs
                       /\ b.pc \in {"load", "next", "sweep"} => b.sid = Null
                       /\ Working(b) => b.rec.req.env = b.env
    /\ b.kind \in {"create", "refresh", "teardown"} => b.queue = {} /\ b.sid \in Scenarios
    /\ \A e \in b.queue : e.row.req.env = b.env

Lanes == \A j \in Jobs : Lane(jobs[j])

\* A step of a task at work that keeps its scenario, row and list.
SameWork(b, c) == /\ c.kind = b.kind /\ c.sid = b.sid /\ c.rec = b.rec
                  /\ c.queue = b.queue /\ c.env = b.env

\* What a step makes of its task.
Moves(b, c) ==
    \/ c = IdleJob
    \/ /\ SameWork(b, c) /\ b.pc \in CreateCalls /\ c.pc \in CreateCalls \cup {"finish"}
    \/ /\ SameWork(b, c) /\ b.pc = "reregister" /\ c.pc \in {"reregister", "finish"}
    \/ /\ SameWork(b, c) /\ b.pc \in TeardownCalls /\ c.pc \in TearingPCs

LEMMA LoopMoves ==
    ASSUME NEW b \in Job, NEW p, NEW done, SameWork(b, done), NEW S, done.pc \in S, b.pc \in S
    PROVE  SameWork(b, Loop(b, p, done)) /\ Loop(b, p, done).pc \in S
  BY DEF Job, Loop, SameWork

LEMMA LoopChanges ==
    ASSUME NEW b \in Job, NEW p \in b.todo, NEW done, done.pc # b.pc
    PROVE  Loop(b, p, done) # b
  <1>1. CASE b.todo = {p}
    BY <1>1 DEF Loop
  <1>2. CASE b.todo # {p}
    <2>1. Loop(b, p, done).todo = b.todo \ {p}
      BY <1>2 DEF Loop, Job
    <2> QED
      BY <2>1
  <1> QED
    BY <1>1, <1>2

\* The task a step is about, and the others.
LEMMA BecomesTask ==
    ASSUME Typed, NEW j \in Jobs, NEW c, Becomes(j, c)
    PROVE  jobs'[j] = c /\ \A i \in Jobs : i # j => jobs'[i] = jobs[i]
  BY DEF Typed, TypeOK, Becomes

LEMMA StepTask ==
    ASSUME Typed, NEW j \in Jobs, CreateStep(j) \/ RefreshStep(j) \/ TeardownStep(j)
    PROVE  \A i \in Jobs : i # j => jobs'[i] = jobs[i]
  <1>1. ASSUME NEW i \in Jobs, i # j, NEW c, Becomes(j, c) PROVE jobs'[i] = jobs[i]
    BY <1>1, BecomesTask
  <1>2. CASE CreateStep(j)
    BY <1>1, <1>2
       DEF CreateStep, Register, PrebookGet, PrebookPut, CreateContract, CreateSbGroup,
           CreateSbConfig, CreateApiKey, AttachGet, ReadApiKey, AttachPut, ClearCache,
           ProvisionBr, CreateRaises
  <1>3. CASE RefreshStep(j)
    BY <1>1, <1>3 DEF RefreshStep, Reregister, RefreshRaises
  <1>4. CASE TeardownStep(j)
    BY <1>1, <1>4
       DEF TeardownStep, RestorePrebooking, RestoreFails, CleanBr, Unmock, DetachGet, ReadApiKey,
           DetachPut, DetachFails, DeleteContract, DeleteApiKey, DeleteSb, DeleteSbFails,
           TeardownRaises, RemoveRow
  <1> QED BY <1>2, <1>3, <1>4

LEMMA SameTaskWork == ASSUME NEW b, NEW c, SameTask(b, c) PROVE SameWork(b, c)
  BY DEF SameTask, SameWork

\* Every step of a create moves its task along, ends it or, at worst, keeps the call
\* and has one item less to do.
LEMMA CreateMoves ==
    ASSUME Typed, NEW j \in Jobs, CreateStep(j)
    PROVE  /\ jobs[j].pc \in CreateCalls /\ Working(jobs[j]) /\ HasRow(jobs[j])
           /\ Moves(jobs[j], jobs'[j]) /\ jobs'[j] # jobs[j]
  <1> DEFINE b == jobs[j]
  <1>1. b.pc \in CreateCalls
    BY DEF CreateStep, Register, PrebookGet, PrebookPut, CreateContract, CreateSbGroup,
           CreateSbConfig, CreateApiKey, AttachGet, ReadApiKey, AttachPut, ClearCache,
           ProvisionBr, CreateRaises, At, CreateCalls
  <1>2. Working(b) /\ HasRow(b) /\ b \in Job
    BY <1>1, AtWork DEF Working, CreateCalls, HasRow
  <1> SUFFICES Moves(b, jobs'[j]) /\ jobs'[j] # b
    BY <1>1, <1>2
  <1>3. ASSUME NEW c, SameTask(b, c) \/ SameWork(b, c), HasRow(c)
        PROVE  /\ SameWork(b, ToPrebook(c)) /\ ToPrebook(c).pc \in CreateCalls \cup {"finish"}
               /\ SameWork(b, ToContracts(c)) /\ ToContracts(c).pc \in CreateCalls \cup {"finish"}
               /\ SameWork(b, ToSb(c)) /\ ToSb(c).pc \in CreateCalls \cup {"finish"}
               /\ SameWork(b, ToKey(c)) /\ ToKey(c).pc \in CreateCalls \cup {"finish"}
               /\ SameWork(b, ToBr(c)) /\ ToBr(c).pc \in CreateCalls \cup {"finish"}
    BY <1>3, PrebookStage, ContractsStage, SbStage, KeyStage, BrStage
       DEF SameTask, SameWork, Creating
  <1>4. ASSUME NEW c, Becomes(j, c), SameWork(b, c), c.pc \in CreateCalls \cup {"finish"}, c # b
        PROVE  Moves(b, jobs'[j]) /\ jobs'[j] # b
    BY <1>1, <1>4, BecomesTask DEF Moves
  <1>5. SameWork(b, b) /\ SameTask(b, b)
    BY DEF SameWork, SameTask
  <1>6. CASE Register(j)
    <2>1. PICK p \in b.todo : Becomes(j, Loop(b, p, ToPrebook(b)))
      BY <1>6 DEF Register
    <2>2. b.pc = "register" /\ ToPrebook(b).pc # "register"
      BY <1>6 DEF Register, At, ToPrebook, ToContracts, HasRow, Job
    <2> DEFINE S == CreateCalls \cup {"finish"}
               d == Loop(b, p, ToPrebook(b))
    <2>3. SameWork(b, ToPrebook(b)) /\ ToPrebook(b).pc \in S
      BY <1>2, <1>3, <1>5
    <2>4. SameWork(b, d) /\ d.pc \in S
      BY <1>1, <1>2, <2>3, LoopMoves
    <2>5. d # b
      BY <1>2, <2>2, LoopChanges
    <2> QED
      BY <1>4, <2>1, <2>4, <2>5
  <1>7. CASE PrebookGet(j)
    <2>1. PICK p \in b.todo :
            Becomes(j, [b EXCEPT !.pc = "prebookPut",
                                 !.out.restore[p] = prebooking[<<b.rec.req.env, p>>]])
      BY <1>7 DEF PrebookGet
    <2> DEFINE c == [b EXCEPT !.pc = "prebookPut",
                              !.out.restore[p] = prebooking[<<b.rec.req.env, p>>]]
    <2>2. b.pc = "prebookGet"
      BY <1>7 DEF PrebookGet, At
    <2>3. SameWork(b, c) /\ c.pc = "prebookPut"
      BY <1>2 DEF Job, SameWork
    <2>4. Becomes(j, c)
      BY <2>1
    <2> HIDE DEF c
    <2> QED
      BY <1>4, <2>2, <2>3, <2>4 DEF CreateCalls
  <1>8. CASE PrebookPut(j)
    <2>1. PICK p \in b.todo :
            Becomes(j, Loop([b EXCEPT !.pc = "prebookGet"], p, ToContracts(b)))
      BY <1>8 DEF PrebookPut
    <2> DEFINE c == [b EXCEPT !.pc = "prebookGet"]
    <2>2. b.pc = "prebookPut" /\ c \in Job /\ c.pc = "prebookGet" /\ SameWork(b, c)
          /\ ToContracts(b).pc = "contracts"
      BY <1>2, <1>8 DEF PrebookPut, At, Job, PCs, CreateCalls, SameWork, ToContracts
    <2>3. SameWork(b, ToContracts(b))
      BY <1>2, <1>3, <1>5
    <2>4. SameWork(c, ToContracts(b))
      BY <2>2, <2>3 DEF SameWork
    <2> DEFINE S == {"prebookGet", "contracts"}
               d == Loop(c, p, ToContracts(b))
    <2>5. SameWork(c, d) /\ d.pc \in S
      BY <2>2, <2>4, LoopMoves
    <2>6. SameWork(b, d) /\ d.pc \in CreateCalls \cup {"finish"} /\ d # b
      BY <2>2, <2>5 DEF SameWork, CreateCalls
    <2> QED
      BY <1>4, <2>1, <2>6
  <1>9. CASE CreateContract(j)
    <2>1. PICK p \in b.todo :
            LET c == [b EXCEPT !.out.contracts = @ \cup {p}]
            IN  Becomes(j, Loop(c, p, ToSb(c)))
      BY <1>9 DEF CreateContract
    <2> DEFINE c == [b EXCEPT !.out.contracts = @ \cup {p}]
    <2>2. p \in Suppliers /\ b.out \in Assets
      BY <1>2 DEF Job
    <2>3. c \in Job /\ c.pc = "contracts" /\ SameWork(b, c) /\ c.todo = b.todo /\ c.rec = b.rec
      BY <1>2, <1>9, <2>2 DEF CreateContract, At, Job, Assets, SameWork
    <2>4. HasRow(c) /\ ToSb(c).pc # "contracts"
      BY <1>2, <2>3 DEF HasRow, SameWork, ToSb, ToKey, ToBr, Job
    <2>7. SameWork(b, ToSb(c)) /\ ToSb(c).pc \in CreateCalls \cup {"finish"}
      BY <1>3, <2>3, <2>4
    <2>8. SameWork(c, ToSb(c)) /\ c.pc \in CreateCalls \cup {"finish"}
      BY <2>3, <2>7 DEF SameWork, CreateCalls
    <2> DEFINE S == CreateCalls \cup {"finish"}
    <2>9. SameWork(c, Loop(c, p, ToSb(c))) /\ Loop(c, p, ToSb(c)).pc \in S
      BY <2>3, <2>7, <2>8, LoopMoves
    <2>5. SameWork(b, Loop(c, p, ToSb(c))) /\ Loop(c, p, ToSb(c)).pc \in S
      BY <2>3, <2>9 DEF SameWork
    <2>6. Loop(c, p, ToSb(c)) # b
      <3> USE <1>9
      <3>1. CASE c.todo = {p}
        BY <2>3, <2>4, <3>1 DEF Loop
      <3>2. CASE c.todo # {p}
        BY <2>3, <3>2 DEF Loop, Job
      <3> QED
        BY <3>1, <3>2
    <2> QED
      BY <1>4, <2>1, <2>5, <2>6
  <1>10. CASE CreateSbGroup(j)
    <2> DEFINE c == [b EXCEPT !.pc = "sbConfig", !.out.sb = @ \cup {"group"}]
    <2>1. b.pc = "sbGroup" /\ Becomes(j, c)
      BY <1>10 DEF CreateSbGroup, At
    <2>2. SameWork(b, c) /\ c.pc = "sbConfig"
      BY <1>2 DEF Job, SameWork
    <2> HIDE DEF c
    <2> QED
      BY <1>4, <2>1, <2>2 DEF CreateCalls
  <1>11. CASE CreateSbConfig(j)
    <2> DEFINE c == [b EXCEPT !.out.sb = @ \cup {"config"}]
    <2>1. HasRow(c) /\ SameWork(b, c)
      BY <1>2 DEF HasRow, Job, Assets, SbKinds, SameWork
    <2>2. ToKey(c).pc # "sbConfig"
      BY <2>1 DEF HasRow, Job, ToKey, ToBr
    <2>3. SameWork(b, ToKey(c)) /\ ToKey(c).pc \in CreateCalls \cup {"finish"}
      BY <1>3, <2>1
    <2>4. b.pc = "sbConfig" /\ Becomes(j, ToKey(c))
      BY <1>11 DEF CreateSbConfig, At
    <2> QED
      BY <1>4, <2>2, <2>3, <2>4
  <1>12. CASE CreateApiKey(j) \/ ProvisionBr(j) \/ AttachGet(j) \/ AttachPut(j)
    <2>1. PICK c : Becomes(j, c) /\ SameWork(b, c) /\ c.pc \in CreateCalls \cup {"finish"}
                   /\ c.pc # b.pc
      <3>1. CASE CreateApiKey(j)
        <4> DEFINE c == [b EXCEPT !.pc = "clearCache", !.out.key = b.sid]
        <4>1. b.pc = "createKey" /\ Becomes(j, c) /\ SameWork(b, c) /\ c.pc = "clearCache"
          BY <1>2, <3>1 DEF CreateApiKey, At, Job, SameWork
        <4> HIDE DEF c
        <4> QED BY <4>1 DEF CreateCalls
      <3>2. CASE ProvisionBr(j)
        <4> DEFINE c == [b EXCEPT !.pc = "finish", !.out.br = TRUE]
        <4>1. b.pc = "provisionBr" /\ Becomes(j, c) /\ SameWork(b, c) /\ c.pc = "finish"
          BY <1>2, <3>2 DEF ProvisionBr, At, Job, SameWork
        <4> HIDE DEF c
        <4> QED BY <4>1
      <3>3. CASE AttachGet(j)
        <4> DEFINE c == [b EXCEPT !.pc = "attachPut", !.seen = keyRefs[b.rec.req.key]]
        <4>1. b.pc = "attachGet" /\ Becomes(j, c) /\ SameWork(b, c) /\ c.pc = "attachPut"
          BY <1>2, <3>3 DEF AttachGet, ReadApiKey, At, Job, SameWork
        <4> HIDE DEF c
        <4> QED BY <4>1 DEF CreateCalls
      <3>4. CASE AttachPut(j)
        <4> DEFINE c == [b EXCEPT !.pc = "clearCache", !.seen = {},
                                  !.out.key = b.rec.req.key, !.out.ext = TRUE]
        <4>1. b.pc = "attachPut" /\ Becomes(j, c) /\ SameWork(b, c) /\ c.pc = "clearCache"
          BY <1>2, <3>4 DEF AttachPut, At, Job, SameWork
        <4> HIDE DEF c
        <4> QED BY <4>1 DEF CreateCalls
      <3> QED BY <1>12, <3>1, <3>2, <3>3, <3>4
    <2> QED BY <1>4, <2>1
  <1>14. CASE ClearCache(j)
    <2>1. ToBr(b).pc # "clearCache"
      BY <1>2 DEF HasRow, Job, ToBr
    <2>2. SameWork(b, ToBr(b)) /\ ToBr(b).pc \in CreateCalls \cup {"finish"}
      BY <1>2, <1>3, <1>5
    <2>3. b.pc = "clearCache" /\ Becomes(j, ToBr(b))
      BY <1>14 DEF ClearCache, At
    <2> QED
      BY <1>4, <2>1, <2>2, <2>3
  <1>15. CASE CreateRaises(j)
    <2>1. Becomes(j, IdleJob)
      BY <1>15 DEF CreateRaises
    <2>2. IdleJob # b
      BY <1>1 DEF IdleJob, CreateCalls
    <2> QED
      BY <2>1, <2>2, BecomesTask DEF Moves
  <1> QED
    BY <1>6, <1>7, <1>8, <1>9, <1>10, <1>11, <1>12, <1>14, <1>15
       DEF CreateStep

\* Where the next stage of a teardown can be.
LEMMA StageOrder ==
    ASSUME NEW b, HasRow(b)
    PROVE  /\ ToRemoveRow(b).pc = "removeRow"
           /\ ToDeleteSb(b).pc \in {"deleteSb", "removeRow"}
           /\ ToDeleteKey(b).pc \in {"deleteKey", "deleteSb", "removeRow"}
           /\ ToDeleteContracts(b).pc \in {"deleteContracts", "deleteKey", "deleteSb", "removeRow"}
           /\ ToDetach(b).pc \in {"detachGet", "deleteContracts", "deleteKey", "deleteSb",
                                  "removeRow"}
           /\ ToUnmock(b).pc = "unmock"
           /\ ToCleanBr(b).pc \in {"cleanBr", "unmock"}
           /\ ToRestore(b).pc \in {"restore", "cleanBr", "unmock"}
  BY DEF HasRow, Job, ToRemoveRow, ToDeleteSb, ToDeleteKey, ToDeleteContracts, ToDetach,
         ToUnmock, ToCleanBr, ToRestore

LEMMA StageWork ==
    ASSUME NEW b, NEW c, HasRow(c), SameWork(b, c)
    PROVE  /\ SameWork(b, ToRemoveRow(c)) /\ SameWork(b, ToDeleteSb(c))
           /\ SameWork(b, ToDeleteKey(c)) /\ SameWork(b, ToDeleteContracts(c))
           /\ SameWork(b, ToDetach(c)) /\ SameWork(b, ToUnmock(c))
           /\ SameWork(b, ToCleanBr(c)) /\ SameWork(b, ToRestore(c))
  <1>1. SameTask(c, ToRemoveRow(c)) /\ SameTask(c, ToDeleteSb(c)) /\ SameTask(c, ToDeleteKey(c))
        /\ SameTask(c, ToDeleteContracts(c)) /\ SameTask(c, ToDetach(c))
    BY RemoveRowStage, DeleteSbStage, DeleteKeyStage, DeleteContractsStage, DetachStage
  <1>2. SameTask(c, ToUnmock(c)) /\ SameTask(c, ToCleanBr(c)) /\ SameTask(c, ToRestore(c))
    BY UnmockStage, CleanBrStage, RestoreStage
  <1> QED BY <1>1, <1>2 DEF SameTask, SameWork

LEMMA RefreshMoves ==
    ASSUME Typed, NEW j \in Jobs, RefreshStep(j)
    PROVE  /\ jobs[j].pc = "reregister" /\ Working(jobs[j]) /\ HasRow(jobs[j])
           /\ Moves(jobs[j], jobs'[j]) /\ jobs'[j] # jobs[j]
  <1> DEFINE b == jobs[j]
  <1>1. b.pc = "reregister"
    BY DEF RefreshStep, Reregister, RefreshRaises, At
  <1>2. Working(b) /\ HasRow(b) /\ b \in Job
    BY <1>1, AtWork DEF Working, HasRow
  <1>3. CASE Reregister(j)
    <2> DEFINE done == [b EXCEPT !.pc = "finish", !.todo = {}]
               S == {"reregister", "finish"}
    <2>1. PICK p \in b.todo : Becomes(j, Loop(b, p, done))
      BY <1>3 DEF Reregister
    <2>2. SameWork(b, done) /\ done.pc = "finish"
      BY <1>2 DEF Job, SameWork
    <2>3. SameWork(b, Loop(b, p, done)) /\ Loop(b, p, done).pc \in S
      BY <1>1, <1>2, <2>2, LoopMoves
    <2>4. Loop(b, p, done) # b
      BY <1>1, <1>2, <2>2, LoopChanges
    <2> QED BY <1>1, <1>2, <2>1, <2>3, <2>4, BecomesTask DEF Moves
  <1>4. CASE RefreshRaises(j)
    BY <1>1, <1>2, <1>4, BecomesTask DEF RefreshRaises, Moves, IdleJob
  <1> QED BY <1>3, <1>4 DEF RefreshStep

\* A teardown goes on to a later stage, or has one item less to do.
LEMMA TeardownMoves ==
    ASSUME Typed, NEW j \in Jobs, TeardownStep(j), ~RemoveRow(j)
    PROVE  /\ jobs[j].pc \in TeardownCalls /\ Working(jobs[j]) /\ HasRow(jobs[j])
           /\ Moves(jobs[j], jobs'[j]) /\ jobs'[j] # jobs[j]
  <1> DEFINE b == jobs[j]
  <1>1. b.pc \in TeardownCalls
    BY DEF TeardownStep, RestorePrebooking, RestoreFails, CleanBr, Unmock, DetachGet, ReadApiKey,
           DetachPut, DetachFails, DeleteContract, DeleteApiKey, DeleteSb, DeleteSbFails,
           TeardownRaises, At, TeardownCalls
  <1>2. Working(b) /\ HasRow(b) /\ b \in Job
    BY <1>1, AtWork DEF Working, TeardownCalls, HasRow
  <1> SUFFICES Moves(b, jobs'[j]) /\ jobs'[j] # b
    BY <1>1, <1>2
  <1>3. ASSUME NEW c, Becomes(j, c), SameWork(b, c), c.pc \in TearingPCs, c # b
        PROVE  Moves(b, jobs'[j]) /\ jobs'[j] # b
    BY <1>1, <1>3, BecomesTask DEF Moves
  <1>4. SameWork(b, b)
    BY DEF SameWork
  <1>5. ASSUME NEW p \in b.todo, NEW done, SameWork(b, done), done.pc \in TearingPCs,
               done.pc # b.pc, Becomes(j, Loop(b, p, done))
        PROVE  Moves(b, jobs'[j]) /\ jobs'[j] # b
    <2>1. b.pc \in TearingPCs
      BY <1>1 DEF TearingPCs
    <2>2. SameWork(b, Loop(b, p, done)) /\ Loop(b, p, done).pc \in TearingPCs
      BY <1>2, <1>5, <2>1, LoopMoves
    <2>3. Loop(b, p, done) # b
      BY <1>2, <1>5, LoopChanges
    <2> QED BY <1>3, <1>5, <2>2, <2>3
  <1>6. CASE RestorePrebooking(j) \/ RestoreFails(j)
    <2>1. PICK p \in b.todo : b.pc = "restore" /\ Becomes(j, Loop(b, p, ToCleanBr(b)))
      BY <1>6 DEF RestorePrebooking, RestoreFails, At
    <2>2. SameWork(b, ToCleanBr(b)) /\ ToCleanBr(b).pc \in {"cleanBr", "unmock"}
      BY <1>2, <1>4, StageWork, StageOrder
    <2> QED BY <1>5, <2>1, <2>2 DEF TearingPCs, TeardownCalls
  <1>7. CASE CleanBr(j)
    <2>1. b.pc = "cleanBr" /\ Becomes(j, ToUnmock(b))
      BY <1>7 DEF CleanBr, At
    <2>2. SameWork(b, ToUnmock(b)) /\ ToUnmock(b).pc = "unmock"
      BY <1>2, <1>4, StageWork, StageOrder
    <2> QED BY <1>3, <2>1, <2>2 DEF TearingPCs, TeardownCalls
  <1>8. CASE Unmock(j)
    <2>1. PICK p \in b.todo : b.pc = "unmock" /\ Becomes(j, Loop(b, p, ToDetach(b)))
      BY <1>8 DEF Unmock, At
    <2>2. SameWork(b, ToDetach(b)) /\ ToDetach(b).pc \in {"detachGet", "deleteContracts",
                                                        "deleteKey", "deleteSb", "removeRow"}
      BY <1>2, <1>4, StageWork, StageOrder
    <2> QED BY <1>5, <2>1, <2>2 DEF TearingPCs, TeardownCalls
  <1>9. CASE DetachGet(j)
    <2> DEFINE c == [b EXCEPT !.pc = "detachPut", !.seen = keyRefs[b.rec.req.key]]
    <2>1. b.pc = "detachGet" /\ Becomes(j, c) /\ SameWork(b, c) /\ c.pc = "detachPut"
      BY <1>2, <1>9 DEF DetachGet, ReadApiKey, At, Job, SameWork
    <2> HIDE DEF c
    <2> QED BY <1>3, <2>1 DEF TearingPCs, TeardownCalls
  <1>10. CASE DetachPut(j) \/ DetachFails(j)
    <2> DEFINE c == [b EXCEPT !.seen = {}]
    <2>1. b.pc \in {"detachGet", "detachPut"} /\ Becomes(j, ToDeleteContracts(c))
      BY <1>10 DEF DetachPut, DetachFails, At
    <2>2. SameWork(b, c) /\ HasRow(c)
      BY <1>2 DEF HasRow, Job, SameWork
    <2>3. SameWork(b, ToDeleteContracts(c))
          /\ ToDeleteContracts(c).pc \in {"deleteContracts", "deleteKey", "deleteSb", "removeRow"}
      BY <2>2, StageWork, StageOrder
    <2> HIDE DEF c
    <2> QED BY <1>3, <2>1, <2>3 DEF TearingPCs, TeardownCalls
  <1>11. CASE DeleteContract(j)
    <2>1. PICK p \in b.todo : b.pc = "deleteContracts" /\ Becomes(j, Loop(b, p, ToDeleteKey(b)))
      BY <1>11 DEF DeleteContract, At
    <2>2. SameWork(b, ToDeleteKey(b)) /\ ToDeleteKey(b).pc \in {"deleteKey", "deleteSb", "removeRow"}
      BY <1>2, <1>4, StageWork, StageOrder
    <2> QED BY <1>5, <2>1, <2>2 DEF TearingPCs, TeardownCalls
  <1>12. CASE DeleteApiKey(j)
    <2>1. b.pc = "deleteKey" /\ Becomes(j, ToDeleteSb(b))
      BY <1>12 DEF DeleteApiKey, At
    <2>2. SameWork(b, ToDeleteSb(b)) /\ ToDeleteSb(b).pc \in {"deleteSb", "removeRow"}
      BY <1>2, <1>4, StageWork, StageOrder
    <2> QED BY <1>3, <2>1, <2>2 DEF TearingPCs, TeardownCalls
  <1>13. CASE DeleteSb(j) \/ DeleteSbFails(j)
    <2>1. PICK kind \in b.sbTodo : b.pc = "deleteSb" /\ Becomes(j, LoopSb(b, kind))
      BY <1>13 DEF DeleteSb, DeleteSbFails, At
    <2>2. CASE b.sbTodo = {kind}
      <3> DEFINE c == [b EXCEPT !.sbTodo = {}]
      <3>1. HasRow(c) /\ SameWork(b, c)
        BY <1>2 DEF HasRow, Job, SameWork
      <3>2. SameWork(b, ToRemoveRow(c)) /\ ToRemoveRow(c).pc = "removeRow"
        BY <3>1, StageWork, StageOrder
      <3>3. LoopSb(b, kind) = ToRemoveRow(c)
        BY <2>2 DEF LoopSb
      <3> QED BY <1>3, <2>1, <3>2, <3>3 DEF TearingPCs
    <2>3. CASE b.sbTodo # {kind}
      <3> DEFINE c == [b EXCEPT !.sbTodo = @ \ {kind}]
      <3>1. c.sbTodo = b.sbTodo \ {kind} /\ c.pc = b.pc /\ SameWork(b, c)
        BY <1>2 DEF Job, SameWork
      <3>2. LoopSb(b, kind) = c
        BY <2>3 DEF LoopSb
      <3>3. c # b
        BY <2>1, <3>1
      <3> HIDE DEF c
      <3> QED BY <1>3, <2>1, <3>1, <3>2, <3>3 DEF TearingPCs, TeardownCalls
    <2> QED BY <2>2, <2>3
  <1>14. CASE TeardownRaises(j)
    <2> DEFINE c == [b EXCEPT !.ok = FALSE]
    <2>1. b.pc # "removeRow" /\ Becomes(j, ToRemoveRow(c))
      BY <1>14 DEF TeardownRaises, Aborted
    <2>2. HasRow(c) /\ SameWork(b, c)
      BY <1>2 DEF HasRow, Job, SameWork
    <2>3. SameWork(b, ToRemoveRow(c)) /\ ToRemoveRow(c).pc = "removeRow"
      BY <2>2, StageWork, StageOrder
    <2> QED BY <1>3, <2>1, <2>3 DEF TearingPCs
  <1> QED
    BY <1>6, <1>7, <1>8, <1>9, <1>10, <1>11, <1>12, <1>13, <1>14 DEF TeardownStep

-----------------------------------------------------------------------------
\* Every task keeps to its lane.

LEMMA IdleLane == Lane(IdleJob)
  BY DEF Lane, IdleJob, All

LEMMA MovesLane ==
    ASSUME NEW b, Lane(b), Working(b), NEW c, Moves(b, c)
    PROVE  Lane(c)
  <1>1. CASE c = IdleJob
    BY <1>1, IdleLane
  <1>2. CASE SameWork(b, c) /\ b.pc \in CreateCalls /\ c.pc \in CreateCalls \cup {"finish"}
    <2>1. b.kind \notin {"idle", "refresh", "teardown", All}
      BY <1>2 DEF Lane, IdleJob, CreateCalls, TearingPCs, TeardownCalls, All
    <2> QED BY <1>2, <2>1 DEF Lane, SameWork, All
  <1>3. CASE SameWork(b, c) /\ b.pc = "reregister" /\ c.pc \in {"reregister", "finish"}
    <2>1. b.kind \notin {"idle", "create", "teardown", All}
      BY <1>3 DEF Lane, IdleJob, CreateCalls, TearingPCs, TeardownCalls, All
    <2> QED BY <1>3, <2>1 DEF Lane, SameWork, All
  <1>4. CASE SameWork(b, c) /\ b.pc \in TeardownCalls /\ c.pc \in TearingPCs
    <2>1. b.kind \notin {"idle", "create", "refresh"}
      BY <1>4 DEF Lane, IdleJob, CreateCalls, TeardownCalls
    <2> QED BY <1>4, <2>1 DEF Lane, SameWork, TearingPCs, TeardownCalls, All
  <1> QED BY <1>1, <1>2, <1>3, <1>4 DEF Moves

LEMMA LanesStep ==
    ASSUME Typed, Lanes, NEW j \in Jobs, Lane(jobs'[j]),
           \A i \in Jobs : i # j => jobs'[i] = jobs[i]
    PROVE  Lanes'
  <1> SUFFICES ASSUME NEW i \in Jobs PROVE Lane(jobs'[i])
    BY DEF Lanes, Lane
  <1>1. CASE i = j
    BY <1>1
  <1>2. CASE i # j
    BY <1>2 DEF Lanes
  <1> QED BY <1>1, <1>2

LEMMA AskLanes == ASSUME Typed, Lanes, Ask PROVE Lanes'
  <1>1. ASSUME NEW kind \in {"create", "refresh", "teardown"}, NEW s \in Scenarios,
               Spawn(kind, s)
        PROVE  Lanes'
    <2> DEFINE b == [IdleJob EXCEPT !.kind = kind, !.pc = "load", !.sid = s]
    <2>1. PICK j \in Jobs : Becomes(j, b)
      BY <1>1 DEF Spawn
    <2>2. b.kind = kind /\ b.pc = "load" /\ b.sid = s /\ b.queue = {}
      BY DEF IdleJob
    <2> HIDE DEF b
    <2>3. Lane(b)
      BY <2>2 DEF Lane, All
    <2> QED BY <2>1, <2>3, BecomesTask, LanesStep
  <1>2. ASSUME NEW e \in Envs, AskTeardownAll(e) PROVE Lanes'
    <2> DEFINE b == [IdleJob EXCEPT !.kind = "teardown_all", !.pc = "load", !.env = e]
    <2>1. PICK j \in Jobs : Becomes(j, b)
      BY <1>2 DEF AskTeardownAll
    <2>2. b.kind = All /\ b.pc = "load" /\ b.sid = Null /\ b.queue = {} /\ b.env = e
      BY DEF IdleJob, All
    <2> HIDE DEF b
    <2>3. Lane(b)
      BY <2>2 DEF Lane, All, Working
    <2> QED BY <2>1, <2>3, BecomesTask, LanesStep
  <1> QED BY <1>1, <1>2 DEF Ask, Submit, AskRefresh, AskTeardown

LEMMA LoadLanes == ASSUME Typed, Lanes, NEW j \in Jobs, Load(j) PROVE Lanes'
  <1> DEFINE b == jobs[j]
             row == rows[b.sid]
  <1>1. b \in Job /\ Lane(b) /\ b.pc = "load"
    BY DEF Typed, TypeOK, Lanes, Load, At
  <1> SUFFICES Lane(jobs'[j])
    BY LanesStep, BecomesTask DEF Load
  <1>2. CASE Becomes(j, IdleJob)
    BY <1>2, IdleLane, BecomesTask
  <1>3. CASE b.kind = All /\ Becomes(j, [b EXCEPT !.pc = "next", !.queue = Tearable(b.env)])
    <2> DEFINE c == [b EXCEPT !.pc = "next", !.queue = Tearable(b.env)]
    <2>1. c.kind = All /\ c.pc = "next" /\ c.sid = Null /\ c.env = b.env /\ b.env \in Envs
          /\ c.queue = Tearable(b.env)
      BY <1>1, <1>3 DEF Job, Lane, All
    <2>4. Becomes(j, c)
      BY <1>3
    <2>2. \A e \in c.queue : e.row.req.env = c.env
      BY <2>1 DEF Tearable
    <2> HIDE DEF c
    <2>3. Lane(c)
      BY <2>1, <2>2 DEF Lane, All, Working
    <2> QED BY <2>3, <2>4, BecomesTask
  <1>4. ASSUME NEW c, c.kind = b.kind, c.sid = b.sid, c.queue = b.queue, Becomes(j, c),
               \/ b.kind = "create" /\ c.pc = "register"
               \/ b.kind = "refresh" /\ c.pc = "reregister"
               \/ b.kind = "teardown" /\ c.pc \in TearingPCs
        PROVE  Lane(jobs'[j])
    <2>1. Lane(c)
      BY <1>1, <1>4 DEF Lane, All, CreateCalls
    <2> QED BY <1>4, <2>1, BecomesTask
  <1>5. CASE /\ b.kind = "create"
             /\ Becomes(j, [b EXCEPT !.pc = "register", !.rec = row,
                                     !.todo = row.req.suppliers])
    <2> DEFINE c == [b EXCEPT !.pc = "register", !.rec = row, !.todo = row.req.suppliers]
    <2>1. c.kind = b.kind /\ c.sid = b.sid /\ c.queue = b.queue /\ c.pc = "register"
      BY <1>1 DEF Job
    <2>2. Becomes(j, c)
      BY <1>5
    <2> HIDE DEF c
    <2> QED BY <1>4, <1>5, <2>1, <2>2
  <1>6. CASE /\ b.kind = "refresh"
             /\ Becomes(j, [b EXCEPT !.pc = "reregister", !.rec = row,
                                     !.todo = row.req.suppliers,
                                     !.out = RefreshBundle(row)])
    <2> DEFINE c == [b EXCEPT !.pc = "reregister", !.rec = row,
                              !.todo = row.req.suppliers, !.out = RefreshBundle(row)]
    <2>1. c.kind = b.kind /\ c.sid = b.sid /\ c.queue = b.queue /\ c.pc = "reregister"
      BY <1>1 DEF Job
    <2>2. Becomes(j, c)
      BY <1>6
    <2> HIDE DEF c
    <2> QED BY <1>4, <1>6, <2>1, <2>2
  <1>7. CASE /\ b.kind = "teardown" /\ StillWanted(b.kind, row)
             /\ Becomes(j, ToRestore([b EXCEPT !.rec = row]))
    <2> DEFINE c == [b EXCEPT !.rec = row]
    <2>1. row \in Row /\ b.sid \in Scenarios
      BY <1>1, <1>7 DEF Typed, TypeOK, Lane, StillWanted
    <2>2. HasRow(c) /\ c.kind = b.kind /\ c.sid = b.sid /\ c.queue = b.queue
      BY <1>1, <2>1 DEF HasRow, Job
    <2>3. SameWork(c, c)
      BY DEF SameWork
    <2> HIDE DEF c
    <2>4. SameWork(c, ToRestore(c)) /\ ToRestore(c).pc \in {"restore", "cleanBr", "unmock"}
      BY <2>2, <2>3, StageWork, StageOrder
    <2>5. Becomes(j, ToRestore(c))
      BY <1>7 DEF c
    <2> QED BY <1>4, <1>7, <2>2, <2>4, <2>5 DEF SameWork, TearingPCs, TeardownCalls
  <1> QED BY <1>2, <1>3, <1>5, <1>6, <1>7 DEF Load, All

LEMMA TeardownAllLanes ==
    ASSUME Typed, Lanes, NEW j \in Jobs, TeardownAllStep(j) \/ RemoveRow(j)
    PROVE  Lanes'
  <1> DEFINE b == jobs[j]
  <1>1. b \in Job /\ Lane(b)
    BY DEF Typed, TypeOK, Lanes
  <1> SUFFICES Lane(jobs'[j])
    BY LanesStep, BecomesTask DEF TeardownAllStep, TakeNext, QueueDone, Sweep, SweepFails, RemoveRow
  <1>2. CASE Becomes(j, IdleJob)
    BY <1>2, IdleLane, BecomesTask
  <1>3. CASE TakeNext(j)
    <2>1. PICK e \in b.queue :
            Becomes(j, ToRestore([b EXCEPT !.sid = e.sid, !.rec = e.row,
                                           !.queue = @ \ {e}, !.ok = TRUE]))
      BY <1>3 DEF TakeNext
    <2> DEFINE c == [b EXCEPT !.sid = e.sid, !.rec = e.row, !.queue = @ \ {e}, !.ok = TRUE]
    <2>2. b.pc = "next" /\ e \in Entry /\ b.kind = All /\ b.env \in Envs
      BY <1>1, <1>3 DEF TakeNext, At, Job, Lane, IdleJob, CreateCalls, TearingPCs, TeardownCalls,
                        Kinds, All
    <2>3. HasRow(c) /\ c.kind = All /\ c.env = b.env /\ c.queue \subseteq b.queue /\ c.rec = e.row
      BY <1>1, <2>2 DEF HasRow, Job, Entry
    <2>4. SameWork(c, c)
      BY DEF SameWork
    <2>5. Becomes(j, ToRestore(c))
      BY <2>1
    <2> HIDE DEF c
    <2>6. SameWork(c, ToRestore(c)) /\ ToRestore(c).pc \in {"restore", "cleanBr", "unmock"}
      BY <2>3, <2>4, StageWork, StageOrder
    <2>7. Lane(ToRestore(c))
      BY <1>1, <2>2, <2>3, <2>6 DEF Lane, SameWork, TearingPCs, TeardownCalls, All
    <2> QED BY <2>5, <2>7, BecomesTask
  <1>4. CASE QueueDone(j) /\ ~Becomes(j, IdleJob)
    <2> DEFINE c == [b EXCEPT !.pc = "sweep"]
    <2>1. b.pc = "next" /\ Becomes(j, c)
      BY <1>4 DEF QueueDone, At
    <2>2. c.pc = "sweep" /\ SameWork(b, c)
      BY <1>1 DEF Job, SameWork
    <2>3. b.kind = All
      BY <1>1, <2>1 DEF Job, Lane, IdleJob, CreateCalls, TearingPCs, TeardownCalls, Kinds, All
    <2> HIDE DEF c
    <2>4. Lane(c)
      BY <1>1, <2>1, <2>2, <2>3 DEF Lane, SameWork, All, Working
    <2> QED BY <2>1, <2>4, BecomesTask
  <1>5. CASE RemoveRow(j) /\ ~Becomes(j, IdleJob)
    <2> DEFINE c == [b EXCEPT !.pc = "next", !.sid = Null, !.rec = Null, !.torn = @ \/ b.ok]
    <2>1. b.pc = "removeRow" /\ b.kind # "teardown" /\ Becomes(j, c)
      BY <1>5 DEF RemoveRow, At
    <2>2. c.pc = "next" /\ c.sid = Null /\ c.kind = b.kind /\ c.env = b.env /\ c.queue = b.queue
      BY <1>1 DEF Job
    <2>3. b.kind = All
      BY <1>1, <2>1 DEF Job, Lane, IdleJob, CreateCalls, Kinds, All
    <2> HIDE DEF c
    <2>4. Lane(c)
      BY <1>1, <2>2, <2>3 DEF Lane, All, Working
    <2> QED BY <2>1, <2>4, BecomesTask
  <1> QED BY <1>2, <1>3, <1>4, <1>5 DEF TeardownAllStep, Sweep, SweepFails

LEMMA NextLanes == Typed /\ Lanes /\ [Next]_vars => Lanes'
  <1> SUFFICES ASSUME Typed, Lanes, [Next]_vars PROVE Lanes'
    OBVIOUS
  <1>1. CASE UNCHANGED vars
    BY <1>1 DEF vars, Lanes
  <1>2. CASE Crash
    BY <1>2, IdleLane DEF Crash, Lanes
  <1>3. ASSUME NEW j \in Jobs, Step(j) PROVE Lanes'
    <2>1. CASE CreateStep(j) \/ RefreshStep(j) \/ (TeardownStep(j) /\ ~RemoveRow(j))
      <3>1. Working(jobs[j]) /\ Moves(jobs[j], jobs'[j])
        BY <2>1, CreateMoves, RefreshMoves, TeardownMoves
      <3>2. Lane(jobs'[j])
        BY <3>1, MovesLane DEF Lanes
      <3>3. \A i \in Jobs : i # j => jobs'[i] = jobs[i]
        BY <2>1, StepTask
      <3> QED BY <3>2, <3>3, LanesStep
    <2>2. CASE Finish(j)
      BY <2>2, IdleLane, BecomesTask, LanesStep DEF Finish
    <2> QED
      BY <1>3, <2>1, <2>2, LoadLanes, TeardownAllLanes DEF Step
  <1> QED BY <1>1, <1>2, <1>3, AskLanes DEF Next

-----------------------------------------------------------------------------
\* Which environment a step may touch: only that of the request in the row a task
\* has read, which is the request its scenario was created with, or the one a
\* teardown of everything was asked for.

TouchesOnly(x) ==
    \A e \in Envs : e # x =>
        /\ \A m \in MockIds : m[1] = e => mocks'[m] = mocks[m]
        /\ \A p \in Suppliers : prebooking'[<<e, p>>] = prebooking[<<e, p>>]

LEMMA WorkEnv ==
    ASSUME KeyInv, Lanes, NEW j \in Jobs, Working(jobs[j])
    PROVE  jobs[j].rec.req.env = EnvOf(jobs[j]) /\ jobs[j].kind # "idle"
  <1> DEFINE b == jobs[j]
  <1>1. Bound(b.sid, b.rec, asked, refreshed) /\ Lane(b)
    BY DEF KeyInv, JobsBound, JobBound, Lanes
  <1>2. b.kind # "idle"
    BY <1>1 DEF Lane, IdleJob, Working
  <1> QED BY <1>1, <1>2 DEF Bound, EnvOf, Lane, All

\* Expectations are named after the environment of the request.
LEMMA OwnEnv ==
    ASSUME NEW req, NEW p, NEW part
    PROVE  MockId(req, p, part)[1] = req.env
  BY DEF MockId

LEMMA CreateTouches ==
    ASSUME Typed, NEW j \in Jobs, CreateStep(j) \/ RefreshStep(j)
    PROVE  TouchesOnly(jobs[j].rec.req.env)
  <1> DEFINE b == jobs[j]
  <1>1. CASE UNCHANGED <<mocks, prebooking>>
    BY <1>1 DEF TouchesOnly
  <1>2. CASE Register(j)
    BY <1>2, OwnEnv DEF Register, TouchesOnly, backoffice
  <1>3. CASE PrebookPut(j)
    BY <1>3 DEF PrebookPut, TouchesOnly, Typed, TypeOK
  <1>4. CASE Reregister(j)
    BY <1>4, OwnEnv DEF Reregister, TouchesOnly, backoffice, Typed, TypeOK
  <1> QED
    BY <1>1, <1>2, <1>3, <1>4
       DEF CreateStep, PrebookGet, CreateContract, CreateSbGroup, CreateSbConfig, CreateApiKey,
           AttachGet, ReadApiKey, AttachPut, ClearCache, ProvisionBr, CreateRaises,
           RefreshStep, RefreshRaises, world, backoffice

LEMMA TeardownTouches ==
    ASSUME Typed, NEW j \in Jobs, TeardownStep(j)
    PROVE  TouchesOnly(jobs[j].rec.req.env)
  <1> DEFINE b == jobs[j]
  <1>1. CASE UNCHANGED <<mocks, prebooking>>
    BY <1>1 DEF TouchesOnly
  <1>2. CASE RestorePrebooking(j)
    BY <1>2 DEF RestorePrebooking, TouchesOnly, Typed, TypeOK
  <1>3. CASE Unmock(j)
    BY <1>3, OwnEnv DEF Unmock, TouchesOnly, backoffice
  <1> QED
    BY <1>1, <1>2, <1>3
       DEF TeardownStep, RestoreFails, CleanBr, DetachGet, ReadApiKey, DetachPut, DetachFails,
           DeleteContract, DeleteApiKey, DeleteSb, DeleteSbFails, TeardownRaises, RemoveRow,
           world, backoffice

\* Nothing of an environment changes unless a task of it moves.
MovesInEnv(e) ==
    \/ \E j \in Jobs : jobs[j].kind # "idle" /\ EnvOf(jobs[j]) = e /\ jobs'[j] # jobs[j]
    \/ /\ \A m \in MockIds : m[1] = e => mocks'[m] = mocks[m]
       /\ \A p \in Suppliers : prebooking'[<<e, p>>] = prebooking[<<e, p>>]

LEMMA StepIsolated ==
    ASSUME KeyInv, Lanes, [Next]_vars, NEW e \in Envs
    PROVE  MovesInEnv(e)
  <1>1. CASE UNCHANGED <<mocks, prebooking>>
    BY <1>1 DEF MovesInEnv
  <1>2. CASE UNCHANGED vars \/ Ask \/ Crash
    BY <1>1, <1>2
       DEF vars, world, backoffice, Ask, Submit, AskRefresh, AskTeardown, AskTeardownAll, Crash
  <1>3. ASSUME NEW j \in Jobs, Step(j) PROVE MovesInEnv(e)
    <2>1. CASE Load(j) \/ Finish(j) \/ TakeNext(j) \/ QueueDone(j) \/ SweepFails(j) \/ RemoveRow(j)
      BY <1>1, <2>1
         DEF Load, Finish, TakeNext, QueueDone, SweepFails, RemoveRow, world, backoffice
    <2>2. CASE CreateStep(j) \/ RefreshStep(j) \/ (TeardownStep(j) /\ ~RemoveRow(j))
      <3>1. Working(jobs[j]) /\ jobs'[j] # jobs[j]
        BY <2>2, CreateMoves, RefreshMoves, TeardownMoves DEF KeyInv
      <3>2. TouchesOnly(EnvOf(jobs[j])) /\ jobs[j].kind # "idle"
        BY <2>2, <3>1, WorkEnv, CreateTouches, TeardownTouches DEF KeyInv
      <3> QED BY <3>1, <3>2 DEF TouchesOnly, MovesInEnv
    <2>3. CASE Sweep(j)
      <3>1. jobs[j].pc = "sweep" /\ jobs[j] \in Job /\ Lane(jobs[j])
        BY <2>3 DEF Sweep, At, KeyInv, Typed, TypeOK, Lanes
      <3>2. jobs[j].kind = All
        BY <3>1 DEF Job, Lane, IdleJob, CreateCalls, TearingPCs, TeardownCalls, Kinds, All
      <3>3. jobs'[j] # jobs[j]
        BY <2>3, <3>1, BecomesTask DEF Sweep, IdleJob, KeyInv
      <3>4. TouchesOnly(jobs[j].env)
        BY <2>3 DEF Sweep, TouchesOnly, backoffice
      <3> QED BY <3>2, <3>3, <3>4 DEF TouchesOnly, MovesInEnv, EnvOf, All
    <2> QED BY <1>3, <2>1, <2>2, <2>3 DEF Step, TeardownAllStep
  <1> QED BY <1>2, <1>3 DEF Next

\* Whatever overlaps, fails or crashes, a step changes the mocks and the supplier
\* records of an environment only if a task of that environment takes it: tasks
\* name the environment of the row they read (MockServer URL, supplier record),
\* and a teardown of everything lists the rows of one environment and sweeps the
\* MockServer of that one.
THEOREM Isolation == Spec => EnvIsolation
  <1>1. Init => Lanes
    BY IdleLane DEF Init, Lanes
  <1>2. KeyInv => Typed
    BY DEF KeyInv
  <1>3. Spec => [](KeyInv /\ Lanes)
    BY <1>1, <1>2, InitKey, NextKey, NextLanes, PTL DEF Spec
  <1>4. KeyInv /\ Lanes /\ [Next]_vars => [\A e \in Envs : MovesInEnv(e)]_vars
    BY StepIsolated
  <1> QED BY <1>3, <1>4, PTL DEF Spec, EnvIsolation, MovesInEnv

-----------------------------------------------------------------------------
(***************************************************************************)
(* From here on callers wait for a scenario's task before they ask for     *)
(* another (~Overlap), as the run-template endpoint does.  Then            *)
(*   - no two tasks work on the same scenario, and a teardown of           *)
(*     everything runs alone (Alone);                                      *)
(*   - the copy of a row that a task or its list holds is the row, so a    *)
(*     save never writes back what another task has replaced (Current);    *)
(*   - no two rows share a namespace (NsUnique), so the save of a finished *)
(*     bundle is never refused.                                            *)
(***************************************************************************)

Alone == \A i, j \in Jobs :
    i # j /\ jobs[i].kind # "idle" /\ jobs[j].kind # "idle"
        => jobs[i].kind # All /\ jobs[i].sid # jobs[j].sid

Fresh(rs, b) ==
    /\ Working(b) => rs[b.sid] = b.rec
    /\ b.kind \in {"create", "refresh", "teardown"} => rs[b.sid] # Null
    /\ b.kind = "create" => rs[b.sid].status = "PENDING"
    /\ b.kind = "refresh" => rs[b.sid].status = "READY"
    /\ \A e \in b.queue : rs[e.sid] = e.row /\ e.sid # b.sid
Current == \A j \in Jobs : Fresh(rows, jobs[j])

NsUnique == \A s, t \in Scenarios :
    s # t /\ rows[s] # Null /\ rows[t] # Null => rows[s].req.ns # rows[t].req.ns

AskedOK == \A s \in Scenarios : asked[s] # Null => asked[s] \in RequestsOf[s]

Orderly == KeyInv /\ Lanes /\ Alone /\ Current /\ NsUnique /\ AskedOK

LEMMA InitOrderly == Init => Orderly
  <1> SUFFICES ASSUME Init PROVE Orderly
    OBVIOUS
  <1>1. Lanes /\ Alone /\ Current
    BY IdleLane DEF Init, Lanes, Alone, Current, Fresh, Working, IdleJob
  <1>2. NsUnique /\ AskedOK
    BY DEF Init, NsUnique, AskedOK
  <1> QED BY <1>1, <1>2, InitKey DEF Orderly

\* The row a task works on is that of its request, and exists.
LEMMA WorkRow ==
    ASSUME Orderly, NEW j \in Jobs, Working(jobs[j])
    PROVE  /\ HasRow(jobs[j]) /\ rows[jobs[j].sid] = jobs[j].rec /\ jobs[j].rec \in Row
           /\ jobs[j].sid \in Scenarios /\ asked[jobs[j].sid] = jobs[j].rec.req
           /\ jobs[j].rec.req \in Request /\ jobs[j].rec.assets \in Assets
           /\ jobs[j].kind # "idle" /\ Lane(jobs[j]) /\ jobs[j] \in Job
           /\ jobs[j].rec # Null
  <1>1. HasRow(jobs[j]) /\ Lane(jobs[j])
    BY AtWork DEF Orderly, KeyInv, Lanes
  <1>2. jobs[j].rec.req = asked[jobs[j].sid]
    BY DEF Orderly, KeyInv, JobsBound, JobBound, Bound
  <1>3. jobs[j].kind # "idle"
    BY <1>1 DEF Lane, IdleJob, Working
  <1> QED
    BY <1>1, <1>2, <1>3, RowFields, ConstantsAssumption DEF Orderly, Current, Fresh, HasRow

\* A step of one task, seen from the others.
OneMoves(j) ==
    /\ jobs[j].kind # "idle"
    /\ \A i \in Jobs : i # j => jobs'[i] = jobs[i]
    /\ \A t \in Scenarios : t # jobs[j].sid => rows'[t] = rows[t]
SameSid(b, c) == c.kind = "idle" \/ (c.kind = b.kind /\ (c.sid = b.sid \/ c.kind = All))

LEMMA OthersFresh ==
    ASSUME Orderly, NEW j \in Jobs, OneMoves(j), NEW i \in Jobs, i # j
    PROVE  Fresh(rows', jobs'[i])
  <1>1. jobs'[i] = jobs[i] /\ Fresh(rows, jobs[i]) /\ Lane(jobs[i]) /\ jobs[i] \in Job
    BY DEF OneMoves, Orderly, Current, Lanes, KeyInv, Typed, TypeOK
  <1>2. CASE jobs[i].kind = "idle"
    BY <1>1, <1>2 DEF Lane, IdleJob, Fresh, Working
  <1>3. CASE jobs[i].kind # "idle"
    <2>1. jobs[i].kind # All /\ jobs[i].sid # jobs[j].sid
      BY <1>3 DEF OneMoves, Orderly, Alone
    <2>2. jobs[i].kind \in {"create", "refresh", "teardown"}
      BY <1>1, <1>3, <2>1 DEF Job, Kinds, All
    <2> QED BY <1>1, <2>1, <2>2 DEF OneMoves, Lane, Fresh
  <1> QED BY <1>2, <1>3

LEMMA OneMovesOrderly ==
    ASSUME Orderly, KeyInv', Lanes', AskedOK', NsUnique', NEW j \in Jobs, OneMoves(j),
           Fresh(rows', jobs'[j]), SameSid(jobs[j], jobs'[j])
    PROVE  Orderly'
  <1>1. Current'
    BY OthersFresh DEF Current
  <1>2. Alone'
    <2> SUFFICES ASSUME NEW i \in Jobs, NEW k \in Jobs, i # k, jobs'[i].kind # "idle",
                        jobs'[k].kind # "idle"
                 PROVE  jobs'[i].kind # All /\ jobs'[i].sid # jobs'[k].sid
      BY DEF Alone
    <2>1. Alone
      BY DEF Orderly
    <2>2. CASE i = j
      BY <2>1, <2>2 DEF Alone, OneMoves, SameSid
    <2>3. CASE k = j
      BY <2>1, <2>3 DEF Alone, OneMoves, SameSid
    <2>4. CASE i # j /\ k # j
      BY <2>1, <2>4 DEF Alone, OneMoves
    <2> QED BY <2>2, <2>3, <2>4
  <1> QED BY <1>1, <1>2 DEF Orderly

\* Saving a row of a scenario that has one, under the request it was made for.
LEMMA SaveAccepted ==
    ASSUME Orderly, NEW j \in Jobs, Working(jobs[j]), NEW row, row.req = jobs[j].rec.req
    PROVE  Saved(jobs[j].sid, row) = [rows EXCEPT ![jobs[j].sid] = row]
  <1>1. rows[jobs[j].sid] # Null /\ rows[jobs[j].sid].req = row.req /\ jobs[j].sid \in Scenarios
    BY WorkRow
  <1> QED BY <1>1 DEF Orderly, NsUnique, Saved, TakenByOther

LEMMA SaveNs ==
    ASSUME Orderly, NEW s \in Scenarios, NEW row, rows[s] # Null, row.req = rows[s].req,
           rows' = [rows EXCEPT ![s] = row]
    PROVE  NsUnique'
  <1>1. rows \in [Scenarios -> Row \cup {Null}] /\ NsUnique
    BY DEF Orderly, KeyInv, Typed, TypeOK
  <1> QED BY <1>1 DEF NsUnique

\* What the first step of a task makes of it.
LEMMA LoadMoves ==
    ASSUME Orderly, NEW j \in Jobs, Load(j), NEW b, b = jobs[j], NEW c, c = jobs'[j]
    PROVE  \/ /\ b.kind = All /\ c.kind = All /\ c.pc = "next" /\ c.sid = Null /\ c.env = b.env
              /\ c.queue = Tearable(b.env)
           \/ /\ b.kind \in {"create", "refresh", "teardown"} /\ c.kind = b.kind
              /\ c.sid = b.sid /\ c.sid \in Scenarios /\ c.queue = {} /\ Working(c)
              /\ c.rec = rows[b.sid] /\ c.rec \in Row /\ c.rec # Null
              /\ b.kind = "create" => /\ c.pc = "register" /\ c.out = b.out
                                      /\ c.todo = c.rec.req.suppliers
              /\ b.kind = "refresh" => /\ c.pc = "reregister" /\ c.out = RefreshBundle(c.rec)
                                       /\ c.rec.status = "READY"
                                       /\ c.todo = c.rec.req.suppliers
              /\ b.kind = "teardown" => \E d : /\ HasRow(d) /\ d.rec = c.rec /\ d.sid = c.sid
                                               /\ d.kind = b.kind /\ c = ToRestore(d)
  <1> DEFINE row == rows[b.sid]
  <1>1. b \in Job /\ Lane(b) /\ b.pc = "load" /\ Typed
    BY DEF Orderly, KeyInv, Typed, TypeOK, Lanes, Load, At
  <1>2. ASSUME b.kind # All PROVE StillWanted(b.kind, row)
    <2>1. Fresh(rows, b) /\ b.kind \in {"create", "refresh", "teardown"}
      BY <1>1, <1>2 DEF Orderly, Current, Lane, IdleJob, Job, Kinds, All
    <2> QED BY <2>1 DEF Fresh, StillWanted
  <1>3. CASE b.kind = All /\ Becomes(j, [b EXCEPT !.pc = "next", !.queue = Tearable(b.env)])
    <2>1. c = [b EXCEPT !.pc = "next", !.queue = Tearable(b.env)]
      BY <1>1, <1>3, BecomesTask
    <2> QED BY <1>1, <1>3, <2>1 DEF Job, Lane, All
  <1>4. ASSUME b.kind # All, StillWanted(b.kind, row)
        PROVE  /\ row \in Row /\ row # Null /\ b.sid \in Scenarios /\ b.queue = {}
               /\ b.kind \in {"create", "refresh", "teardown"}
    BY <1>1, <1>4 DEF Typed, TypeOK, Lane, StillWanted, Job, Kinds, IdleJob, All
  <1>5. CASE /\ b.kind = "create" /\ StillWanted(b.kind, row)
             /\ Becomes(j, [b EXCEPT !.pc = "register", !.rec = row,
                                     !.todo = row.req.suppliers])
    <2>1. c = [b EXCEPT !.pc = "register", !.rec = row, !.todo = row.req.suppliers]
      BY <1>1, <1>5, BecomesTask
    <2>2. c.pc = "register" /\ c.rec = row /\ c.todo = row.req.suppliers /\ c.kind = b.kind
          /\ c.sid = b.sid /\ c.queue = b.queue /\ c.out = b.out
      BY <1>1, <2>1 DEF Job
    <2> QED BY <1>4, <1>5, <2>2 DEF Working, All
  <1>6. CASE /\ b.kind = "refresh" /\ StillWanted(b.kind, row)
             /\ Becomes(j, [b EXCEPT !.pc = "reregister", !.rec = row,
                                     !.todo = row.req.suppliers,
                                     !.out = RefreshBundle(row)])
    <2>1. c = [b EXCEPT !.pc = "reregister", !.rec = row, !.todo = row.req.suppliers,
                        !.out = RefreshBundle(row)]
      BY <1>1, <1>6, BecomesTask
    <2>2. c.pc = "reregister" /\ c.rec = row /\ c.kind = b.kind /\ c.out = RefreshBundle(row)
          /\ c.todo = row.req.suppliers /\ c.sid = b.sid /\ c.queue = b.queue
      BY <1>1, <2>1 DEF Job
    <2> QED BY <1>4, <1>6, <2>2 DEF Working, All, StillWanted
  <1>7. CASE /\ b.kind = "teardown" /\ StillWanted(b.kind, row)
             /\ Becomes(j, ToRestore([b EXCEPT !.rec = row]))
    <2> DEFINE d == [b EXCEPT !.rec = row]
    <2>1. HasRow(d) /\ d.kind = b.kind /\ d.sid = b.sid /\ d.queue = {} /\ d.rec = row
      BY <1>1, <1>4, <1>7 DEF HasRow, Job, All
    <2>2. c = ToRestore(d)
      BY <1>1, <1>7, BecomesTask
    <2>3. SameWork(d, d)
      BY DEF SameWork
    <2> HIDE DEF d
    <2>4. SameWork(d, c) /\ c.pc \in {"restore", "cleanBr", "unmock"}
      BY <2>1, <2>2, <2>3, StageWork, StageOrder
    <2> QED BY <1>4, <1>7, <2>1, <2>2, <2>4 DEF SameWork, Working, All
  <1> QED
    BY <1>2, <1>3, <1>5, <1>6, <1>7 DEF Load, All

LEMMA LoadOrderly ==
    ASSUME Orderly, KeyInv', Lanes', NEW j \in Jobs, Load(j)
    PROVE  Orderly'
  <1> DEFINE b == jobs[j]
             c == jobs'[j]
  <1>1. b.kind # "idle" /\ b \in Job /\ Fresh(rows, b)
    BY DEF Orderly, Current, Lanes, Lane, IdleJob, Load, At, KeyInv, Typed, TypeOK
  <1>2. UNCHANGED <<rows, asked>> /\ \A i \in Jobs : i # j => jobs'[i] = jobs[i]
    BY BecomesTask DEF Orderly, KeyInv, Load, history
  <1>3. OneMoves(j) /\ AskedOK' /\ NsUnique'
    BY <1>1, <1>2 DEF Orderly, OneMoves, AskedOK, NsUnique
  <1>4. Fresh(rows, c) /\ SameSid(b, c)
    <2>2. CASE /\ b.kind = All /\ c.kind = All /\ c.pc = "next" /\ c.sid = Null
               /\ c.queue = Tearable(b.env)
      BY <2>2, ConstantsAssumption DEF Fresh, SameSid, Working, All, Tearable
    <2>3. CASE /\ b.kind \in {"create", "refresh", "teardown"} /\ c.kind = b.kind
               /\ c.sid = b.sid /\ c.queue = {}
               /\ c.rec = rows[b.sid] /\ c.rec # Null
      BY <1>1, <2>3 DEF Fresh, SameSid
    <2> QED BY <2>2, <2>3, LoadMoves
  <1> QED BY <1>2, <1>3, <1>4, OneMovesOrderly

LEMMA SpawnOrderly ==
    ASSUME ~Overlap, Orderly, KeyInv', Lanes', AskedOK', NsUnique',
           NEW s \in Scenarios, NEW kind \in {"create", "refresh", "teardown"},
           MayStart(s), Spawn(kind, s),
           \A t \in Scenarios : t # s => rows'[t] = rows[t],
           rows'[s] # Null, kind = "create" => rows'[s].status = "PENDING",
           kind = "refresh" => rows'[s].status = "READY"
    PROVE  Orderly'
  <1> DEFINE new == [IdleJob EXCEPT !.kind = kind, !.pc = "load", !.sid = s]
  <1>1. PICK j \in Jobs : Idle(j) /\ Becomes(j, new)
    BY DEF Spawn
  <1>2. new.kind = kind /\ new.pc = "load" /\ new.sid = s /\ new.queue = {}
    BY DEF IdleJob
  <1> HIDE DEF new
  <1>3. jobs'[j] = new /\ \A i \in Jobs : i # j => jobs'[i] = jobs[i]
    BY <1>1, BecomesTask DEF Orderly, KeyInv
  <1>4. NoTeardownAll /\ \A i \in Jobs : s \notin Sids(jobs[i])
    BY DEF MayStart, Quiet
  <1>5. \A i \in Jobs : jobs[i].sid # s /\ \A e \in jobs[i].queue : e.sid # s
    BY <1>4, ConstantsAssumption DEF Sids
  <1>6. Alone'
    BY <1>2, <1>3, <1>4, <1>5 DEF Alone, NoTeardownAll, Orderly, All
  <1>7. ASSUME NEW i \in Jobs PROVE Fresh(rows', jobs'[i])
    <2>1. CASE i = j
      BY <1>2, <1>3, <2>1 DEF Fresh, Working
    <2>2. CASE i # j
      <3>1. jobs'[i] = jobs[i] /\ Fresh(rows, jobs[i]) /\ Lane(jobs[i]) /\ jobs[i] \in Job
        BY <1>3, <2>2 DEF Orderly, Current, Lanes, KeyInv, Typed, TypeOK
      <3>2. Working(jobs[i]) => jobs[i].sid \in Scenarios
        BY AtWork DEF Orderly, KeyInv, HasRow
      <3>3. \A e \in jobs[i].queue : e.sid \in Scenarios
        BY <3>1 DEF Job, Entry
      <3> QED BY <1>5, <3>1, <3>2, <3>3 DEF Fresh, Lane
    <2> QED BY <2>1, <2>2
  <1> QED BY <1>6, <1>7 DEF Orderly, Current

LEMMA AskOrderly ==
    ASSUME ~Overlap, Orderly, KeyInv', Lanes', Ask
    PROVE  Orderly'
  <1>1. rows \in [Scenarios -> Row \cup {Null}] /\ asked \in [Scenarios -> Request \cup {Null}]
    BY DEF Orderly, KeyInv, Typed, TypeOK
  <1>2. ASSUME NEW s \in Scenarios, Submit(s) PROVE Orderly'
    <2>1. PICK req \in RequestsOf[s] :
            /\ ~TakenByOther(s, req.ns)
            /\ rows' = [rows EXCEPT ![s] = [req |-> req, status |-> "PENDING",
                                            assets |-> NoAssets]]
            /\ asked' = [asked EXCEPT ![s] = req]
      BY <1>2 DEF Submit
    <2> DEFINE row == [req |-> req, status |-> "PENDING", assets |-> NoAssets]
    <2>2. row \in Row /\ row.req = req /\ row.status = "PENDING" /\ row # Null
      BY NoAssetsType, ConstantsAssumption DEF Row
    <2> HIDE DEF row
    <2>3. rows'[s] = row /\ \A t \in Scenarios : t # s => rows'[t] = rows[t]
      BY <1>1, <2>1 DEF row
    <2>4. NsUnique'
      BY <2>1, <2>2, <2>3 DEF Orderly, NsUnique, TakenByOther
    <2>5. AskedOK'
      BY <1>1, <2>1 DEF Orderly, AskedOK
    <2>6. Spawn("create", s) /\ MayStart(s)
      BY <1>2 DEF Submit
    <2> QED BY <2>2, <2>3, <2>4, <2>5, <2>6, SpawnOrderly
  <1>3. ASSUME UNCHANGED <<rows, asked>> PROVE NsUnique' /\ AskedOK'
    BY <1>3 DEF Orderly, NsUnique, AskedOK
  <1>4. ASSUME NEW s \in Scenarios, AskRefresh(s) PROVE Orderly'
    BY <1>3, <1>4, SpawnOrderly DEF AskRefresh, history
  <1>5. ASSUME NEW s \in Scenarios, AskTeardown(s) PROVE Orderly'
    BY <1>3, <1>5, SpawnOrderly DEF AskTeardown, history
  <1>6. ASSUME NEW e \in Envs, AskTeardownAll(e) PROVE Orderly'
    <2> DEFINE new == [IdleJob EXCEPT !.kind = "teardown_all", !.pc = "load", !.env = e]
    <2>1. PICK j \in Jobs : Becomes(j, new)
      BY <1>6 DEF AskTeardownAll
    <2>2. new.kind = All /\ new.pc = "load" /\ new.queue = {}
      BY DEF IdleJob, All
    <2> HIDE DEF new
    <2>3. jobs'[j] = new /\ \A i \in Jobs : i # j => jobs'[i] = jobs[i]
      BY <2>1, BecomesTask DEF Orderly, KeyInv
    <2>4. \A i \in Jobs : jobs[i].kind = "idle"
      BY <1>6 DEF AskTeardownAll, Idle
    <2>5. Alone'
      BY <2>3, <2>4 DEF Alone
    <2>6. UNCHANGED <<rows, asked>>
      BY <1>6 DEF AskTeardownAll, history
    <2>7. Current'
      BY <2>2, <2>3, <2>6 DEF Orderly, Current, Fresh, Working, All
    <2> QED BY <1>3, <2>5, <2>6, <2>7 DEF Orderly
  <1> QED BY <1>2, <1>4, <1>5, <1>6 DEF Ask

\* A call of a task that leaves the rows alone, and one that ends it.
LEMMA CallOrderly ==
    ASSUME Orderly, KeyInv', Lanes', NEW j \in Jobs, Working(jobs[j]),
           \A i \in Jobs : i # j => jobs'[i] = jobs[i],
           SameWork(jobs[j], jobs'[j]), Working(jobs'[j]), UNCHANGED <<rows, asked>>
    PROVE  Orderly'
  <1> DEFINE b == jobs[j]
             c == jobs'[j]
  <1>1. OneMoves(j) /\ Fresh(rows, b)
    BY WorkRow DEF OneMoves, Orderly, Current
  <1>2. Fresh(rows', c) /\ SameSid(b, c)
    BY <1>1 DEF Fresh, SameWork, SameSid
  <1>3. AskedOK' /\ NsUnique'
    BY DEF Orderly, AskedOK, NsUnique
  <1> QED BY <1>1, <1>2, <1>3, OneMovesOrderly

LEMMA EndOrderly ==
    ASSUME Orderly, KeyInv', Lanes', NEW j \in Jobs, jobs'[j] = IdleJob, OneMoves(j),
           NsUnique', UNCHANGED asked
    PROVE  Orderly'
  <1>2. Fresh(rows', IdleJob) /\ SameSid(jobs[j], IdleJob)
    BY DEF IdleJob, Fresh, Working, SameSid
  <1>3. AskedOK'
    BY DEF Orderly, AskedOK
  <1> QED BY <1>2, <1>3, OneMovesOrderly

\* Only the start of a create changes what was asked for; only the end of a task
\* changes the rows.
LEMMA CallRows ==
    ASSUME NEW j \in Jobs, CreateStep(j) \/ RefreshStep(j) \/ TeardownStep(j)
    PROVE  /\ UNCHANGED asked
           /\ UNCHANGED rows \/ CreateRaises(j) \/ RefreshRaises(j) \/ RemoveRow(j)
  BY DEF CreateStep, Register, PrebookGet, PrebookPut, CreateContract, CreateSbGroup,
         CreateSbConfig, CreateApiKey, AttachGet, ReadApiKey, AttachPut, ClearCache,
         ProvisionBr, CreateRaises, RefreshStep, Reregister, RefreshRaises,
         TeardownStep, RestorePrebooking, RestoreFails, CleanBr, Unmock, DetachGet,
         DetachPut, DetachFails, DeleteContract, DeleteApiKey, DeleteSb, DeleteSbFails,
         TeardownRaises, RemoveRow, CallFails, history

\* The rows after the save that ends a create or a refresh.
LEMMA SaveRows ==
    ASSUME Orderly, NEW j \in Jobs, Finish(j) \/ CreateRaises(j) \/ RefreshRaises(j)
    PROVE  /\ Working(jobs[j]) /\ Becomes(j, IdleJob)
           /\ \E row : /\ row.req = jobs[j].rec.req
                       /\ rows' = [rows EXCEPT ![jobs[j].sid] = row]
                       /\ jobs[j].pc = "finish" => row = ApplyBundle(jobs[j].rec, jobs[j].out)
                       /\ jobs[j].pc \in CreateCalls => row = FailedRow(jobs[j].rec)
                       /\ jobs[j].pc = "reregister" => row = jobs[j].rec
  <1> DEFINE b == jobs[j]
  <1>1. Working(b) /\ Becomes(j, IdleJob)
    BY DEF Finish, CreateRaises, RefreshRaises, At, Working, CreateCalls
  <1>2. b.rec \in Row /\ b.out \in Assets
    BY <1>1, WorkRow, AtWork DEF Orderly, KeyInv
  <1>3. ApplyBundle(b.rec, b.out).req = b.rec.req /\ FailedRow(b.rec).req = b.rec.req
    BY <1>2 DEF ApplyBundle, FailedRow, Row
  <1>4. \A row : row.req = b.rec.req => Saved(b.sid, row) = [rows EXCEPT ![b.sid] = row]
    BY <1>1, SaveAccepted
  <1>5. CASE Finish(j)
    <2>1. rows' = [rows EXCEPT ![b.sid] = ApplyBundle(b.rec, b.out)]
      BY <1>3, <1>4, <1>5 DEF Finish
    <2> QED BY <1>1, <1>3, <1>5, <2>1 DEF Finish, At, CreateCalls
  <1>6. CASE CreateRaises(j)
    BY <1>1, <1>3, <1>4, <1>6 DEF CreateRaises, CreateCalls
  <1>7. CASE RefreshRaises(j)
    BY <1>1, <1>4, <1>7 DEF RefreshRaises, At, CreateCalls
  <1> QED BY <1>5, <1>6, <1>7

LEMMA SaveOrderly ==
    ASSUME Orderly, KeyInv', Lanes', NEW j \in Jobs,
           Finish(j) \/ CreateRaises(j) \/ RefreshRaises(j)
    PROVE  Orderly'
  <1>1. Working(jobs[j]) /\ Becomes(j, IdleJob)
    BY SaveRows
  <1>2. PICK row : row.req = jobs[j].rec.req /\ rows' = [rows EXCEPT ![jobs[j].sid] = row]
    BY SaveRows
  <1>3. jobs[j].sid \in Scenarios /\ rows[jobs[j].sid] = jobs[j].rec /\ jobs[j].rec # Null
        /\ jobs[j].kind # "idle"
    BY <1>1, WorkRow
  <1>4. NsUnique'
    BY <1>2, <1>3, SaveNs
  <1>5. jobs'[j] = IdleJob /\ OneMoves(j)
    BY <1>1, <1>2, <1>3, BecomesTask DEF Orderly, KeyInv, Typed, TypeOK, OneMoves
  <1>6. UNCHANGED asked
    BY DEF Finish, CreateRaises, RefreshRaises, CallFails
  <1> QED BY <1>4, <1>5, <1>6, EndOrderly

LEMMA RemoveRowOrderly ==
    ASSUME Orderly, KeyInv', Lanes', NEW j \in Jobs, RemoveRow(j)
    PROVE  Orderly'
  <1> DEFINE b == jobs[j]
             c == jobs'[j]
  <1>1. Working(b) /\ UNCHANGED asked
    BY DEF RemoveRow, At, Working, history
  <1>2. b.sid \in Scenarios /\ b.kind # "idle" /\ b \in Job /\ Lane(b) /\ b.pc = "removeRow"
    BY <1>1, WorkRow DEF RemoveRow, At
  <1>3. rows \in [Scenarios -> Row \cup {Null}] /\ rows' = [rows EXCEPT ![b.sid] = Null]
    BY DEF RemoveRow, Orderly, KeyInv, Typed, TypeOK
  <1>4. NsUnique' /\ AskedOK' /\ OneMoves(j)
    <2>1. \A i \in Jobs : i # j => jobs'[i] = jobs[i]
      BY StepTask DEF TeardownStep, Orderly, KeyInv
    <2> QED BY <1>1, <1>2, <1>3, <2>1 DEF Orderly, NsUnique, AskedOK, OneMoves
  <1>5. CASE Becomes(j, IdleJob)
    <2>1. c = IdleJob
      BY <1>5, BecomesTask DEF Orderly, KeyInv
    <2> QED BY <1>1, <1>4, <2>1, EndOrderly
  <1>6. CASE ~Becomes(j, IdleJob)
    <2>1. b.kind = All
      BY <1>2, <1>6 DEF RemoveRow, Job, Kinds, Lane, CreateCalls, All
    <2>2. c = [b EXCEPT !.pc = "next", !.sid = Null, !.rec = Null, !.torn = @ \/ b.ok]
      BY <1>6, BecomesTask DEF RemoveRow, Orderly, KeyInv
    <2>3. c.pc = "next" /\ c.sid = Null /\ c.queue = b.queue /\ c.kind = b.kind
      BY <1>2, <2>2 DEF Job
    <2>4. \A e \in b.queue : e.sid \in Scenarios /\ rows[e.sid] = e.row /\ e.sid # b.sid
      BY <1>2 DEF Job, Entry, Orderly, Current, Fresh
    <2>5. Fresh(rows', c)
      BY <1>3, <2>1, <2>3, <2>4, ConstantsAssumption DEF Fresh, Working, All
    <2>6. SameSid(b, c)
      BY <2>1, <2>3 DEF SameSid
    <2> QED BY <1>4, <2>5, <2>6, OneMovesOrderly
  <1> QED BY <1>5, <1>6

\* The next row of the list.
LEMMA TakeNextMoves ==
    ASSUME Orderly, NEW j \in Jobs, TakeNext(j), NEW b, b = jobs[j], NEW c, c = jobs'[j]
    PROVE  \E e \in b.queue, d \in Job :
               /\ HasRow(d) /\ d.sid = e.sid /\ d.rec = e.row /\ d.kind = All
               /\ d.queue = b.queue \ {e} /\ d.env = b.env /\ c = ToRestore(d)
               /\ SameWork(d, c) /\ c.pc \in {"restore", "cleanBr", "unmock"}
               /\ rows[e.sid] = e.row /\ e \in Entry /\ b.kind = All /\ b.sid = Null
  <1>1. b.pc = "next" /\ b \in Job /\ Lane(b) /\ Fresh(rows, b)
    BY DEF Orderly, Current, Lanes, TakeNext, At, KeyInv, Typed, TypeOK
  <1>2. b.kind = All /\ b.sid = Null
    BY <1>1 DEF Job, Lane, IdleJob, CreateCalls, TearingPCs, TeardownCalls, Kinds, All
  <1>3. PICK e \in b.queue :
          Becomes(j, ToRestore([b EXCEPT !.sid = e.sid, !.rec = e.row,
                                         !.queue = @ \ {e}, !.ok = TRUE]))
    BY DEF TakeNext
  <1> DEFINE d == [b EXCEPT !.sid = e.sid, !.rec = e.row, !.queue = @ \ {e}, !.ok = TRUE]
  <1>4. e \in Entry /\ rows[e.sid] = e.row
    BY <1>1 DEF Job, Fresh
  <1>5. HasRow(d) /\ d.sid = e.sid /\ d.rec = e.row /\ d.kind = All /\ d.queue = b.queue \ {e}
        /\ d.env = b.env
    BY <1>1, <1>2, <1>4 DEF HasRow, Job, Entry
  <1>6. c = ToRestore(d)
    BY <1>3, BecomesTask DEF Orderly, KeyInv
  <1>7. SameWork(d, d)
    BY DEF SameWork
  <1> HIDE DEF d
  <1>8. SameWork(d, c) /\ c.pc \in {"restore", "cleanBr", "unmock"}
    BY <1>5, <1>6, <1>7, StageWork, StageOrder
  <1>9. d \in Job
    BY <1>5 DEF HasRow
  <1> QED BY <1>2, <1>4, <1>5, <1>6, <1>8, <1>9

LEMMA TeardownAllOrderly ==
    ASSUME Orderly, KeyInv', Lanes', NEW j \in Jobs, TeardownAllStep(j)
    PROVE  Orderly'
  <1> DEFINE b == jobs[j]
             c == jobs'[j]
  <1>1. b.pc \in {"next", "sweep"} /\ b \in Job /\ Lane(b) /\ Fresh(rows, b)
    BY DEF TeardownAllStep, TakeNext, QueueDone, Sweep, SweepFails, At, Orderly, Current, Lanes,
           KeyInv, Typed, TypeOK
  <1>2. b.kind = All
    BY <1>1 DEF Job, Lane, IdleJob, CreateCalls, TearingPCs, TeardownCalls, Kinds, All
  <1>3. UNCHANGED <<rows, asked>> /\ \A i \in Jobs : i # j => jobs'[i] = jobs[i]
    BY BecomesTask DEF TeardownAllStep, TakeNext, QueueDone, Sweep, SweepFails, Orderly, KeyInv, history
  <1>4. OneMoves(j) /\ AskedOK' /\ NsUnique'
    BY <1>2, <1>3 DEF Orderly, OneMoves, AskedOK, NsUnique, All
  <1>5. CASE Becomes(j, IdleJob)
    <2>1. c = IdleJob
      BY <1>5, BecomesTask DEF Orderly, KeyInv
    <2> QED BY <1>3, <1>4, <2>1, EndOrderly
  <1>6. CASE TakeNext(j)
    <2>1. PICK e \in b.queue, d \in Job :
             /\ HasRow(d) /\ d.sid = e.sid /\ d.rec = e.row /\ d.kind = All
             /\ d.queue = b.queue \ {e} /\ d.env = b.env /\ c = ToRestore(d)
             /\ SameWork(d, c) /\ c.pc \in {"restore", "cleanBr", "unmock"}
             /\ rows[e.sid] = e.row /\ e \in Entry /\ b.kind = All /\ b.sid = Null
      BY <1>6, TakeNextMoves
    <2>2. c.kind = All /\ c.sid = e.sid /\ c.rec = e.row /\ c.queue = b.queue \ {e}
      BY <2>1 DEF SameWork
    <2>3. \A f \in b.queue : f \in Entry /\ rows[f.sid] = f.row
      BY <1>1 DEF Job, Fresh
    <2>4. \A f \in b.queue \ {e} : f.sid # e.sid
      BY <2>1, <2>3 DEF Entry
    <2>5. Fresh(rows, c) /\ SameSid(b, c)
      BY <1>2, <2>1, <2>2, <2>3, <2>4 DEF Fresh, SameSid, All
    <2> QED BY <1>3, <1>4, <2>5, OneMovesOrderly
  <1>7. CASE QueueDone(j) /\ ~Becomes(j, IdleJob)
    <2>1. c = [b EXCEPT !.pc = "sweep"]
      BY <1>7, BecomesTask DEF QueueDone, Orderly, KeyInv
    <2>2. c.pc = "sweep" /\ SameWork(b, c)
      BY <1>1, <2>1 DEF Job, SameWork
    <2>3. Fresh(rows, c) /\ SameSid(b, c)
      BY <1>1, <1>2, <2>2 DEF Fresh, SameSid, SameWork, Working, All
    <2> QED BY <1>3, <1>4, <2>3, OneMovesOrderly
  <1> QED BY <1>5, <1>6, <1>7 DEF TeardownAllStep, Sweep, SweepFails

LEMMA NextOrderly ==
    ASSUME ~Overlap
    PROVE  Orderly /\ [Next]_vars => Orderly'
  <1> SUFFICES ASSUME Orderly, [Next]_vars PROVE Orderly'
    OBVIOUS
  <1>1. KeyInv' /\ Lanes'
    BY NextKey, NextLanes DEF Orderly, KeyInv
  <1>2. CASE UNCHANGED vars
    BY <1>1, <1>2 DEF vars, history, Orderly, Alone, Current, NsUnique, AskedOK
  <1>3. CASE Crash
    <2>1. Alone' /\ Current'
      BY <1>3 DEF Crash, Alone, Current, Fresh, IdleJob, Working
    <2> QED BY <1>1, <1>3, <2>1 DEF Crash, Orderly, NsUnique, AskedOK
  <1>4. ASSUME NEW j \in Jobs, CreateStep(j) \/ RefreshStep(j) \/ TeardownStep(j) PROVE Orderly'
    <2>1. CASE CreateRaises(j) \/ RefreshRaises(j) \/ RemoveRow(j)
      BY <1>1, <2>1, SaveOrderly, RemoveRowOrderly
    <2>2. CASE ~(CreateRaises(j) \/ RefreshRaises(j) \/ RemoveRow(j))
      <3>1. UNCHANGED <<rows, asked>> /\ \A i \in Jobs : i # j => jobs'[i] = jobs[i]
        BY <1>4, <2>2, CallRows, StepTask DEF Orderly, KeyInv
      <3>2. Working(jobs[j]) /\ Moves(jobs[j], jobs'[j])
        BY <1>4, <2>2, CreateMoves, RefreshMoves, TeardownMoves DEF Orderly, KeyInv
      <3>3. CASE jobs'[j] = IdleJob
        <4>1. OneMoves(j) /\ NsUnique'
          BY <3>1, <3>2, WorkRow DEF OneMoves, Orderly, NsUnique
        <4> QED BY <1>1, <3>1, <3>3, <4>1, EndOrderly
      <3>4. CASE jobs'[j] # IdleJob
        <4>1. SameWork(jobs[j], jobs'[j]) /\ Working(jobs'[j])
          BY <3>2, <3>4 DEF Moves, Working, CreateCalls, TearingPCs, TeardownCalls
        <4> QED BY <1>1, <3>1, <3>2, <4>1, CallOrderly
      <3> QED BY <3>3, <3>4
    <2> QED BY <2>1, <2>2
  <1>5. ASSUME NEW j \in Jobs, Step(j) PROVE Orderly'
    BY <1>1, <1>4, <1>5, LoadOrderly, SaveOrderly, TeardownAllOrderly DEF Step
  <1> QED BY <1>1, <1>2, <1>3, <1>5, AskOrderly DEF Next

\* For callers that wait for each operation: a scenario has one task at work, whose copy
\* of the row is the row of the collection, and no two rows share a namespace.  This is
\* what save's replace_one and the unique index of the rows leave to the callers.
THEOREM OrderlyTasks == ASSUME ~Overlap PROVE Spec => []Orderly
  BY InitOrderly, NextOrderly, PTL DEF Spec

-----------------------------------------------------------------------------
\* The rows implement the registry.

\* A step that leaves the rows and the requests of all scenarios but s alone.
LEMMA OnlyStage ==
    ASSUME NEW s \in Scenarios, NEW stage, Stage(s)' = stage, NEW ns,
           (IF rows[s] = Null THEN Null ELSE rows[s].req.ns)' = ns,
           \A t \in Scenarios : t # s => rows'[t] = rows[t] /\ asked'[t] = asked[t]
    PROVE  /\ [t \in Scenarios |-> Stage(t)]' = [[t \in Scenarios |-> Stage(t)] EXCEPT ![s] = stage]
           /\ [t \in Scenarios |-> IF rows[t] = Null THEN Null ELSE rows[t].req.ns]'
              = [[t \in Scenarios |-> IF rows[t] = Null THEN Null ELSE rows[t].req.ns]
                    EXCEPT ![s] = ns]
  BY DEF Stage

LEMMA SameStages ==
    ASSUME UNCHANGED <<rows, asked>>
    PROVE  UNCHANGED Registry!vars
  BY DEF Registry!vars, Stage

LEMMA SubmitAccepts ==
    ASSUME Orderly, NEW s \in Scenarios, Submit(s)
    PROVE  \E n \in Namespaces : Registry!Accept(s, n)
  <1>1. PICK req \in RequestsOf[s] :
          /\ ~TakenByOther(s, req.ns)
          /\ rows' = [rows EXCEPT ![s] = [req |-> req, status |-> "PENDING",
                                          assets |-> NoAssets]]
          /\ asked' = [asked EXCEPT ![s] = req]
    BY DEF Submit
  <1>2. rows \in [Scenarios -> Row \cup {Null}] /\ asked \in [Scenarios -> Request \cup {Null}]
        /\ RowsBound
    BY DEF Orderly, KeyInv, Typed, TypeOK
  <1> DEFINE row == [req |-> req, status |-> "PENDING", assets |-> NoAssets]
  <1>3. req \in Request /\ req # Null /\ row \in Row /\ row # Null
    BY NoAssetsType, ConstantsAssumption DEF Row
  <1>4. req.ns \in Namespaces /\ req.ns # Null
    BY <1>3, ConstantsAssumption DEF Request
  <1>5. row.req = req /\ row.status = "PENDING"
    OBVIOUS
  <1>6. rows'[s] = row /\ asked'[s] = req
        /\ \A t \in Scenarios : t # s => rows'[t] = rows[t] /\ asked'[t] = asked[t]
    BY <1>1, <1>2
  <1> HIDE DEF row
  <1>7. asked[s] = Null /\ rows[s] = Null
    <2>1. asked[s] = Null
      BY DEF Submit
    <2>2. rows[s] # Null => rows[s] \in Row /\ rows[s].req = Null
      BY <1>2, <2>1 DEF RowsBound, Bound
    <2> QED BY <2>1, <2>2, RowFields, ConstantsAssumption
  <1>8. Stage(s)' = "pending" /\ (IF rows[s] = Null THEN Null ELSE rows[s].req.ns)' = req.ns
    BY <1>3, <1>5, <1>6 DEF Stage
  <1>9. Stage(s) = "new"
    BY <1>7 DEF Stage
  <1>10. \A t \in Scenarios : (IF rows[t] = Null THEN Null ELSE rows[t].req.ns) # req.ns
    BY <1>1, <1>4, <1>7 DEF TakenByOther
  <1> QED BY <1>4, <1>6, <1>8, <1>9, <1>10, OnlyStage DEF Registry!Accept

LEMMA SaveCompletes ==
    ASSUME Orderly, NEW j \in Jobs, Finish(j) \/ CreateRaises(j) \/ RefreshRaises(j),
           NEW s, s = jobs[j].sid
    PROVE  Registry!Complete(s) \/ UNCHANGED Registry!vars
  <1> DEFINE b == jobs[j]
  <1>1. Working(b)
    BY SaveRows
  <1>2. PICK row : /\ row.req = b.rec.req
                   /\ rows' = [rows EXCEPT ![s] = row]
                   /\ b.pc = "finish" => row = ApplyBundle(b.rec, b.out)
                   /\ b.pc \in CreateCalls => row = FailedRow(b.rec)
                   /\ b.pc = "reregister" => row = b.rec
    BY SaveRows
  <1>3. /\ s \in Scenarios /\ rows[s] = b.rec /\ b.rec \in Row /\ b.rec # Null
        /\ asked[s] = b.rec.req /\ b.rec.req \in Request /\ Lane(b) /\ Fresh(rows, b)
        /\ b.out \in Assets /\ b \in Job
    BY <1>1, WorkRow, AtWork DEF Orderly, Current, KeyInv
  <1>4. rows \in [Scenarios -> Row \cup {Null}] /\ UNCHANGED asked
    BY DEF Orderly, KeyInv, Typed, TypeOK, Finish, CreateRaises, RefreshRaises, CallFails
  <1>5. asked[s] # Null
    BY <1>3, ConstantsAssumption
  <1>6. rows'[s] = row /\ \A t \in Scenarios : t # s => rows'[t] = rows[t] /\ asked'[t] = asked[t]
    BY <1>2, <1>3, <1>4
  <1>7. ApplyBundle(b.rec, b.out) \in Row /\ ApplyBundle(b.rec, b.out).status = "READY"
        /\ FailedRow(b.rec) \in Row /\ FailedRow(b.rec).status = "FAILED"
    BY <1>3, ApplyBundleType, FailedRowType DEF ApplyBundle, FailedRow, Row
  <1>8. b.pc \in CreateCalls \cup {"finish", "reregister"}
    BY DEF Finish, CreateRaises, RefreshRaises, At
  <1>9. row \in Row /\ row # Null
    BY <1>2, <1>3, <1>7, <1>8, ConstantsAssumption
  <1>10. PICK ns : ns = rows[s].req.ns /\ (IF rows[s] = Null THEN Null ELSE rows[s].req.ns)' = ns
    BY <1>2, <1>3, <1>6, <1>9
  <1>11. UNCHANGED [t \in Scenarios |-> IF rows[t] = Null THEN Null ELSE rows[t].req.ns]
    BY <1>3, <1>6, <1>10
  <1>12. CASE b.kind = "create"
    <2>1. Stage(s) = "pending"
      BY <1>3, <1>5, <1>12 DEF Stage, Fresh
    <2>2. row.status \in {"READY", "FAILED"}
      BY <1>2, <1>3, <1>7, <1>8, <1>12 DEF Lane
    <2>3. Stage(s)' \in {"ready", "failed"}
      BY <1>4, <1>5, <1>6, <1>9, <2>2 DEF Stage
    <2> QED
      BY <1>3, <1>6, <1>10, <1>11, <2>1, <2>3, OnlyStage DEF Registry!Complete
  <1>13. CASE b.kind # "create"
    <2>1. b.kind = "refresh" /\ b.pc \in {"finish", "reregister"}
      BY <1>3, <1>8, <1>13
         DEF Lane, Job, Kinds, IdleJob, CreateCalls, TearingPCs, TeardownCalls, All
    <2>2. row.status = "READY" /\ rows[s].status = "READY"
      BY <1>2, <1>3, <1>7, <2>1 DEF Fresh
    <2>3. Stage(s)' = "ready" /\ Stage(s) = "ready"
      BY <1>3, <1>4, <1>5, <1>6, <1>9, <2>2 DEF Stage
    <2>4. \A t \in Scenarios : Stage(t)' = Stage(t)
      BY <1>6, <2>3 DEF Stage
    <2> QED BY <1>11, <2>4 DEF Registry!vars
  <1> QED BY <1>12, <1>13

LEMMA RemoveRowDeletes ==
    ASSUME Orderly, NEW j \in Jobs, RemoveRow(j), NEW s, s = jobs[j].sid
    PROVE  Registry!Delete(s)
  <1>1. Working(jobs[j])
    BY DEF RemoveRow, At, Working
  <1>2. s \in Scenarios /\ rows[s] # Null /\ rows[s] \in Row /\ asked[s] # Null
    BY <1>1, WorkRow, ConstantsAssumption
  <1>3. rows \in [Scenarios -> Row \cup {Null}] /\ rows' = [rows EXCEPT ![s] = Null]
        /\ UNCHANGED asked
    BY DEF RemoveRow, Orderly, KeyInv, Typed, TypeOK, history
  <1>4. Stage(s) \in {"pending", "ready", "failed"}
    BY <1>2 DEF Stage, Row
  <1>5. Stage(s)' = "deleted" /\ (IF rows[s] = Null THEN Null ELSE rows[s].req.ns)' = Null
    BY <1>2, <1>3 DEF Stage
  <1> QED BY <1>2, <1>3, <1>4, <1>5, OnlyStage DEF Registry!Delete

LEMMA StepImplements ==
    ASSUME Orderly, [Next]_vars
    PROVE  [Registry!Next]_(Registry!vars)
  <1>1. CASE UNCHANGED <<rows, asked>>
    BY <1>1, SameStages
  <1>2. CASE UNCHANGED vars \/ Crash
    BY <1>1, <1>2 DEF vars, history, Crash
  <1>3. CASE Ask
    BY <1>1, <1>3, SubmitAccepts
       DEF Ask, AskRefresh, AskTeardown, AskTeardownAll, history, Registry!Next
  <1>4. ASSUME NEW j \in Jobs, Step(j) PROVE [Registry!Next]_(Registry!vars)
    <2>1. CASE Finish(j) \/ CreateRaises(j) \/ RefreshRaises(j)
      <3>1. jobs[j].sid \in Scenarios
        BY <2>1, SaveRows, WorkRow
      <3> QED BY <2>1, <3>1, SaveCompletes DEF Registry!Next
    <2>2. CASE RemoveRow(j)
      <3>1. Working(jobs[j])
        BY <2>2 DEF RemoveRow, At, Working
      <3> QED BY <2>2, <3>1, WorkRow, RemoveRowDeletes DEF Registry!Next
    <2>3. CASE /\ CreateStep(j) \/ RefreshStep(j) \/ TeardownStep(j)
               /\ ~(CreateRaises(j) \/ RefreshRaises(j) \/ RemoveRow(j))
      BY <1>1, <2>3, CallRows
    <2>4. CASE Load(j) \/ TeardownAllStep(j)
      BY <1>1, <2>4
         DEF Load, TeardownAllStep, TakeNext, QueueDone, Sweep, SweepFails, history
    <2> QED BY <1>4, <2>1, <2>2, <2>3, <2>4 DEF Step
  <1> QED BY <1>2, <1>3, <1>4 DEF Next

\* For callers that wait for each operation, and whatever fails or crashes, the rows
\* behave as the registry: an id is accepted once, under a namespace nobody holds,
\* becomes ready or failed once, and is deleted for good.  (That the creation of an
\* accepted scenario ends is left to the runs.)
THEOREM ImplementsRegistrySafety == ASSUME ~Overlap PROVE Spec => Registry!Spec
  <1>1. Init => Registry!Init
    BY DEF Init, Registry!Init, Stage
  <1>2. Orderly /\ [Next]_vars => [Registry!Next]_(Registry!vars)
    BY StepImplements
  <1> QED BY <1>1, <1>2, OrderlyTasks, PTL DEF Spec, Registry!Spec

-----------------------------------------------------------------------------

\* Where a create goes on: the next call it has to make, as a fact about the task.
AtBr(c) == IF NeedsBr(c.rec.req) THEN c.pc = "provisionBr" ELSE c.pc = "finish"
AtKey(c) == IF c.rec.req.depth = "full" THEN c.pc = "createKey"
            ELSE IF c.rec.req.key # NoKey THEN c.pc = "attachGet" ELSE AtBr(c)
AtSb(c) == IF c.rec.req.sb THEN c.pc = "sbGroup" ELSE AtKey(c)
AtContracts(c) == c.pc = "contracts" /\ c.todo = c.rec.req.suppliers
AtPrebook(c) == IF Pinned(c.rec.req) = {} THEN AtContracts(c)
                ELSE c.pc = "prebookGet" /\ c.todo = Pinned(c.rec.req)

\* The same for a teardown.
AtDeleteSb(c) == IF "group" \in c.rec.assets.sb /\ c.rec.assets.key # NoKey
                 THEN c.pc = "deleteSb" /\ c.sbTodo = c.rec.assets.sb
                 ELSE c.pc = "removeRow"
AtDeleteKey(c) == IF c.rec.assets.key # NoKey /\ ~c.rec.assets.ext
                  THEN c.pc = "deleteKey" ELSE AtDeleteSb(c)
AtDeleteContracts(c) == IF c.rec.assets.contracts # {}
                        THEN c.pc = "deleteContracts" /\ c.todo = c.rec.assets.contracts
                        ELSE AtDeleteKey(c)
AtDetach(c) == IF /\ c.rec.assets.ext /\ c.rec.assets.key # NoKey
                  /\ c.rec.assets.contracts # {}
               THEN c.pc = "detachGet" ELSE AtDeleteContracts(c)
AtUnmock(c) == c.pc = "unmock" /\ c.todo = c.rec.req.suppliers
AtCleanBr(c) == IF c.rec.assets.br THEN c.pc = "cleanBr" ELSE AtUnmock(c)
AtRestore(c) == IF Altered(c.rec) = {} THEN AtCleanBr(c)
                ELSE c.pc = "restore" /\ c.todo = Altered(c.rec)

LEMMA BrNext == ASSUME NEW b, HasRow(b) PROVE AtBr(ToBr(b)) /\ SameTask(b, ToBr(b))
  BY BrStage DEF HasRow, Job, ToBr, AtBr

LEMMA KeyNext == ASSUME NEW b, HasRow(b) PROVE AtKey(ToKey(b)) /\ SameTask(b, ToKey(b))
  BY BrNext, KeyStage DEF HasRow, Job, ToKey, AtKey, SameTask

LEMMA SbNext == ASSUME NEW b, HasRow(b) PROVE AtSb(ToSb(b)) /\ SameTask(b, ToSb(b))
  BY KeyNext, SbStage DEF HasRow, Job, ToSb, AtSb, SameTask

LEMMA ContractsNext ==
    ASSUME NEW b, HasRow(b) PROVE AtContracts(ToContracts(b)) /\ SameTask(b, ToContracts(b))
  BY ContractsStage DEF HasRow, Job, ToContracts, AtContracts, SameTask

LEMMA PrebookNext ==
    ASSUME NEW b, HasRow(b) PROVE AtPrebook(ToPrebook(b)) /\ SameTask(b, ToPrebook(b))
  BY ContractsNext, PrebookStage DEF HasRow, Job, ToPrebook, AtPrebook, SameTask

LEMMA DeleteSbNext ==
    ASSUME NEW b, HasRow(b) PROVE AtDeleteSb(ToDeleteSb(b)) /\ SameTask(b, ToDeleteSb(b))
  BY DeleteSbStage DEF HasRow, Job, ToDeleteSb, ToRemoveRow, AtDeleteSb, SameTask

LEMMA DeleteKeyNext ==
    ASSUME NEW b, HasRow(b) PROVE AtDeleteKey(ToDeleteKey(b)) /\ SameTask(b, ToDeleteKey(b))
  BY DeleteSbNext, DeleteKeyStage DEF HasRow, Job, ToDeleteKey, AtDeleteKey, SameTask

LEMMA DeleteContractsNext ==
    ASSUME NEW b, HasRow(b)
    PROVE  AtDeleteContracts(ToDeleteContracts(b)) /\ SameTask(b, ToDeleteContracts(b))
  BY DeleteKeyNext, DeleteContractsStage DEF HasRow, Job, ToDeleteContracts, AtDeleteContracts, SameTask

LEMMA DetachNext ==
    ASSUME NEW b, HasRow(b) PROVE AtDetach(ToDetach(b)) /\ SameTask(b, ToDetach(b))
  BY DeleteContractsNext, DetachStage DEF HasRow, Job, ToDetach, AtDetach, SameTask

LEMMA UnmockNext ==
    ASSUME NEW b, HasRow(b) PROVE AtUnmock(ToUnmock(b)) /\ SameTask(b, ToUnmock(b))
  BY UnmockStage DEF HasRow, Job, ToUnmock, AtUnmock, SameTask

LEMMA CleanBrNext ==
    ASSUME NEW b, HasRow(b) PROVE AtCleanBr(ToCleanBr(b)) /\ SameTask(b, ToCleanBr(b))
  BY UnmockNext, CleanBrStage DEF HasRow, Job, ToCleanBr, AtCleanBr, SameTask

LEMMA RestoreNext ==
    ASSUME NEW b, HasRow(b) PROVE AtRestore(ToRestore(b)) /\ SameTask(b, ToRestore(b))
  <1>1. CASE Altered(b.rec) = {}
    BY <1>1, CleanBrNext DEF ToRestore, AtRestore, SameTask
  <1>2. CASE Altered(b.rec) # {}
    BY <1>2, RestoreStage DEF HasRow, Job, ToRestore, AtRestore, SameTask
  <1> QED BY <1>1, <1>2

-----------------------------------------------------------------------------
\* Steps in terms of the task before (b) and after (c).

\* One item of the loop is done: the last one, or one of several.
Drops(b, c, p) == c.pc = b.pc /\ c.todo = b.todo \ {p} /\ b.todo # {p}

Owned(req, p) == {MockId(req, p, part) : part \in Parts}

RegisterEffect(b, c) ==
    /\ b.pc = "register" /\ c.out = b.out /\ UNCHANGED <<backoffice, brRules>>
    /\ \E p \in b.todo :
         /\ mocks' = [m \in MockIds |-> IF m \in Owned(b.rec.req, p) THEN b.sid ELSE mocks[m]]
         /\ Drops(b, c, p) \/ (b.todo = {p} /\ AtPrebook(c))
PrebookGetEffect(b, c) ==
    /\ b.pc = "prebookGet" /\ c.pc = "prebookPut" /\ c.todo = b.todo /\ UNCHANGED world
    /\ \E p \in b.todo :
         c.out = [b.out EXCEPT !.restore = [b.out.restore EXCEPT
                                              ![p] = prebooking[<<b.rec.req.env, p>>]]]
PrebookPutEffect(b, c) ==
    /\ b.pc = "prebookPut" /\ c.out = b.out
    /\ UNCHANGED <<mocks, contracts, liveKeys, keyRefs, sbEntities, brRules>>
    /\ \E p \in b.todo :
         /\ b.out.restore[p] # "none"
         /\ prebooking' = [prebooking EXCEPT ![<<b.rec.req.env, p>>] = b.rec.req.pin[p]]
         /\ \/ c.pc = "prebookGet" /\ c.todo = b.todo \ {p} /\ b.todo # {p}
            \/ b.todo = {p} /\ AtContracts(c)
ContractEffect(b, c) ==
    /\ b.pc = "contracts"
    /\ UNCHANGED <<mocks, liveKeys, keyRefs, sbEntities, prebooking, brRules>>
    /\ \E p \in b.todo :
         /\ contracts' = contracts \cup {<<b.sid, p>>}
         /\ c.out = [b.out EXCEPT !.contracts = b.out.contracts \cup {p}]
         /\ Drops(b, c, p) \/ (b.todo = {p} /\ AtSb(c))
SbGroupEffect(b, c) ==
    /\ b.pc = "sbGroup" /\ c.pc = "sbConfig"
    /\ UNCHANGED <<mocks, contracts, liveKeys, keyRefs, prebooking, brRules>>
    /\ sbEntities' = sbEntities \cup {<<b.sid, "group">>}
    /\ c.out = [b.out EXCEPT !.sb = b.out.sb \cup {"group"}]
SbConfigEffect(b, c) ==
    /\ b.pc = "sbConfig" /\ AtKey(c)
    /\ UNCHANGED <<mocks, contracts, liveKeys, keyRefs, prebooking, brRules>>
    /\ sbEntities' = sbEntities \cup {<<b.sid, "config">>}
    /\ c.out = [b.out EXCEPT !.sb = b.out.sb \cup {"config"}]
CreateKeyEffect(b, c) ==
    /\ b.pc = "createKey" /\ c.pc = "clearCache"
    /\ UNCHANGED <<mocks, contracts, keyRefs, sbEntities, prebooking, brRules>>
    /\ liveKeys' = liveKeys \cup {b.sid}
    /\ c.out = [b.out EXCEPT !.key = b.sid]
AttachGetEffect(b, c) ==
    /\ b.pc = "attachGet" /\ c.pc = "attachPut" /\ UNCHANGED world
    /\ b.rec.req.key \in liveKeys
    /\ c.out = b.out /\ c.seen = keyRefs[b.rec.req.key]
AttachPutEffect(b, c) ==
    /\ b.pc = "attachPut" /\ c.pc = "clearCache"
    /\ UNCHANGED <<mocks, contracts, liveKeys, sbEntities, prebooking, brRules>>
    /\ b.rec.req.key \in liveKeys
    /\ keyRefs' = [keyRefs EXCEPT ![b.rec.req.key] =
                                     b.seen \cup OwnContracts(b.sid, b.out.contracts)]
    /\ c.out = [b.out EXCEPT !.key = b.rec.req.key, !.ext = TRUE]
ClearCacheEffect(b, c) ==
    b.pc = "clearCache" /\ AtBr(c) /\ c.out = b.out /\ UNCHANGED world
ProvisionBrEffect(b, c) ==
    /\ b.pc = "provisionBr" /\ c.pc = "finish" /\ UNCHANGED <<mocks, backoffice>>
    /\ brRules' = brRules \cup {b.sid}
    /\ c.out = [b.out EXCEPT !.br = TRUE]

CreateEffect(b, c) ==
    \/ RegisterEffect(b, c) \/ PrebookGetEffect(b, c) \/ PrebookPutEffect(b, c)
    \/ ContractEffect(b, c) \/ SbGroupEffect(b, c) \/ SbConfigEffect(b, c)
    \/ CreateKeyEffect(b, c) \/ AttachGetEffect(b, c) \/ AttachPutEffect(b, c)
    \/ ClearCacheEffect(b, c) \/ ProvisionBrEffect(b, c)

LEMMA LoopNext ==
    ASSUME NEW b \in Job, NEW p, NEW done, NEW c, c = Loop(b, p, done)
    PROVE  \/ b.todo = {p} /\ c = done
           \/ Drops(b, c, p) /\ SameTask(b, c)
  BY DEF Loop, Drops, SameTask, Job

LEMMA CreateEffects ==
    ASSUME Orderly, NEW j \in Jobs, CreateStep(j), ~CreateRaises(j),
           NEW b, b = jobs[j], NEW c, c = jobs'[j]
    PROVE  /\ SameWork(b, c) /\ b.kind = "create" /\ b.pc \in CreateCalls
           /\ UNCHANGED <<rows, history>> /\ CreateEffect(b, c)
  <1>1. Typed /\ b.pc \in CreateCalls /\ Working(b) /\ HasRow(b) /\ Moves(b, c)
    BY CreateMoves DEF Orderly, KeyInv
  <1>2. b \in Job /\ b.out \in Assets /\ b.todo \in SUBSET Suppliers /\ b.sid \in Scenarios
        /\ b.rec \in Row /\ b.rec.req \in Request
    BY <1>1, AtWork DEF HasRow
  <1>3. b.kind = "create"
    BY <1>1, WorkRow DEF Lane, Job, Kinds, IdleJob, CreateCalls, TearingPCs, TeardownCalls, All
  <1>4. UNCHANGED <<rows, history>>
    BY DEF CreateStep, Register, PrebookGet, PrebookPut, CreateContract, CreateSbGroup,
           CreateSbConfig, CreateApiKey, AttachGet, ReadApiKey, AttachPut, ClearCache, ProvisionBr
  <1>5. \A d : Becomes(j, d) => c = d
    BY <1>1, BecomesTask
  <1> DEFINE Effect == SameWork(b, c) /\ CreateEffect(b, c)
  <1> SUFFICES Effect
    BY <1>1, <1>3, <1>4
  <1>6. CASE Register(j)
    <2>1. PICK p \in b.todo :
            /\ mocks' = [m \in MockIds |-> IF \E part \in Parts : m = MockId(b.rec.req, p, part)
                                           THEN b.sid ELSE mocks[m]]
            /\ c = Loop(b, p, ToPrebook(b))
      BY <1>5, <1>6 DEF Register
    <2>2. AtPrebook(ToPrebook(b)) /\ SameTask(b, ToPrebook(b))
      BY <1>1, PrebookNext
    <2>3. SameTask(b, c) /\ (Drops(b, c, p) \/ (b.todo = {p} /\ AtPrebook(c)))
      BY <1>2, <2>1, <2>2, LoopNext
    <2>4. mocks' = [m \in MockIds |-> IF m \in Owned(b.rec.req, p) THEN b.sid ELSE mocks[m]]
      BY <2>1 DEF Owned
    <2>5. b.pc = "register" /\ UNCHANGED <<backoffice, brRules>>
      BY <1>6 DEF Register, At
    <2>6. RegisterEffect(b, c)
      BY <2>3, <2>4, <2>5 DEF RegisterEffect, SameTask
    <2> QED BY <2>3, <2>6, SameTaskWork DEF CreateEffect
  <1>7. CASE PrebookGet(j)
    <2>1. PICK p \in b.todo :
            c = [b EXCEPT !.pc = "prebookPut",
                          !.out.restore[p] = prebooking[<<b.rec.req.env, p>>]]
      BY <1>5, <1>7 DEF PrebookGet
    <2>2. SameWork(b, c) /\ c.pc = "prebookPut" /\ c.todo = b.todo
          /\ c.out = [b.out EXCEPT !.restore = [b.out.restore EXCEPT
                                              ![p] = prebooking[<<b.rec.req.env, p>>]]]
      BY <1>2, <2>1 DEF Job, Assets, SameWork
    <2>3. PrebookGetEffect(b, c)
      BY <1>7, <2>2 DEF PrebookGet, At, PrebookGetEffect
    <2> QED BY <2>2, <2>3 DEF CreateEffect
  <1>8. CASE PrebookPut(j)
    <2> DEFINE d == [b EXCEPT !.pc = "prebookGet"]
    <2>1. PICK p \in b.todo :
            /\ b.out.restore[p] # "none"
            /\ prebooking' = [prebooking EXCEPT ![<<b.rec.req.env, p>>] = b.rec.req.pin[p]]
            /\ c = Loop(d, p, ToContracts(b))
      BY <1>5, <1>8 DEF PrebookPut
    <2>2. d \in Job /\ SameTask(b, d) /\ d.todo = b.todo /\ d.pc = "prebookGet"
      BY <1>2 DEF Job, PCs, CreateCalls, SameTask
    <2>3. AtContracts(ToContracts(b)) /\ SameTask(b, ToContracts(b))
      BY <1>1, ContractsNext
    <2> HIDE DEF d
    <2>4. SameTask(b, c) /\ (\/ c.pc = "prebookGet" /\ c.todo = b.todo \ {p} /\ b.todo # {p}
                             \/ b.todo = {p} /\ AtContracts(c))
      BY <2>1, <2>2, <2>3, LoopNext DEF Drops, SameTask
    <2>5. PrebookPutEffect(b, c)
      BY <1>8, <2>1, <2>4 DEF PrebookPut, At, PrebookPutEffect, SameTask
    <2> QED BY <2>4, <2>5, SameTaskWork DEF CreateEffect
  <1>9. CASE CreateContract(j)
    <2>1. PICK p \in b.todo :
            /\ contracts' = contracts \cup {<<b.sid, p>>}
            /\ LET d == [b EXCEPT !.out.contracts = @ \cup {p}] IN c = Loop(d, p, ToSb(d))
      BY <1>5, <1>9 DEF CreateContract
    <2> DEFINE o == [b.out EXCEPT !.contracts = b.out.contracts \cup {p}]
               d == [b EXCEPT !.out = o]
    <2>2. o \in Assets
      BY <1>2, <2>1 DEF Assets
    <2>3. HasRow(d) /\ d.out = o /\ d.todo = b.todo /\ d.pc = b.pc /\ SameWork(b, d)
      BY <1>1, <1>2, <2>2 DEF HasRow, Job, SameWork
    <2>4. c = Loop(d, p, ToSb(d))
      <3>1. d = [b EXCEPT !.out.contracts = @ \cup {p}]
        BY <1>2 DEF Job, Assets
      <3> QED BY <2>1, <3>1
    <2> HIDE DEF d, o
    <2>5. AtSb(ToSb(d)) /\ SameTask(d, ToSb(d))
      BY <2>3, SbNext
    <2>6. SameTask(d, c) /\ (Drops(d, c, p) \/ (d.todo = {p} /\ AtSb(c)))
      BY <2>3, <2>4, <2>5, LoopNext DEF HasRow
    <2>7. SameWork(b, c) /\ c.out = o /\ (Drops(b, c, p) \/ (b.todo = {p} /\ AtSb(c)))
      BY <2>3, <2>6 DEF SameTask, SameWork, Drops
    <2>8. ContractEffect(b, c)
      BY <1>9, <2>1, <2>7 DEF CreateContract, At, ContractEffect, o
    <2> QED BY <2>7, <2>8 DEF CreateEffect
  <1>10. CASE CreateSbGroup(j)
    <2>1. c = [b EXCEPT !.pc = "sbConfig", !.out.sb = @ \cup {"group"}]
      BY <1>5, <1>10 DEF CreateSbGroup
    <2>2. SameWork(b, c) /\ c.pc = "sbConfig" /\ c.out = [b.out EXCEPT !.sb = b.out.sb \cup {"group"}]
      BY <1>2, <2>1 DEF Job, Assets, SameWork
    <2> QED BY <1>10, <2>2 DEF CreateSbGroup, At, SbGroupEffect, CreateEffect
  <1>11. CASE CreateSbConfig(j)
    <2> DEFINE o == [b.out EXCEPT !.sb = b.out.sb \cup {"config"}]
               d == [b EXCEPT !.out = o]
    <2>1. o \in Assets
      BY <1>2 DEF Assets, SbKinds
    <2>2. HasRow(d) /\ d.out = o /\ SameWork(b, d)
      BY <1>1, <1>2, <2>1 DEF HasRow, Job, SameWork
    <2>3. d = [b EXCEPT !.out.sb = @ \cup {"config"}]
      BY <1>2 DEF Job, Assets
    <2>4. c = ToKey(d)
      BY <1>5, <1>11, <2>3 DEF CreateSbConfig
    <2> HIDE DEF d
    <2>5. AtKey(c) /\ SameWork(b, c) /\ c.out = o
      BY <2>2, <2>4, KeyNext DEF SameTask, SameWork
    <2> QED BY <1>11, <2>5 DEF CreateSbConfig, At, SbConfigEffect, CreateEffect
  <1>12. CASE CreateApiKey(j)
    <2>1. c = [b EXCEPT !.pc = "clearCache", !.out.key = b.sid]
      BY <1>5, <1>12 DEF CreateApiKey
    <2>2. SameWork(b, c) /\ c.pc = "clearCache" /\ c.out = [b.out EXCEPT !.key = b.sid]
      BY <1>2, <2>1 DEF Job, Assets, SameWork
    <2> QED BY <1>12, <2>2 DEF CreateApiKey, At, CreateKeyEffect, CreateEffect
  <1>13. CASE AttachGet(j)
    <2>1. c = [b EXCEPT !.pc = "attachPut", !.seen = keyRefs[b.rec.req.key]]
      BY <1>5, <1>13 DEF AttachGet, ReadApiKey
    <2>2. SameWork(b, c) /\ c.pc = "attachPut" /\ c.out = b.out /\ c.seen = keyRefs[b.rec.req.key]
      BY <1>2, <2>1 DEF Job, SameWork
    <2> QED BY <1>13, <2>2 DEF AttachGet, ReadApiKey, At, AttachGetEffect, CreateEffect
  <1>14. CASE AttachPut(j)
    <2>1. c = [b EXCEPT !.pc = "clearCache", !.seen = {},
                        !.out.key = b.rec.req.key, !.out.ext = TRUE]
      BY <1>5, <1>14 DEF AttachPut
    <2>2. SameWork(b, c) /\ c.pc = "clearCache"
          /\ c.out = [b.out EXCEPT !.key = b.rec.req.key, !.ext = TRUE]
      BY <1>2, <2>1 DEF Job, Assets, SameWork
    <2> QED BY <1>14, <2>2 DEF AttachPut, At, AttachPutEffect, CreateEffect
  <1>15. CASE ClearCache(j)
    <2>1. c = ToBr(b)
      BY <1>5, <1>15 DEF ClearCache
    <2>2. SameWork(b, c) /\ AtBr(c) /\ c.out = b.out
      BY <1>1, <2>1, BrNext DEF SameTask, SameWork
    <2> QED BY <1>15, <2>2 DEF ClearCache, At, ClearCacheEffect, CreateEffect
  <1>16. CASE ProvisionBr(j)
    <2>1. c = [b EXCEPT !.pc = "finish", !.out.br = TRUE]
      BY <1>5, <1>16 DEF ProvisionBr
    <2>2. SameWork(b, c) /\ c.pc = "finish" /\ c.out = [b.out EXCEPT !.br = TRUE]
      BY <1>2, <2>1 DEF Job, Assets, SameWork
    <2> QED BY <1>16, <2>2 DEF ProvisionBr, At, ProvisionBrEffect, CreateEffect
  <1> QED
    BY <1>6, <1>7, <1>8, <1>9, <1>10, <1>11, <1>12, <1>13, <1>14, <1>15, <1>16 DEF CreateStep

ReregisterEffect(b, c) ==
    /\ UNCHANGED <<backoffice, brRules, rows, history>> /\ c.out = b.out
    /\ \E p \in b.todo :
         /\ mocks' = [mocks EXCEPT ![MockId(b.rec.req, p, "book")] = b.sid]
         /\ Drops(b, c, p) \/ (b.todo = {p} /\ c.pc = "finish")

LEMMA RefreshEffects ==
    ASSUME Orderly, NEW j \in Jobs, RefreshStep(j), ~RefreshRaises(j),
           NEW b, b = jobs[j], NEW c, c = jobs'[j]
    PROVE  /\ SameWork(b, c) /\ b.kind = "refresh" /\ b.pc = "reregister"
           /\ ReregisterEffect(b, c)
  <1>1. Typed /\ b.pc = "reregister" /\ Working(b) /\ HasRow(b)
    BY RefreshMoves DEF Orderly, KeyInv
  <1>2. b.kind = "refresh" /\ b \in Job
    BY <1>1, WorkRow DEF Lane, Job, Kinds, IdleJob, CreateCalls, TearingPCs, TeardownCalls, All
  <1> DEFINE done == [b EXCEPT !.pc = "finish", !.todo = {}]
  <1>3. PICK p \in b.todo : /\ mocks' = [mocks EXCEPT ![MockId(b.rec.req, p, "book")] = b.sid]
                            /\ c = Loop(b, p, done)
    BY <1>1, BecomesTask DEF RefreshStep, Reregister
  <1>4. done.pc = "finish" /\ SameTask(b, done)
    BY <1>2 DEF Job, SameTask
  <1> HIDE DEF done
  <1>5. SameTask(b, c) /\ (Drops(b, c, p) \/ (b.todo = {p} /\ c.pc = "finish"))
    BY <1>2, <1>3, <1>4, LoopNext
  <1>6. UNCHANGED <<backoffice, brRules, rows, history>>
    BY DEF RefreshStep, Reregister
  <1>7. ReregisterEffect(b, c)
    BY <1>3, <1>5, <1>6 DEF ReregisterEffect, SameTask
  <1> QED BY <1>1, <1>2, <1>5, <1>7, SameTaskWork

\* A call that failed.
FailEffect(b) == /\ failed' = failed \cup {b.sid}
                 /\ UNCHANGED <<world, asked, refreshed, killed>>

RestoreEffect(b, c) ==
    /\ b.pc = "restore"
    /\ UNCHANGED <<mocks, contracts, liveKeys, keyRefs, sbEntities, brRules, history>>
    /\ \E p \in b.todo :
         /\ prebooking' = [prebooking EXCEPT ![<<b.rec.req.env, p>>] = b.rec.assets.restore[p]]
         /\ Drops(b, c, p) \/ (b.todo = {p} /\ AtCleanBr(c))
CleanBrEffect(b, c) ==
    /\ b.pc = "cleanBr" /\ AtUnmock(c) /\ UNCHANGED <<mocks, backoffice, history>>
    /\ brRules' = brRules \ {b.sid}
UnmockEffect(b, c) ==
    /\ b.pc = "unmock" /\ UNCHANGED <<backoffice, brRules, history>>
    /\ \E p \in b.todo :
         /\ mocks' = [m \in MockIds |-> IF m \in Owned(b.rec.req, p) THEN Null ELSE mocks[m]]
         /\ Drops(b, c, p) \/ (b.todo = {p} /\ AtDetach(c))
DetachGetEffect(b, c) ==
    /\ b.pc = "detachGet" /\ c.pc = "detachPut" /\ UNCHANGED <<world, history>>
    /\ b.rec.req.key \in liveKeys
    /\ c.seen = keyRefs[b.rec.req.key]
DetachPutEffect(b, c) ==
    /\ b.pc = "detachPut" /\ AtDeleteContracts(c)
    /\ UNCHANGED <<mocks, contracts, liveKeys, sbEntities, prebooking, brRules, history>>
    /\ b.rec.req.key \in liveKeys
    /\ keyRefs' = [keyRefs EXCEPT ![b.rec.req.key] =
                                     b.seen \ OwnContracts(b.sid, b.rec.assets.contracts)]
DeleteContractEffect(b, c) ==
    /\ b.pc = "deleteContracts"
    /\ UNCHANGED <<mocks, liveKeys, keyRefs, sbEntities, prebooking, brRules, history>>
    /\ \E p \in b.todo :
         /\ contracts' = contracts \ {<<b.sid, p>>}
         /\ Drops(b, c, p) \/ (b.todo = {p} /\ AtDeleteKey(c))
DeleteKeyEffect(b, c) ==
    /\ b.pc = "deleteKey" /\ AtDeleteSb(c)
    /\ UNCHANGED <<mocks, contracts, keyRefs, sbEntities, prebooking, brRules, history>>
    /\ liveKeys' = liveKeys \ {b.rec.assets.key}
DeleteSbEffect(b, c) ==
    /\ b.pc = "deleteSb"
    /\ UNCHANGED <<mocks, contracts, liveKeys, keyRefs, prebooking, brRules, history>>
    /\ \E kind \in b.sbTodo :
         /\ sbEntities' = sbEntities \ {<<b.sid, kind>>}
         /\ \/ b.sbTodo = {kind} /\ c.pc = "removeRow"
            \/ c.pc = "deleteSb" /\ c.sbTodo = b.sbTodo \ {kind}

TeardownEffect(b, c) ==
    \/ FailEffect(b) \/ RestoreEffect(b, c) \/ CleanBrEffect(b, c) \/ UnmockEffect(b, c)
    \/ DetachGetEffect(b, c) \/ DetachPutEffect(b, c) \/ DeleteContractEffect(b, c)
    \/ DeleteKeyEffect(b, c) \/ DeleteSbEffect(b, c)

LEMMA TeardownEffects ==
    ASSUME Orderly, NEW j \in Jobs, TeardownStep(j), ~RemoveRow(j),
           NEW b, b = jobs[j], NEW c, c = jobs'[j]
    PROVE  /\ SameWork(b, c) /\ b.kind \in {"teardown", All} /\ b.pc \in TeardownCalls
           /\ c.pc \in TearingPCs /\ UNCHANGED rows /\ TeardownEffect(b, c)
  <1>1. Typed /\ b.pc \in TeardownCalls /\ Working(b) /\ HasRow(b) /\ Moves(b, c) /\ c # b
    BY TeardownMoves DEF Orderly, KeyInv
  <1>2. b \in Job /\ b.kind \in {"teardown", All}
    BY <1>1, WorkRow DEF Lane, Job, Kinds, IdleJob, CreateCalls, TeardownCalls, All
  <1>3. UNCHANGED rows
    BY DEF TeardownStep, RestorePrebooking, RestoreFails, CleanBr, Unmock, DetachGet, ReadApiKey,
           DetachPut, DetachFails, DeleteContract, DeleteApiKey, DeleteSb, DeleteSbFails,
           TeardownRaises
  <1>4. \A d : Becomes(j, d) => c = d
    BY <1>1, BecomesTask
  <1>5. c # IdleJob => SameWork(b, c) /\ c.pc \in TearingPCs
    BY <1>1 DEF Moves, CreateCalls, TeardownCalls
  <1>6. \A d : SameTask(b, d) /\ c = d => c # IdleJob
    BY <1>2 DEF SameTask, IdleJob, All
  <1> SUFFICES c # IdleJob /\ TeardownEffect(b, c)
    BY <1>1, <1>2, <1>3, <1>5
  <1>7. CASE RestorePrebooking(j)
    <2>1. PICK p \in b.todo :
            /\ prebooking' = [prebooking EXCEPT ![<<b.rec.req.env, p>>] = b.rec.assets.restore[p]]
            /\ c = Loop(b, p, ToCleanBr(b))
      BY <1>4, <1>7 DEF RestorePrebooking
    <2>2. SameTask(b, c) /\ (Drops(b, c, p) \/ (b.todo = {p} /\ AtCleanBr(c)))
      BY <1>1, <1>2, <2>1, CleanBrNext, LoopNext
    <2> QED BY <1>6, <1>7, <2>1, <2>2 DEF RestorePrebooking, At, RestoreEffect, TeardownEffect
  <1>8. CASE CleanBr(j)
    <2>1. c = ToUnmock(b)
      BY <1>4, <1>8 DEF CleanBr
    <2>2. SameTask(b, c) /\ AtUnmock(c)
      BY <1>1, <2>1, UnmockNext
    <2> QED BY <1>6, <1>8, <2>2 DEF CleanBr, At, CleanBrEffect, TeardownEffect
  <1>9. CASE Unmock(j)
    <2>1. PICK p \in b.todo :
            /\ mocks' = [m \in MockIds |-> IF \E part \in Parts : m = MockId(b.rec.req, p, part)
                                           THEN Null ELSE mocks[m]]
            /\ c = Loop(b, p, ToDetach(b))
      BY <1>4, <1>9 DEF Unmock
    <2>2. SameTask(b, c) /\ (Drops(b, c, p) \/ (b.todo = {p} /\ AtDetach(c)))
      BY <1>1, <1>2, <2>1, DetachNext, LoopNext
    <2>3. mocks' = [m \in MockIds |-> IF m \in Owned(b.rec.req, p) THEN Null ELSE mocks[m]]
      BY <2>1 DEF Owned
    <2> QED BY <1>6, <1>9, <2>2, <2>3 DEF Unmock, At, UnmockEffect, TeardownEffect
  <1>10. CASE DetachGet(j)
    <2>1. c = [b EXCEPT !.pc = "detachPut", !.seen = keyRefs[b.rec.req.key]]
      BY <1>4, <1>10 DEF DetachGet, ReadApiKey
    <2>2. SameTask(b, c) /\ c.pc = "detachPut" /\ c.seen = keyRefs[b.rec.req.key]
      BY <1>2, <2>1 DEF Job, SameTask
    <2> QED BY <1>6, <1>10, <2>2 DEF DetachGet, ReadApiKey, At, DetachGetEffect, TeardownEffect
  <1>11. CASE DetachPut(j)
    <2> DEFINE d == [b EXCEPT !.seen = {}]
    <2>1. c = ToDeleteContracts(d)
      BY <1>4, <1>11 DEF DetachPut
    <2>2. HasRow(d) /\ SameTask(b, d)
      BY <1>1, <1>2 DEF HasRow, Job, SameTask
    <2> HIDE DEF d
    <2>3. SameTask(b, c) /\ AtDeleteContracts(c)
      BY <2>1, <2>2, DeleteContractsNext DEF SameTask
    <2> QED BY <1>6, <1>11, <2>3 DEF DetachPut, At, DetachPutEffect, TeardownEffect
  <1>12. CASE DeleteContract(j)
    <2>1. PICK p \in b.todo : /\ contracts' = contracts \ {<<b.sid, p>>}
                              /\ c = Loop(b, p, ToDeleteKey(b))
      BY <1>4, <1>12 DEF DeleteContract
    <2>2. SameTask(b, c) /\ (Drops(b, c, p) \/ (b.todo = {p} /\ AtDeleteKey(c)))
      BY <1>1, <1>2, <2>1, DeleteKeyNext, LoopNext
    <2> QED BY <1>6, <1>12, <2>1, <2>2 DEF DeleteContract, At, DeleteContractEffect, TeardownEffect
  <1>13. CASE DeleteApiKey(j)
    <2>1. c = ToDeleteSb(b)
      BY <1>4, <1>13 DEF DeleteApiKey
    <2>2. SameTask(b, c) /\ AtDeleteSb(c)
      BY <1>1, <2>1, DeleteSbNext
    <2> QED BY <1>6, <1>13, <2>2 DEF DeleteApiKey, At, DeleteKeyEffect, TeardownEffect
  <1>14. ASSUME NEW kind \in b.sbTodo, c = LoopSb(b, kind), b.pc = "deleteSb"
         PROVE  /\ c # IdleJob
                /\ \/ b.sbTodo = {kind} /\ c.pc = "removeRow"
                   \/ c.pc = "deleteSb" /\ c.sbTodo = b.sbTodo \ {kind}
    <2>1. CASE b.sbTodo = {kind}
      <3> DEFINE d == [b EXCEPT !.sbTodo = {}]
      <3>1. d \in Job /\ c = ToRemoveRow(d)
        BY <1>2, <1>14, <2>1 DEF LoopSb, Job
      <3> HIDE DEF d
      <3>2. c.pc = "removeRow"
        BY <3>1 DEF ToRemoveRow, Job
      <3> QED BY <2>1, <3>2 DEF IdleJob
    <2>2. CASE b.sbTodo # {kind}
      BY <1>2, <1>14, <2>2 DEF LoopSb, Job, IdleJob
    <2> QED BY <2>1, <2>2
  <1>15. CASE DeleteSb(j)
    <2>1. PICK kind \in b.sbTodo : /\ sbEntities' = sbEntities \ {<<b.sid, kind>>}
                                   /\ c = LoopSb(b, kind)
      BY <1>4, <1>15 DEF DeleteSb
    <2>2. b.pc = "deleteSb"
      BY <1>15 DEF DeleteSb, At
    <2> QED BY <1>14, <1>15, <2>1, <2>2 DEF DeleteSb, DeleteSbEffect, TeardownEffect
  <1>16. ASSUME CallFails(j), UNCHANGED world PROVE TeardownEffect(b, c)
    BY <1>16 DEF CallFails, FailEffect, TeardownEffect
  <1>17. CASE RestoreFails(j)
    <2>1. PICK p \in b.todo : c = Loop(b, p, ToCleanBr(b))
      BY <1>4, <1>17 DEF RestoreFails
    <2>2. SameTask(b, c)
      BY <1>1, <1>2, <2>1, CleanBrNext, LoopNext
    <2> QED BY <1>6, <1>16, <1>17, <2>2 DEF RestoreFails
  <1>18. CASE DetachFails(j)
    <2> DEFINE d == [b EXCEPT !.seen = {}]
    <2>1. c = ToDeleteContracts(d)
      BY <1>4, <1>18 DEF DetachFails
    <2>2. HasRow(d) /\ SameTask(b, d)
      BY <1>1, <1>2 DEF HasRow, Job, SameTask
    <2> HIDE DEF d
    <2>3. SameTask(b, c)
      BY <2>1, <2>2, DeleteContractsNext DEF SameTask
    <2>4. TeardownEffect(b, c)
      BY <1>18 DEF DetachFails, CallFails, FailEffect, TeardownEffect
    <2> QED BY <1>6, <2>3, <2>4
  <1>19. CASE DeleteSbFails(j)
    <2>1. PICK kind \in b.sbTodo : c = LoopSb(b, kind)
      BY <1>4, <1>19 DEF DeleteSbFails
    <2> QED BY <1>14, <1>16, <1>19, <2>1 DEF DeleteSbFails, At
  <1>20. CASE TeardownRaises(j)
    <2> DEFINE d == [b EXCEPT !.ok = FALSE]
    <2>1. c = ToRemoveRow(d)
      BY <1>4, <1>20 DEF TeardownRaises, Aborted
    <2>2. c.pc = "removeRow"
      BY <1>2, <2>1 DEF ToRemoveRow, Job
    <2> QED BY <1>16, <1>20, <2>2 DEF TeardownRaises, IdleJob
  <1> QED
    BY <1>7, <1>8, <1>9, <1>10, <1>11, <1>12, <1>13, <1>15, <1>17, <1>18, <1>19, <1>20
       DEF TeardownStep

-----------------------------------------------------------------------------
(***************************************************************************)
(* What exists of a scenario outside the database, and what the database   *)
(* or a task knows of it.                                                  *)
(***************************************************************************)

Left(s) == [mocks |-> LiveMocks(s), contracts |-> LiveContracts(s), sb |-> LiveSb(s),
            keys |-> liveKeys \cap {s}, rules |-> brRules \cap {s}]

Less(v, w) == /\ v.mocks \subseteq w.mocks /\ v.contracts \subseteq w.contracts
              /\ v.sb \subseteq w.sb /\ v.keys \subseteq w.keys /\ v.rules \subseteq w.rules
NothingLeft(w) == /\ w.mocks = {} /\ w.contracts = {} /\ w.sb = {} /\ w.keys = {} /\ w.rules = {}

OwnIds(req) == UNION {Owned(req, p) : p \in req.suppliers}

\* A row (with assets a) of scenario s names all that is left (w) of it, in a way a
\* teardown acts on.
Recorded(s, a, w) ==
    /\ w.contracts \subseteq a.contracts
    /\ w.sb \subseteq a.sb
    /\ w.sb # {} => "group" \in a.sb /\ a.key # NoKey
    /\ w.keys # {} => a.key = s /\ ~a.ext
    /\ w.rules # {} => a.br

\* The bundle of a create (task b) names all that it has made so far.
BeforeKey == CreateCalls \ {"clearCache", "provisionBr"}
AfterKey == {"clearCache", "provisionBr", "finish"}
CreateLedger(b, w) ==
    /\ w.contracts \subseteq b.out.contracts
    /\ w.sb \subseteq b.out.sb
    /\ b.out.sb # {} => "group" \in b.out.sb /\ b.rec.req.sb
    /\ w.rules # {} => b.out.br
    /\ w.keys # {} => b.out.key = b.sid /\ ~b.out.ext
    /\ b.pc \in BeforeKey => w.keys = {} /\ ~b.out.ext
    /\ b.pc \in {"sbGroup", "sbConfig"} => b.rec.req.sb
    /\ b.pc = "sbConfig" => "group" \in b.out.sb
    /\ b.pc \in {"attachGet", "attachPut"} => b.rec.req.depth # "full"
    /\ b.pc \in AfterKey /\ b.rec.req.depth = "full" => b.out.key = b.sid
    /\ b.pc = "register" => b.todo \subseteq b.rec.req.suppliers

\* A teardown (task b) leaves, at each stage, only what a later stage removes.
TeardownLedger(b, w) ==
    /\ Recorded(b.sid, b.rec.assets, w)
    /\ b.pc \notin {"restore", "cleanBr"} => w.rules = {}
    /\ b.pc = "unmock" => \A m \in w.mocks : \E p \in b.todo : m \in Owned(b.rec.req, p)
    /\ b.pc \notin {"restore", "cleanBr", "unmock"} => w.mocks = {}
    /\ b.pc = "deleteContracts" => w.contracts \subseteq b.todo
    /\ b.pc \in {"deleteKey", "deleteSb", "removeRow"} => w.contracts = {}
    /\ b.pc \in {"deleteSb", "removeRow"} => w.keys = {}
    /\ b.pc = "deleteSb" => w.sb \subseteq b.sbTodo
    /\ b.pc = "removeRow" => w.sb = {}

Ledger(b, w) ==
    /\ b.kind = "create" /\ Working(b) => CreateLedger(b, w)
    /\ b.kind = "refresh" /\ Working(b) =>
         /\ b.out = RefreshBundle(b.rec)
         /\ b.pc = "reregister" => b.todo \subseteq b.rec.req.suppliers
    /\ b.pc \in TearingPCs => TeardownLedger(b, w)

LEMMA RecordedLess ==
    ASSUME NEW s, NEW a, NEW w, Recorded(s, a, w), NEW v, Less(v, w)
    PROVE  Recorded(s, a, v)
  BY DEF Recorded, Less

LEMMA LedgerLess ==
    ASSUME NEW b, NEW w, Ledger(b, w), NEW v, Less(v, w)
    PROVE  Ledger(b, v)
  <1>1. CreateLedger(b, w) => CreateLedger(b, v)
    BY DEF CreateLedger, Less
  <1>2. TeardownLedger(b, w) => TeardownLedger(b, v)
    BY RecordedLess DEF TeardownLedger, Less
  <1> QED BY <1>1, <1>2 DEF Ledger

\* The stages of a teardown, from the last to the first: each starts with what the
\* stages before it have not removed.
LEMMA DeleteSbStarts ==
    ASSUME NEW c, AtDeleteSb(c), NEW w, Recorded(c.sid, c.rec.assets, w),
           w.rules = {}, w.mocks = {}, w.contracts = {}, w.keys = {}
    PROVE  TeardownLedger(c, w)
  BY DEF AtDeleteSb, TeardownLedger, Recorded

LEMMA DeleteKeyStarts ==
    ASSUME NEW c, AtDeleteKey(c), NEW w, Recorded(c.sid, c.rec.assets, w), c.sid # NoKey,
           w.rules = {}, w.mocks = {}, w.contracts = {}
    PROVE  TeardownLedger(c, w)
  <1>1. CASE c.pc = "deleteKey"
    BY <1>1 DEF TeardownLedger
  <1>2. CASE AtDeleteSb(c) /\ w.keys = {}
    BY <1>2, DeleteSbStarts
  <1> QED BY <1>1, <1>2 DEF AtDeleteKey, Recorded

LEMMA DeleteContractsStarts ==
    ASSUME NEW c, AtDeleteContracts(c), NEW w, Recorded(c.sid, c.rec.assets, w), c.sid # NoKey,
           w.rules = {}, w.mocks = {}
    PROVE  TeardownLedger(c, w)
  <1>1. CASE c.pc = "deleteContracts" /\ c.todo = c.rec.assets.contracts
    BY <1>1 DEF TeardownLedger, Recorded
  <1>2. CASE AtDeleteKey(c) /\ w.contracts = {}
    BY <1>2, DeleteKeyStarts
  <1> QED BY <1>1, <1>2 DEF AtDeleteContracts, Recorded

LEMMA DetachStarts ==
    ASSUME NEW c, AtDetach(c), NEW w, Recorded(c.sid, c.rec.assets, w), c.sid # NoKey,
           w.rules = {}, w.mocks = {}
    PROVE  TeardownLedger(c, w)
  <1>1. CASE c.pc = "detachGet"
    BY <1>1 DEF TeardownLedger
  <1> QED BY <1>1, DeleteContractsStarts DEF AtDetach

LEMMA UnmockStarts ==
    ASSUME NEW c, AtUnmock(c), NEW w, Recorded(c.sid, c.rec.assets, w),
           w.rules = {}, w.mocks \subseteq OwnIds(c.rec.req)
    PROVE  TeardownLedger(c, w)
  BY DEF AtUnmock, TeardownLedger, OwnIds

LEMMA RestoreStarts ==
    ASSUME NEW c, AtRestore(c) \/ AtCleanBr(c), NEW w, Recorded(c.sid, c.rec.assets, w),
           w.mocks \subseteq OwnIds(c.rec.req)
    PROVE  TeardownLedger(c, w)
  <1>1. CASE c.pc \in {"restore", "cleanBr"}
    BY <1>1 DEF TeardownLedger
  <1>2. CASE AtUnmock(c) /\ w.rules = {}
    BY <1>2, UnmockStarts
  <1> QED BY <1>1, <1>2 DEF AtRestore, AtCleanBr, Recorded

-----------------------------------------------------------------------------
\* What a step does to what is left of the scenario it is about, and of the others.

LEMMA CreateLess ==
    ASSUME NEW b, NEW c, CreateEffect(b, c), NEW t \in Scenarios, t # b.sid
    PROVE  Less(Left(t)', Left(t))
  <1>1. CASE RegisterEffect(b, c)
    BY <1>1 DEF RegisterEffect, Left, Less, LiveMocks, LiveContracts, LiveSb, backoffice
  <1>2. CASE ContractEffect(b, c)
    BY <1>2 DEF ContractEffect, Left, Less, LiveMocks, LiveContracts, LiveSb
  <1>3. CASE SbGroupEffect(b, c) \/ SbConfigEffect(b, c)
    BY <1>3 DEF SbGroupEffect, SbConfigEffect, Left, Less, LiveMocks, LiveContracts, LiveSb
  <1>4. CASE CreateKeyEffect(b, c)
    BY <1>4 DEF CreateKeyEffect, Left, Less, LiveMocks, LiveContracts, LiveSb
  <1>5. CASE ProvisionBrEffect(b, c)
    BY <1>5 DEF ProvisionBrEffect, Left, Less, LiveMocks, LiveContracts, LiveSb, backoffice
  <1>6. CASE UNCHANGED <<mocks, contracts, sbEntities, liveKeys, brRules>>
    BY <1>6 DEF Left, Less, LiveMocks, LiveContracts, LiveSb
  <1> QED
    BY <1>1, <1>2, <1>3, <1>4, <1>5, <1>6
       DEF CreateEffect, PrebookGetEffect, PrebookPutEffect, AttachGetEffect, AttachPutEffect,
           ClearCacheEffect, world, backoffice

LEMMA ReregisterLess ==
    ASSUME Typed, NEW b, NEW c, ReregisterEffect(b, c), NEW t \in Scenarios, t # b.sid
    PROVE  Less(Left(t)', Left(t))
  BY DEF ReregisterEffect, Left, Less, LiveMocks, LiveContracts, LiveSb, backoffice, Typed, TypeOK

\* A teardown only removes, of any scenario.
LEMMA TeardownLess ==
    ASSUME NEW b, NEW c, TeardownEffect(b, c), NEW t \in Scenarios
    PROVE  Less(Left(t)', Left(t))
  <1>1. CASE CleanBrEffect(b, c)
    BY <1>1 DEF CleanBrEffect, Left, Less, LiveMocks, LiveContracts, LiveSb, backoffice
  <1>2. CASE UnmockEffect(b, c)
    BY <1>2, ConstantsAssumption
       DEF UnmockEffect, Left, Less, LiveMocks, LiveContracts, LiveSb, backoffice
  <1>3. CASE DeleteContractEffect(b, c)
    BY <1>3 DEF DeleteContractEffect, Left, Less, LiveMocks, LiveContracts, LiveSb
  <1>4. CASE DeleteKeyEffect(b, c)
    BY <1>4 DEF DeleteKeyEffect, Left, Less, LiveMocks, LiveContracts, LiveSb
  <1>5. CASE DeleteSbEffect(b, c)
    BY <1>5 DEF DeleteSbEffect, Left, Less, LiveMocks, LiveContracts, LiveSb
  <1>6. CASE UNCHANGED <<mocks, contracts, sbEntities, liveKeys, brRules>>
    BY <1>6 DEF Left, Less, LiveMocks, LiveContracts, LiveSb
  <1> QED
    BY <1>1, <1>2, <1>3, <1>4, <1>5, <1>6
       DEF TeardownEffect, FailEffect, RestoreEffect, DetachGetEffect, DetachPutEffect,
           world, backoffice

LEMMA CreateKeeps ==
    ASSUME NEW b, HasRow(b), NEW c, c.out \in Assets, SameWork(b, c), CreateEffect(b, c),
           CreateLedger(b, Left(b.sid)), NEW s, s = b.sid
    PROVE  CreateLedger(c, Left(s)')
  <1>1. b.out \in Assets /\ s \in Scenarios /\ c.rec = b.rec /\ c.sid = b.sid
        /\ b.todo \in SUBSET Suppliers
    BY DEF HasRow, Job, SameWork
  <1>2. CASE RegisterEffect(b, c)
    <2>1. CreateLedger(c, Left(s))
      BY <1>1, <1>2
         DEF RegisterEffect, CreateLedger, BeforeKey, AfterKey, CreateCalls, AtPrebook, AtContracts,
             Drops
    <2>2. /\ Left(s)'.contracts = Left(s).contracts /\ Left(s)'.sb = Left(s).sb
          /\ Left(s)'.keys = Left(s).keys /\ Left(s)'.rules = Left(s).rules
      BY <1>2 DEF RegisterEffect, backoffice, Left, LiveContracts, LiveSb
    <2> QED BY <2>1, <2>2 DEF CreateLedger
  <1>3. CASE PrebookGetEffect(b, c) \/ PrebookPutEffect(b, c)
    <2>1. UNCHANGED <<mocks, contracts, sbEntities, liveKeys, brRules>>
      BY <1>3 DEF PrebookGetEffect, PrebookPutEffect, world, backoffice
    <2>2. Left(s)' = Left(s)
      BY <2>1 DEF Left, LiveMocks, LiveContracts, LiveSb
    <2>3. /\ c.out.contracts = b.out.contracts /\ c.out.sb = b.out.sb /\ c.out.br = b.out.br
          /\ c.out.key = b.out.key /\ c.out.ext = b.out.ext
      BY <1>1, <1>3 DEF PrebookGetEffect, PrebookPutEffect, Assets
    <2>4. b.pc \in {"prebookGet", "prebookPut"} /\ c.pc \in {"prebookGet", "prebookPut", "contracts"}
      BY <1>3 DEF PrebookGetEffect, PrebookPutEffect, AtContracts
    <2> QED BY <1>1, <2>2, <2>3, <2>4 DEF CreateLedger, BeforeKey, AfterKey, CreateCalls
  <1>4. CASE ContractEffect(b, c)
    <2>1. PICK p \in b.todo :
            /\ contracts' = contracts \cup {<<b.sid, p>>}
            /\ c.out = [b.out EXCEPT !.contracts = b.out.contracts \cup {p}]
            /\ Drops(b, c, p) \/ (b.todo = {p} /\ AtSb(c))
      BY <1>4 DEF ContractEffect
    <2>2. /\ c.out.contracts = b.out.contracts \cup {p} /\ c.out.sb = b.out.sb
          /\ c.out.br = b.out.br /\ c.out.key = b.out.key /\ c.out.ext = b.out.ext
      BY <1>1, <2>1 DEF Assets
    <2>3. /\ Left(s)'.contracts \subseteq Left(s).contracts \cup {p} /\ Left(s)'.sb = Left(s).sb
          /\ Left(s)'.keys = Left(s).keys /\ Left(s)'.rules = Left(s).rules
      BY <1>4, <2>1 DEF ContractEffect, Left, LiveContracts, LiveSb
    <2>4. b.pc = "contracts" /\ (c.pc = "contracts" \/ AtSb(c))
      BY <1>4, <2>1 DEF ContractEffect, Drops
    <2>5. /\ c.pc \in {"contracts", "sbGroup", "createKey", "attachGet", "provisionBr", "finish"}
          /\ c.pc = "sbGroup" => c.rec.req.sb
          /\ c.pc \in {"attachGet", "provisionBr", "finish"} => c.rec.req.depth # "full"
      BY <2>4 DEF AtSb, AtKey, AtBr
    <2> QED
      BY <1>1, <2>2, <2>3, <2>4, <2>5 DEF CreateLedger, BeforeKey, AfterKey, CreateCalls
  <1>5. CASE SbGroupEffect(b, c)
    <2>1. /\ c.out.contracts = b.out.contracts /\ c.out.sb = b.out.sb \cup {"group"}
          /\ c.out.br = b.out.br /\ c.out.key = b.out.key /\ c.out.ext = b.out.ext
      BY <1>1, <1>5 DEF SbGroupEffect, Assets
    <2>2. /\ Left(s)'.contracts = Left(s).contracts /\ Left(s)'.sb \subseteq Left(s).sb \cup {"group"}
          /\ Left(s)'.keys = Left(s).keys /\ Left(s)'.rules = Left(s).rules
      BY <1>5 DEF SbGroupEffect, Left, LiveContracts, LiveSb
    <2>3. b.pc = "sbGroup" /\ c.pc = "sbConfig"
      BY <1>5 DEF SbGroupEffect
    <2> QED BY <1>1, <2>1, <2>2, <2>3 DEF CreateLedger, BeforeKey, AfterKey, CreateCalls
  <1>6. CASE SbConfigEffect(b, c)
    <2>1. /\ c.out.contracts = b.out.contracts /\ c.out.sb = b.out.sb \cup {"config"}
          /\ c.out.br = b.out.br /\ c.out.key = b.out.key /\ c.out.ext = b.out.ext
      BY <1>1, <1>6 DEF SbConfigEffect, Assets
    <2>2. /\ Left(s)'.contracts = Left(s).contracts /\ Left(s)'.sb \subseteq Left(s).sb \cup {"config"}
          /\ Left(s)'.keys = Left(s).keys /\ Left(s)'.rules = Left(s).rules
      BY <1>6 DEF SbConfigEffect, Left, LiveContracts, LiveSb
    <2>3. b.pc = "sbConfig"
          /\ c.pc \in {"createKey", "attachGet", "provisionBr", "finish"}
          /\ (c.pc \in {"attachGet", "provisionBr", "finish"} => c.rec.req.depth # "full")
      BY <1>6 DEF SbConfigEffect, AtKey, AtBr
    <2> QED BY <1>1, <2>1, <2>2, <2>3 DEF CreateLedger, BeforeKey, AfterKey, CreateCalls
  <1>7. CASE CreateKeyEffect(b, c)
    <2>1. /\ c.out.contracts = b.out.contracts /\ c.out.sb = b.out.sb
          /\ c.out.br = b.out.br /\ c.out.key = b.sid /\ c.out.ext = b.out.ext
      BY <1>1, <1>7 DEF CreateKeyEffect, Assets
    <2>2. /\ Left(s)'.contracts = Left(s).contracts /\ Left(s)'.sb = Left(s).sb
          /\ Left(s)'.rules = Left(s).rules
      BY <1>7 DEF CreateKeyEffect, Left, LiveContracts, LiveSb
    <2>3. b.pc = "createKey" /\ c.pc = "clearCache"
      BY <1>7 DEF CreateKeyEffect
    <2> QED BY <1>1, <2>1, <2>2, <2>3 DEF CreateLedger, BeforeKey, AfterKey, CreateCalls
  <1>8. CASE AttachGetEffect(b, c) \/ ClearCacheEffect(b, c)
    <2>1. Left(s)' = Left(s) /\ c.out = b.out
      BY <1>8 DEF AttachGetEffect, ClearCacheEffect, world, backoffice, Left, LiveMocks,
                  LiveContracts, LiveSb
    <2>2. \/ b.pc = "attachGet" /\ c.pc = "attachPut"
          \/ b.pc = "clearCache" /\ c.pc \in {"provisionBr", "finish"}
      BY <1>8 DEF AttachGetEffect, ClearCacheEffect, AtBr
    <2> QED BY <1>1, <2>1, <2>2 DEF CreateLedger, BeforeKey, AfterKey, CreateCalls
  <1>9. CASE AttachPutEffect(b, c)
    <2>1. /\ c.out.contracts = b.out.contracts /\ c.out.sb = b.out.sb /\ c.out.br = b.out.br
      BY <1>1, <1>9 DEF AttachPutEffect, Assets
    <2>2. Left(s)' = Left(s)
      BY <1>9 DEF AttachPutEffect, Left, LiveMocks, LiveContracts, LiveSb
    <2>3. b.pc = "attachPut" /\ c.pc = "clearCache"
      BY <1>9 DEF AttachPutEffect
    <2> QED BY <1>1, <2>1, <2>2, <2>3 DEF CreateLedger, BeforeKey, AfterKey, CreateCalls
  <1>10. CASE ProvisionBrEffect(b, c)
    <2>1. /\ c.out.contracts = b.out.contracts /\ c.out.sb = b.out.sb
          /\ c.out.br /\ c.out.key = b.out.key /\ c.out.ext = b.out.ext
      BY <1>1, <1>10 DEF ProvisionBrEffect, Assets
    <2>2. /\ Left(s)'.contracts = Left(s).contracts /\ Left(s)'.sb = Left(s).sb
          /\ Left(s)'.keys = Left(s).keys
      BY <1>10 DEF ProvisionBrEffect, backoffice, Left, LiveContracts, LiveSb
    <2>3. b.pc = "provisionBr" /\ c.pc = "finish"
      BY <1>10 DEF ProvisionBrEffect
    <2> QED BY <1>1, <2>1, <2>2, <2>3 DEF CreateLedger, BeforeKey, AfterKey, CreateCalls
  <1> QED
    BY <1>2, <1>3, <1>4, <1>5, <1>6, <1>7, <1>8, <1>9, <1>10 DEF CreateEffect

LEMMA TeardownKeeps ==
    ASSUME NEW b, HasRow(b), NEW c, SameWork(b, c), TeardownEffect(b, c), b.sid \notin failed',
           b.pc \in TeardownCalls, NEW s, s = b.sid, TeardownLedger(b, Left(s)),
           Left(s).mocks \subseteq OwnIds(b.rec.req)
    PROVE  TeardownLedger(c, Left(s)')
  <1> DEFINE w == Left(s)
             v == Left(s)'
  <1>1. s \in Scenarios /\ c.rec = b.rec /\ c.sid = s /\ s # NoKey /\ Less(v, w)
    BY TeardownLess, ConstantsAssumption DEF HasRow, SameWork, Keys
  <1>2. Recorded(c.sid, c.rec.assets, v) /\ v.mocks \subseteq OwnIds(c.rec.req)
    BY <1>1, RecordedLess DEF TeardownLedger, Less
  <1>3. ~FailEffect(b)
    BY DEF FailEffect
  <1>4. CASE RestoreEffect(b, c)
    <2>1. c.pc = "restore" \/ AtCleanBr(c)
      BY <1>4 DEF RestoreEffect, Drops
    <2>2. CASE c.pc = "restore"
      BY <1>2, <2>2 DEF TeardownLedger
    <2> QED BY <1>2, <2>1, <2>2, RestoreStarts
  <1>5. CASE CleanBrEffect(b, c)
    <2>1. AtUnmock(c) /\ v.rules = {}
      BY <1>1, <1>5 DEF CleanBrEffect, Left
    <2> QED BY <1>2, <2>1, UnmockStarts
  <1>6. CASE UnmockEffect(b, c)
    <2>1. PICK p \in b.todo :
            /\ mocks' = [m \in MockIds |-> IF m \in Owned(b.rec.req, p) THEN Null ELSE mocks[m]]
            /\ Drops(b, c, p) \/ (b.todo = {p} /\ AtDetach(c))
      BY <1>6 DEF UnmockEffect
    <2>2. b.pc = "unmock" /\ v.rules = {}
      BY <1>1, <1>6 DEF UnmockEffect, TeardownLedger, Less
    <2>3. \A m \in v.mocks : m \in w.mocks /\ m \notin Owned(b.rec.req, p)
      BY <1>1, <2>1, ConstantsAssumption DEF Left, LiveMocks, Less
    <2>4. \A m \in v.mocks : \E q \in b.todo \ {p} : m \in Owned(b.rec.req, q)
      BY <2>2, <2>3 DEF TeardownLedger
    <2>5. CASE Drops(b, c, p)
      <3>1. c.pc = "unmock" /\ c.todo = b.todo \ {p}
        BY <2>2, <2>5 DEF Drops
      <3> QED BY <1>1, <1>2, <2>2, <2>4, <3>1 DEF TeardownLedger
    <2>6. CASE b.todo = {p} /\ AtDetach(c)
      <3>1. v.mocks = {}
        BY <2>4, <2>6
      <3> QED BY <1>1, <1>2, <2>2, <2>6, <3>1, DetachStarts
    <2> QED BY <2>1, <2>5, <2>6
  <1>7. CASE DetachGetEffect(b, c)
    <2>1. b.pc = "detachGet" /\ c.pc = "detachPut"
      BY <1>7 DEF DetachGetEffect
    <2> QED BY <1>1, <1>2, <2>1 DEF TeardownLedger, Less
  <1>8. CASE DetachPutEffect(b, c)
    <2>1. b.pc = "detachPut" /\ AtDeleteContracts(c)
      BY <1>8 DEF DetachPutEffect
    <2>2. v.rules = {} /\ v.mocks = {}
      BY <1>1, <2>1 DEF TeardownLedger, Less
    <2> QED BY <1>1, <1>2, <2>1, <2>2, DeleteContractsStarts
  <1>9. CASE DeleteContractEffect(b, c)
    <2>1. PICK p \in b.todo : /\ contracts' = contracts \ {<<b.sid, p>>}
                              /\ Drops(b, c, p) \/ (b.todo = {p} /\ AtDeleteKey(c))
      BY <1>9 DEF DeleteContractEffect
    <2>2. b.pc = "deleteContracts"
      BY <1>9 DEF DeleteContractEffect
    <2>3. v.rules = {} /\ v.mocks = {} /\ v.contracts \subseteq b.todo
      BY <1>1, <2>2 DEF TeardownLedger, Less
    <2>4. p \notin v.contracts
      BY <2>1 DEF Left, LiveContracts
    <2>5. CASE Drops(b, c, p)
      <3>1. c.pc = "deleteContracts" /\ c.todo = b.todo \ {p}
        BY <2>2, <2>5 DEF Drops
      <3> QED BY <1>2, <2>3, <2>4, <3>1 DEF TeardownLedger
    <2>6. CASE b.todo = {p} /\ AtDeleteKey(c)
      <3>1. v.contracts = {}
        BY <2>3, <2>4, <2>6
      <3> QED BY <1>1, <1>2, <2>3, <2>6, <3>1, DeleteKeyStarts
    <2> QED BY <2>1, <2>5, <2>6
  <1>10. CASE DeleteKeyEffect(b, c)
    <2>1. b.pc = "deleteKey" /\ AtDeleteSb(c)
      BY <1>10 DEF DeleteKeyEffect
    <2>2. v.rules = {} /\ v.mocks = {} /\ v.contracts = {}
      BY <1>1, <2>1 DEF TeardownLedger, Less
    <2>3. w.keys # {} => b.rec.assets.key = s
      BY DEF TeardownLedger, Recorded
    <2>4. v.keys = {}
      BY <2>3, <1>10 DEF DeleteKeyEffect, Left
    <2> QED BY <1>2, <2>1, <2>2, <2>4, DeleteSbStarts
  <1>11. CASE DeleteSbEffect(b, c)
    <2>1. PICK kind \in b.sbTodo :
            /\ sbEntities' = sbEntities \ {<<b.sid, kind>>}
            /\ \/ b.sbTodo = {kind} /\ c.pc = "removeRow"
               \/ c.pc = "deleteSb" /\ c.sbTodo = b.sbTodo \ {kind}
      BY <1>11 DEF DeleteSbEffect
    <2>2. b.pc = "deleteSb"
      BY <1>11 DEF DeleteSbEffect
    <2>3. v.rules = {} /\ v.mocks = {} /\ v.contracts = {} /\ v.keys = {}
          /\ v.sb \subseteq b.sbTodo
      BY <1>1, <2>2 DEF TeardownLedger, Less
    <2>4. kind \notin v.sb
      BY <2>1 DEF Left, LiveSb
    <2> QED BY <1>2, <2>1, <2>3, <2>4 DEF TeardownLedger
  <1> QED
    BY <1>3, <1>4, <1>5, <1>6, <1>7, <1>8, <1>9, <1>10, <1>11 DEF TeardownEffect

-----------------------------------------------------------------------------
(***************************************************************************)
(* Everything that exists of a scenario is accounted for: by its row, by   *)
(* the bundle of the create at work on it, or by what is still ahead of    *)
(* the teardown at work on it.  A scenario one of whose calls failed, or   *)
(* whose task died in a crash, is out of the account for good.             *)
(***************************************************************************)

BeingMade(s) == \E j \in Jobs : jobs[j].kind = "create" /\ jobs[j].sid = s /\ Working(jobs[j])

Known(s) ==
    /\ Left(s).mocks # {} => asked[s] # Null /\ Left(s).mocks \subseteq OwnIds(asked[s])
    /\ rows[s] = Null \/ (Pending(s) /\ ~BeingMade(s)) => NothingLeft(Left(s))
    /\ rows[s] # Null /\ ~BeingMade(s) => Recorded(s, rows[s].assets, Left(s))
    /\ \A j \in Jobs : jobs[j].sid = s => Ledger(jobs[j], Left(s))

FreshBundles == \A j \in Jobs : jobs[j].pc = "load" => jobs[j].out = NoAssets

Accounted == FreshBundles /\ \A s \in Scenarios \ (failed \cup killed) : Known(s)

LEMMA NoOther ==
    ASSUME Orderly, NEW j \in Jobs, jobs[j].kind # "idle", jobs[j].sid \in Scenarios,
           NEW i \in Jobs, i # j
    PROVE  jobs[i].sid # jobs[j].sid
  <1>1. CASE jobs[i].kind = "idle"
    BY <1>1, ConstantsAssumption DEF Orderly, Lanes, Lane, IdleJob
  <1>2. CASE jobs[i].kind # "idle"
    BY <1>2 DEF Orderly, Alone
  <1> QED BY <1>1, <1>2

\* A scenario whose row stays as it is, and of which nothing is added.
LEMMA KnownKept ==
    ASSUME NEW t \in Scenarios, Known(t), rows'[t] = rows[t],
           asked[t] # Null => asked'[t] = asked[t],
           BeingMade(t)' <=> BeingMade(t), Less(Left(t)', Left(t)),
           \A i \in Jobs : jobs'[i].sid = t => jobs'[i] = jobs[i] \/ Ledger(jobs'[i], Left(t)')
    PROVE  Known(t)'
  <1> DEFINE w == Left(t)
             v == Left(t)'
  <1>1. v.mocks # {} => asked'[t] # Null /\ v.mocks \subseteq OwnIds(asked'[t])
    BY DEF Known, Less
  <1>2. rows'[t] = Null \/ (Pending(t)' /\ ~BeingMade(t)') => NothingLeft(v)
    BY DEF Known, Pending, Less, NothingLeft
  <1>3. rows'[t] # Null /\ ~BeingMade(t)' => Recorded(t, rows'[t].assets, v)
    BY RecordedLess DEF Known
  <1>4. ASSUME NEW i \in Jobs, jobs'[i].sid = t PROVE Ledger(jobs'[i], v)
    BY <1>4, LedgerLess DEF Known
  <1> HIDE DEF v
  <1> QED BY <1>1, <1>2, <1>3, <1>4 DEF Known, v

\* A step of task j, seen from a scenario it is not about.
LEMMA OtherKnown ==
    ASSUME Orderly, NEW j \in Jobs, \A i \in Jobs : i # j => jobs'[i] = jobs[i],
           NEW t \in Scenarios, jobs[j].sid # t, jobs'[j].sid # t,
           Known(t), rows'[t] = rows[t], asked'[t] = asked[t], Less(Left(t)', Left(t))
    PROVE  Known(t)'
  <1>1. BeingMade(t)' <=> BeingMade(t)
    BY DEF BeingMade
  <1> QED BY <1>1, KnownKept

LEMMA LessSame ==
    ASSUME UNCHANGED world, NEW t \in Scenarios
    PROVE  Left(t)' = Left(t) /\ Less(Left(t)', Left(t))
  BY DEF world, backoffice, Left, Less, LiveMocks, LiveContracts, LiveSb

LEMMA InitAccounted == Init => Accounted
  <1> SUFFICES ASSUME Init PROVE Accounted
    OBVIOUS
  <1>1. FreshBundles
    BY DEF Init, FreshBundles, IdleJob
  <1>2. ASSUME NEW s \in Scenarios PROVE Known(s)
    <2>1. NothingLeft(Left(s))
      BY ConstantsAssumption
         DEF Init, NothingLeft, Left, LiveMocks, LiveContracts, LiveSb
    <2>2. \A j \in Jobs : jobs[j].sid # s
      BY ConstantsAssumption DEF Init, IdleJob
    <2> QED BY <2>1, <2>2 DEF Init, Known, NothingLeft
  <1> QED BY <1>1, <1>2 DEF Accounted

\* A new task.
LEMMA SpawnAccounted ==
    ASSUME ~Overlap, Orderly, Accounted, NEW s \in Scenarios,
           NEW kind \in {"create", "refresh", "teardown"}, MayStart(s), Spawn(kind, s),
           UNCHANGED <<world, failed, killed>>,
           \A t \in Scenarios : t # s => rows'[t] = rows[t] /\ asked'[t] = asked[t],
           \/ rows'[s] = rows[s] /\ asked'[s] = asked[s]
           \/ rows[s] = Null /\ asked[s] = Null /\ rows'[s] # Null /\ rows'[s].status = "PENDING"
              /\ rows'[s].assets = NoAssets
    PROVE  Accounted'
  <1> DEFINE new == [IdleJob EXCEPT !.kind = kind, !.pc = "load", !.sid = s]
  <1>1. PICK j \in Jobs : Idle(j) /\ Becomes(j, new)
    BY DEF Spawn
  <1>2. new.pc = "load" /\ new.sid = s /\ new.out = NoAssets
    BY DEF IdleJob
  <1> HIDE DEF new
  <1>3. jobs'[j] = new /\ \A i \in Jobs : i # j => jobs'[i] = jobs[i]
    BY <1>1, BecomesTask DEF Orderly, KeyInv
  <1>4. FreshBundles'
    BY <1>2, <1>3 DEF Accounted, FreshBundles
  <1>5. \A i \in Jobs : jobs[i].sid # s
    BY ConstantsAssumption DEF MayStart, Quiet, Sids
  <1>6. jobs[j].sid = Null
    BY <1>1 DEF Idle, Orderly, Lanes, Lane, IdleJob
  <1>7. ASSUME NEW t \in Scenarios, t # s, Known(t) PROVE Known(t)'
    BY <1>2, <1>3, <1>6, <1>7, LessSame, OtherKnown, ConstantsAssumption
  <1>8. ASSUME Known(s) PROVE Known(s)'
    <2>1. Ledger(new, Left(s)')
      BY <1>2 DEF Ledger, Working, TearingPCs, TeardownCalls
    <2>2. \A i \in Jobs : jobs'[i].sid = s => jobs'[i] = new
      BY <1>3, <1>5
    <2>3. ~BeingMade(s) /\ ~BeingMade(s)'
      BY <1>2, <1>5, <2>2 DEF BeingMade, Working
    <2>4. CASE rows'[s] = rows[s] /\ asked'[s] = asked[s]
      BY <1>8, <2>1, <2>2, <2>3, <2>4, LessSame, KnownKept
    <2>5. CASE rows[s] = Null /\ rows'[s].assets = NoAssets
      <3>1. NothingLeft(Left(s)')
        BY <1>8, <2>5, LessSame DEF Known
      <3>2. Recorded(s, rows'[s].assets, Left(s)')
        BY <3>1 DEF NothingLeft, Recorded
      <3>3. \A i \in Jobs : jobs'[i].sid = s => Ledger(jobs'[i], Left(s)')
        BY <2>1, <2>2
      <3> QED BY <3>1, <3>2, <3>3 DEF Known, NothingLeft
    <2> QED BY <2>4, <2>5
  <1> QED BY <1>4, <1>7, <1>8 DEF Accounted

LEMMA AskAccounted ==
    ASSUME ~Overlap, Orderly, Accounted, Ask
    PROVE  Accounted'
  <1>1. rows \in [Scenarios -> Row \cup {Null}] /\ asked \in [Scenarios -> Request \cup {Null}]
    BY DEF Orderly, KeyInv, Typed, TypeOK
  <1>2. ASSUME NEW s \in Scenarios, Submit(s) PROVE Accounted'
    <2>1. PICK req \in RequestsOf[s] :
            /\ rows' = [rows EXCEPT ![s] = [req |-> req, status |-> "PENDING",
                                            assets |-> NoAssets]]
            /\ asked' = [asked EXCEPT ![s] = req]
      BY <1>2 DEF Submit
    <2> DEFINE row == [req |-> req, status |-> "PENDING", assets |-> NoAssets]
    <2>2. row \in Row /\ row.assets = NoAssets /\ row.status = "PENDING" /\ row # Null
      BY NoAssetsType, ConstantsAssumption DEF Row
    <2> HIDE DEF row
    <2>3. rows'[s] = row /\ \A t \in Scenarios : t # s => rows'[t] = rows[t] /\ asked'[t] = asked[t]
      BY <1>1, <2>1 DEF row
    <2>4. asked[s] = Null /\ Spawn("create", s) /\ MayStart(s) /\ UNCHANGED <<world, failed, killed>>
      BY <1>2 DEF Submit
    <2>5. rows[s] = Null
      <3>1. rows[s] # Null => rows[s] \in Row /\ rows[s].req = asked[s]
        BY <1>1 DEF Orderly, KeyInv, RowsBound, Bound
      <3> QED BY <2>4, <3>1, RowFields, ConstantsAssumption
    <2> QED BY <2>2, <2>3, <2>4, <2>5, SpawnAccounted
  <1>3. ASSUME NEW s \in Scenarios, AskRefresh(s) PROVE Accounted'
    BY <1>3, SpawnAccounted DEF AskRefresh, history
  <1>4. ASSUME NEW s \in Scenarios, AskTeardown(s) PROVE Accounted'
    BY <1>4, SpawnAccounted DEF AskTeardown, history
  <1>5. ASSUME NEW e \in Envs, AskTeardownAll(e) PROVE Accounted'
    <2> DEFINE new == [IdleJob EXCEPT !.kind = "teardown_all", !.pc = "load", !.env = e]
    <2>1. PICK j \in Jobs : Idle(j) /\ Becomes(j, new)
      BY <1>5 DEF AskTeardownAll
    <2>2. new.pc = "load" /\ new.sid = Null /\ new.out = NoAssets
      BY DEF IdleJob
    <2> HIDE DEF new
    <2>3. jobs'[j] = new /\ \A i \in Jobs : i # j => jobs'[i] = jobs[i]
      BY <2>1, BecomesTask DEF Orderly, KeyInv
    <2>4. jobs[j].sid = Null
      BY <2>1 DEF Idle, Orderly, Lanes, Lane, IdleJob
    <2>5. FreshBundles'
      BY <2>2, <2>3 DEF Accounted, FreshBundles
    <2>6. UNCHANGED <<rows, world, asked, failed, killed>>
      BY <1>5 DEF AskTeardownAll, history
    <2>7. ASSUME NEW t \in Scenarios, Known(t) PROVE Known(t)'
      BY <2>2, <2>3, <2>4, <2>6, <2>7, LessSame, OtherKnown, ConstantsAssumption
    <2> QED BY <2>5, <2>6, <2>7 DEF Accounted
  <1> QED BY <1>2, <1>3, <1>4, <1>5 DEF Ask

\* What a step of task j leaves to show: that the scenario it is about, before or
\* after, is still known.
LEMMA StepAccounted ==
    ASSUME Orderly, Accounted, NEW j \in Jobs, \A i \in Jobs : i # j => jobs'[i] = jobs[i],
           jobs'[j].pc = "load" => jobs'[j].out = NoAssets,
           failed \subseteq failed', killed \subseteq killed',
           \A t \in Scenarios : t # jobs[j].sid => /\ rows'[t] = rows[t] /\ asked'[t] = asked[t]
                                                   /\ Less(Left(t)', Left(t)),
           \A t \in Scenarios \ (failed' \cup killed') :
               t \in {jobs[j].sid, jobs'[j].sid} /\ Known(t) => Known(t)'
    PROVE  Accounted'
  <1>1. FreshBundles'
    BY DEF Accounted, FreshBundles
  <1>2. ASSUME NEW t \in Scenarios \ (failed' \cup killed') PROVE Known(t)'
    <2>1. Known(t)
      BY <1>2 DEF Accounted
    <2>2. CASE t \in {jobs[j].sid, jobs'[j].sid}
      BY <2>1, <2>2
    <2>3. CASE t \notin {jobs[j].sid, jobs'[j].sid}
      BY <2>1, <2>3, OtherKnown
    <2> QED BY <2>2, <2>3
  <1> QED BY <1>1, <1>2 DEF Accounted

LEMMA LoadAccounted ==
    ASSUME Orderly, Accounted, NEW j \in Jobs, Load(j),
           NEW b, b = jobs[j], NEW c, c = jobs'[j], NEW s, s = b.sid
    PROVE  Accounted'
  <1>1. b.pc = "load" /\ b.kind # "idle" /\ b \in Job /\ b.out = NoAssets /\ Lane(b)
    BY DEF Orderly, Lanes, Lane, IdleJob, Load, At, KeyInv, Typed, TypeOK, Accounted, FreshBundles
  <1>2. UNCHANGED <<rows, world, asked, failed, killed>> /\ \A i \in Jobs : i # j => jobs'[i] = jobs[i]
    BY BecomesTask DEF Orderly, KeyInv, Load, history
  <1>3. ASSUME NEW t \in Scenarios PROVE Left(t)' = Left(t) /\ Less(Left(t)', Left(t))
    BY <1>2, LessSame
  <1>4. CASE c.sid = Null /\ c.pc # "load"
    <2>1. ASSUME NEW t \in Scenarios, t \in {b.sid, c.sid}, Known(t) PROVE Known(t)'
      <3>1. t = b.sid /\ t # Null
        BY <1>4, <2>1, ConstantsAssumption
      <3>2. \A i \in Jobs : jobs'[i].sid # t
        BY <1>1, <1>2, <1>4, <3>1, NoOther
      <3>3. ~BeingMade(t) /\ ~BeingMade(t)'
        BY <1>1, <3>1, <3>2, NoOther DEF BeingMade, Working
      <3> QED BY <1>2, <1>3, <2>1, <3>2, <3>3, KnownKept
    <2> QED BY <1>2, <1>3, <1>4, <2>1, StepAccounted
  <1>5. CASE /\ b.kind \in {"create", "refresh", "teardown"} /\ c.kind = b.kind
             /\ c.sid = b.sid /\ c.sid \in Scenarios /\ c.queue = {} /\ Working(c)
             /\ c.rec = rows[b.sid] /\ c.rec \in Row /\ c.rec # Null
             /\ b.kind = "create" => /\ c.pc = "register" /\ c.out = b.out
                                     /\ c.todo = c.rec.req.suppliers
             /\ b.kind = "refresh" => /\ c.pc = "reregister" /\ c.out = RefreshBundle(c.rec)
                                      /\ c.rec.status = "READY"
                                      /\ c.todo = c.rec.req.suppliers
             /\ b.kind = "teardown" => \E d : /\ HasRow(d) /\ d.rec = c.rec /\ d.sid = c.sid
                                              /\ d.kind = b.kind /\ c = ToRestore(d)
    <2>1. s \in Scenarios /\ \A i \in Jobs : i # j => jobs[i].sid # s
      BY <1>1, <1>5, NoOther
    <2>2. ~BeingMade(s)
      BY <1>1, <2>1 DEF BeingMade, Working
    <2>3. ASSUME Known(s) PROVE Known(s)'
      <3>1. CASE b.kind = "create"
        <4>1. rows[s].status = "PENDING"
          BY <3>1 DEF Orderly, Current, Fresh
        <4>2. NothingLeft(Left(s))
          BY <1>5, <2>2, <2>3, <4>1 DEF Known, Pending
        <4>3. CreateLedger(c, Left(s))
          BY <1>1, <1>5, <3>1, <4>2
             DEF NothingLeft, CreateLedger, NoAssets, BeforeKey, AfterKey, CreateCalls
        <4>4. Ledger(c, Left(s)')
          BY <1>3, <1>5, <2>1, <3>1, <4>3 DEF Ledger, TearingPCs, TeardownCalls
        <4>5. BeingMade(s)'
          BY <1>5, <3>1 DEF BeingMade
        <4>6. \A i \in Jobs : jobs'[i].sid = s => Ledger(jobs'[i], Left(s)')
          BY <1>2, <2>1, <4>4
        <4> QED BY <1>2, <1>3, <1>5, <2>1, <2>3, <4>2, <4>5, <4>6 DEF Known
      <3>2. CASE b.kind # "create"
        <4>1. ~BeingMade(s)'
          BY <1>2, <1>5, <2>1, <3>2 DEF BeingMade
        <4>2. Recorded(s, c.rec.assets, Left(s)')
          BY <1>3, <1>5, <2>1, <2>2, <2>3 DEF Known
        <4>3. Left(s)'.mocks \subseteq OwnIds(c.rec.req)
          <5>1. asked[s] = c.rec.req
            BY <1>5, <2>1 DEF Orderly, KeyInv, RowsBound, Bound
          <5> QED BY <1>3, <2>1, <2>3, <5>1 DEF Known
        <4>4. Ledger(c, Left(s)')
          <5>1. CASE b.kind = "refresh"
            BY <1>5, <5>1 DEF Ledger, TearingPCs, TeardownCalls
          <5>2. CASE b.kind = "teardown"
            <6>1. AtRestore(c)
              BY <1>5, <5>2, RestoreNext
            <6>2. TeardownLedger(c, Left(s)')
              BY <1>5, <4>2, <4>3, <6>1, RestoreStarts
            <6> QED BY <1>5, <5>2, <6>2 DEF Ledger
          <5> QED BY <1>5, <3>2, <5>1, <5>2
        <4> QED BY <1>2, <1>3, <2>1, <2>2, <2>3, <4>1, <4>4, KnownKept
      <3> QED BY <3>1, <3>2
    <2>4. c.pc # "load"
      BY <1>5 DEF Working
    <2> QED BY <1>2, <1>3, <1>5, <2>3, <2>4, StepAccounted
  <1> QED
    BY <1>4, <1>5, LoadMoves

\* A call of a task that leaves the rows alone.
LEMMA CallAccounted ==
    ASSUME Orderly, Accounted, NEW j \in Jobs, CreateStep(j) \/ RefreshStep(j) \/ TeardownStep(j),
           ~(CreateRaises(j) \/ RefreshRaises(j) \/ RemoveRow(j)),
           NEW b, b = jobs[j], NEW c, c = jobs'[j], NEW s, s = b.sid
    PROVE  Accounted'
  <1>1. UNCHANGED <<rows, asked>> /\ \A i \in Jobs : i # j => jobs'[i] = jobs[i]
    BY CallRows, StepTask DEF Orderly, KeyInv
  <1>2. Working(b) /\ Typed
    BY CreateMoves, RefreshMoves, TeardownMoves DEF Orderly, KeyInv
  <1>3. /\ HasRow(b) /\ rows[s] = b.rec /\ s \in Scenarios /\ asked[s] = b.rec.req
        /\ b.rec # Null /\ b.kind # "idle" /\ \A i \in Jobs : i # j => jobs[i].sid # s
    BY <1>2, WorkRow, NoOther
  <1>4. CASE CreateStep(j)
    <2>1. /\ SameWork(b, c) /\ b.kind = "create" /\ b.pc \in CreateCalls
          /\ UNCHANGED <<rows, history>> /\ CreateEffect(b, c)
      BY <1>4, CreateEffects
    <2>2. Working(c) /\ c.pc # "load" /\ c \in Job /\ c.pc \in CreateCalls \cup {"finish"}
      <3>1. Moves(b, c) /\ c # IdleJob
        BY <1>4, <2>1, CreateMoves DEF Orderly, KeyInv, SameWork, IdleJob
      <3>2. c.pc \in CreateCalls \cup {"finish"}
        BY <2>1, <3>1 DEF Moves, CreateCalls, TeardownCalls
      <3>3. Typed'
        BY <1>2, <1>4, CreateTyped
      <3> QED BY <3>2, <3>3 DEF Working, CreateCalls, Typed, TypeOK
    <2>3. \A t \in Scenarios : t # s => Less(Left(t)', Left(t))
      BY <2>1, CreateLess
    <2>4. ASSUME Known(s) PROVE Known(s)'
      <3>1. BeingMade(s)'
        BY <2>1, <2>2 DEF BeingMade, SameWork
      <3>2. CreateLedger(b, Left(s))
        BY <1>2, <2>1, <2>4 DEF Known, Ledger
      <3>3. CreateLedger(c, Left(s)')
        <4>1. c.out \in Assets
          BY <2>2 DEF Job
        <4> QED BY <1>3, <2>1, <3>2, <4>1, CreateKeeps
      <3>4. Ledger(c, Left(s)')
        BY <2>1, <2>2, <3>3 DEF SameWork, Ledger, TearingPCs, TeardownCalls, CreateCalls
      <3>5. \A i \in Jobs : jobs'[i].sid = s => Ledger(jobs'[i], Left(s)')
        BY <1>1, <1>3, <3>4
      <3>6. Left(s)'.mocks \subseteq OwnIds(asked[s])
        <4>1. Left(s).mocks \subseteq OwnIds(asked[s])
          BY <2>4 DEF Known
        <4>2. CASE RegisterEffect(b, c)
          <5>1. PICK p \in b.todo :
                  mocks' = [m \in MockIds |-> IF m \in Owned(b.rec.req, p) THEN b.sid ELSE mocks[m]]
            BY <4>2 DEF RegisterEffect
          <5>2. p \in b.rec.req.suppliers
            BY <3>2, <4>2 DEF RegisterEffect, CreateLedger
          <5>3. Owned(b.rec.req, p) \subseteq OwnIds(asked[s])
            BY <1>3, <5>2 DEF OwnIds
          <5>4. Left(s)'.mocks \subseteq Left(s).mocks \cup Owned(b.rec.req, p)
            BY <5>1 DEF Left, LiveMocks
          <5> QED BY <4>1, <5>3, <5>4
        <4>3. CASE ~RegisterEffect(b, c)
          <5>1. UNCHANGED mocks
            BY <2>1, <4>3
               DEF CreateEffect, PrebookGetEffect, PrebookPutEffect, ContractEffect, SbGroupEffect,
                   SbConfigEffect, CreateKeyEffect, AttachGetEffect, AttachPutEffect,
                   ClearCacheEffect, ProvisionBrEffect, world
          <5> QED BY <4>1, <5>1 DEF Left, LiveMocks
        <4> QED BY <4>2, <4>3
      <3>7. asked'[s] # Null
        BY <1>1, <1>3, RowFields, ConstantsAssumption DEF HasRow
      <3> QED BY <1>1, <1>3, <3>1, <3>5, <3>6, <3>7 DEF Known
    <2>5. c.sid = s /\ UNCHANGED <<failed, killed>>
      BY <2>1 DEF SameWork, history
    <2> QED BY <1>1, <2>2, <2>3, <2>4, <2>5, StepAccounted
  <1>5. CASE RefreshStep(j)
    <2>1. SameWork(b, c) /\ b.kind = "refresh" /\ b.pc = "reregister" /\ ReregisterEffect(b, c)
      BY <1>5, RefreshEffects
    <2>2. \A t \in Scenarios : t # s => Less(Left(t)', Left(t))
      BY <1>2, <2>1, ReregisterLess
    <2>3. PICK p \in b.todo :
            /\ mocks' = [mocks EXCEPT ![MockId(b.rec.req, p, "book")] = b.sid]
            /\ Drops(b, c, p) \/ (b.todo = {p} /\ c.pc = "finish")
      BY <2>1 DEF ReregisterEffect
    <2>4. c.pc \in {"reregister", "finish"} /\ c.kind = "refresh" /\ c.sid = s /\ c.rec = b.rec
          /\ c.out = b.out
      BY <2>1, <2>3 DEF Drops, SameWork, ReregisterEffect
    <2>5. ASSUME Known(s) PROVE Known(s)'
      <3>1. b.out = RefreshBundle(b.rec) /\ b.todo \subseteq b.rec.req.suppliers
        BY <1>2, <2>1, <2>5 DEF Known, Ledger
      <3>2. Ledger(c, Left(s)')
        BY <2>3, <2>4, <3>1 DEF Ledger, Drops, TearingPCs, TeardownCalls
      <3>3. ~BeingMade(s) /\ ~BeingMade(s)'
        BY <1>1, <1>3, <2>1, <2>4 DEF BeingMade
      <3>4. /\ Left(s)'.contracts = Left(s).contracts /\ Left(s)'.sb = Left(s).sb
            /\ Left(s)'.keys = Left(s).keys /\ Left(s)'.rules = Left(s).rules
        BY <2>1 DEF ReregisterEffect, backoffice, Left, LiveContracts, LiveSb
      <3>5. Recorded(s, rows'[s].assets, Left(s)')
        BY <1>1, <1>3, <2>5, <3>3, <3>4 DEF Known, Recorded
      <3>6. Left(s)'.mocks \subseteq Left(s).mocks \cup Owned(b.rec.req, p)
        BY <1>2, <2>3 DEF Left, LiveMocks, Owned, Parts, Typed, TypeOK
      <3>7. asked'[s] # Null /\ Left(s)'.mocks \subseteq OwnIds(asked'[s])
        <4>1. Owned(b.rec.req, p) \subseteq OwnIds(asked[s])
          BY <1>3, <3>1 DEF OwnIds
        <4>2. Left(s).mocks \subseteq OwnIds(asked[s])
          BY <2>5 DEF Known
        <4>3. asked[s] # Null
          BY <1>3, RowFields, ConstantsAssumption DEF HasRow
        <4> QED BY <1>1, <3>6, <4>1, <4>2, <4>3
      <3>8. \A i \in Jobs : jobs'[i].sid = s => Ledger(jobs'[i], Left(s)')
        BY <1>1, <1>3, <3>2
      <3>9. rows'[s] # Null /\ ~Pending(s)'
        <4>1. b.rec.status = "READY"
          BY <1>3, <2>1 DEF Orderly, Current, Fresh
        <4> QED BY <1>1, <1>3, <4>1 DEF Pending
      <3> QED BY <3>5, <3>7, <3>8, <3>9 DEF Known
    <2>6. UNCHANGED <<failed, killed>>
      BY <2>1 DEF ReregisterEffect, history
    <2> QED BY <1>1, <2>2, <2>4, <2>5, <2>6, StepAccounted
  <1>6. CASE TeardownStep(j)
    <2>1. /\ SameWork(b, c) /\ b.kind \in {"teardown", All} /\ b.pc \in TeardownCalls
          /\ c.pc \in TearingPCs /\ UNCHANGED rows /\ TeardownEffect(b, c)
      BY <1>6, TeardownEffects
    <2>2. \A t \in Scenarios : Less(Left(t)', Left(t))
      BY <2>1, TeardownLess
    <2>3. ASSUME Known(s), s \notin failed' PROVE Known(s)'
      <3>1. ~BeingMade(s) /\ ~BeingMade(s)'
        BY <1>1, <1>3, <2>1 DEF BeingMade, SameWork, All
      <3>2. TeardownLedger(b, Left(s)) /\ Left(s).mocks \subseteq OwnIds(b.rec.req)
        BY <1>3, <2>1, <2>3 DEF Known, Ledger, TearingPCs
      <3>3. TeardownLedger(c, Left(s)')
        BY <1>3, <2>1, <2>3, <3>2, TeardownKeeps
      <3>4. Ledger(c, Left(s)')
        BY <2>1, <3>3 DEF Ledger, SameWork, All
      <3> QED BY <1>1, <1>3, <2>2, <2>3, <3>1, <3>4, KnownKept
    <2>4. failed \subseteq failed' /\ killed \subseteq killed'
      BY <2>1 DEF TeardownEffect, FailEffect, RestoreEffect, CleanBrEffect, UnmockEffect,
                  DetachGetEffect, DetachPutEffect, DeleteContractEffect, DeleteKeyEffect,
                  DeleteSbEffect, history
    <2>5. c.sid = s /\ c.pc # "load"
      BY <2>1 DEF SameWork, TearingPCs, TeardownCalls
    <2> QED BY <1>1, <2>2, <2>3, <2>4, <2>5, StepAccounted
  <1> QED BY <1>4, <1>5, <1>6
\* The end of a create or a refresh.
LEMMA SaveAccounted ==
    ASSUME Orderly, Accounted, NEW j \in Jobs, Finish(j) \/ CreateRaises(j) \/ RefreshRaises(j),
           NEW b, b = jobs[j], NEW s, s = b.sid
    PROVE  Accounted'
  <1>1. Working(b) /\ Becomes(j, IdleJob)
    BY SaveRows
  <1>2. PICK row : /\ rows' = [rows EXCEPT ![s] = row]
                   /\ b.pc = "finish" => row = ApplyBundle(b.rec, b.out)
    BY SaveRows
  <1>3. /\ HasRow(b) /\ rows[s] = b.rec /\ s \in Scenarios /\ asked[s] = b.rec.req
        /\ b.rec \in Row /\ b.rec # Null /\ b.kind # "idle" /\ b.out \in Assets /\ Lane(b)
        /\ b.rec.req \in Request /\ b.rec.assets \in Assets
    BY <1>1, WorkRow, AtWork DEF Orderly, KeyInv
  <1>4. \A i \in Jobs : i # j => jobs[i].sid # s
    BY <1>3, NoOther
  <1>5. jobs'[j] = IdleJob /\ (\A i \in Jobs : i # j => jobs'[i] = jobs[i])
        /\ \A t \in Scenarios : t # s => rows'[t] = rows[t]
    BY <1>1, <1>2, BecomesTask DEF Orderly, KeyInv, Typed, TypeOK
  <1>6. UNCHANGED <<world, asked>> /\ failed \subseteq failed' /\ killed \subseteq killed'
    BY DEF Finish, CreateRaises, RefreshRaises, CallFails
  <1>7. IdleJob.sid = Null /\ IdleJob.pc # "load" /\ s # Null
    BY <1>3, ConstantsAssumption DEF IdleJob
  <1>8. ASSUME Finish(j), Known(s) PROVE Known(s)'
    <2>1. b.pc = "finish" /\ b.kind \in {"create", "refresh"} /\ rows'[s] = ApplyBundle(b.rec, b.out)
      <3>1. b.pc = "finish"
        BY <1>8 DEF Finish, At
      <3>2. b.kind \in {"create", "refresh"}
        BY <1>3, <3>1 DEF Lane, HasRow, Job, Kinds, TearingPCs, TeardownCalls, All
      <3> QED BY <1>2, <1>3, <3>1, <3>2 DEF Orderly, KeyInv, Typed, TypeOK
    <2> DEFINE a == rows'[s].assets
    <2>2. /\ rows'[s] # Null /\ rows'[s].status = "READY"
          /\ a.key = b.out.key /\ a.ext = b.out.ext /\ a.contracts = b.out.contracts
          /\ a.sb = b.rec.assets.sb \cup b.out.sb /\ (b.rec.assets.br \/ b.out.br => a.br)
      <3>1. rows'[s] \in Row
        BY <1>3, <2>1, ApplyBundleType
      <3>2. rows'[s] # Null /\ rows'[s].status = "READY"
        BY <1>3, <2>1, <3>1, ConstantsAssumption DEF ApplyBundle, Row
      <3>3. rows'[s].assets = [b.out EXCEPT !.sb = b.rec.assets.sb \cup @,
                                            !.br = b.rec.assets.br \/ @,
                                            !.restore = IF @ = NoAssets.restore
                                                        THEN b.rec.assets.restore ELSE @]
        BY <1>3, <2>1 DEF ApplyBundle, Row
      <3>4. /\ a.key = b.out.key /\ a.ext = b.out.ext /\ a.contracts = b.out.contracts
            /\ a.sb = b.rec.assets.sb \cup b.out.sb
        BY <1>3, <3>3 DEF Assets
      <3>5. b.rec.assets.br \/ b.out.br => a.br
        BY <1>3, <3>3 DEF Assets
      <3> QED BY <3>2, <3>4, <3>5
    <2>3. Left(s)' = Left(s)
      BY <1>3, <1>6, LessSame
    <2>4. Ledger(b, Left(s))
      BY <1>8 DEF Known
    <2>5. Recorded(s, a, Left(s))
      <3>1. CASE b.kind = "create"
        <4>1. CreateLedger(b, Left(s))
          BY <1>1, <2>4, <3>1 DEF Ledger
        <4>2. b.rec.req.sb => b.rec.req.depth = "full"
          BY <1>3, RowFields, ConstantsAssumption DEF Orderly, AskedOK, Valid
        <4>3. Left(s).sb # {} => b.out.key = s
          BY <2>1, <4>1, <4>2 DEF CreateLedger, AfterKey
        <4>4. s # NoKey
          BY <1>3, ConstantsAssumption DEF Keys
        <4> HIDE DEF a
        <4> QED BY <2>2, <4>1, <4>3, <4>4 DEF CreateLedger, Recorded
      <3>2. CASE b.kind = "refresh"
        <4>1. ~BeingMade(s)
          BY <1>4, <3>2 DEF BeingMade
        <4>2. Recorded(s, b.rec.assets, Left(s))
          BY <1>3, <1>8, <4>1 DEF Known
        <4>3. /\ b.out.key = b.rec.assets.key /\ ~b.out.ext
              /\ b.out.contracts = b.rec.assets.contracts
          BY <1>1, <2>4, <3>2 DEF Ledger, RefreshBundle, NoAssets
        <4> HIDE DEF a
        <4> QED BY <2>2, <4>2, <4>3 DEF Recorded
      <3> QED BY <2>1, <3>1, <3>2
    <2>6. \A i \in Jobs : jobs'[i].sid # s
      BY <1>4, <1>5, <1>7
    <2> HIDE DEF a
    <2>7. Recorded(s, rows'[s].assets, Left(s)')
      BY <2>3, <2>5 DEF a
    <2> QED BY <1>6, <1>8, <2>2, <2>3, <2>6, <2>7 DEF Known, Pending
  <1>9. ~Finish(j) => s \in failed'
    BY <1>3 DEF CreateRaises, RefreshRaises, CallFails
  <1>10. \A t \in Scenarios : Less(Left(t)', Left(t))
    BY <1>6, LessSame
  <1> QED BY <1>5, <1>6, <1>7, <1>8, <1>9, <1>10, StepAccounted, ConstantsAssumption

LEMMA RemoveRowAccounted ==
    ASSUME Orderly, Accounted, NEW j \in Jobs, RemoveRow(j),
           NEW b, b = jobs[j], NEW c, c = jobs'[j], NEW s, s = b.sid
    PROVE  Accounted'
  <1>1. Working(b) /\ b.pc = "removeRow" /\ UNCHANGED <<world, asked, failed, killed>>
    BY DEF RemoveRow, At, Working, history
  <1>2. s \in Scenarios /\ b.kind # "idle" /\ b \in Job
    BY <1>1, WorkRow
  <1>3. rows \in [Scenarios -> Row \cup {Null}] /\ rows' = [rows EXCEPT ![s] = Null]
        /\ \A i \in Jobs : i # j => jobs'[i] = jobs[i]
    BY StepTask DEF RemoveRow, Orderly, KeyInv, Typed, TypeOK, TeardownStep
  <1>4. \A i \in Jobs : i # j => jobs[i].sid # s
    BY <1>2, NoOther
  <1>5. c.sid = Null /\ c.pc # "load"
    <2>1. c = IdleJob \/ c = [b EXCEPT !.pc = "next", !.sid = Null, !.rec = Null, !.torn = @ \/ b.ok]
      BY BecomesTask DEF RemoveRow, Orderly, KeyInv
    <2>2. CASE c = IdleJob
      BY <2>2 DEF IdleJob
    <2>3. CASE c # IdleJob
      BY <1>2, <2>1, <2>3 DEF Job
    <2> QED BY <2>2, <2>3
  <1>6. \A t \in Scenarios : Left(t)' = Left(t) /\ Less(Left(t)', Left(t))
    BY <1>1, LessSame
  <1>7. ASSUME Known(s) PROVE Known(s)'
    <2>1. TeardownLedger(b, Left(s))
      BY <1>1, <1>7 DEF Known, Ledger, TearingPCs
    <2>2. NothingLeft(Left(s))
      BY <1>1, <2>1 DEF TeardownLedger, NothingLeft
    <2>3. NothingLeft(Left(s)')
      BY <1>2, <1>6, <2>2
    <2>4. \A i \in Jobs : jobs'[i].sid # s
      BY <1>2, <1>3, <1>4, <1>5, ConstantsAssumption
    <2>5. rows'[s] = Null
      BY <1>2, <1>3
    <2> QED BY <2>3, <2>4, <2>5 DEF Known, NothingLeft
  <1>8. \A t \in Scenarios : t # s => rows'[t] = rows[t]
    BY <1>3
  <1> QED BY <1>1, <1>2, <1>3, <1>5, <1>6, <1>7, <1>8, StepAccounted, ConstantsAssumption

LEMMA TeardownAllAccounted ==
    ASSUME Orderly, Accounted, NEW j \in Jobs, TeardownAllStep(j),
           NEW b, b = jobs[j], NEW c, c = jobs'[j]
    PROVE  Accounted'
  <1>1. b.pc \in {"next", "sweep"} /\ b \in Job /\ Lane(b)
    BY DEF TeardownAllStep, TakeNext, QueueDone, Sweep, SweepFails, At, Orderly, Lanes,
           KeyInv, Typed, TypeOK
  <1>2. b.kind = All /\ b.sid = Null
    BY <1>1 DEF Job, Lane, IdleJob, CreateCalls, TearingPCs, TeardownCalls, Kinds, All
  <1>3. /\ UNCHANGED <<rows, asked, failed, killed>>
        /\ \A i \in Jobs : i # j => jobs'[i] = jobs[i]
    BY BecomesTask DEF TeardownAllStep, TakeNext, QueueDone, Sweep, SweepFails, Orderly, KeyInv, history
  <1>4. ASSUME NEW t \in Scenarios PROVE Less(Left(t)', Left(t))
    <2>1. CASE Sweep(j)
      BY <2>1, ConstantsAssumption DEF Sweep, backoffice, Left, Less, LiveMocks, LiveContracts, LiveSb
    <2>2. CASE ~Sweep(j)
      <3>1. UNCHANGED world
        BY <2>2 DEF TeardownAllStep, TakeNext, QueueDone, SweepFails
      <3> QED BY <3>1, LessSame
    <2> QED BY <2>1, <2>2
  <1>5. CASE TakeNext(j)
    <2>1. PICK e \in b.queue, d \in Job :
             /\ HasRow(d) /\ d.sid = e.sid /\ d.rec = e.row /\ d.kind = All
             /\ c = ToRestore(d) /\ SameWork(d, c) /\ c.pc \in {"restore", "cleanBr", "unmock"}
             /\ rows[e.sid] = e.row /\ e \in Entry
      BY <1>5, TakeNextMoves
    <2> DEFINE s == e.sid
    <2>2. s \in Scenarios /\ c.sid = s /\ c.rec = rows[s] /\ c.kind = All /\ rows[s] \in Row
      BY <2>1 DEF SameWork, Entry
    <2>3. UNCHANGED world
      BY <1>5 DEF TakeNext
    <2> HIDE DEF s
    <2>4. ASSUME NEW t \in Scenarios, t = s, Known(t) PROVE Known(t)'
      <3>1. ~BeingMade(t) /\ ~BeingMade(t)'
        <4>1. \A i \in Jobs : i # j => jobs[i].kind = "idle"
          BY <1>2 DEF Orderly, Alone, All
        <4> QED BY <1>2, <1>3, <2>2, <4>1 DEF BeingMade, All
      <3>2. asked[t] = c.rec.req /\ rows[t] # Null
        BY <2>2, <2>4, RowFields, ConstantsAssumption DEF Orderly, KeyInv, RowsBound, Bound
      <3>3. Left(t)' = Left(t)
        BY <2>3, LessSame
      <3>4. Recorded(c.sid, c.rec.assets, Left(t)') /\ Left(t)'.mocks \subseteq OwnIds(c.rec.req)
        BY <2>2, <2>4, <3>1, <3>2, <3>3 DEF Known
      <3>5. AtRestore(c)
        BY <2>1, RestoreNext
      <3>6. Ledger(c, Left(t)')
        BY <2>2, <3>4, <3>5, RestoreStarts DEF Ledger, All
      <3>7. \A i \in Jobs : jobs'[i].sid = t => jobs'[i] = jobs[i] \/ Ledger(jobs'[i], Left(t)')
        BY <1>3, <3>6
      <3> QED BY <1>3, <1>4, <2>4, <3>1, <3>7, KnownKept
    <2>5. c.pc # "load"
      BY <2>1
    <2> QED BY <1>2, <1>3, <1>4, <2>2, <2>4, <2>5, StepAccounted, ConstantsAssumption
  <1>6. CASE ~TakeNext(j)
    <2>1. c = IdleJob \/ c = [b EXCEPT !.pc = "sweep"]
      BY <1>6, BecomesTask
         DEF TeardownAllStep, QueueDone, Sweep, SweepFails, Orderly, KeyInv
    <2>2. c.sid = Null /\ c.pc # "load"
      BY <1>1, <1>2, <2>1 DEF Job, IdleJob
    <2> QED BY <1>2, <1>3, <1>4, <2>2, StepAccounted, ConstantsAssumption
  <1> QED BY <1>5, <1>6

LEMMA CrashAccounted == ASSUME Orderly, Accounted, Crash PROVE Accounted'
  <1>1. /\ UNCHANGED <<rows, world, asked, failed>> /\ killed \subseteq killed'
        /\ \A j \in Jobs : jobs'[j] = IdleJob /\ Sids(jobs[j]) \subseteq killed'
    BY DEF Crash
  <1>2. FreshBundles'
    BY <1>1 DEF FreshBundles, IdleJob
  <1>3. ASSUME NEW t \in Scenarios \ (failed' \cup killed') PROVE Known(t)'
    <2>1. Known(t) /\ Less(Left(t)', Left(t))
      BY <1>1, <1>3, LessSame DEF Accounted
    <2>2. \A j \in Jobs : jobs[j].sid # t /\ jobs'[j].sid # t
      BY <1>1, <1>3, ConstantsAssumption DEF Sids, IdleJob
    <2>3. ~BeingMade(t) /\ ~BeingMade(t)'
      BY <2>2 DEF BeingMade
    <2> QED BY <1>1, <2>1, <2>2, <2>3, KnownKept
  <1> QED BY <1>2, <1>3 DEF Accounted

LEMMA NextAccounted ==
    ASSUME ~Overlap
    PROVE  Orderly /\ Accounted /\ [Next]_vars => Accounted'
  <1> SUFFICES ASSUME Orderly, Accounted, [Next]_vars PROVE Accounted'
    OBVIOUS
  <1>1. CASE UNCHANGED vars
    <2>1. UNCHANGED <<rows, jobs, asked, failed, killed>> /\ UNCHANGED world
      BY <1>1 DEF vars, history
    <2>2. FreshBundles'
      BY <2>1 DEF Accounted, FreshBundles
    <2>3. ASSUME NEW t \in Scenarios, Known(t) PROVE Known(t)'
      <3>1. BeingMade(t)' <=> BeingMade(t)
        BY <2>1 DEF BeingMade
      <3> QED BY <2>1, <2>3, <3>1, LessSame, KnownKept
    <2> QED BY <2>1, <2>2, <2>3 DEF Accounted
  <1>2. ASSUME NEW j \in Jobs, CreateStep(j) \/ RefreshStep(j) \/ TeardownStep(j) PROVE Accounted'
    BY <1>2, CallAccounted, SaveAccounted, RemoveRowAccounted
  <1>3. ASSUME NEW j \in Jobs, Step(j) PROVE Accounted'
    BY <1>2, <1>3, LoadAccounted, SaveAccounted, TeardownAllAccounted DEF Step
  <1> QED BY <1>1, <1>3, AskAccounted, CrashAccounted DEF Next

\* Once the row of a scenario is gone and no task works on it, none of its
\* expectations, contracts, SmartBooking entities, apiKeys or rules is left, unless
\* one of its calls failed or a crash cut a task of it short.
THEOREM TeardownIsComplete == ASSUME ~Overlap PROVE Spec => []NoOrphans
  <1>1. Accounted => NoOrphans
    BY DEF Accounted, Known, NoOrphans, Settled, NothingLeft, Left
  <1>2. Init => Orderly /\ Accounted
    BY InitOrderly, InitAccounted
  <1>3. Orderly /\ Accounted /\ [Next]_vars => (Orderly /\ Accounted)'
    BY NextOrderly, NextAccounted
  <1> QED BY <1>1, <1>2, <1>3, PTL DEF Spec
-----------------------------------------------------------------------------
(***************************************************************************)
(* A READY scenario serves its mocks.  The expectations of two scenarios   *)
(* are told apart by their namespaces, which no two rows share, as long as *)
(* what build_expectation_id makes of two namespaces differs (SlugsApart). *)
(* A create has served every supplier it is done with; the sweep that ends *)
(* a teardown of everything finds no READY row of its environment, because *)
(* whatever it may still delete is on its list (AllListed).                *)
(***************************************************************************)

SlugsApart == \A m, n \in Namespaces : Slug[m] = Slug[n] => m = n

Served(f, s, req, ps) == \A p \in ps, part \in Parts : f[MockId(req, p, part)] = s
Registered(b) == IF b.pc = "register" THEN b.rec.req.suppliers \ b.todo ELSE b.rec.req.suppliers

OnlyRefreshed(s) == \A j \in Jobs : s \in Sids(jobs[j]) => jobs[j].kind = "refresh"
Serving(s) == Ready(s) /\ OnlyRefreshed(s) => Served(mocks, s, rows[s].req, rows[s].req.suppliers)
MakerServes(f, b) == b.kind = "create" /\ Working(b) => Served(f, b.sid, b.rec.req, Registered(b))
Lists(rs, b) ==
    /\ b.pc \in {"load", "sweep"} => b.queue = {}
    /\ b.kind = All /\ b.pc # "load" =>
         \A s \in Scenarios :
             rs[s] # Null /\ rs[s].status # "PENDING" /\ rs[s].req.env = b.env => s \in Sids(b)

Serves == /\ \A s \in Scenarios \ killed : Serving(s)
          /\ \A j \in Jobs : MakerServes(mocks, jobs[j]) /\ Lists(rows, jobs[j])

\* What task j writes are expectations of the scenario it works on.
OwnWrites(b) == \A m \in MockIds :
    mocks'[m] # mocks[m] =>
        Working(b) /\ \E p \in Suppliers, part \in Parts : m = MockId(b.rec.req, p, part)

LEMMA NotListed ==
    ASSUME Orderly, NEW j \in Jobs, jobs[j].kind # "idle", jobs[j].sid \in Scenarios,
           NEW i \in Jobs, i # j
    PROVE  jobs[j].sid \notin Sids(jobs[i])
  <1>1. jobs[i].sid # jobs[j].sid
    BY NoOther
  <1>2. jobs[i].queue = {}
    <2>1. Lane(jobs[i]) /\ jobs[i] \in Job
      BY DEF Orderly, Lanes, KeyInv, Typed, TypeOK
    <2>2. CASE jobs[i].kind = "idle"
      BY <2>1, <2>2 DEF Lane, IdleJob
    <2>3. CASE jobs[i].kind # "idle"
      <3>1. jobs[i].kind # All
        BY <2>3 DEF Orderly, Alone
      <3> QED BY <2>1, <2>3, <3>1 DEF Lane, Job, Kinds, All
    <2> QED BY <2>2, <2>3
  <1> QED BY <1>1, <1>2 DEF Sids

\* The writes of one scenario leave the expectations of another one alone.
LEMMA OthersServed ==
    ASSUME SlugsApart, Orderly, NEW j \in Jobs, OwnWrites(jobs[j]),
           NEW t \in Scenarios, t # jobs[j].sid, rows[t] # Null,
           NEW ps \in SUBSET Suppliers, Served(mocks, t, rows[t].req, ps)
    PROVE  Served(mocks', t, rows[t].req, ps)
  <1> SUFFICES ASSUME NEW p \in ps, NEW part \in Parts
               PROVE  mocks'[MockId(rows[t].req, p, part)] = t
    BY DEF Served
  <1> DEFINE b == jobs[j]
             m == MockId(rows[t].req, p, part)
  <1>1. rows[t] \in Row /\ rows[t].req \in Request /\ mocks[m] = t
    BY RowFields DEF Orderly, KeyInv, Typed, TypeOK, Served
  <1>2. m \in MockIds
    BY <1>1, MockIdType
  <1>3. ASSUME mocks'[m] # mocks[m] PROVE FALSE
    <2>1. PICK q \in Suppliers, half \in Parts : Working(b) /\ m = MockId(b.rec.req, q, half)
      BY <1>2, <1>3 DEF OwnWrites
    <2>2. rows[b.sid] = b.rec /\ b.rec # Null /\ b.sid \in Scenarios /\ b.rec.req \in Request
      BY <2>1, WorkRow
    <2>3. Slug[rows[t].req.ns] = Slug[b.rec.req.ns]
      BY <2>1 DEF MockId
    <2>4. rows[t].req.ns \in Namespaces /\ b.rec.req.ns \in Namespaces
      BY <1>1, <2>2 DEF Request
    <2> QED BY <2>2, <2>3, <2>4 DEF SlugsApart, Orderly, NsUnique
  <1> QED BY <1>1, <1>3

\* What a step of task j leaves to show: that the scenario it is about is served, and
\* that the task's own promises hold.
LEMMA StepServes ==
    ASSUME SlugsApart, Orderly, Serves, NEW j \in Jobs, jobs[j].kind # "idle",
           \A i \in Jobs : i # j => jobs'[i] = jobs[i],
           \A t \in Scenarios : t # jobs[j].sid => rows'[t] = rows[t],
           OwnWrites(jobs[j]), killed \subseteq killed',
           \/ Sids(jobs[j]) \subseteq {jobs[j].sid}
           \/ jobs'[j].kind = jobs[j].kind /\ Sids(jobs[j]) \ {jobs[j].sid} \subseteq Sids(jobs'[j]),
           \A s \in Scenarios \ killed' : s = jobs[j].sid => Serving(s)',
           MakerServes(mocks', jobs'[j]), Lists(rows', jobs'[j])
    PROVE  Serves'
  <1> DEFINE b == jobs[j]
             c == jobs'[j]
  <1>1. ASSUME NEW t \in Scenarios \ killed' PROVE Serving(t)'
    <2>1. CASE t = b.sid
      BY <1>1, <2>1
    <2>2. CASE t # b.sid
      <3> SUFFICES ASSUME Ready(t)', OnlyRefreshed(t)'
                   PROVE  Served(mocks', t, rows'[t].req, rows'[t].req.suppliers)
        BY DEF Serving
      <3>1. rows'[t] = rows[t] /\ Ready(t) /\ rows[t] # Null
        BY <2>2 DEF Ready
      <3>2. OnlyRefreshed(t)
        BY <2>2 DEF OnlyRefreshed
      <3>3. Served(mocks, t, rows[t].req, rows[t].req.suppliers)
        BY <1>1, <3>1, <3>2 DEF Serves, Serving
      <3>4. rows[t].req.suppliers \in SUBSET Suppliers
        BY <3>1, RowFields DEF Orderly, KeyInv, Typed, TypeOK, Request
      <3> QED BY <2>2, <3>1, <3>3, <3>4, OthersServed
    <2> QED BY <2>1, <2>2
  <1>2. ASSUME NEW i \in Jobs PROVE MakerServes(mocks', jobs'[i]) /\ Lists(rows', jobs'[i])
    <2>1. CASE i = j
      BY <2>1
    <2>2. CASE i # j
      <3>1. jobs'[i] = jobs[i] /\ MakerServes(mocks, jobs[i]) /\ Lists(rows, jobs[i])
        BY <2>2 DEF Serves
      <3>2. jobs[i].kind = "idle" \/ (jobs[i].kind # All /\ jobs[i].sid # b.sid)
        BY <2>2 DEF Orderly, Alone
      <3>3. Lists(rows', jobs[i])
        BY <3>1, <3>2 DEF Lists, All
      <3>4. ASSUME jobs[i].kind = "create", Working(jobs[i])
            PROVE  Served(mocks', jobs[i].sid, jobs[i].rec.req, Registered(jobs[i]))
        <4>1. /\ jobs[i].sid \in Scenarios /\ rows[jobs[i].sid] = jobs[i].rec
              /\ jobs[i].rec # Null /\ jobs[i].rec.req \in Request /\ jobs[i] \in Job
          BY <3>4, WorkRow
        <4>2. Registered(jobs[i]) \in SUBSET Suppliers
          BY <4>1 DEF Registered, Request, Job
        <4> QED BY <3>1, <3>2, <3>4, <4>1, <4>2, OthersServed DEF MakerServes
      <3> QED BY <3>1, <3>3, <3>4 DEF MakerServes
    <2> QED BY <2>1, <2>2
  <1> QED BY <1>1, <1>2 DEF Serves

LEMMA InitServes == Init => Serves
  BY DEF Init, Serves, Serving, Ready, MakerServes, Lists, IdleJob, All

\* A new task.
LEMMA NewServes ==
    ASSUME Serves, NEW j \in Jobs, Idle(j), Lanes, NEW c,
           jobs'[j] = c, \A i \in Jobs : i # j => jobs'[i] = jobs[i],
           c.pc = "load", c.queue = {}, UNCHANGED <<mocks, killed>>,
           \A t \in Scenarios : rows'[t] # rows[t] =>
               rows'[t] # Null /\ rows'[t].status = "PENDING",
           \A t \in Scenarios : t = c.sid => OnlyRefreshed(t),
           \A i \in Jobs : jobs[i].kind # All
    PROVE  Serves'
  <1>1. ASSUME NEW t \in Scenarios \ killed' PROVE Serving(t)'
    <2> SUFFICES ASSUME Ready(t)', OnlyRefreshed(t)'
                 PROVE  Served(mocks', t, rows'[t].req, rows'[t].req.suppliers)
      BY DEF Serving
    <2>1. rows'[t] = rows[t] /\ Ready(t)
      BY DEF Ready
    <2>2. OnlyRefreshed(t)
      <3>1. Sids(jobs[j]) = {}
        BY DEF Idle, Lanes, Lane, IdleJob, Sids
      <3> QED BY <3>1 DEF OnlyRefreshed
    <2> QED BY <1>1, <2>1, <2>2 DEF Serves, Serving
  <1>2. ASSUME NEW i \in Jobs PROVE MakerServes(mocks', jobs'[i]) /\ Lists(rows', jobs'[i])
    <2>1. CASE i = j
      BY <2>1 DEF MakerServes, Lists, Working
    <2>2. CASE i # j
      BY <2>2 DEF Serves, MakerServes, Lists
    <2> QED BY <2>1, <2>2
  <1> QED BY <1>1, <1>2 DEF Serves

LEMMA AskServes == ASSUME ~Overlap, Orderly, Serves, Ask PROVE Serves'
  <1>1. rows \in [Scenarios -> Row \cup {Null}] /\ Lanes
    BY DEF Orderly, KeyInv, Typed, TypeOK
  <1>2. ASSUME NEW kind, NEW s \in Scenarios, Spawn(kind, s), MayStart(s),
               UNCHANGED <<mocks, killed>>,
               \A t \in Scenarios : rows'[t] # rows[t] =>
                   rows'[t] # Null /\ rows'[t].status = "PENDING"
        PROVE  Serves'
    <2> DEFINE new == [IdleJob EXCEPT !.kind = kind, !.pc = "load", !.sid = s]
    <2>1. PICK j \in Jobs : Idle(j) /\ Becomes(j, new)
      BY <1>2 DEF Spawn
    <2>2. new.pc = "load" /\ new.sid = s /\ new.queue = {}
      BY DEF IdleJob
    <2> HIDE DEF new
    <2>3. jobs'[j] = new /\ \A i \in Jobs : i # j => jobs'[i] = jobs[i]
      BY <2>1, BecomesTask DEF Orderly, KeyInv
    <2>4. OnlyRefreshed(s) /\ \A i \in Jobs : jobs[i].kind # All
      BY <1>2 DEF MayStart, Quiet, OnlyRefreshed, NoTeardownAll, All
    <2> QED BY <1>1, <1>2, <2>1, <2>2, <2>3, <2>4, NewServes
  <1>3. ASSUME NEW s \in Scenarios, Submit(s) PROVE Serves'
    <2>1. PICK req \in RequestsOf[s] :
            rows' = [rows EXCEPT ![s] = [req |-> req, status |-> "PENDING", assets |-> NoAssets]]
      BY <1>3 DEF Submit
    <2> DEFINE row == [req |-> req, status |-> "PENDING", assets |-> NoAssets]
    <2>2. row \in Row /\ row.status = "PENDING" /\ row # Null
      BY NoAssetsType, ConstantsAssumption DEF Row
    <2> HIDE DEF row
    <2>3. rows'[s] = row /\ \A t \in Scenarios : t # s => rows'[t] = rows[t]
      BY <1>1, <2>1 DEF row
    <2>4. Spawn("create", s) /\ MayStart(s) /\ UNCHANGED <<mocks, killed>>
      BY <1>3 DEF Submit, world
    <2> QED BY <1>2, <2>2, <2>3, <2>4
  <1>4. ASSUME NEW s \in Scenarios, AskRefresh(s) \/ AskTeardown(s) PROVE Serves'
    <2>1. PICK kind : Spawn(kind, s)
      BY <1>4 DEF AskRefresh, AskTeardown
    <2>2. MayStart(s) /\ UNCHANGED <<rows, mocks, killed>>
      BY <1>4 DEF AskRefresh, AskTeardown, world, history
    <2> QED BY <1>2, <2>1, <2>2
  <1>5. ASSUME NEW e \in Envs, AskTeardownAll(e) PROVE Serves'
    <2> DEFINE new == [IdleJob EXCEPT !.kind = "teardown_all", !.pc = "load", !.env = e]
    <2>1. PICK j \in Jobs : Idle(j) /\ Becomes(j, new)
      BY <1>5 DEF AskTeardownAll
    <2>2. new.pc = "load" /\ new.sid = Null /\ new.queue = {}
      BY DEF IdleJob
    <2> HIDE DEF new
    <2>3. jobs'[j] = new /\ \A i \in Jobs : i # j => jobs'[i] = jobs[i]
      BY <2>1, BecomesTask DEF Orderly, KeyInv
    <2>4. \A i \in Jobs : jobs[i].kind # All
      BY <1>5 DEF AskTeardownAll, Idle, All
    <2>5. UNCHANGED <<rows, mocks, killed>>
      BY <1>5 DEF AskTeardownAll, world, history
    <2>6. \A t \in Scenarios : t # new.sid
      BY <2>2, ConstantsAssumption
    <2> QED BY <1>1, <2>1, <2>2, <2>3, <2>4, <2>5, <2>6, NewServes
  <1> QED BY <1>3, <1>4, <1>5 DEF Ask
LEMMA LoadServes ==
    ASSUME SlugsApart, Orderly, Serves, NEW j \in Jobs, Load(j),
           NEW b, b = jobs[j], NEW c, c = jobs'[j]
    PROVE  Serves'
  <1>1. b.pc = "load" /\ b.kind # "idle" /\ b \in Job /\ Lane(b) /\ Lists(rows, b)
    BY DEF Orderly, Lanes, Lane, IdleJob, Load, At, KeyInv, Typed, TypeOK, Serves
  <1>2. UNCHANGED <<rows, mocks, killed>> /\ \A i \in Jobs : i # j => jobs'[i] = jobs[i]
    BY BecomesTask DEF Orderly, KeyInv, Load, history, world
  <1>3. b.queue = {} /\ OwnWrites(b) /\ Sids(b) \subseteq {b.sid}
    BY <1>1, <1>2 DEF Lists, OwnWrites, Sids
  <1>4. CASE /\ b.kind = All /\ c.kind = All /\ c.pc = "next" /\ c.sid = Null /\ c.env = b.env
             /\ c.queue = Tearable(b.env)
    <2>1. b.sid = Null
      BY <1>1, <1>4 DEF Lane, All
    <2>2. ASSUME NEW s \in Scenarios, rows[s] # Null, rows[s].status # "PENDING",
                 rows[s].req.env = b.env
          PROVE  s \in Sids(c)
      <3> DEFINE e == [sid |-> s, row |-> rows[s]]
      <3>1. rows[s].status \in {"READY", "FAILED"}
        BY <2>2 DEF Orderly, KeyInv, Typed, TypeOK, Row
      <3>2. e \in Tearable(b.env) /\ e.sid = s
        BY <2>2, <3>1 DEF Tearable
      <3> QED BY <1>4, <3>2 DEF Sids
    <2>3. Lists(rows', c) /\ MakerServes(mocks', c)
      BY <1>2, <1>4, <2>2 DEF Lists, MakerServes, All
    <2>4. \A s \in Scenarios : s # b.sid
      BY <2>1, ConstantsAssumption
    <2> QED BY <1>1, <1>2, <1>3, <2>3, <2>4, StepServes
  <1>5. CASE /\ b.kind \in {"create", "refresh", "teardown"} /\ c.kind = b.kind
             /\ c.sid = b.sid /\ c.sid \in Scenarios /\ c.queue = {} /\ Working(c)
             /\ c.rec = rows[b.sid] /\ c.rec \in Row /\ c.rec # Null
             /\ b.kind = "create" => /\ c.pc = "register" /\ c.out = b.out
                                     /\ c.todo = c.rec.req.suppliers
    <2>1. MakerServes(mocks', c)
      BY <1>5 DEF MakerServes, Registered, Served
    <2>2. Lists(rows', c)
      BY <1>5 DEF Lists, All
    <2>3. ASSUME NEW s \in Scenarios \ killed, s = b.sid PROVE Serving(s)'
      <3> SUFFICES ASSUME Ready(s)', OnlyRefreshed(s)'
                   PROVE  Served(mocks', s, rows'[s].req, rows'[s].req.suppliers)
        BY DEF Serving
      <3>1. s \in Sids(c)
        BY <1>5, <2>3, ConstantsAssumption DEF Sids
      <3>2. b.kind = "refresh"
        BY <1>5, <3>1 DEF OnlyRefreshed
      <3>3. OnlyRefreshed(s)
        BY <1>1, <1>5, <2>3, <3>2, NotListed DEF OnlyRefreshed
      <3> QED BY <1>2, <2>3, <3>3 DEF Serves, Serving, Ready
    <2> QED BY <1>1, <1>2, <1>3, <2>1, <2>2, <2>3, StepServes
  <1> QED BY <1>4, <1>5, LoadMoves

LEMMA LateCreate ==
    ASSUME NEW b, NEW c, CreateEffect(b, c), c.pc = "register"
    PROVE  b.pc = "register"
  BY DEF CreateEffect, RegisterEffect, PrebookGetEffect, PrebookPutEffect, ContractEffect,
         SbGroupEffect, SbConfigEffect, CreateKeyEffect, AttachGetEffect, AttachPutEffect,
         ClearCacheEffect, ProvisionBrEffect, Drops, AtSb, AtKey, AtBr, AtContracts

\* A call of a task that leaves the rows alone.
LEMMA CallServes ==
    ASSUME SlugsApart, Orderly, Serves, NEW j \in Jobs,
           CreateStep(j) \/ RefreshStep(j) \/ TeardownStep(j),
           ~(CreateRaises(j) \/ RefreshRaises(j) \/ RemoveRow(j)),
           NEW b, b = jobs[j], NEW c, c = jobs'[j]
    PROVE  Serves'
  <1>1. UNCHANGED rows /\ \A i \in Jobs : i # j => jobs'[i] = jobs[i]
    BY CallRows, StepTask DEF Orderly, KeyInv
  <1>2. Working(b) /\ Typed
    BY CreateMoves, RefreshMoves, TeardownMoves DEF Orderly, KeyInv
  <1>3. /\ HasRow(b) /\ rows[b.sid] = b.rec /\ b.sid \in Scenarios /\ b.rec.req \in Request
        /\ b \in Job /\ b.rec # Null /\ b.kind # "idle" /\ b.todo \in SUBSET Suppliers
    BY <1>2, WorkRow, AtWork DEF Orderly, KeyInv
  <1>4. CASE CreateStep(j)
    <2>1. /\ SameWork(b, c) /\ b.kind = "create" /\ b.pc \in CreateCalls
          /\ UNCHANGED history /\ CreateEffect(b, c)
      BY <1>4, CreateEffects
    <2>2. c # IdleJob /\ c.pc \notin {"load", "sweep"}
      <3>1. Moves(b, c) /\ c # IdleJob
        BY <1>4, <2>1, CreateMoves DEF Orderly, KeyInv, SameWork, IdleJob
      <3> QED BY <3>1 DEF Moves, CreateCalls, TearingPCs, TeardownCalls
    <2>3. Sids(c) = Sids(b) /\ c.kind = b.kind
      BY <2>1 DEF SameWork, Sids
    <2>4. Lists(rows', c)
      BY <2>1, <2>2 DEF Lists, SameWork, All
    <2>5. Served(mocks, b.sid, b.rec.req, Registered(b))
      BY <1>2, <2>1 DEF Serves, MakerServes
    <2>6. OwnWrites(b) /\ Served(mocks', b.sid, b.rec.req, Registered(c))
      <3>1. CASE RegisterEffect(b, c)
        <4>1. PICK p \in b.todo :
                /\ mocks' = [m \in MockIds |-> IF m \in Owned(b.rec.req, p) THEN b.sid ELSE mocks[m]]
                /\ Drops(b, c, p) \/ (b.todo = {p} /\ AtPrebook(c))
          BY <3>1 DEF RegisterEffect
        <4>2. OwnWrites(b)
          BY <1>2, <1>3, <4>1 DEF OwnWrites, Owned
        <4>3. Registered(c) \subseteq Registered(b) \cup {p}
          BY <2>1, <3>1, <4>1
             DEF RegisterEffect, Registered, Drops, SameWork, AtPrebook, AtContracts
        <4>4. \A q \in Suppliers, part \in Parts : MockId(b.rec.req, q, part) \in MockIds
          BY <1>3, MockIdType
        <4>5. Registered(c) \subseteq Suppliers
          BY <1>3, <2>1 DEF Registered, SameWork, Request
        <4>6. ASSUME NEW q \in Registered(c), NEW part \in Parts
              PROVE  mocks'[MockId(b.rec.req, q, part)] = b.sid
          <5>1. CASE q = p
            BY <4>1, <4>4, <4>5, <5>1 DEF Owned
          <5>2. CASE q # p
            BY <2>5, <4>1, <4>3, <4>4, <4>5, <5>2 DEF Served
          <5> QED BY <5>1, <5>2
        <4> QED BY <4>2, <4>6 DEF Served
      <3>2. CASE ~RegisterEffect(b, c)
        <4>1. UNCHANGED mocks
          BY <2>1, <3>2
             DEF CreateEffect, PrebookGetEffect, PrebookPutEffect, ContractEffect, SbGroupEffect,
                 SbConfigEffect, CreateKeyEffect, AttachGetEffect, AttachPutEffect,
                 ClearCacheEffect, ProvisionBrEffect, world
        <4>2. b.pc # "register"
          BY <2>1, <3>2
             DEF CreateEffect, PrebookGetEffect, PrebookPutEffect, ContractEffect, SbGroupEffect,
                 SbConfigEffect, CreateKeyEffect, AttachGetEffect, AttachPutEffect,
                 ClearCacheEffect, ProvisionBrEffect
        <4>3. c.pc # "register"
          BY <2>1, <4>2, LateCreate
        <4> QED BY <2>1, <2>5, <4>1, <4>2, <4>3 DEF OwnWrites, Registered, SameWork
      <3> QED BY <3>1, <3>2
    <2>7. MakerServes(mocks', c)
      BY <2>1, <2>6 DEF MakerServes, SameWork
    <2>8. ASSUME NEW s \in Scenarios, s = b.sid PROVE Serving(s)'
      <3>1. rows[s].status = "PENDING"
        BY <2>1, <2>8 DEF Orderly, Current, Fresh
      <3> QED BY <1>1, <3>1 DEF Serving, Ready
    <2> QED BY <1>1, <1>3, <2>1, <2>3, <2>4, <2>6, <2>7, <2>8, StepServes DEF history
  <1>5. CASE RefreshStep(j)
    <2>1. SameWork(b, c) /\ b.kind = "refresh" /\ b.pc = "reregister" /\ ReregisterEffect(b, c)
      BY <1>5, RefreshEffects
    <2>2. PICK p \in b.todo :
            /\ mocks' = [mocks EXCEPT ![MockId(b.rec.req, p, "book")] = b.sid]
            /\ Drops(b, c, p) \/ (b.todo = {p} /\ c.pc = "finish")
      BY <2>1 DEF ReregisterEffect
    <2>3. c.pc \in {"reregister", "finish"} /\ c.kind = "refresh"
      BY <2>1, <2>2 DEF Drops, SameWork
    <2>4. OwnWrites(b)
      BY <1>2, <1>3, <2>2 DEF OwnWrites, Parts, Typed, TypeOK
    <2>5. ASSUME NEW s \in Scenarios \ killed', s = b.sid PROVE Serving(s)'
      <3>1. OnlyRefreshed(s)
        BY <1>3, <2>1, <2>5, NotListed DEF OnlyRefreshed
      <3>2. Ready(s)
        BY <1>1, <1>3, <2>1, <2>5 DEF Orderly, Current, Fresh, Ready
      <3>3. s \in Scenarios \ killed
        BY <2>1, <2>5 DEF ReregisterEffect, history
      <3>4. Served(mocks, s, rows[s].req, rows[s].req.suppliers)
        BY <3>1, <3>2, <3>3 DEF Serves, Serving
      <3>5. Served(mocks', s, rows[s].req, rows[s].req.suppliers)
        <4>1. \A m \in MockIds : mocks'[m] = mocks[m] \/ mocks'[m] = s
          BY <1>2, <2>2, <2>5 DEF Typed, TypeOK
        <4>2. \A q \in rows[s].req.suppliers, part \in Parts : MockId(rows[s].req, q, part) \in MockIds
          BY <1>3, <2>5, MockIdType DEF Request
        <4> QED BY <3>4, <4>1, <4>2 DEF Served
      <3> QED BY <1>1, <3>5 DEF Serving
    <2>6. Sids(c) = Sids(b) /\ c.kind = b.kind /\ UNCHANGED killed
      BY <2>1 DEF SameWork, Sids, ReregisterEffect, history
    <2>7. MakerServes(mocks', c) /\ Lists(rows', c)
      BY <2>3 DEF MakerServes, Lists, All
    <2> QED BY <1>1, <1>3, <2>4, <2>5, <2>6, <2>7, StepServes
  <1>6. CASE TeardownStep(j)
    <2>1. /\ SameWork(b, c) /\ b.kind \in {"teardown", All} /\ b.pc \in TeardownCalls
          /\ c.pc \in TearingPCs /\ TeardownEffect(b, c)
      BY <1>6, TeardownEffects
    <2>2. OwnWrites(b)
      <3>1. CASE UnmockEffect(b, c)
        BY <1>2, <1>3, <3>1 DEF UnmockEffect, OwnWrites, Owned
      <3>2. CASE ~UnmockEffect(b, c)
        <4>1. UNCHANGED mocks
          BY <2>1, <3>2
             DEF TeardownEffect, FailEffect, RestoreEffect, CleanBrEffect, DetachGetEffect,
                 DetachPutEffect, DeleteContractEffect, DeleteKeyEffect, DeleteSbEffect, world
        <4> QED BY <4>1 DEF OwnWrites
      <3> QED BY <3>1, <3>2
    <2>3. Sids(c) = Sids(b) /\ c.kind = b.kind /\ c.env = b.env /\ c.kind # "create"
          /\ c.kind # "refresh"
      BY <2>1 DEF SameWork, Sids, All
    <2>4. c.pc \notin {"load", "sweep"} /\ b.pc # "load"
      BY <2>1 DEF TearingPCs, TeardownCalls
    <2>5. Lists(rows, b)
      BY DEF Serves
    <2>6. MakerServes(mocks', c) /\ Lists(rows', c)
      BY <1>1, <2>3, <2>4, <2>5 DEF MakerServes, Lists
    <2>7. ASSUME NEW s \in Scenarios, s = b.sid PROVE Serving(s)'
      <3>1. s \in Sids(c)
        BY <2>3, <2>7, ConstantsAssumption DEF Sids
      <3> QED BY <2>3, <3>1 DEF Serving, OnlyRefreshed
    <2>8. killed \subseteq killed'
      BY <2>1 DEF TeardownEffect, FailEffect, RestoreEffect, CleanBrEffect, UnmockEffect,
                  DetachGetEffect, DetachPutEffect, DeleteContractEffect, DeleteKeyEffect,
                  DeleteSbEffect, history
    <2> QED BY <1>1, <1>3, <2>2, <2>3, <2>6, <2>7, <2>8, StepServes
  <1> QED BY <1>4, <1>5, <1>6

\* The end of a create or a refresh.
LEMMA SaveServes ==
    ASSUME SlugsApart, Orderly, Serves, NEW j \in Jobs,
           Finish(j) \/ CreateRaises(j) \/ RefreshRaises(j),
           NEW b, b = jobs[j], NEW s, s = b.sid
    PROVE  Serves'
  <1>1. Working(b) /\ Becomes(j, IdleJob)
    BY SaveRows
  <1>2. PICK row : /\ rows' = [rows EXCEPT ![s] = row] /\ row.req = b.rec.req
                   /\ b.pc = "finish" => row = ApplyBundle(b.rec, b.out)
                   /\ b.pc \in CreateCalls => row = FailedRow(b.rec)
                   /\ b.pc = "reregister" => row = b.rec
    BY SaveRows
  <1>3. /\ HasRow(b) /\ rows[s] = b.rec /\ s \in Scenarios /\ b.rec \in Row /\ b.kind # "idle"
        /\ Lane(b) /\ b.rec # Null /\ b \in Job
    BY <1>1, WorkRow
  <1>4. jobs'[j] = IdleJob /\ (\A i \in Jobs : i # j => jobs'[i] = jobs[i]) /\ rows'[s] = row
        /\ \A t \in Scenarios : t # s => rows'[t] = rows[t]
    BY <1>1, <1>2, <1>3, BecomesTask DEF Orderly, KeyInv, Typed, TypeOK
  <1>5. UNCHANGED <<mocks, killed>>
    BY DEF Finish, CreateRaises, RefreshRaises, CallFails, world
  <1>6. b.kind \in {"create", "refresh"} /\ (b.kind = "refresh" => b.pc \in {"finish", "reregister"})
    <2>1. b.pc \in CreateCalls \cup {"finish", "reregister"}
      BY DEF Finish, CreateRaises, RefreshRaises, At
    <2> QED BY <1>3, <2>1 DEF Lane, Job, Kinds, TearingPCs, TeardownCalls, CreateCalls, All
  <1>7. ASSUME s \notin killed, Ready(s)' PROVE Served(mocks, s, b.rec.req, b.rec.req.suppliers)
    <2>1. CASE b.kind = "create"
      <3>1. b.pc = "finish"
        <4>1. b.pc \in CreateCalls => row.status = "FAILED"
          BY <1>2, <1>3 DEF FailedRow, Row
        <4>2. b.pc # "load"
          BY <1>1 DEF Working
        <4> QED BY <1>3, <1>4, <1>7, <2>1, <4>1, <4>2 DEF Ready, Lane
      <3> QED BY <1>1, <2>1, <3>1 DEF Serves, MakerServes, Registered
    <2>2. CASE b.kind = "refresh"
      <3>1. OnlyRefreshed(s)
        BY <1>3, <2>2, NotListed DEF OnlyRefreshed
      <3>2. Ready(s)
        BY <1>3, <2>2 DEF Orderly, Current, Fresh, Ready
      <3> QED BY <1>3, <1>7, <3>1, <3>2 DEF Serves, Serving
    <2> QED BY <1>6, <2>1, <2>2
  <1>8. s \notin killed' => Serving(s)'
    BY <1>2, <1>4, <1>5, <1>7 DEF Serving
  <1>9. b.queue = {}
    BY <1>3, <1>6 DEF Lane
  <1>10. OwnWrites(b) /\ Sids(b) \subseteq {s}
    BY <1>5, <1>9 DEF OwnWrites, Sids
  <1>11. MakerServes(mocks', IdleJob) /\ Lists(rows', IdleJob)
    BY DEF MakerServes, Lists, IdleJob, All
  <1> QED BY <1>3, <1>4, <1>5, <1>8, <1>10, <1>11, StepServes

LEMMA RemoveRowServes ==
    ASSUME SlugsApart, Orderly, Serves, NEW j \in Jobs, RemoveRow(j),
           NEW b, b = jobs[j], NEW c, c = jobs'[j], NEW s, s = b.sid
    PROVE  Serves'
  <1>1. Working(b) /\ b.pc = "removeRow" /\ UNCHANGED <<mocks, killed>>
    BY DEF RemoveRow, At, Working, history, world
  <1>2. s \in Scenarios /\ b.kind # "idle" /\ b \in Job /\ Lane(b)
    BY <1>1, WorkRow
  <1>3. rows \in [Scenarios -> Row \cup {Null}] /\ rows' = [rows EXCEPT ![s] = Null]
        /\ \A i \in Jobs : i # j => jobs'[i] = jobs[i]
    BY StepTask DEF RemoveRow, Orderly, KeyInv, Typed, TypeOK, TeardownStep
  <1>4. rows'[s] = Null /\ \A t \in Scenarios : t # s => rows'[t] = rows[t]
    BY <1>2, <1>3
  <1>5. Serving(s)' /\ OwnWrites(b)
    BY <1>1, <1>4 DEF Serving, Ready, OwnWrites
  <1>6. CASE b.kind = "teardown"
    <2>1. c = IdleJob
      BY <1>6, BecomesTask DEF RemoveRow, Orderly, KeyInv
    <2>2. MakerServes(mocks', c) /\ Lists(rows', c)
      BY <2>1 DEF MakerServes, Lists, IdleJob, All
    <2>3. Sids(b) \subseteq {s}
      BY <1>2, <1>6 DEF Lane, Sids
    <2> QED BY <1>1, <1>2, <1>3, <1>4, <1>5, <2>2, <2>3, StepServes
  <1>7. CASE b.kind # "teardown"
    <2>1. b.kind = All
      BY <1>1, <1>2, <1>7 DEF Job, Kinds, Lane, CreateCalls, All
    <2>2. c = [b EXCEPT !.pc = "next", !.sid = Null, !.rec = Null, !.torn = @ \/ b.ok]
      BY <1>7, BecomesTask DEF RemoveRow, Orderly, KeyInv
    <2>3. c.pc = "next" /\ c.sid = Null /\ c.queue = b.queue /\ c.kind = b.kind /\ c.env = b.env
      BY <1>2, <2>2 DEF Job
    <2>4. Sids(b) \ {s} \subseteq Sids(c)
      BY <2>3 DEF Sids
    <2>5. Lists(rows, b)
      BY DEF Serves
    <2>6. Lists(rows', c)
      BY <1>1, <1>4, <2>1, <2>3, <2>4, <2>5 DEF Lists, All
    <2>7. MakerServes(mocks', c)
      BY <2>1, <2>3 DEF MakerServes, All
    <2> QED BY <1>1, <1>2, <1>3, <1>4, <1>5, <2>3, <2>4, <2>6, <2>7, StepServes
  <1> QED BY <1>6, <1>7

LEMMA TeardownAllServes ==
    ASSUME SlugsApart, Orderly, Serves, NEW j \in Jobs, TeardownAllStep(j),
           NEW b, b = jobs[j], NEW c, c = jobs'[j]
    PROVE  Serves'
  <1>1. b.pc \in {"next", "sweep"} /\ b \in Job /\ Lane(b) /\ Lists(rows, b)
    BY DEF TeardownAllStep, TakeNext, QueueDone, Sweep, SweepFails, At, Orderly, Lanes,
           KeyInv, Typed, TypeOK, Serves
  <1>2. b.kind = All /\ b.sid = Null
    BY <1>1 DEF Job, Lane, IdleJob, CreateCalls, TearingPCs, TeardownCalls, Kinds, All
  <1>3. /\ UNCHANGED <<rows, killed>> /\ \A i \in Jobs : i # j => jobs'[i] = jobs[i]
    BY BecomesTask DEF TeardownAllStep, TakeNext, QueueDone, Sweep, SweepFails, Orderly, KeyInv, history
  <1>4. \A s \in Scenarios : s # b.sid
    BY <1>2, ConstantsAssumption
  <1>5. MakerServes(mocks', IdleJob) /\ Lists(rows', IdleJob)
    BY DEF MakerServes, Lists, IdleJob, All
  <1>6. CASE TakeNext(j)
    <2>1. PICK e \in b.queue, d \in Job :
             /\ d.sid = e.sid /\ d.queue = b.queue \ {e} /\ d.env = b.env /\ d.kind = All
             /\ SameWork(d, c) /\ c.pc \in {"restore", "cleanBr", "unmock"} /\ e \in Entry
      BY <1>6, TakeNextMoves
    <2>2. c.sid = e.sid /\ c.queue = b.queue \ {e} /\ c.kind = b.kind /\ c.env = b.env
      BY <1>2, <2>1 DEF SameWork
    <2>3. Sids(b) \subseteq Sids(c)
      BY <1>2, <2>1, <2>2, ConstantsAssumption DEF Sids, Entry
    <2>4. Lists(rows', c) /\ MakerServes(mocks', c)
      BY <1>1, <1>2, <1>3, <2>1, <2>2, <2>3 DEF Lists, MakerServes, All
    <2>5. OwnWrites(b)
      BY <1>6 DEF TakeNext, world, OwnWrites
    <2> QED BY <1>2, <1>3, <1>4, <2>2, <2>3, <2>4, <2>5, StepServes, ConstantsAssumption DEF All
  <1>7. CASE QueueDone(j) \/ SweepFails(j)
    <2>1. b.queue = {}
      BY <1>1, <1>7 DEF QueueDone, SweepFails, At, Lists
    <2>2. Sids(b) = {}
      BY <1>2, <2>1 DEF Sids
    <2>3. OwnWrites(b)
      BY <1>7 DEF QueueDone, SweepFails, world, OwnWrites
    <2>4. c = IdleJob \/ c = [b EXCEPT !.pc = "sweep"]
      BY <1>7, BecomesTask DEF QueueDone, SweepFails, Orderly, KeyInv
    <2>5. Lists(rows', c) /\ MakerServes(mocks', c)
      <3>1. CASE c = [b EXCEPT !.pc = "sweep"]
        <4>1. c.pc = "sweep" /\ c.kind = b.kind /\ c.sid = b.sid /\ c.queue = b.queue /\ c.env = b.env
          BY <1>1, <3>1 DEF Job
        <4>2. Sids(c) = Sids(b)
          BY <4>1 DEF Sids
        <4> QED BY <1>1, <1>2, <1>3, <2>1, <4>1, <4>2 DEF Lists, MakerServes, All
      <3> QED BY <1>5, <2>4, <3>1
    <2> QED BY <1>2, <1>3, <1>4, <2>2, <2>3, <2>5, StepServes DEF All
  <1>8. CASE Sweep(j)
    <2>1. c = IdleJob /\ b.queue = {}
      BY <1>1, <1>8, BecomesTask DEF Sweep, At, Lists, Orderly, KeyInv
    <2>2. \A s \in Scenarios : rows[s] # Null /\ rows[s].status # "PENDING" => rows[s].req.env # b.env
      BY <1>1, <1>2, <1>8, <2>1 DEF Lists, Sids, Sweep, At
    <2>3. \A i \in Jobs : i # j => jobs[i].kind = "idle"
      BY <1>2 DEF Orderly, Alone, All
    <2>4. \A i \in Jobs : jobs'[i] = IdleJob
      BY <1>3, <2>1, <2>3 DEF Orderly, Lanes, Lane
    <2>5. ASSUME NEW t \in Scenarios \ killed' PROVE Serving(t)'
      <3> SUFFICES ASSUME Ready(t)' PROVE Served(mocks', t, rows'[t].req, rows'[t].req.suppliers)
        BY DEF Serving
      <3>1. Ready(t) /\ rows[t].req.env # b.env
        BY <1>3, <2>2 DEF Ready
      <3>2. OnlyRefreshed(t)
        <4>1. \A i \in Jobs : t \notin Sids(jobs[i])
          <5>1. \A i \in Jobs : i # j => jobs[i] = IdleJob
            BY <1>3, <2>4
          <5> QED BY <1>2, <2>1, <5>1 DEF Sids, IdleJob
        <4> QED BY <4>1 DEF OnlyRefreshed
      <3>3. Served(mocks, t, rows[t].req, rows[t].req.suppliers)
        BY <1>3, <2>5, <3>1, <3>2 DEF Serves, Serving
      <3>4. ASSUME NEW p \in rows[t].req.suppliers, NEW part \in Parts
            PROVE  mocks'[MockId(rows[t].req, p, part)] = t
        <4>1. rows[t].req \in Request /\ p \in Suppliers
          BY <3>1, RowFields DEF Ready, Orderly, KeyInv, Typed, TypeOK, Request
        <4>2. MockId(rows[t].req, p, part) \in MockIds
          BY <4>1, MockIdType
        <4>3. MockId(rows[t].req, p, part)[1] # b.env
          BY <3>1 DEF MockId
        <4> QED BY <1>8, <3>3, <4>2, <4>3 DEF Sweep, Served
      <3> QED BY <1>3, <3>4 DEF Served
    <2> QED BY <1>5, <2>4, <2>5 DEF Serves
  <1> QED BY <1>6, <1>7, <1>8 DEF TeardownAllStep

LEMMA NextServes ==
    ASSUME ~Overlap, SlugsApart
    PROVE  Orderly /\ Serves /\ [Next]_vars => Serves'
  <1> SUFFICES ASSUME Orderly, Serves, [Next]_vars PROVE Serves'
    OBVIOUS
  <1>1. CASE UNCHANGED vars
    <2>1. UNCHANGED <<rows, jobs, mocks, killed>>
      BY <1>1 DEF vars, history, world
    <2> QED BY <2>1 DEF Serves, Serving, Ready, OnlyRefreshed
  <1>2. CASE Crash
    <2>1. /\ UNCHANGED <<rows, mocks>>
          /\ \A j \in Jobs : jobs'[j] = IdleJob /\ Sids(jobs[j]) \subseteq killed'
      BY <1>2 DEF Crash, world
    <2>2. ASSUME NEW t \in Scenarios \ killed' PROVE Serving(t)'
      <3>1. OnlyRefreshed(t) /\ t \in Scenarios \ killed
        BY <1>2, <2>1, <2>2 DEF OnlyRefreshed, Crash
      <3> QED BY <2>1, <3>1 DEF Serves, Serving, Ready
    <2>3. \A j \in Jobs : MakerServes(mocks', jobs'[j]) /\ Lists(rows', jobs'[j])
      BY <2>1 DEF MakerServes, Lists, IdleJob, All
    <2> QED BY <2>2, <2>3 DEF Serves
  <1>3. ASSUME NEW j \in Jobs, CreateStep(j) \/ RefreshStep(j) \/ TeardownStep(j) PROVE Serves'
    BY <1>3, CallServes, SaveServes, RemoveRowServes
  <1>4. ASSUME NEW j \in Jobs, Step(j) PROVE Serves'
    BY <1>3, <1>4, LoadServes, SaveServes, TeardownAllServes DEF Step
  <1> QED BY <1>1, <1>2, <1>4, AskServes DEF Next

\* A READY scenario that no task works on, and no crash has cut a task of, answers
\* with its own expectations for every supplier and both halves of the flow, when
\* namespaces stay apart as expectation ids.
THEOREM ServesItsMocks == ASSUME ~Overlap, SlugsApart PROVE Spec => []ReadyServesItsMocks
  <1>1. Serves => ReadyServesItsMocks
    BY DEF Serves, Serving, ReadyServesItsMocks, Settled, Quiet, OnlyRefreshed, Served
  <1>2. Init => Orderly /\ Serves
    BY InitOrderly, InitServes
  <1>3. Orderly /\ Serves /\ [Next]_vars => (Orderly /\ Serves)'
    BY NextOrderly, NextServes
  <1> QED BY <1>1, <1>2, <1>3, PTL DEF Spec
-----------------------------------------------------------------------------
(***************************************************************************)
(* A READY scenario is provisioned, an existing apiKey lists no contract   *)
(* that is gone, and pinned supplier records are put back.  These rest on  *)
(* records that callers share: an existing apiKey, and the prebooking flag *)
(* of a supplier.  A task reads one and writes it back a call later, and a *)
(* teardown restores the value its own create has found, so the three hold *)
(* as long as no two rows use the same record (Unshared).                  *)
(***************************************************************************)

Unshared == \A s, t \in Scenarios : s # t /\ rows[s] # Null /\ rows[t] # Null =>
    /\ rows[s].req.key = NoKey \/ rows[s].req.key # rows[t].req.key
    /\ rows[s].req.env = rows[t].req.env =>
           Pinned(rows[s].req) \cap Pinned(rows[t].req) = {}

\* The shared systems, MockServer aside.
Outside == [contracts |-> contracts, sb |-> sbEntities, keys |-> liveKeys,
            rules |-> brRules, pre |-> prebooking, refs |-> keyRefs]

\* What a request asks for, and what of it a create (task b) has made so far.
Wanted(s, req) ==
    [contracts |-> req.suppliers, sb |-> IF req.sb THEN SbKinds ELSE {},
     keys |-> IF req.depth = "full" THEN {s} ELSE {req.key} \ {NoKey},
     rules |-> IF NeedsBr(req) THEN {s} ELSE {}, pins |-> Pinned(req)]

Prebooks == {"prebookGet", "prebookPut"}
Attaches == {"attachGet", "attachPut"}
Made(b) ==
    LET all == Wanted(b.sid, b.rec.req) IN
    [contracts |-> IF b.pc \in Prebooks \cup {"register"} THEN {}
                   ELSE IF b.pc = "contracts" THEN all.contracts \ b.todo ELSE all.contracts,
     sb |-> IF b.pc \in Prebooks \cup {"register", "contracts", "sbGroup"} THEN {}
            ELSE IF b.pc = "sbConfig" THEN {"group"} ELSE all.sb,
     keys |-> IF b.pc \in AfterKey THEN all.keys ELSE {},
     rules |-> IF b.pc = "finish" THEN all.rules ELSE {},
     pins |-> IF b.pc = "register" THEN {}
              ELSE IF b.pc \in Prebooks THEN all.pins \ b.todo ELSE all.pins]

There(w, s, req, m) ==
    /\ \A p \in m.contracts : <<s, p>> \in w.contracts
    /\ \A kind \in m.sb : <<s, kind>> \in w.sb
    /\ m.keys \subseteq w.keys /\ m.rules \subseteq w.rules
    /\ \A p \in m.pins : w.pre[<<req.env, p>>] = req.pin[p]
MadeThere(w, b) == There(w, b.sid, b.rec.req, Made(b))

\* The apiKey a row or a bundle (a) names is the one that was asked for.
NamesKey(s, req, a) == Wanted(s, req).keys # {} => a.key \in Wanted(s, req).keys

Refs(w, s) == {p \in Suppliers : \E k \in ExistingKeys : <<s, p>> \in w.refs[k]}
Noted(refs, a) == refs # {} => refs \subseteq a.contracts /\ a.ext /\ a.key # NoKey

\* A row of scenario s, and a create at work, whatever may have failed.
RowTidy(s, row) ==
    /\ row.assets.key \in Scenarios => row.assets.key = s
    /\ Altered(row) \subseteq Pinned(row.req)
    /\ row.status = "PENDING" => row.assets = NoAssets
MakerTidy(b) ==
    /\ b.out.key \in Scenarios => b.out.key = b.sid
    /\ b.out.contracts \subseteq b.rec.req.suppliers
    /\ \A p \in Suppliers : b.out.restore[p] # "none" => p \in Pinned(b.rec.req)
    /\ b.pc = "register" => b.out = NoAssets
    /\ b.pc = "prebookGet" => \A p \in b.todo : b.out.restore[p] = "none"
    /\ b.pc = "prebookPut" => \A p, q \in b.todo :
           b.out.restore[p] # "none" /\ b.out.restore[q] # "none" => p = q
    /\ b.pc = "contracts" => b.todo \subseteq b.rec.req.suppliers
    /\ b.pc = "createKey" => b.rec.req.depth = "full"
    /\ b.pc \in Attaches => b.rec.req.depth # "full"
    /\ b.pc \in AfterKey => NamesKey(b.sid, b.rec.req, b.out)

TaskTidy(w, b) ==
    /\ b.pc \in {"load", "sweep"} => b.queue = {}
    /\ b.kind = "create" /\ Working(b) => MakerTidy(b) /\ MadeThere(w, b)
    /\ b.kind = "refresh" /\ Working(b) => b.out = RefreshBundle(b.rec)
    /\ b.pc \in {"attachPut", "detachPut"} =>
         b.rec.req.key # NoKey /\ b.seen \subseteq w.refs[b.rec.req.key]

\* Whoever will detach scenario s knows what the existing apiKeys list of it.
Detached == {"deleteContracts", "deleteKey", "deleteSb", "removeRow"}
TaskKnowsRefs(refs, b) ==
    /\ b.kind = "create" /\ b.pc \in BeforeKey => refs = {}
    /\ b.kind = "create" /\ b.pc \in AfterKey => Noted(refs, b.out)
    /\ b.pc \in Detached => refs = {}
RefsKnown(w, s) ==
    /\ \A p \in Refs(w, s) : <<s, p>> \in w.contracts
    /\ rows[s] = Null => Refs(w, s) = {}
    /\ rows[s] # Null /\ ~BeingMade(s) => Noted(Refs(w, s), rows[s].assets)
    /\ \A j \in Jobs : jobs[j].sid = s => TaskKnowsRefs(Refs(w, s), jobs[j])

Supplied(w, s) ==
    Ready(s) /\ OnlyRefreshed(s) => /\ There(w, s, rows[s].req, Wanted(s, rows[s].req))
                                    /\ NamesKey(s, rows[s].req, rows[s].assets)

Provisioned(s) ==
    /\ \A p \in Suppliers :
           <<s, p>> \in contracts => asked[s] # Null /\ p \in asked[s].suppliers
    /\ \A k \in ExistingKeys, p \in Suppliers :
           <<s, p>> \in keyRefs[k] => asked[s] # Null /\ asked[s].key = k
    /\ rows[s] # Null => RowTidy(s, rows[s])
    /\ s \notin killed => Supplied(Outside, s)
    /\ s \notin failed \cup killed \cup refreshed => RefsKnown(Outside, s)

\* While no call failed and no task died, somebody will put the flag of supplier p
\* back that s has changed.
Clean == failed = {} /\ killed = {}
Restorable(a) == \A p \in Suppliers : a.restore[p] \in {"none", "absent"}
Undoes(s, p) ==
    /\ rows[s] # Null /\ p \in Pinned(rows[s].req)
    /\ IF BeingMade(s)
       THEN \E j \in Jobs : jobs[j].kind = "create" /\ jobs[j].sid = s /\ Working(jobs[j])
                              /\ jobs[j].out.restore[p] = "absent"
       ELSE /\ rows[s].assets.restore[p] = "absent"
            /\ \A j \in Jobs : jobs[j].sid = s /\ jobs[j].pc \in TearingPCs
                                  => jobs[j].pc = "restore" /\ p \in jobs[j].todo
Undone ==
    /\ \A s \in Scenarios : rows[s] # Null => Restorable(rows[s].assets)
    /\ \A j \in Jobs : jobs[j].kind = "create" /\ Working(jobs[j]) => Restorable(jobs[j].out)
    /\ \A e \in Envs, p \in Suppliers : prebooking[<<e, p>>] # "absent" =>
           \E s \in Scenarios : Undoes(s, p) /\ rows[s].req.env = e

Provisioning == /\ \A s \in Scenarios : Provisioned(s)
                /\ \A j \in Jobs : TaskTidy(Outside, jobs[j])
                /\ Clean => Undone
-----------------------------------------------------------------------------
\* What a step that is not about s leaves of it, where row is the row of s.
Spared(w, v, s, row) ==
    /\ \A p \in Suppliers : <<s, p>> \in v.contracts <=> <<s, p>> \in w.contracts
    /\ \A kind \in SbKinds : <<s, kind>> \in w.sb => <<s, kind>> \in v.sb
    /\ \A k \in ExistingKeys, p \in Suppliers : <<s, p>> \in v.refs[k] => <<s, p>> \in w.refs[k]
    /\ s \in w.keys => s \in v.keys
    /\ s \in w.rules => s \in v.rules
    /\ row # Null =>
         /\ row.req.key \in w.keys => row.req.key \in v.keys
         /\ row.req.key # NoKey => v.refs[row.req.key] = w.refs[row.req.key]
         /\ \A p \in Pinned(row.req) :
                v.pre[<<row.req.env, p>>] = w.pre[<<row.req.env, p>>]

LEMMA OutsideSame ==
    ASSUME UNCHANGED <<backoffice, brRules>>
    PROVE  /\ Outside' = Outside
           /\ \A s \in Scenarios : Spared(Outside, Outside', s, rows[s])
  BY DEF backoffice, Outside, Spared

\* What a row asks for is still there.
LEMMA SparedThere ==
    ASSUME NEW w, NEW v, NEW s, NEW row \in Row, row # Null, Spared(w, v, s, row), NEW m,
           m.contracts \subseteq Suppliers, m.sb \subseteq SbKinds,
           m.keys \subseteq Wanted(s, row.req).keys, m.rules \subseteq {s},
           m.pins \subseteq Pinned(row.req), There(w, s, row.req, m)
    PROVE  There(v, s, row.req, m)
  <1>1. \A k \in Wanted(s, row.req).keys : k = s \/ k = row.req.key
    BY DEF Wanted
  <1> QED BY <1>1 DEF There, Spared

LEMMA WantedParts ==
    ASSUME NEW s \in Scenarios, NEW req \in Request
    PROVE  LET m == Wanted(s, req) IN
           /\ m.contracts \subseteq Suppliers /\ m.sb \subseteq SbKinds /\ m.rules \subseteq {s}
           /\ m.keys \subseteq Keys /\ m.pins = Pinned(req) /\ Pinned(req) \subseteq Suppliers
  BY DEF Wanted, Request, Pinned, Keys

LEMMA MadeParts ==
    ASSUME NEW b, HasRow(b)
    PROVE  LET m == Made(b) IN
           /\ m.contracts \subseteq Suppliers /\ m.sb \subseteq SbKinds /\ m.rules \subseteq {b.sid}
           /\ m.keys \subseteq Wanted(b.sid, b.rec.req).keys
           /\ m.pins \subseteq Pinned(b.rec.req)
  <1>1. b.sid \in Scenarios /\ b.rec.req \in Request
    BY RowFields DEF HasRow
  <1> DEFINE all == Wanted(b.sid, b.rec.req)
  <1>2. /\ all.contracts \subseteq Suppliers /\ all.sb \subseteq SbKinds
        /\ all.rules \subseteq {b.sid} /\ all.pins = Pinned(b.rec.req)
    BY <1>1, WantedParts
  <1> HIDE DEF all
  <1>3. Made(b) =
          [contracts |-> IF b.pc \in Prebooks \cup {"register"} THEN {}
                         ELSE IF b.pc = "contracts" THEN all.contracts \ b.todo ELSE all.contracts,
           sb |-> IF b.pc \in Prebooks \cup {"register", "contracts", "sbGroup"} THEN {}
                  ELSE IF b.pc = "sbConfig" THEN {"group"} ELSE all.sb,
           keys |-> IF b.pc \in AfterKey THEN all.keys ELSE {},
           rules |-> IF b.pc = "finish" THEN all.rules ELSE {},
           pins |-> IF b.pc = "register" THEN {}
                    ELSE IF b.pc \in Prebooks THEN all.pins \ b.todo ELSE all.pins]
    BY DEF Made, all
  <1>4. /\ Made(b).contracts \subseteq all.contracts /\ Made(b).rules \subseteq all.rules
        /\ Made(b).keys \subseteq all.keys /\ Made(b).pins \subseteq all.pins
    BY <1>3
  <1>5. Made(b).sb \subseteq SbKinds
    BY <1>2, <1>3 DEF SbKinds
  <1> QED BY <1>2, <1>4, <1>5 DEF all

LEMMA CreateSpares ==
    ASSUME Orderly, Unshared, NEW j \in Jobs, Working(jobs[j]), TaskTidy(Outside, jobs[j]),
           NEW b, b = jobs[j], NEW c, CreateEffect(b, c), NEW t \in Scenarios, t # b.sid
    PROVE  Spared(Outside, Outside', t, rows[t])
  <1>1. /\ rows[b.sid] = b.rec /\ b.rec # Null /\ b.sid \in Scenarios /\ b.rec.req \in Request
        /\ JobInv(b)
    BY WorkRow, AtWork DEF Orderly, KeyInv
  <1>2. Typed
    BY DEF Orderly, KeyInv
  <1>3. rows[t] # Null =>
          /\ rows[t].req.key = NoKey \/ rows[t].req.key # b.rec.req.key
          /\ rows[t].req.env = b.rec.req.env => Pinned(rows[t].req) \cap Pinned(b.rec.req) = {}
    BY <1>1 DEF Unshared
  <1>4. CASE UNCHANGED <<contracts, sbEntities, liveKeys, brRules, prebooking, keyRefs>>
    BY <1>4, OutsideSame DEF backoffice
  <1>5. CASE PrebookPutEffect(b, c)
    <2>1. PICK p \in b.todo :
            prebooking' = [prebooking EXCEPT ![<<b.rec.req.env, p>>] = b.rec.req.pin[p]]
      BY <1>5 DEF PrebookPutEffect
    <2>2. p \in Pinned(b.rec.req)
      BY <1>1, <1>5 DEF PrebookPutEffect, JobInv, Creating, CreateCalls
    <2>3. rows[t] # Null => \A q \in Pinned(rows[t].req) :
            prebooking'[<<rows[t].req.env, q>>] = prebooking[<<rows[t].req.env, q>>]
      <3> SUFFICES ASSUME rows[t] # Null, NEW q \in Pinned(rows[t].req)
                   PROVE  prebooking'[<<rows[t].req.env, q>>] = prebooking[<<rows[t].req.env, q>>]
        OBVIOUS
      <3>1. <<rows[t].req.env, q>> # <<b.rec.req.env, p>>
        BY <1>3, <2>2
      <3>2. <<rows[t].req.env, q>> \in Envs \X Suppliers
        <4>1. rows[t].req \in Request
          BY <1>2, RowFields DEF Typed, TypeOK
        <4> QED BY <4>1 DEF Request, Pinned
      <3> QED BY <1>2, <2>1, <3>1, <3>2 DEF Typed, TypeOK
    <2> QED BY <1>5, <2>3 DEF PrebookPutEffect, Outside, Spared
  <1>6. CASE ContractEffect(b, c)
    BY <1>6 DEF ContractEffect, Outside, Spared
  <1>7. CASE SbGroupEffect(b, c) \/ SbConfigEffect(b, c)
    BY <1>7 DEF SbGroupEffect, SbConfigEffect, Outside, Spared
  <1>8. CASE CreateKeyEffect(b, c)
    BY <1>8 DEF CreateKeyEffect, Outside, Spared
  <1>9. CASE ProvisionBrEffect(b, c)
    BY <1>9 DEF ProvisionBrEffect, backoffice, Outside, Spared
  <1>10. CASE AttachPutEffect(b, c)
    <2> DEFINE k == b.rec.req.key
    <2>1. /\ keyRefs' = [keyRefs EXCEPT ![k] = b.seen \cup OwnContracts(b.sid, b.out.contracts)]
          /\ b.seen \subseteq keyRefs[k] /\ k # NoKey
      BY <1>10 DEF AttachPutEffect, TaskTidy, Outside
    <2>2. \A x \in ExistingKeys, p \in Suppliers :
            <<t, p>> \in keyRefs'[x] => <<t, p>> \in keyRefs[x]
      BY <1>2, <2>1 DEF OwnContracts, Typed, TypeOK
    <2>3. rows[t] # Null /\ rows[t].req.key # NoKey
            => keyRefs'[rows[t].req.key] = keyRefs[rows[t].req.key]
      <3>1. rows[t] # Null => rows[t].req \in Request
        BY <1>2, RowFields DEF Typed, TypeOK
      <3>2. rows[t] # Null /\ rows[t].req.key # NoKey => rows[t].req.key \in ExistingKeys
        BY <3>1 DEF Request
      <3> QED BY <1>2, <1>3, <2>1, <3>2 DEF Typed, TypeOK
    <2> QED BY <1>10, <2>2, <2>3 DEF AttachPutEffect, Outside, Spared
  <1> QED
    BY <1>4, <1>5, <1>6, <1>7, <1>8, <1>9, <1>10
       DEF CreateEffect, RegisterEffect, PrebookGetEffect, AttachGetEffect, ClearCacheEffect,
           world, backoffice

LEMMA TeardownSpares ==
    ASSUME Orderly, Unshared, NEW j \in Jobs, Working(jobs[j]), TaskTidy(Outside, jobs[j]),
           jobs[j].pc \in TearingPCs,
           NEW b, b = jobs[j], RowTidy(b.sid, b.rec), NEW c, TeardownEffect(b, c),
           NEW t \in Scenarios, t # b.sid
    PROVE  Spared(Outside, Outside', t, rows[t])
  <1>1. /\ rows[b.sid] = b.rec /\ b.rec # Null /\ b.sid \in Scenarios /\ b.rec.req \in Request
        /\ JobInv(b) /\ b.rec.assets \in Assets
    BY WorkRow, AtWork DEF Orderly, KeyInv
  <1>2. Typed
    BY DEF Orderly, KeyInv
  <1>3. rows[t] # Null =>
          /\ rows[t].req.key = NoKey \/ rows[t].req.key # b.rec.req.key
          /\ rows[t].req.env = b.rec.req.env => Pinned(rows[t].req) \cap Pinned(b.rec.req) = {}
    BY <1>1 DEF Unshared
  <1>4. rows[t] # Null => rows[t].req \in Request
    BY <1>2, RowFields DEF Typed, TypeOK
  <1>5. rows[t] # Null /\ rows[t].req.key # NoKey => rows[t].req.key \in ExistingKeys
    BY <1>4 DEF Request
  <1>6. CASE UNCHANGED <<contracts, sbEntities, liveKeys, brRules, prebooking, keyRefs>>
    BY <1>6, OutsideSame DEF backoffice
  <1>7. CASE RestoreEffect(b, c)
    <2>1. PICK p \in b.todo :
            prebooking' = [prebooking EXCEPT ![<<b.rec.req.env, p>>] = b.rec.assets.restore[p]]
      BY <1>7 DEF RestoreEffect
    <2>2. p \in Pinned(b.rec.req)
      BY <1>1, <1>7 DEF RestoreEffect, JobInv, TearingDown, TeardownCalls, RowTidy
    <2>3. rows[t] # Null => \A q \in Pinned(rows[t].req) :
            prebooking'[<<rows[t].req.env, q>>] = prebooking[<<rows[t].req.env, q>>]
      <3> SUFFICES ASSUME rows[t] # Null, NEW q \in Pinned(rows[t].req)
                   PROVE  prebooking'[<<rows[t].req.env, q>>] = prebooking[<<rows[t].req.env, q>>]
        OBVIOUS
      <3>1. <<rows[t].req.env, q>> # <<b.rec.req.env, p>>
        BY <1>3, <2>2
      <3>2. <<rows[t].req.env, q>> \in Envs \X Suppliers
        BY <1>4 DEF Request, Pinned
      <3> QED BY <1>2, <2>1, <3>1, <3>2 DEF Typed, TypeOK
    <2> QED BY <1>7, <2>3 DEF RestoreEffect, Outside, Spared
  <1>8. CASE CleanBrEffect(b, c)
    BY <1>8 DEF CleanBrEffect, backoffice, Outside, Spared
  <1>9. CASE DetachPutEffect(b, c)
    <2> DEFINE k == b.rec.req.key
    <2>1. /\ keyRefs' = [keyRefs EXCEPT ![k] = b.seen \ OwnContracts(b.sid, b.rec.assets.contracts)]
          /\ b.seen \subseteq keyRefs[k] /\ k # NoKey
      BY <1>9 DEF DetachPutEffect, TaskTidy, Outside
    <2>2. \A x \in ExistingKeys, p \in Suppliers :
            <<t, p>> \in keyRefs'[x] => <<t, p>> \in keyRefs[x]
      BY <1>2, <2>1 DEF Typed, TypeOK
    <2>3. rows[t] # Null /\ rows[t].req.key # NoKey
            => keyRefs'[rows[t].req.key] = keyRefs[rows[t].req.key]
      BY <1>2, <1>3, <1>5, <2>1 DEF Typed, TypeOK
    <2> QED BY <1>9, <2>2, <2>3 DEF DetachPutEffect, Outside, Spared
  <1>10. CASE DeleteContractEffect(b, c)
    BY <1>10 DEF DeleteContractEffect, Outside, Spared
  <1>11. CASE DeleteKeyEffect(b, c)
    <2> DEFINE k == b.rec.assets.key
    <2>1. k = NoKey \/ k = b.sid \/ (k \in ExistingKeys /\ k = b.rec.req.key)
      <3>1. Bound(b.sid, b.rec, asked, refreshed)
        BY <1>1 DEF Orderly, KeyInv, RowsBound
      <3> QED BY <1>1, <3>1 DEF Bound, RowTidy, Assets, Keys
    <2>2. t # k
      BY <2>1, ConstantsAssumption DEF Keys
    <2>3. rows[t] # Null /\ rows[t].req.key \in liveKeys => rows[t].req.key # k
      <3>1. rows[t] # Null /\ rows[t].req.key \in liveKeys => rows[t].req.key # NoKey
        BY <1>2, ConstantsAssumption DEF Typed, TypeOK
      <3> QED BY <1>1, <1>3, <1>5, <2>1, <3>1, ConstantsAssumption
    <2> HIDE DEF k
    <2>4. liveKeys' = liveKeys \ {k}
      BY <1>11 DEF DeleteKeyEffect, k
    <2> QED BY <1>11, <2>2, <2>3, <2>4 DEF DeleteKeyEffect, Outside, Spared
  <1>12. CASE DeleteSbEffect(b, c)
    BY <1>12 DEF DeleteSbEffect, Outside, Spared
  <1> QED
    BY <1>6, <1>7, <1>8, <1>9, <1>10, <1>11, <1>12
       DEF TeardownEffect, FailEffect, UnmockEffect, DetachGetEffect, world, backoffice
-----------------------------------------------------------------------------
\* What a create has made when it comes to a stage, in terms of what it has made by the
\* end of the stage before.
LEMMA BrStarts ==
    ASSUME NEW c, AtBr(c), NEW w, LET all == Wanted(c.sid, c.rec.req) IN
               There(w, c.sid, c.rec.req, [all EXCEPT !.rules = {}])
    PROVE  /\ MadeThere(w, c) /\ c.pc \in {"provisionBr", "finish"}
  <1> DEFINE all == Wanted(c.sid, c.rec.req)
  <1>1. all = [contracts |-> all.contracts, sb |-> all.sb, keys |-> all.keys,
               rules |-> all.rules, pins |-> all.pins]
        /\ (~NeedsBr(c.rec.req) => all.rules = {})
    BY DEF Wanted
  <1>2. /\ c.pc \in {"provisionBr", "finish"}
        /\ c.pc = "finish" => ~NeedsBr(c.rec.req)
    BY DEF AtBr
  <1>3. Made(c) = [contracts |-> all.contracts, sb |-> all.sb, keys |-> all.keys,
                   rules |-> IF c.pc = "finish" THEN all.rules ELSE {}, pins |-> all.pins]
    BY <1>2 DEF Made, Prebooks, AfterKey
  <1> HIDE DEF all
  <1> QED BY <1>1, <1>2, <1>3 DEF MadeThere, There, all

LEMMA KeyStarts ==
    ASSUME NEW c, AtKey(c), NEW w, LET all == Wanted(c.sid, c.rec.req) IN
               There(w, c.sid, c.rec.req, [all EXCEPT !.rules = {}, !.keys = {}])
    PROVE  /\ MadeThere(w, c) /\ c.pc \in {"createKey", "attachGet", "provisionBr", "finish"}
           /\ c.pc = "createKey" => c.rec.req.depth = "full"
           /\ c.pc = "attachGet" => c.rec.req.depth # "full"
           /\ c.pc \in AfterKey => Wanted(c.sid, c.rec.req).keys = {}
  <1> DEFINE all == Wanted(c.sid, c.rec.req)
  <1>1. all = [contracts |-> all.contracts, sb |-> all.sb, keys |-> all.keys,
               rules |-> all.rules, pins |-> all.pins]
    BY DEF Wanted
  <1>2. CASE c.pc \in {"createKey", "attachGet"}
    <2>1. Made(c) = [contracts |-> all.contracts, sb |-> all.sb, keys |-> {},
                     rules |-> {}, pins |-> all.pins]
      BY <1>2 DEF Made, Prebooks, AfterKey
    <2>2. MadeThere(w, c)
      <3> HIDE DEF all
      <3> QED BY <1>1, <2>1 DEF MadeThere, There, all
    <2> QED BY <1>2, <2>2 DEF AtKey, AtBr, AfterKey
  <1>3. CASE c.pc \notin {"createKey", "attachGet"}
    <2>1. AtBr(c) /\ c.rec.req.depth # "full" /\ c.rec.req.key = NoKey
      BY <1>3 DEF AtKey
    <2>2. all.keys = {}
      BY <2>1 DEF Wanted
    <2> HIDE DEF all
    <2>3. [all EXCEPT !.rules = {}, !.keys = {}] = [all EXCEPT !.rules = {}]
      BY <1>1, <2>2
    <2>4. MadeThere(w, c) /\ c.pc \in {"provisionBr", "finish"}
      BY <2>1, <2>3, BrStarts DEF all
    <2> QED BY <2>2, <2>4 DEF all
  <1> QED BY <1>2, <1>3

LEMMA SbStarts ==
    ASSUME NEW c, AtSb(c), NEW w, LET all == Wanted(c.sid, c.rec.req) IN
               There(w, c.sid, c.rec.req, [all EXCEPT !.rules = {}, !.keys = {}, !.sb = {}])
    PROVE  /\ MadeThere(w, c)
           /\ c.pc \in {"sbGroup", "createKey", "attachGet", "provisionBr", "finish"}
           /\ c.pc = "createKey" => c.rec.req.depth = "full"
           /\ c.pc = "attachGet" => c.rec.req.depth # "full"
           /\ c.pc \in AfterKey => Wanted(c.sid, c.rec.req).keys = {}
  <1> DEFINE all == Wanted(c.sid, c.rec.req)
  <1>1. all = [contracts |-> all.contracts, sb |-> all.sb, keys |-> all.keys,
               rules |-> all.rules, pins |-> all.pins]
    BY DEF Wanted
  <1>2. CASE c.pc = "sbGroup"
    <2>1. Made(c) = [contracts |-> all.contracts, sb |-> {}, keys |-> {},
                     rules |-> {}, pins |-> all.pins]
      BY <1>2 DEF Made, Prebooks, AfterKey
    <2>2. MadeThere(w, c)
      <3> HIDE DEF all
      <3> QED BY <1>1, <2>1 DEF MadeThere, There, all
    <2> QED BY <1>2, <2>2 DEF AfterKey
  <1>3. CASE c.pc # "sbGroup"
    <2>1. AtKey(c) /\ ~c.rec.req.sb
      BY <1>3 DEF AtSb
    <2>2. all.sb = {}
      BY <2>1 DEF Wanted
    <2> HIDE DEF all
    <2>3. [all EXCEPT !.rules = {}, !.keys = {}, !.sb = {}] = [all EXCEPT !.rules = {}, !.keys = {}]
      BY <1>1, <2>2
    <2> QED BY <2>1, <2>3, KeyStarts DEF all
  <1> QED BY <1>2, <1>3

LEMMA ContractsStarts ==
    ASSUME NEW c, AtContracts(c), NEW w, \A p \in Pinned(c.rec.req) :
               w.pre[<<c.rec.req.env, p>>] = c.rec.req.pin[p]
    PROVE  MadeThere(w, c)
  <1> DEFINE all == Wanted(c.sid, c.rec.req)
  <1>1. all.pins = Pinned(c.rec.req) /\ all.contracts = c.rec.req.suppliers
    BY DEF Wanted
  <1>2. Made(c) = [contracts |-> {}, sb |-> {}, keys |-> {}, rules |-> {}, pins |-> all.pins]
    BY <1>1 DEF AtContracts, Made, Prebooks, AfterKey
  <1> HIDE DEF all
  <1> QED BY <1>1, <1>2 DEF MadeThere, There

LEMMA PrebookStarts ==
    ASSUME NEW c, AtPrebook(c), NEW w
    PROVE  MadeThere(w, c)
  <1>1. CASE Pinned(c.rec.req) = {}
    BY <1>1, ContractsStarts DEF AtPrebook
  <1>2. CASE Pinned(c.rec.req) # {}
    <2> DEFINE all == Wanted(c.sid, c.rec.req)
    <2>1. all.pins \ c.todo = {}
      BY <1>2 DEF AtPrebook, Wanted
    <2>2. Made(c) = [contracts |-> {}, sb |-> {}, keys |-> {}, rules |-> {}, pins |-> {}]
      BY <1>2, <2>1 DEF AtPrebook, Made, Prebooks, AfterKey
    <2> HIDE DEF all
    <2> QED BY <2>2 DEF MadeThere, There
  <1> QED BY <1>1, <1>2

LEMMA ThereMore ==
    ASSUME NEW w, NEW v, NEW s, NEW req, NEW m, There(w, s, req, m),
           w.contracts \subseteq v.contracts, w.sb \subseteq v.sb, w.keys \subseteq v.keys,
           w.rules \subseteq v.rules,
           \A p \in m.pins : v.pre[<<req.env, p>>] = w.pre[<<req.env, p>>]
    PROVE  There(v, s, req, m)
  BY DEF There

\* A create keeps to its scenario, and all that it has made is there.
LEMMA MakerKeeps ==
    ASSUME Typed, NEW b, HasRow(b), Creating(b), b.pc \in CreateCalls,
           MakerTidy(b), MadeThere(Outside, b),
           NEW c, SameWork(b, c), CreateEffect(b, c)
    PROVE  MakerTidy(c) /\ MadeThere(Outside', c)
  <1> DEFINE s == b.sid
             req == b.rec.req
             all == Wanted(s, req)
             w == Outside
             v == Outside'
  <1>1. /\ c.rec = b.rec /\ c.sid = b.sid /\ s \in Scenarios /\ req \in Request
        /\ b.out \in Assets /\ b.todo \in SUBSET Suppliers
    BY RowFields DEF SameWork, HasRow, Job
  <1>2. /\ all = [contracts |-> all.contracts, sb |-> all.sb, keys |-> all.keys,
                  rules |-> all.rules, pins |-> all.pins]
        /\ all.contracts = req.suppliers /\ all.pins = Pinned(req)
    BY DEF Wanted
  <1>3. /\ w.contracts = contracts /\ v.contracts = contracts' /\ w.sb = sbEntities
        /\ v.sb = sbEntities' /\ w.keys = liveKeys /\ v.keys = liveKeys'
        /\ w.rules = brRules /\ v.rules = brRules'
        /\ w.pre = prebooking /\ v.pre = prebooking'
    BY DEF Outside
  <1>4. There(w, s, req, Made(b))
    BY DEF MadeThere
  <1>5. Made(b) = [contracts |-> IF b.pc \in Prebooks \cup {"register"} THEN {}
                                 ELSE IF b.pc = "contracts" THEN all.contracts \ b.todo
                                 ELSE all.contracts,
                   sb |-> IF b.pc \in Prebooks \cup {"register", "contracts", "sbGroup"} THEN {}
                          ELSE IF b.pc = "sbConfig" THEN {"group"} ELSE all.sb,
                   keys |-> IF b.pc \in AfterKey THEN all.keys ELSE {},
                   rules |-> IF b.pc = "finish" THEN all.rules ELSE {},
                   pins |-> IF b.pc = "register" THEN {}
                            ELSE IF b.pc \in Prebooks THEN all.pins \ b.todo ELSE all.pins]
    BY DEF Made
  <1>6. Made(c) = [contracts |-> IF c.pc \in Prebooks \cup {"register"} THEN {}
                                 ELSE IF c.pc = "contracts" THEN all.contracts \ c.todo
                                 ELSE all.contracts,
                   sb |-> IF c.pc \in Prebooks \cup {"register", "contracts", "sbGroup"} THEN {}
                          ELSE IF c.pc = "sbConfig" THEN {"group"} ELSE all.sb,
                   keys |-> IF c.pc \in AfterKey THEN all.keys ELSE {},
                   rules |-> IF c.pc = "finish" THEN all.rules ELSE {},
                   pins |-> IF c.pc = "register" THEN {}
                            ELSE IF c.pc \in Prebooks THEN all.pins \ c.todo ELSE all.pins]
    BY <1>1 DEF Made
  <1>7. MadeThere(v, c) <=> There(v, s, req, Made(c))
    BY <1>1 DEF MadeThere
  <1>8. all = Wanted(c.sid, c.rec.req)
    BY <1>1
  <1> SUFFICES MakerTidy(c) /\ MadeThere(v, c)
    OBVIOUS
  <1> HIDE DEF all, w, v
  <1>9. CASE RegisterEffect(b, c)
    <2>1. b.pc = "register" /\ c.out = b.out /\ b.out = NoAssets
      BY <1>9 DEF RegisterEffect, MakerTidy
    <2>2. PICK p \in b.todo : Drops(b, c, p) \/ (b.todo = {p} /\ AtPrebook(c))
      BY <1>9 DEF RegisterEffect
    <2>3. CASE Drops(b, c, p)
      <3>1. c.pc = "register"
        BY <2>1, <2>3 DEF Drops
      <3>2. Made(c) = Made(b)
        BY <1>5, <1>6, <2>1, <3>1
      <3>3. Made(c).contracts = {} /\ Made(c).sb = {} /\ Made(c).keys = {} /\ Made(c).rules = {}
            /\ Made(c).pins = {}
        BY <1>6, <3>1 DEF AfterKey
      <3>4. There(v, s, req, Made(c))
        BY <3>3 DEF There
      <3> QED BY <1>1, <1>7, <2>1, <3>1, <3>4 DEF MakerTidy, Attaches, AfterKey
    <2>4. CASE AtPrebook(c)
      <3>1. /\ c.pc \in {"prebookGet", "contracts"} /\ c.todo \subseteq Suppliers
            /\ c.pc = "contracts" => c.todo = req.suppliers
        BY <1>1, <2>4 DEF AtPrebook, AtContracts, Pinned, Request
      <3>2. \A p2 \in Suppliers : c.out.restore[p2] = "none"
        BY <2>1 DEF NoAssets
      <3>3. MakerTidy(c)
        BY <1>1, <2>1, <3>1, <3>2 DEF MakerTidy, Attaches, AfterKey
      <3> QED BY <2>4, <3>3, PrebookStarts
    <2> QED BY <2>2, <2>3, <2>4
  <1>10. CASE PrebookGetEffect(b, c)
    <2>1. PICK p \in b.todo :
            c.out = [b.out EXCEPT !.restore = [b.out.restore EXCEPT
                                                 ![p] = prebooking[<<b.rec.req.env, p>>]]]
      BY <1>10 DEF PrebookGetEffect
    <2>2. b.pc = "prebookGet" /\ c.pc = "prebookPut" /\ c.todo = b.todo /\ UNCHANGED world
      BY <1>10 DEF PrebookGetEffect
    <2>3. b.todo \subseteq Pinned(req) /\ p \in Suppliers
      BY <1>1, <2>2 DEF Creating
    <2>4. c.out.key = b.out.key /\ c.out.contracts = b.out.contracts
          /\ \A q \in Suppliers : q # p => c.out.restore[q] = b.out.restore[q]
      BY <1>1, <2>1, <2>3 DEF Assets
    <2>5. MakerTidy(c)
      BY <1>1, <2>2, <2>3, <2>4 DEF MakerTidy, Attaches, AfterKey
    <2>6. Made(c) = Made(b)
      BY <1>5, <1>6, <2>2 DEF Prebooks, AfterKey
    <2>7. v = w
      BY <2>2 DEF v, w, Outside, world, backoffice
    <2> QED BY <1>4, <1>7, <2>5, <2>6, <2>7
  <1>11. CASE PrebookPutEffect(b, c)
    <2>1. PICK p \in b.todo :
            /\ b.out.restore[p] # "none"
            /\ prebooking' = [prebooking EXCEPT ![<<b.rec.req.env, p>>] = b.rec.req.pin[p]]
            /\ \/ c.pc = "prebookGet" /\ c.todo = b.todo \ {p} /\ b.todo # {p}
               \/ b.todo = {p} /\ AtContracts(c)
      BY <1>11 DEF PrebookPutEffect
    <2>2. b.pc = "prebookPut" /\ c.out = b.out
          /\ UNCHANGED <<contracts, liveKeys, sbEntities, brRules>>
      BY <1>11 DEF PrebookPutEffect
    <2>3. b.todo \subseteq Pinned(req) /\ req.env \in Envs
      BY <1>1, <2>2 DEF Creating, Request
    <2>4. \A q \in Pinned(req) : q # p => v.pre[<<req.env, q>>] = w.pre[<<req.env, q>>]
      BY <1>3, <2>1, <2>3 DEF Pinned, Typed, TypeOK
    <2>5. v.pre[<<req.env, p>>] = req.pin[p]
      BY <1>3, <2>1, <2>3 DEF Pinned, Typed, TypeOK
    <2>6. \A q \in Pinned(req) \ b.todo : w.pre[<<req.env, q>>] = req.pin[q]
      BY <1>2, <1>4, <1>5, <2>2 DEF There, Prebooks
    <2>7. CASE c.pc = "prebookGet" /\ c.todo = b.todo \ {p}
      <3>1. MakerTidy(c)
        BY <1>1, <2>1, <2>2, <2>7 DEF MakerTidy, Attaches, AfterKey
      <3>2. /\ Made(c).contracts = {} /\ Made(c).sb = {} /\ Made(c).keys = {} /\ Made(c).rules = {}
            /\ Made(c).pins = Pinned(req) \ c.todo
        BY <1>2, <1>6, <2>7 DEF Prebooks, AfterKey
      <3>3. \A q \in Pinned(req) \ c.todo : v.pre[<<req.env, q>>] = req.pin[q]
        BY <2>4, <2>5, <2>6, <2>7
      <3>4. There(v, s, req, Made(c))
        BY <3>2, <3>3 DEF There
      <3> QED BY <1>7, <3>1, <3>4
    <2>8. CASE b.todo = {p} /\ AtContracts(c)
      <3>1. MakerTidy(c)
        BY <1>1, <2>2, <2>8 DEF AtContracts, MakerTidy, Attaches, AfterKey
      <3>2. \A q \in Pinned(req) : v.pre[<<req.env, q>>] = req.pin[q]
        BY <2>4, <2>5, <2>6, <2>8
      <3> QED BY <1>1, <2>8, <3>1, <3>2, ContractsStarts
    <2> QED BY <2>1, <2>7, <2>8
  <1>12. CASE ContractEffect(b, c)
    <2>1. PICK p \in b.todo :
            /\ contracts' = contracts \cup {<<b.sid, p>>}
            /\ c.out = [b.out EXCEPT !.contracts = b.out.contracts \cup {p}]
            /\ Drops(b, c, p) \/ (b.todo = {p} /\ AtSb(c))
      BY <1>12 DEF ContractEffect
    <2>2. b.pc = "contracts" /\ UNCHANGED <<liveKeys, sbEntities, prebooking, brRules>>
      BY <1>12 DEF ContractEffect
    <2>3. /\ c.out.key = b.out.key /\ c.out.contracts = b.out.contracts \cup {p}
          /\ c.out.restore = b.out.restore
      BY <1>1, <2>1 DEF Assets
    <2>4. p \in req.suppliers /\ b.todo \subseteq req.suppliers
      BY <2>2 DEF MakerTidy
    <2>5. \A q \in (all.contracts \ b.todo) \cup {p} : <<s, q>> \in v.contracts
      BY <1>3, <1>4, <1>5, <2>1, <2>2 DEF There, Prebooks
    <2>6. \A q \in all.pins : v.pre[<<req.env, q>>] = req.pin[q]
      BY <1>3, <1>4, <1>5, <2>2 DEF There, Prebooks
    <2>7. CASE Drops(b, c, p)
      <3>1. c.pc = "contracts" /\ c.todo = b.todo \ {p}
        BY <2>2, <2>7 DEF Drops
      <3>2. MakerTidy(c)
        BY <1>1, <2>3, <2>4, <3>1 DEF MakerTidy, Attaches, AfterKey
      <3>3. /\ Made(c).contracts = all.contracts \ c.todo /\ Made(c).sb = {}
            /\ Made(c).keys = {} /\ Made(c).rules = {} /\ Made(c).pins = all.pins
        BY <1>6, <3>1 DEF Prebooks, AfterKey
      <3>4. There(v, s, req, Made(c))
        BY <2>5, <2>6, <3>1, <3>3 DEF There
      <3> QED BY <1>7, <3>2, <3>4
    <2>8. CASE b.todo = {p} /\ AtSb(c)
      <3>1. There(v, s, req, [all EXCEPT !.rules = {}, !.keys = {}, !.sb = {}])
        BY <1>2, <2>5, <2>6, <2>8 DEF There
      <3>2. /\ MadeThere(v, c)
            /\ c.pc \in {"sbGroup", "createKey", "attachGet", "provisionBr", "finish"}
            /\ c.pc = "createKey" => c.rec.req.depth = "full"
            /\ c.pc = "attachGet" => c.rec.req.depth # "full"
            /\ c.pc \in AfterKey => Wanted(c.sid, c.rec.req).keys = {}
        BY <1>1, <1>8, <2>8, <3>1, SbStarts
      <3>3. MakerTidy(c)
        BY <1>1, <2>3, <2>4, <3>2 DEF MakerTidy, NamesKey, Attaches
      <3> QED BY <3>2, <3>3
    <2> QED BY <2>1, <2>7, <2>8
  <1>13. CASE SbGroupEffect(b, c)
    <2>1. /\ b.pc = "sbGroup" /\ c.pc = "sbConfig" /\ sbEntities' = sbEntities \cup {<<b.sid, "group">>}
          /\ c.out = [b.out EXCEPT !.sb = b.out.sb \cup {"group"}]
          /\ UNCHANGED <<contracts, liveKeys, prebooking, brRules>>
      BY <1>13 DEF SbGroupEffect
    <2>2. /\ c.out.key = b.out.key /\ c.out.contracts = b.out.contracts
          /\ c.out.restore = b.out.restore
      BY <1>1, <2>1 DEF Assets
    <2>3. MakerTidy(c)
      BY <1>1, <2>1, <2>2 DEF MakerTidy, Attaches, AfterKey
    <2>4. /\ Made(c).contracts = Made(b).contracts /\ Made(c).sb = {"group"} /\ Made(c).keys = {}
          /\ Made(c).rules = {} /\ Made(c).pins = Made(b).pins
      BY <1>5, <1>6, <2>1 DEF Prebooks, AfterKey
    <2>5. There(v, s, req, Made(c))
      BY <1>3, <1>4, <2>1, <2>4 DEF There
    <2> QED BY <1>7, <2>3, <2>5
  <1>14. CASE SbConfigEffect(b, c)
    <2>1. /\ b.pc = "sbConfig" /\ AtKey(c) /\ sbEntities' = sbEntities \cup {<<b.sid, "config">>}
          /\ c.out = [b.out EXCEPT !.sb = b.out.sb \cup {"config"}]
          /\ UNCHANGED <<contracts, liveKeys, prebooking, brRules>>
      BY <1>14 DEF SbConfigEffect
    <2>2. /\ c.out.key = b.out.key /\ c.out.contracts = b.out.contracts
          /\ c.out.restore = b.out.restore
      BY <1>1, <2>1 DEF Assets
    <2>3. /\ Made(b).contracts = all.contracts /\ Made(b).sb = {"group"} /\ Made(b).pins = all.pins
      BY <1>5, <2>1 DEF Prebooks, AfterKey
    <2>4. all.sb \subseteq {"group", "config"}
      BY DEF all, Wanted, SbKinds
    <2>5. \A kind \in all.sb : <<s, kind>> \in v.sb
      BY <1>3, <1>4, <2>1, <2>3, <2>4 DEF There
    <2>6. There(v, s, req, [all EXCEPT !.rules = {}, !.keys = {}])
      BY <1>2, <1>3, <1>4, <2>1, <2>3, <2>5 DEF There
    <2>7. /\ MadeThere(v, c) /\ c.pc \in {"createKey", "attachGet", "provisionBr", "finish"}
          /\ c.pc = "createKey" => c.rec.req.depth = "full"
          /\ c.pc = "attachGet" => c.rec.req.depth # "full"
          /\ c.pc \in AfterKey => Wanted(c.sid, c.rec.req).keys = {}
      BY <1>1, <1>8, <2>1, <2>6, KeyStarts
    <2>8. MakerTidy(c)
      BY <1>1, <2>2, <2>7 DEF MakerTidy, NamesKey, Attaches
    <2> QED BY <2>7, <2>8
  <1>15. CASE CreateKeyEffect(b, c)
    <2>1. /\ b.pc = "createKey" /\ c.pc = "clearCache" /\ liveKeys' = liveKeys \cup {b.sid}
          /\ c.out = [b.out EXCEPT !.key = b.sid]
          /\ UNCHANGED <<contracts, sbEntities, prebooking, brRules>>
      BY <1>15 DEF CreateKeyEffect
    <2>2. /\ c.out.key = s /\ c.out.contracts = b.out.contracts /\ c.out.restore = b.out.restore
      BY <1>1, <2>1 DEF Assets
    <2>3. all.keys = {s}
      BY <2>1 DEF MakerTidy, all, Wanted
    <2>4. MakerTidy(c)
      BY <1>1, <1>8, <2>1, <2>2, <2>3 DEF MakerTidy, NamesKey, Attaches
    <2>5. /\ Made(c).contracts = Made(b).contracts /\ Made(c).sb = Made(b).sb /\ Made(c).keys = {s}
          /\ Made(c).rules = {} /\ Made(c).pins = Made(b).pins
      BY <1>5, <1>6, <2>1, <2>3 DEF Prebooks, AfterKey
    <2>6. There(v, s, req, Made(c))
      BY <1>3, <1>4, <2>1, <2>5 DEF There
    <2> QED BY <1>7, <2>4, <2>6
  <1>16. CASE AttachGetEffect(b, c)
    <2>1. b.pc = "attachGet" /\ c.pc = "attachPut" /\ UNCHANGED world /\ c.out = b.out
      BY <1>16 DEF AttachGetEffect
    <2>2. MakerTidy(c)
      BY <1>1, <2>1 DEF MakerTidy, Attaches, AfterKey
    <2>3. Made(c) = Made(b)
      BY <1>5, <1>6, <2>1 DEF Prebooks, AfterKey
    <2>4. v = w
      BY <2>1 DEF v, w, Outside, world, backoffice
    <2> QED BY <1>4, <1>7, <2>2, <2>3, <2>4
  <1>17. CASE AttachPutEffect(b, c)
    <2>1. /\ b.pc = "attachPut" /\ c.pc = "clearCache" /\ req.key \in liveKeys
          /\ c.out = [b.out EXCEPT !.key = req.key, !.ext = TRUE]
          /\ UNCHANGED <<contracts, liveKeys, sbEntities, prebooking, brRules>>
      BY <1>17 DEF AttachPutEffect
    <2>2. /\ c.out.key = req.key /\ c.out.contracts = b.out.contracts /\ c.out.restore = b.out.restore
      BY <1>1, <2>1 DEF Assets
    <2>3. all.keys = {req.key} \ {NoKey} /\ req.key # NoKey
      BY <2>1, ConstantsAssumption DEF MakerTidy, Attaches, all, Wanted, Typed, TypeOK
    <2>4. req.key \notin Scenarios
      BY <1>1, ConstantsAssumption DEF Request, Keys
    <2>5. MakerTidy(c)
      BY <1>1, <1>8, <2>1, <2>2, <2>3, <2>4 DEF MakerTidy, NamesKey, Attaches
    <2>6. /\ Made(c).contracts = Made(b).contracts /\ Made(c).sb = Made(b).sb
          /\ Made(c).keys \subseteq {req.key}
          /\ Made(c).rules = {} /\ Made(c).pins = Made(b).pins
      BY <1>5, <1>6, <2>1, <2>3 DEF Prebooks, AfterKey
    <2>7. There(v, s, req, Made(c))
      BY <1>3, <1>4, <2>1, <2>6 DEF There
    <2> QED BY <1>7, <2>5, <2>7
  <1>18. CASE ClearCacheEffect(b, c)
    <2>1. b.pc = "clearCache" /\ AtBr(c) /\ c.out = b.out /\ UNCHANGED world
      BY <1>18 DEF ClearCacheEffect
    <2>2. v = w
      BY <2>1 DEF v, w, Outside, world, backoffice
    <2>3. Made(b) = [all EXCEPT !.rules = {}]
      BY <1>2, <1>5, <2>1 DEF Prebooks, AfterKey
    <2>4. MadeThere(v, c) /\ c.pc \in {"provisionBr", "finish"}
      BY <1>1, <1>4, <1>8, <2>1, <2>2, <2>3, BrStarts
    <2>5. MakerTidy(c)
      BY <1>1, <2>1, <2>4 DEF MakerTidy, Attaches, AfterKey
    <2> QED BY <2>4, <2>5
  <1>19. CASE ProvisionBrEffect(b, c)
    <2>1. /\ b.pc = "provisionBr" /\ c.pc = "finish" /\ UNCHANGED backoffice
          /\ brRules' = brRules \cup {b.sid} /\ c.out = [b.out EXCEPT !.br = TRUE]
      BY <1>19 DEF ProvisionBrEffect
    <2>2. /\ c.out.key = b.out.key /\ c.out.contracts = b.out.contracts
          /\ c.out.restore = b.out.restore
      BY <1>1, <2>1 DEF Assets
    <2>3. MakerTidy(c)
      BY <1>1, <2>1, <2>2 DEF MakerTidy, NamesKey, Attaches, AfterKey
    <2>4. /\ Made(c).contracts = Made(b).contracts /\ Made(c).sb = Made(b).sb
          /\ Made(c).keys = Made(b).keys
          /\ Made(c).rules \subseteq {s} /\ Made(c).pins = Made(b).pins
      BY <1>5, <1>6, <2>1 DEF Prebooks, AfterKey, all, Wanted
    <2>5. There(v, s, req, Made(c))
      BY <1>3, <1>4, <2>1, <2>4 DEF There, backoffice
    <2> QED BY <1>7, <2>3, <2>5
  <1> QED
    BY <1>9, <1>10, <1>11, <1>12, <1>13, <1>14, <1>15, <1>16, <1>17, <1>18, <1>19 DEF CreateEffect
-----------------------------------------------------------------------------
\* A step of task j, seen from a scenario it is not about.
About(j) == {jobs[j].sid, jobs'[j].sid} \cap Scenarios

\* The step of task j moves no other task, and leaves the rows of others alone.
OnlyMoves(j) ==
    /\ \A i \in Jobs : i # j => jobs'[i] = jobs[i] /\ jobs[i].sid \notin About(j)
    /\ \A t \in Scenarios \ About(j) :
           /\ rows'[t] = rows[t] /\ asked'[t] = asked[t]
           /\ OnlyRefreshed(t)' => OnlyRefreshed(t)
    /\ failed \subseteq failed' /\ killed \subseteq killed' /\ refreshed \subseteq refreshed'

LEMMA RefsLess ==
    ASSUME NEW w, NEW v, NEW s, NEW row, Spared(w, v, s, row)
    PROVE  Refs(v, s) \subseteq Refs(w, s)
  BY DEF Spared, Refs

LEMMA OtherProvisioned ==
    ASSUME Orderly, Provisioning, NEW j \in Jobs, OnlyMoves(j),
           NEW t \in Scenarios \ About(j), Spared(Outside, Outside', t, rows[t])
    PROVE  Provisioned(t)'
  <1> DEFINE w == Outside
             v == Outside'
  <1>1. Provisioned(t)
    BY DEF Provisioning
  <1>2. /\ rows'[t] = rows[t] /\ asked'[t] = asked[t]
        /\ OnlyRefreshed(t)' => OnlyRefreshed(t)
        /\ failed \subseteq failed' /\ killed \subseteq killed' /\ refreshed \subseteq refreshed'
        /\ \A i \in Jobs : jobs'[i].sid = t => jobs'[i] = jobs[i]
        /\ \A i \in Jobs : jobs[i].sid = t => jobs'[i] = jobs[i]
    BY DEF OnlyMoves, About
  <1>3. BeingMade(t)' <=> BeingMade(t)
    BY <1>2 DEF BeingMade
  <1>4. /\ \A p \in Suppliers : <<t, p>> \in contracts' <=> <<t, p>> \in contracts
        /\ \A k \in ExistingKeys, p \in Suppliers : <<t, p>> \in keyRefs'[k] => <<t, p>> \in keyRefs[k]
    BY DEF Spared, Outside
  <1>5. rows[t] # Null => rows[t] \in Row
    BY DEF Orderly, KeyInv, Typed, TypeOK
  <1>6. ASSUME t \notin killed' PROVE Supplied(Outside, t)'
    <2> SUFFICES ASSUME Ready(t)', OnlyRefreshed(t)'
                 PROVE  /\ There(v, t, rows'[t].req, Wanted(t, rows'[t].req))
                        /\ NamesKey(t, rows'[t].req, rows'[t].assets)
      BY DEF Supplied
    <2>1. Ready(t) /\ OnlyRefreshed(t) /\ rows[t] # Null /\ t \notin killed
      BY <1>2, <1>6 DEF Ready
    <2>2. There(w, t, rows[t].req, Wanted(t, rows[t].req)) /\ NamesKey(t, rows[t].req, rows[t].assets)
      BY <1>1, <2>1 DEF Provisioned, Supplied
    <2> DEFINE m == Wanted(t, rows[t].req)
    <2>3. m.contracts \subseteq Suppliers /\ m.sb \subseteq SbKinds /\ m.rules \subseteq {t}
          /\ m.pins = Pinned(rows[t].req)
      BY <1>5, <2>1, RowFields, WantedParts
    <2> HIDE DEF w, v
    <2>4. There(v, t, rows[t].req, m)
      <3> HIDE DEF m
      <3>1. m.keys \subseteq Wanted(t, rows[t].req).keys
        BY DEF m
      <3> QED BY <1>5, <2>1, <2>2, <2>3, <3>1, SparedThere DEF m, w, v
    <2> QED BY <1>2, <2>2, <2>4
  <1>7. ASSUME t \notin failed' \cup killed' \cup refreshed' PROVE RefsKnown(Outside, t)'
    <2>1. RefsKnown(w, t) /\ Refs(v, t) \subseteq Refs(w, t)
      BY <1>1, <1>2, <1>7, RefsLess DEF Provisioned
    <2>2. w.contracts = contracts /\ v.contracts = contracts'
      BY DEF Outside
    <2> HIDE DEF w, v
    <2>3. \A p \in Refs(v, t) : <<t, p>> \in v.contracts
      <3>1. Refs(w, t) \subseteq Suppliers
        BY DEF Refs
      <3> QED BY <1>4, <2>1, <2>2, <3>1 DEF RefsKnown
    <2>4. \A a : Noted(Refs(w, t), a) => Noted(Refs(v, t), a)
      BY <2>1 DEF Noted
    <2>5. \A b : TaskKnowsRefs(Refs(w, t), b) => TaskKnowsRefs(Refs(v, t), b)
      BY <2>1, <2>4 DEF TaskKnowsRefs
    <2>6. rows'[t] = Null => Refs(v, t) = {}
      BY <1>2, <2>1 DEF RefsKnown
    <2>7. rows'[t] # Null /\ ~BeingMade(t)' => Noted(Refs(v, t), rows'[t].assets)
      BY <1>2, <1>3, <2>1, <2>4 DEF RefsKnown
    <2>8. \A i \in Jobs : jobs'[i].sid = t => TaskKnowsRefs(Refs(v, t), jobs'[i])
      BY <1>2, <2>1, <2>5 DEF RefsKnown
    <2> QED BY <2>2, <2>3, <2>6, <2>7, <2>8 DEF RefsKnown, v
  <1> QED BY <1>1, <1>2, <1>4, <1>6, <1>7 DEF Provisioned

\* A task that a step of another one leaves alone.
LEMMA OtherTidy ==
    ASSUME Orderly, NEW i \in Jobs, NEW w, NEW v, TaskTidy(w, jobs[i]),
           jobs[i].sid \in Scenarios => Spared(w, v, jobs[i].sid, rows[jobs[i].sid])
    PROVE  TaskTidy(v, jobs[i])
  <1> DEFINE b == jobs[i]
  <1>1. Working(b) => /\ HasRow(b) /\ rows[b.sid] = b.rec /\ b.rec \in Row /\ b.rec # Null
                      /\ b.sid \in Scenarios
    BY WorkRow
  <1>2. ASSUME b.kind = "create", Working(b) PROVE MakerTidy(b) /\ MadeThere(v, b)
    <2> DEFINE m == Made(b)
    <2>1. /\ m.contracts \subseteq Suppliers /\ m.sb \subseteq SbKinds /\ m.rules \subseteq {b.sid}
          /\ m.keys \subseteq Wanted(b.sid, b.rec.req).keys
          /\ m.pins \subseteq Pinned(b.rec.req)
      BY <1>1, <1>2, MadeParts
    <2> HIDE DEF m
    <2>2. There(w, b.sid, b.rec.req, m) /\ MakerTidy(b)
      BY <1>2 DEF TaskTidy, MadeThere, m
    <2>3. Spared(w, v, b.sid, b.rec)
      BY <1>1, <1>2
    <2>4. There(v, b.sid, b.rec.req, m)
      BY <1>1, <1>2, <2>1, <2>2, <2>3, SparedThere
    <2> QED BY <2>2, <2>4 DEF MadeThere, m
  <1>3. ASSUME b.pc \in {"attachPut", "detachPut"}
        PROVE  b.rec.req.key # NoKey /\ b.seen \subseteq v.refs[b.rec.req.key]
    <2>1. Working(b)
      BY <1>3 DEF Working
    <2>2. b.rec.req.key # NoKey /\ b.seen \subseteq w.refs[b.rec.req.key]
      BY <1>3 DEF TaskTidy
    <2> QED BY <1>1, <2>1, <2>2 DEF Spared
  <1> QED BY <1>2, <1>3 DEF TaskTidy

\* The flags.
LEMMA OtherUndoes ==
    ASSUME NEW j \in Jobs, OnlyMoves(j), NEW t \in Scenarios \ About(j), NEW p, Undoes(t, p)
    PROVE  Undoes(t, p)'
  <1>1. /\ rows'[t] = rows[t]
        /\ \A i \in Jobs : jobs'[i].sid = t => jobs'[i] = jobs[i]
        /\ \A i \in Jobs : jobs[i].sid = t => jobs'[i] = jobs[i]
    BY DEF OnlyMoves, About
  <1>2. BeingMade(t)' <=> BeingMade(t)
    BY <1>1 DEF BeingMade
  <1>3. CASE BeingMade(t)
    BY <1>1, <1>2, <1>3 DEF Undoes
  <1>4. CASE ~BeingMade(t)
    BY <1>1, <1>2, <1>4 DEF Undoes
  <1> QED BY <1>3, <1>4

LEMMA StepUndone ==
    ASSUME Undone, NEW j \in Jobs, OnlyMoves(j),
           \A s \in About(j) : rows'[s] # Null => Restorable(rows'[s].assets),
           jobs'[j].kind = "create" /\ Working(jobs'[j]) => Restorable(jobs'[j].out),
           \A e \in Envs, p \in Suppliers :
               prebooking'[<<e, p>>] \notin {"absent", prebooking[<<e, p>>]} =>
                   \E s \in About(j) : Undoes(s, p)' /\ rows'[s].req.env = e,
           \A s \in About(j), p \in Suppliers :
               Undoes(s, p) /\ prebooking'[<<rows[s].req.env, p>>] # "absent" =>
                   Undoes(s, p)' /\ rows'[s].req.env = rows[s].req.env
    PROVE  Undone'
  <1>1. ASSUME NEW s \in Scenarios, rows'[s] # Null PROVE Restorable(rows'[s].assets)
    <2>1. CASE s \in About(j)
      BY <1>1, <2>1
    <2>2. CASE s \notin About(j)
      BY <1>1, <2>2 DEF OnlyMoves, Undone
    <2> QED BY <2>1, <2>2
  <1>2. ASSUME NEW i \in Jobs, jobs'[i].kind = "create", Working(jobs'[i])
        PROVE  Restorable(jobs'[i].out)
    <2>1. CASE i = j
      BY <1>2, <2>1
    <2>2. CASE i # j
      BY <1>2, <2>2 DEF OnlyMoves, Undone
    <2> QED BY <2>1, <2>2
  <1>3. ASSUME NEW e \in Envs, NEW p \in Suppliers, prebooking'[<<e, p>>] # "absent"
        PROVE  \E s \in Scenarios : Undoes(s, p)' /\ rows'[s].req.env = e
    <2>1. CASE prebooking'[<<e, p>>] # prebooking[<<e, p>>]
      BY <1>3, <2>1 DEF About
    <2>2. CASE prebooking'[<<e, p>>] = prebooking[<<e, p>>]
      <3>1. PICK s \in Scenarios : Undoes(s, p) /\ rows[s].req.env = e
        BY <1>3, <2>2 DEF Undone
      <3>2. CASE s \in About(j)
        BY <1>3, <3>1, <3>2
      <3>3. CASE s \notin About(j)
        BY <3>1, <3>3, OtherUndoes DEF OnlyMoves
      <3> QED BY <3>2, <3>3
    <2> QED BY <2>1, <2>2
  <1> QED BY <1>1, <1>2, <1>3 DEF Undone

\* What a step of task j leaves to show.
LEMMA StepProvisions ==
    ASSUME Orderly, Provisioning, NEW j \in Jobs, OnlyMoves(j),
           \A t \in Scenarios \ About(j) : Spared(Outside, Outside', t, rows[t]),
           \A s \in About(j) : Provisioned(s)', TaskTidy(Outside', jobs'[j]),
           Clean' => Undone'
    PROVE  Provisioning'
  <1>1. ASSUME NEW t \in Scenarios PROVE Provisioned(t)'
    BY OtherProvisioned
  <1> DEFINE v == Outside'
  <1>2. ASSUME NEW i \in Jobs PROVE TaskTidy(v, jobs'[i])
    <2>1. CASE i = j
      BY <2>1
    <2>2. CASE i # j
      <3>1. jobs'[i] = jobs[i] /\ jobs[i].sid \notin About(j)
        BY <2>2 DEF OnlyMoves
      <3>2. TaskTidy(Outside, jobs[i])
        BY DEF Provisioning
      <3>3. jobs[i].sid \in Scenarios => Spared(Outside, v, jobs[i].sid, rows[jobs[i].sid])
        BY <3>1
      <3> HIDE DEF v
      <3> QED BY <3>1, <3>2, <3>3, OtherTidy
    <2> QED BY <2>1, <2>2
  <1> QED BY <1>1, <1>2 DEF Provisioning
-----------------------------------------------------------------------------
\* A call of task j that leaves the rows alone, seen from its own scenario s.
LEMMA CallOnlyMoves ==
    ASSUME Orderly, NEW j \in Jobs, NEW b, b = jobs[j], NEW c, c = jobs'[j], NEW s, s = b.sid,
           Working(b), Working(c), SameWork(b, c), \A i \in Jobs : i # j => jobs'[i] = jobs[i],
           UNCHANGED <<rows, asked>>, failed \subseteq failed', killed \subseteq killed',
           refreshed \subseteq refreshed'
    PROVE  /\ OnlyMoves(j) /\ About(j) = {s} /\ s \in Scenarios
           /\ BeingMade(s)' <=> BeingMade(s)
           /\ BeingMade(s) <=> b.kind = "create"
           /\ OnlyRefreshed(s)' <=> OnlyRefreshed(s)
           /\ OnlyRefreshed(s) => b.kind = "refresh"
           /\ \A i \in Jobs : i # j => jobs[i].sid # s /\ jobs'[i].sid # s
  <1>1. s \in Scenarios /\ b.kind # "idle"
    BY WorkRow
  <1>2. c.sid = s /\ c.kind = b.kind /\ c.queue = b.queue
    BY DEF SameWork
  <1>3. About(j) = {s}
    BY <1>1, <1>2 DEF About
  <1>4. \A i \in Jobs : i # j => jobs[i].sid # s /\ jobs'[i].sid # s
    BY <1>1, NoOther
  <1>5. \A t \in Scenarios : OnlyRefreshed(t)' <=> OnlyRefreshed(t)
    <2>1. Sids(c) = Sids(b)
      BY <1>2 DEF Sids
    <2>2. ASSUME NEW t \in Scenarios, OnlyRefreshed(t)' PROVE OnlyRefreshed(t)
      <3> SUFFICES ASSUME NEW i \in Jobs, t \in Sids(jobs[i]) PROVE jobs[i].kind = "refresh"
        BY DEF OnlyRefreshed
      <3> QED BY <1>2, <2>1, <2>2 DEF OnlyRefreshed
    <2>3. ASSUME NEW t \in Scenarios, OnlyRefreshed(t) PROVE OnlyRefreshed(t)'
      <3> SUFFICES ASSUME NEW i \in Jobs, t \in Sids(jobs'[i]) PROVE jobs'[i].kind = "refresh"
        BY DEF OnlyRefreshed
      <3> QED BY <1>2, <2>1, <2>3 DEF OnlyRefreshed
    <2> QED BY <2>2, <2>3
  <1>6. OnlyMoves(j)
    BY <1>3, <1>4, <1>5 DEF OnlyMoves
  <1>7. BeingMade(s) <=> b.kind = "create"
    BY <1>4 DEF BeingMade
  <1>8. BeingMade(s)' <=> c.kind = "create"
    BY <1>2, <1>4 DEF BeingMade
  <1>9. OnlyRefreshed(s) => b.kind = "refresh"
    BY <1>1, ConstantsAssumption DEF OnlyRefreshed, Sids
  <1> QED BY <1>1, <1>2, <1>3, <1>4, <1>5, <1>6, <1>7, <1>8, <1>9

\* The same for what has to be shown of s, for a create or a teardown.
LEMMA CallProvisioned ==
    ASSUME Orderly, Provisioning, NEW j \in Jobs, NEW b, b = jobs[j], NEW c, c = jobs'[j],
           NEW s, s = b.sid, Working(b), Working(c), SameWork(b, c), b.kind # "refresh",
           \A i \in Jobs : i # j => jobs'[i] = jobs[i],
           UNCHANGED <<rows, asked>>, failed \subseteq failed', killed \subseteq killed',
           refreshed \subseteq refreshed',
           \A p \in Suppliers : <<s, p>> \in contracts' => p \in b.rec.req.suppliers,
           \A k \in ExistingKeys, p \in Suppliers : <<s, p>> \in keyRefs'[k] => b.rec.req.key = k,
           NEW refs, refs = Refs(Outside', s),
           s \notin failed' \cup killed' \cup refreshed' =>
               /\ \A p \in refs : <<s, p>> \in contracts'
               /\ b.kind # "create" => Noted(refs, b.rec.assets)
               /\ TaskKnowsRefs(refs, c)
    PROVE  Provisioned(s)'
  <1>1. /\ rows[s] = b.rec /\ b.rec # Null /\ asked[s] = b.rec.req /\ b.rec.req \in Request
        /\ s \in Scenarios
    BY WorkRow
  <1>2. /\ BeingMade(s)' <=> b.kind = "create"
        /\ ~OnlyRefreshed(s)'
        /\ \A i \in Jobs : i # j => jobs'[i].sid # s
    BY CallOnlyMoves
  <1>3. asked'[s] # Null /\ asked'[s] = b.rec.req
    BY <1>1, ConstantsAssumption
  <1>4. RowTidy(s, rows'[s])
    BY <1>1 DEF Provisioning, Provisioned
  <1>5. Supplied(Outside, s)'
    BY <1>2 DEF Supplied
  <1>6. ASSUME s \notin failed' \cup killed' \cup refreshed' PROVE RefsKnown(Outside, s)'
    <2>1. \A p \in refs : <<s, p>> \in contracts'
      BY <1>6
    <2>2. rows'[s] # Null /\ (rows'[s] # Null /\ ~BeingMade(s)' => Noted(refs, rows'[s].assets))
      BY <1>1, <1>2, <1>6
    <2>3. \A i \in Jobs : jobs'[i].sid = s => TaskKnowsRefs(refs, jobs'[i])
      BY <1>2, <1>6
    <2>4. contracts' = Outside'.contracts
      BY DEF Outside
    <2> DEFINE v == Outside'
    <2>5. refs = Refs(v, s) /\ contracts' = v.contracts
      BY <2>4
    <2> HIDE DEF v
    <2> QED BY <2>1, <2>2, <2>3, <2>5 DEF RefsKnown, v
  <1> QED BY <1>3, <1>4, <1>5, <1>6 DEF Provisioned
-----------------------------------------------------------------------------
\* The apiKey lists and the flags, after a call of a create.
LEMMA CreateRefs ==
    ASSUME Typed, NEW b, HasRow(b), Creating(b), b.pc \in CreateCalls, b.kind = "create",
           NEW c, SameWork(b, c), CreateEffect(b, c), TaskTidy(Outside, b),
           NEW refs, refs = Refs(Outside, b.sid), NEW refs2, refs2 = Refs(Outside', b.sid),
           TaskKnowsRefs(refs, b), \A p \in refs : <<b.sid, p>> \in contracts
    PROVE  TaskKnowsRefs(refs2, c) /\ \A p \in refs2 : <<b.sid, p>> \in contracts'
  <1>1. /\ c.kind = "create" /\ b.sid \in Scenarios /\ b.rec.req \in Request /\ b.out \in Assets
        /\ c.sid = b.sid
    BY RowFields DEF SameWork, HasRow, Job
  <1>2. MakerTidy(b) /\ MadeThere(Outside, b)
    BY DEF TaskTidy, Working, CreateCalls
  <1>3. contracts \subseteq contracts'
    BY DEF CreateEffect, RegisterEffect, PrebookGetEffect, PrebookPutEffect, ContractEffect,
           SbGroupEffect, SbConfigEffect, CreateKeyEffect, AttachGetEffect, AttachPutEffect,
           ClearCacheEffect, ProvisionBrEffect, world, backoffice
  <1>4. CASE AttachPutEffect(b, c)
    <2> DEFINE k == b.rec.req.key
    <2>1. /\ keyRefs' = [keyRefs EXCEPT ![k] = b.seen \cup OwnContracts(b.sid, b.out.contracts)]
          /\ b.pc = "attachPut" /\ c.pc = "clearCache" /\ k # NoKey /\ b.seen \subseteq keyRefs[k]
          /\ c.out = [b.out EXCEPT !.key = k, !.ext = TRUE]
      BY <1>4 DEF AttachPutEffect, TaskTidy, Outside
    <2>2. k \in ExistingKeys
      BY <1>1, <2>1 DEF Request
    <2>3. c.out.key # NoKey /\ c.out.ext /\ c.out.contracts = b.out.contracts
      BY <1>1, <2>1 DEF Assets
    <2>4. refs = {}
      BY <2>1 DEF TaskKnowsRefs, BeforeKey, CreateCalls
    <2>5. \A x \in ExistingKeys, p \in Suppliers : <<b.sid, p>> \notin keyRefs[x]
      BY <2>4 DEF Refs, Outside
    <2>6. \A x \in ExistingKeys, p \in Suppliers :
            <<b.sid, p>> \in keyRefs'[x] => p \in b.out.contracts
      BY <2>1, <2>2, <2>5 DEF OwnContracts, Typed, TypeOK
    <2>7. refs2 \subseteq b.out.contracts
      BY <2>6 DEF Refs, Outside
    <2>8. Made(b).contracts = b.rec.req.suppliers
      BY <2>1 DEF Made, Wanted, Prebooks
    <2>9. \A p \in b.rec.req.suppliers : <<b.sid, p>> \in contracts
      BY <1>2, <2>8 DEF MadeThere, There, Outside
    <2>10. \A p \in refs2 : <<b.sid, p>> \in contracts'
      BY <1>2, <1>3, <2>7, <2>9 DEF MakerTidy
    <2>11. Noted(refs2, c.out)
      BY <2>3, <2>7 DEF Noted
    <2> QED BY <2>1, <2>10, <2>11 DEF TaskKnowsRefs, BeforeKey, Detached
  <1>5. CASE ~AttachPutEffect(b, c)
    <2>1. UNCHANGED keyRefs
      BY <1>5 DEF CreateEffect, RegisterEffect, PrebookGetEffect, PrebookPutEffect, ContractEffect,
           SbGroupEffect, SbConfigEffect, CreateKeyEffect, AttachGetEffect,
           ClearCacheEffect, ProvisionBrEffect, world, backoffice
    <2>2. refs2 = refs
      BY <2>1 DEF Refs, Outside
    <2>3. c.pc \notin Detached
      BY DEF CreateEffect, RegisterEffect, PrebookGetEffect, PrebookPutEffect, ContractEffect,
           SbGroupEffect, SbConfigEffect, CreateKeyEffect, AttachGetEffect, AttachPutEffect,
           ClearCacheEffect, ProvisionBrEffect, AtPrebook, AtContracts, AtSb, AtKey, AtBr, Drops,
           Detached
    <2>4. CASE b.pc \in BeforeKey
      <3>1. refs2 = {}
        BY <2>2, <2>4 DEF TaskKnowsRefs
      <3> QED BY <2>3, <3>1 DEF TaskKnowsRefs, Noted
    <2>5. CASE b.pc \notin BeforeKey
      <3>1. ClearCacheEffect(b, c) \/ ProvisionBrEffect(b, c)
        BY <2>5 DEF CreateEffect, RegisterEffect, PrebookGetEffect, PrebookPutEffect, ContractEffect,
           SbGroupEffect, SbConfigEffect, CreateKeyEffect, AttachGetEffect, AttachPutEffect,
           BeforeKey, CreateCalls
      <3>2. b.pc \in AfterKey /\ c.pc \in {"provisionBr", "finish"}
        BY <3>1 DEF ClearCacheEffect, ProvisionBrEffect, AfterKey, AtBr
      <3>3. c.out.contracts = b.out.contracts /\ (b.out.ext => c.out.ext) /\ c.out.key = b.out.key
        BY <1>1, <3>1 DEF ClearCacheEffect, ProvisionBrEffect, Assets
      <3>4. Noted(refs2, c.out)
        <4>1. Noted(refs, b.out)
          BY <3>2 DEF TaskKnowsRefs
        <4> QED BY <2>2, <3>3, <4>1 DEF Noted
      <3> QED BY <1>3, <2>2, <2>3, <3>2, <3>4 DEF TaskKnowsRefs, BeforeKey, CreateCalls
    <2> QED BY <2>4, <2>5
  <1> QED BY <1>4, <1>5

\* What a create remembers of a flag, it keeps.
LEMMA CreateFlags ==
    ASSUME Typed, NEW b, HasRow(b), Creating(b), b.pc \in CreateCalls, MakerTidy(b),
           NEW c, SameWork(b, c), CreateEffect(b, c)
    PROVE  /\ \A p \in Suppliers : b.out.restore[p] # "none" => c.out.restore[p] = b.out.restore[p]
           /\ \A p \in Suppliers : c.out.restore[p] # b.out.restore[p] =>
                  /\ b.pc = "prebookGet" /\ p \in b.todo
                  /\ c.out.restore[p] = prebooking[<<b.rec.req.env, p>>]
           /\ \A e \in Envs, p \in Suppliers : prebooking'[<<e, p>>] # prebooking[<<e, p>>] =>
                  e = b.rec.req.env /\ p \in Pinned(b.rec.req) /\ b.out.restore[p] # "none"
  <1>1. b.out \in Assets /\ b.rec.req \in Request /\ b.todo \in SUBSET Suppliers
    BY RowFields DEF HasRow, Job
  <1>2. CASE PrebookGetEffect(b, c)
    <2>1. PICK p \in b.todo :
            c.out = [b.out EXCEPT !.restore = [b.out.restore EXCEPT
                                                 ![p] = prebooking[<<b.rec.req.env, p>>]]]
      BY <1>2 DEF PrebookGetEffect
    <2>2. b.pc = "prebookGet" /\ UNCHANGED prebooking
      BY <1>2 DEF PrebookGetEffect, world, backoffice
    <2>3. b.out.restore[p] = "none"
      BY <2>2 DEF MakerTidy
    <2>4. c.out.restore = [b.out.restore EXCEPT ![p] = prebooking[<<b.rec.req.env, p>>]]
      BY <1>1, <2>1 DEF Assets
    <2>5. b.out.restore \in [Suppliers -> Prebooking \cup {"none"}] /\ p \in Suppliers
      BY <1>1 DEF Assets
    <2> QED BY <2>2, <2>3, <2>4, <2>5
  <1>3. CASE PrebookPutEffect(b, c)
    <2>1. PICK p \in b.todo :
            /\ b.out.restore[p] # "none"
            /\ prebooking' = [prebooking EXCEPT ![<<b.rec.req.env, p>>] = b.rec.req.pin[p]]
      BY <1>3 DEF PrebookPutEffect
    <2>2. c.out = b.out /\ p \in Pinned(b.rec.req)
      BY <1>3 DEF PrebookPutEffect, Creating
    <2> QED BY <2>1, <2>2 DEF Typed, TypeOK
  <1>4. CASE ~PrebookGetEffect(b, c) /\ ~PrebookPutEffect(b, c)
    <2>1. UNCHANGED prebooking
      BY <1>4 DEF CreateEffect, RegisterEffect, ContractEffect,
           SbGroupEffect, SbConfigEffect, CreateKeyEffect, AttachGetEffect, AttachPutEffect,
           ClearCacheEffect, ProvisionBrEffect, world, backoffice
    <2>2. c.out.restore = b.out.restore
      BY <1>1, <1>4 DEF CreateEffect, RegisterEffect, ContractEffect,
           SbGroupEffect, SbConfigEffect, CreateKeyEffect, AttachGetEffect, AttachPutEffect,
           ClearCacheEffect, ProvisionBrEffect, Assets
    <2> QED BY <2>1, <2>2
  <1> QED BY <1>2, <1>3, <1>4

\* A call of a create.
LEMMA CreateProvisions ==
    ASSUME Orderly, Unshared, Provisioning, NEW j \in Jobs, CreateStep(j), ~CreateRaises(j),
           NEW b, b = jobs[j], NEW c, c = jobs'[j], NEW s, s = b.sid
    PROVE  Provisioning'
  <1> DEFINE req == b.rec.req
  <1>1. /\ SameWork(b, c) /\ b.kind = "create" /\ b.pc \in CreateCalls
        /\ UNCHANGED history /\ CreateEffect(b, c)
    BY CreateEffects
  <1>2. UNCHANGED <<rows, asked>> /\ (\A i \in Jobs : i # j => jobs'[i] = jobs[i])
    <2>1. ~RefreshRaises(j) /\ ~RemoveRow(j)
      BY <1>1 DEF RefreshRaises, RemoveRow, At, CreateCalls
    <2> QED BY <2>1, CallRows, StepTask DEF Orderly, KeyInv
  <1>3. Typed /\ c # IdleJob /\ c.pc \in CreateCalls \cup {"finish"} /\ Working(b) /\ Working(c)
    <2>1. Typed /\ Moves(b, c) /\ c # IdleJob
      BY <1>1, CreateMoves DEF Orderly, KeyInv, SameWork, IdleJob
    <2> QED BY <1>1, <2>1 DEF Moves, CreateCalls, TeardownCalls, Working
  <1>4. /\ HasRow(b) /\ rows[s] = b.rec /\ s \in Scenarios /\ req \in Request /\ b.rec # Null
        /\ JobInv(b) /\ Creating(b) /\ asked[s] = req
    BY <1>1, <1>3, WorkRow, AtWork DEF Orderly, KeyInv, JobInv
  <1>5. TaskTidy(Outside, b) /\ MakerTidy(b) /\ MadeThere(Outside, b)
    BY <1>1, <1>3 DEF Provisioning, TaskTidy
  <1>7. MakerTidy(c) /\ MadeThere(Outside', c)
    BY <1>1, <1>3, <1>4, <1>5, MakerKeeps
  <1>8. /\ OnlyMoves(j) /\ About(j) = {s}
        /\ BeingMade(s) /\ BeingMade(s)'
        /\ \A i \in Jobs : i # j => jobs[i].sid # s /\ jobs'[i].sid # s
    BY <1>1, <1>2, <1>3, CallOnlyMoves DEF history
  <1>9. \A t \in Scenarios \ About(j) : Spared(Outside, Outside', t, rows[t])
    BY <1>1, <1>3, <1>5, <1>8, CreateSpares
  <1>10. TaskTidy(Outside', c)
    <2>1. c.kind = "create" /\ c.rec = b.rec
      BY <1>1 DEF SameWork
    <2>2. c.pc \notin {"load", "sweep", "detachPut"}
      BY <1>3 DEF CreateCalls
    <2>3. ASSUME c.pc = "attachPut" PROVE req.key # NoKey /\ c.seen \subseteq keyRefs'[req.key]
      <3>1. AttachGetEffect(b, c)
        BY <1>1, <2>3
           DEF CreateEffect, RegisterEffect, PrebookGetEffect, PrebookPutEffect, ContractEffect,
             SbGroupEffect, SbConfigEffect, CreateKeyEffect, AttachPutEffect, ClearCacheEffect,
             ProvisionBrEffect, AtPrebook, AtContracts, AtSb, AtKey, AtBr, Drops
      <3>2. req.key \in liveKeys /\ c.seen = keyRefs[req.key] /\ UNCHANGED keyRefs
        BY <3>1 DEF AttachGetEffect, world, backoffice
      <3>3. NoKey \notin liveKeys
        BY <1>3, ConstantsAssumption DEF Typed, TypeOK
      <3> QED BY <3>2, <3>3
    <2> QED BY <1>7, <2>1, <2>2, <2>3 DEF TaskTidy, Outside
  <1>11. Provisioned(s)'
    <2> DEFINE refs == Refs(Outside', s)
    <2>1. \A p \in Suppliers : <<s, p>> \in contracts' => p \in req.suppliers
      <3>1. \A p \in Suppliers : <<s, p>> \in contracts => p \in req.suppliers
        BY <1>4 DEF Provisioning, Provisioned
      <3>2. \A p \in Suppliers : <<s, p>> \in contracts' => <<s, p>> \in contracts \/ p \in req.suppliers
        <4>1. CASE ContractEffect(b, c)
          <5>1. PICK q \in b.todo : contracts' = contracts \cup {<<s, q>>}
            BY <4>1 DEF ContractEffect
          <5>2. q \in req.suppliers
            BY <1>5, <4>1 DEF MakerTidy, ContractEffect
          <5> QED BY <5>1, <5>2
        <4>2. CASE ~ContractEffect(b, c)
          BY <1>1, <4>2
             DEF CreateEffect, RegisterEffect, PrebookGetEffect, PrebookPutEffect,
               SbGroupEffect, SbConfigEffect, CreateKeyEffect, AttachGetEffect, AttachPutEffect,
               ClearCacheEffect, ProvisionBrEffect, world, backoffice
        <4> QED BY <4>1, <4>2
      <3> QED BY <3>1, <3>2
    <2>2. \A k \in ExistingKeys, p \in Suppliers : <<s, p>> \in keyRefs'[k] => req.key = k
      <3>1. \A k \in ExistingKeys, p \in Suppliers : <<s, p>> \in keyRefs[k] => req.key = k
        BY <1>4 DEF Provisioning, Provisioned
      <3>2. \A k \in ExistingKeys : keyRefs'[k] = keyRefs[k] \/ req.key = k
        BY <1>1, <1>3
           DEF CreateEffect, RegisterEffect, PrebookGetEffect, PrebookPutEffect, ContractEffect,
             SbGroupEffect, SbConfigEffect, CreateKeyEffect, AttachGetEffect, AttachPutEffect,
             ClearCacheEffect, ProvisionBrEffect, world, backoffice, Typed, TypeOK
      <3> QED BY <3>1, <3>2
    <2>3. ASSUME s \notin failed' \cup killed' \cup refreshed'
          PROVE  (\A p \in refs : <<s, p>> \in contracts') /\ TaskKnowsRefs(refs, c)
      <3>1. RefsKnown(Outside, s)
        BY <1>1, <1>4, <2>3 DEF Provisioning, Provisioned, history
      <3>2. TaskKnowsRefs(Refs(Outside, s), b)
        BY <3>1 DEF RefsKnown
      <3>3. \A p \in Refs(Outside, s) : <<s, p>> \in contracts
        BY <3>1 DEF RefsKnown, Outside
      <3> QED BY <1>1, <1>3, <1>4, <1>5, <3>2, <3>3, CreateRefs
    <2> HIDE DEF refs
    <2>4. refs = Refs(Outside', s)
      BY DEF refs
    <2> QED BY <1>1, <1>2, <1>3, <2>1, <2>2, <2>3, <2>4, CallProvisioned DEF history
  <1>12. ASSUME Clean' PROVE Undone'
    <2>1. Undone
      BY <1>1, <1>12 DEF Provisioning, Clean, history
    <2>2. Restorable(b.out) /\ b.out \in Assets
      BY <1>1, <1>3, <1>4, <2>1 DEF Undone, HasRow, Job
    <2>3. /\ \A p \in Suppliers : b.out.restore[p] # "none" => c.out.restore[p] = b.out.restore[p]
          /\ \A p \in Suppliers : c.out.restore[p] # b.out.restore[p] =>
                 /\ b.pc = "prebookGet" /\ p \in b.todo
                 /\ c.out.restore[p] = prebooking[<<req.env, p>>]
          /\ \A e \in Envs, p \in Suppliers : prebooking'[<<e, p>>] # prebooking[<<e, p>>] =>
                 e = req.env /\ p \in Pinned(req) /\ b.out.restore[p] # "none"
      BY <1>1, <1>3, <1>4, <1>5, CreateFlags
    <2>4. ASSUME NEW t \in Scenarios, NEW p \in Suppliers, Undoes(t, p), t = s
          PROVE  b.out.restore[p] = "absent"
      BY <1>8, <2>4 DEF Undoes
    <2>5. Restorable(c.out)
      <3> SUFFICES ASSUME NEW p \in Suppliers, c.out.restore[p] # b.out.restore[p]
                   PROVE  c.out.restore[p] = "absent"
        BY <2>2 DEF Restorable
      <3>1. b.pc = "prebookGet" /\ p \in b.todo /\ c.out.restore[p] = prebooking[<<req.env, p>>]
        BY <2>3
      <3>2. b.out.restore[p] = "none" /\ p \in Pinned(req)
        BY <1>4, <1>5, <3>1 DEF MakerTidy, Creating
      <3> SUFFICES ASSUME prebooking[<<req.env, p>>] # "absent" PROVE FALSE
        BY <3>1
      <3>3. PICK t \in Scenarios : Undoes(t, p) /\ rows[t].req.env = req.env
        BY <1>4, <2>1 DEF Undone, Request
      <3>4. t # s
        BY <2>4, <3>2, <3>3
      <3> QED BY <1>4, <3>2, <3>3, <3>4 DEF Undoes, Unshared
    <2>6. ASSUME NEW p \in Suppliers, p \in Pinned(req), b.out.restore[p] = "absent"
          PROVE  Undoes(s, p)'
      <3>1. c.out.restore[p] = "absent" /\ c.sid = s /\ c.kind = "create"
        BY <1>1, <2>3, <2>6 DEF SameWork
      <3> QED BY <1>2, <1>3, <1>4, <1>8, <2>6, <3>1 DEF Undoes
    <2>7. ASSUME NEW e \in Envs, NEW p \in Suppliers,
                 prebooking'[<<e, p>>] \notin {"absent", prebooking[<<e, p>>]}
          PROVE  \E t \in About(j) : Undoes(t, p)' /\ rows'[t].req.env = e
      <3>1. e = req.env /\ p \in Pinned(req) /\ b.out.restore[p] = "absent"
        BY <2>2, <2>3, <2>7 DEF Restorable
      <3>2. Undoes(s, p)'
        BY <2>6, <3>1
      <3> QED BY <1>2, <1>4, <1>8, <3>1, <3>2
    <2>8. ASSUME NEW p \in Suppliers, Undoes(s, p) PROVE Undoes(s, p)'
      <3>1. p \in Pinned(req)
        BY <1>4, <2>8 DEF Undoes
      <3>2. b.out.restore[p] = "absent"
        BY <1>4, <2>4, <2>8
      <3> QED BY <2>6, <3>1, <3>2
    <2>9. rows'[s] # Null => Restorable(rows'[s].assets)
      BY <1>2, <1>4, <2>1 DEF Undone
    <2> QED BY <1>2, <1>8, <2>1, <2>5, <2>7, <2>8, <2>9, StepUndone
  <1> QED BY <1>8, <1>9, <1>10, <1>11, <1>12, StepProvisions
-----------------------------------------------------------------------------
\* A scenario whose row stays as it is, when nothing of the outside is touched.
LEMMA SameProvisioned ==
    ASSUME Provisioning, NEW s \in Scenarios, UNCHANGED <<backoffice, brRules>>,
           rows'[s] = rows[s], asked'[s] = asked[s],
           failed \subseteq failed', killed \subseteq killed', refreshed \subseteq refreshed',
           OnlyRefreshed(s)' /\ s \notin killed' => OnlyRefreshed(s),
           s \notin killed' => (BeingMade(s) => BeingMade(s)'),
           RefsKnown(Outside, s) /\ s \notin killed' => \A i \in Jobs : jobs'[i].sid = s =>
               jobs'[i] = jobs[i] \/ TaskKnowsRefs(Refs(Outside, s), jobs'[i])
    PROVE  Provisioned(s)'
  <1> DEFINE w == Outside
  <1>1. Outside' = w /\ UNCHANGED <<contracts, keyRefs>>
    BY OutsideSame DEF backoffice
  <1>2. Provisioned(s)
    BY DEF Provisioning
  <1>3. ASSUME s \notin killed' PROVE Supplied(Outside, s)'
    <2> SUFFICES ASSUME Ready(s)', OnlyRefreshed(s)'
                 PROVE  /\ There(w, s, rows'[s].req, Wanted(s, rows'[s].req))
                        /\ NamesKey(s, rows'[s].req, rows'[s].assets)
      BY <1>1 DEF Supplied
    <2>1. Ready(s) /\ OnlyRefreshed(s) /\ s \notin killed
      BY <1>3 DEF Ready
    <2> QED BY <1>2, <2>1 DEF Provisioned, Supplied
  <1>4. ASSUME s \notin failed' \cup killed' \cup refreshed' PROVE RefsKnown(Outside, s)'
    <2>1. RefsKnown(w, s)
      BY <1>2, <1>4 DEF Provisioned
    <2> DEFINE refs == Refs(w, s)
    <2>2. rows'[s] # Null /\ ~BeingMade(s)' => Noted(refs, rows'[s].assets)
      BY <1>4, <2>1 DEF RefsKnown
    <2>3. \A i \in Jobs : jobs'[i].sid = s => TaskKnowsRefs(refs, jobs'[i])
      BY <1>4, <2>1 DEF RefsKnown
    <2>4. (\A p \in refs : <<s, p>> \in w.contracts) /\ (rows'[s] = Null => refs = {})
      BY <2>1 DEF RefsKnown
    <2>5. Refs(Outside', s) = refs /\ Outside'.contracts = w.contracts
      BY <1>1
    <2> HIDE DEF refs, w
    <2> QED BY <2>2, <2>3, <2>4, <2>5 DEF RefsKnown
  <1>5. rows'[s] # Null => RowTidy(s, rows'[s])
    BY <1>2 DEF Provisioned
  <1>6. /\ \A p \in Suppliers :
               <<s, p>> \in contracts' => asked'[s] # Null /\ p \in asked'[s].suppliers
        /\ \A k \in ExistingKeys, p \in Suppliers :
               <<s, p>> \in keyRefs'[k] => asked'[s] # Null /\ asked'[s].key = k
    BY <1>1, <1>2 DEF Provisioned
  <1> QED BY <1>3, <1>4, <1>5, <1>6 DEF Provisioned

LEMMA RefreshProvisions ==
    ASSUME Orderly, Provisioning, NEW j \in Jobs, RefreshStep(j), ~RefreshRaises(j),
           NEW b, b = jobs[j], NEW c, c = jobs'[j], NEW s, s = b.sid
    PROVE  Provisioning'
  <1>1. SameWork(b, c) /\ b.kind = "refresh" /\ b.pc = "reregister" /\ ReregisterEffect(b, c)
    BY RefreshEffects
  <1>2. c.pc \in {"reregister", "finish"} /\ c.out = b.out /\ c.kind = "refresh" /\ c.sid = s
        /\ c.rec = b.rec
    BY <1>1 DEF ReregisterEffect, Drops, SameWork
  <1>3. /\ UNCHANGED <<rows, asked, failed, killed, refreshed>>
        /\ UNCHANGED <<backoffice, brRules>>
        /\ \A i \in Jobs : i # j => jobs'[i] = jobs[i]
    BY <1>1, StepTask DEF ReregisterEffect, history, Orderly, KeyInv
  <1>4. Working(b) /\ Working(c)
    BY <1>1, <1>2 DEF Working
  <1>5. /\ OnlyMoves(j) /\ About(j) = {s} /\ s \in Scenarios
        /\ BeingMade(s)' <=> BeingMade(s)
        /\ OnlyRefreshed(s)' <=> OnlyRefreshed(s)
        /\ \A i \in Jobs : i # j => jobs[i].sid # s /\ jobs'[i].sid # s
    BY <1>1, <1>3, <1>4, CallOnlyMoves
  <1>6. Outside' = Outside /\ \A t \in Scenarios : Spared(Outside, Outside', t, rows[t])
    BY <1>3, OutsideSame
  <1>7. \A refs : TaskKnowsRefs(refs, c)
    BY <1>2 DEF TaskKnowsRefs, Detached
  <1>8. Provisioned(s)'
    BY <1>3, <1>5, <1>7, SameProvisioned
  <1>9. TaskTidy(Outside', c)
    <2>1. TaskTidy(Outside, b)
      BY DEF Provisioning
    <2> QED BY <1>1, <1>2, <1>4, <1>6, <2>1 DEF TaskTidy
  <1>10. ASSUME Clean' PROVE Undone'
    <2>1. Undone
      BY <1>3, <1>10 DEF Provisioning, Clean
    <2>2. ASSUME NEW p \in Suppliers, Undoes(s, p) PROVE Undoes(s, p)'
      <3>1. ~BeingMade(s) /\ ~BeingMade(s)'
        BY <1>1, <1>5 DEF BeingMade
      <3>2. c.pc \notin TearingPCs
        BY <1>2 DEF TearingPCs, TeardownCalls
      <3> QED BY <1>3, <1>5, <2>2, <3>1, <3>2 DEF Undoes
    <2>3. UNCHANGED prebooking
      BY <1>3 DEF backoffice
    <2> QED BY <1>2, <1>3, <1>5, <2>1, <2>2, <2>3, StepUndone DEF Undone
  <1> QED BY <1>5, <1>6, <1>8, <1>9, <1>10, StepProvisions
-----------------------------------------------------------------------------
\* A teardown comes to the second half of a detach only from the first half.
LEMMA DetachOrder ==
    ASSUME Orderly, NEW j \in Jobs, TeardownStep(j), ~RemoveRow(j),
           NEW b, b = jobs[j], NEW c, c = jobs'[j], c.pc = "detachPut"
    PROVE  DetachGet(j)
  <1>1. HasRow(b) /\ b \in Job
    BY TeardownMoves DEF Orderly, KeyInv, HasRow
  <1>2. \A d : Becomes(j, d) => c = d
    BY BecomesTask DEF Orderly, KeyInv
  <1>3. ASSUME NEW d, HasRow(d)
        PROVE  /\ ToCleanBr(d).pc # "detachPut" /\ ToUnmock(d).pc # "detachPut"
               /\ ToDetach(d).pc # "detachPut" /\ ToDeleteContracts(d).pc # "detachPut"
               /\ ToDeleteKey(d).pc # "detachPut" /\ ToDeleteSb(d).pc # "detachPut"
    BY <1>3, CleanBrNext, UnmockNext, DetachNext, DeleteContractsNext, DeleteKeyNext, DeleteSbNext
       DEF AtCleanBr, AtUnmock, AtDetach, AtDeleteContracts, AtDeleteKey, AtDeleteSb
  <1>4. ASSUME NEW p \in Suppliers, NEW d, d.pc # "detachPut", b.pc # "detachPut"
        PROVE  Loop(b, p, d).pc # "detachPut"
    BY <1>1, <1>4 DEF Loop, Job
  <1>5. b.todo \in SUBSET Suppliers
    BY <1>1 DEF Job
  <1>6. CASE RestorePrebooking(j) \/ RestoreFails(j) \/ Unmock(j) \/ DeleteContract(j)
    <2>1. PICK p \in b.todo : \E d : c = Loop(b, p, d) /\ d.pc # "detachPut"
      BY <1>1, <1>2, <1>3, <1>6 DEF RestorePrebooking, RestoreFails, Unmock, DeleteContract
    <2>2. b.pc # "detachPut"
      BY <1>6 DEF RestorePrebooking, RestoreFails, Unmock, DeleteContract, At
    <2> QED BY <1>4, <1>5, <2>1, <2>2
  <1>7. CASE CleanBr(j) \/ DeleteApiKey(j)
    BY <1>1, <1>2, <1>3, <1>7 DEF CleanBr, DeleteApiKey
  <1>8. CASE DetachPut(j) \/ DetachFails(j)
    <2>1. HasRow([b EXCEPT !.seen = {}])
      BY <1>1 DEF HasRow, Job
    <2> QED BY <1>2, <1>3, <1>8, <2>1 DEF DetachPut, DetachFails
  <1>9. CASE DeleteSb(j) \/ DeleteSbFails(j)
    <2>1. PICK kind \in b.sbTodo : c = LoopSb(b, kind)
      BY <1>2, <1>9 DEF DeleteSb, DeleteSbFails
    <2>2. b.pc = "deleteSb"
      BY <1>9 DEF DeleteSb, DeleteSbFails, At
    <2> QED BY <1>1, <2>1, <2>2 DEF LoopSb, ToRemoveRow, Job
  <1>10. CASE TeardownRaises(j)
    BY <1>1, <1>2, <1>10 DEF TeardownRaises, Aborted, ToRemoveRow, Job
  <1> QED
    BY <1>6, <1>7, <1>8, <1>9, <1>10 DEF TeardownStep

\* The apiKey lists, after a call of a teardown that did not fail.
LEMMA TeardownRefs ==
    ASSUME Typed, NEW b, HasRow(b), NEW c, SameWork(b, c), b.kind # "create",
           TeardownEffect(b, c), ~FailEffect(b), TaskTidy(Outside, b),
           \A k \in ExistingKeys, p \in Suppliers : <<b.sid, p>> \in keyRefs[k] => b.rec.req.key = k,
           NEW refs, refs = Refs(Outside, b.sid), NEW refs2, refs2 = Refs(Outside', b.sid),
           TaskKnowsRefs(refs, b), Noted(refs, b.rec.assets), \A p \in refs : <<b.sid, p>> \in contracts
    PROVE  /\ TaskKnowsRefs(refs2, c) /\ Noted(refs2, b.rec.assets)
           /\ \A p \in refs2 : <<b.sid, p>> \in contracts'
  <1>1. c.kind # "create" /\ c.rec = b.rec /\ b.rec.req \in Request /\ b.rec.assets \in Assets
    BY RowFields DEF SameWork, HasRow
  <1>2. CASE DetachPutEffect(b, c)
    <2> DEFINE k == b.rec.req.key
    <2>1. /\ keyRefs' = [keyRefs EXCEPT ![k] = b.seen \ OwnContracts(b.sid, b.rec.assets.contracts)]
          /\ b.seen \subseteq keyRefs[k] /\ k # NoKey
      BY <1>2 DEF DetachPutEffect, TaskTidy, Outside
    <2>2. k \in ExistingKeys
      BY <1>1, <2>1 DEF Request
    <2>3. \A p \in Suppliers : <<b.sid, p>> \in keyRefs[k] => p \in b.rec.assets.contracts
      BY <2>2 DEF Noted, Refs, Outside
    <2>4. \A p \in Suppliers : <<b.sid, p>> \notin keyRefs'[k]
      BY <2>1, <2>2, <2>3 DEF OwnContracts, Typed, TypeOK
    <2>5. \A x \in ExistingKeys \ {k} : keyRefs'[x] = keyRefs[x]
      BY <2>1 DEF Typed, TypeOK
    <2>6. refs2 = {}
      BY <2>2, <2>4, <2>5 DEF Refs, Outside
    <2> QED BY <1>1, <2>6 DEF TaskKnowsRefs, Noted
  <1>3. CASE ~DetachPutEffect(b, c)
    <2>1. UNCHANGED keyRefs
      BY <1>3 DEF TeardownEffect, RestoreEffect, CleanBrEffect, UnmockEffect, DetachGetEffect,
                  DeleteContractEffect, DeleteKeyEffect, DeleteSbEffect, world, backoffice
    <2>2. refs2 = refs
      BY <2>1 DEF Refs, Outside
    <2>3. CASE b.pc \in Detached
      <3>1. refs2 = {}
        BY <2>2, <2>3 DEF TaskKnowsRefs
      <3> QED BY <1>1, <3>1 DEF TaskKnowsRefs, Noted
    <2>4. CASE b.pc \notin Detached
      <3>1. RestoreEffect(b, c) \/ CleanBrEffect(b, c) \/ UnmockEffect(b, c) \/ DetachGetEffect(b, c)
        BY <1>3, <2>4 DEF TeardownEffect, DeleteContractEffect, DeleteKeyEffect, DeleteSbEffect,
                          Detached
      <3>2. UNCHANGED contracts
        BY <3>1 DEF RestoreEffect, CleanBrEffect, UnmockEffect, DetachGetEffect, world, backoffice
      <3>3. ASSUME c.pc \in Detached PROVE refs = {}
        <4>1. UnmockEffect(b, c)
          BY <3>1, <3>3 DEF RestoreEffect, CleanBrEffect, DetachGetEffect, Drops, AtCleanBr,
                            AtUnmock, Detached
        <4>2. AtDetach(c)
          BY <3>3, <4>1 DEF UnmockEffect, Drops, Detached
        <4>3. ~(/\ b.rec.assets.ext /\ b.rec.assets.key # NoKey
                /\ b.rec.assets.contracts # {})
          BY <1>1, <3>3, <4>2 DEF AtDetach, Detached
        <4> QED BY <4>3 DEF Noted
      <3> QED BY <1>1, <2>2, <3>2, <3>3 DEF TaskKnowsRefs
    <2> QED BY <2>3, <2>4
  <1> QED BY <1>2, <1>3

\* What a teardown writes to a flag is the value its row remembers.
LEMMA TeardownFlags ==
    ASSUME Typed, NEW b, HasRow(b), NEW c, TeardownEffect(b, c), ~FailEffect(b),
           b.pc = "restore" => b.todo \subseteq Altered(b.rec)
    PROVE  /\ \A e \in Envs, p \in Suppliers : prebooking'[<<e, p>>] # prebooking[<<e, p>>] =>
                  b.rec.assets.restore[p] # "none" /\ prebooking'[<<e, p>>] = b.rec.assets.restore[p]
           /\ \A p \in Suppliers : b.pc = "restore" /\ p \in b.todo =>
                  \/ c.pc = "restore" /\ p \in c.todo
                  \/ prebooking'[<<b.rec.req.env, p>>] = b.rec.assets.restore[p]
  <1>1. b.rec.req \in Request /\ b.rec.assets \in Assets /\ b.todo \in SUBSET Suppliers
    BY RowFields DEF HasRow, Job
  <1>2. CASE RestoreEffect(b, c)
    <2>1. PICK p \in b.todo :
            /\ prebooking' = [prebooking EXCEPT ![<<b.rec.req.env, p>>] = b.rec.assets.restore[p]]
            /\ Drops(b, c, p) \/ (b.todo = {p} /\ AtCleanBr(c))
      BY <1>2 DEF RestoreEffect
    <2>2. p \in Suppliers /\ b.rec.assets.restore[p] # "none" /\ b.pc = "restore"
      BY <1>2 DEF RestoreEffect, Altered
    <2>3. prebooking'[<<b.rec.req.env, p>>] = b.rec.assets.restore[p]
      BY <1>1, <2>1, <2>2 DEF Typed, TypeOK, Request
    <2>4. \A q \in b.todo : q = p \/ (c.pc = "restore" /\ q \in c.todo)
      BY <2>1, <2>2 DEF Drops
    <2> QED BY <2>1, <2>2, <2>3, <2>4 DEF Typed, TypeOK
  <1>3. CASE ~RestoreEffect(b, c)
    BY <1>3 DEF TeardownEffect, CleanBrEffect, UnmockEffect, DetachGetEffect, DetachPutEffect,
                DeleteContractEffect, DeleteKeyEffect, DeleteSbEffect, world, backoffice
  <1> QED BY <1>2, <1>3

\* A call of a teardown.
LEMMA TeardownProvisions ==
    ASSUME Orderly, Unshared, Provisioning, NEW j \in Jobs, TeardownStep(j), ~RemoveRow(j),
           NEW b, b = jobs[j], NEW c, c = jobs'[j], NEW s, s = b.sid
    PROVE  Provisioning'
  <1> DEFINE req == b.rec.req
  <1>1. /\ SameWork(b, c) /\ b.kind \in {"teardown", All} /\ b.pc \in TeardownCalls
        /\ c.pc \in TearingPCs /\ UNCHANGED rows /\ TeardownEffect(b, c)
    BY TeardownEffects
  <1>2. /\ UNCHANGED asked /\ failed \subseteq failed' /\ killed \subseteq killed'
        /\ refreshed \subseteq refreshed'
    BY <1>1 DEF TeardownEffect, FailEffect, RestoreEffect, CleanBrEffect, UnmockEffect,
                DetachGetEffect, DetachPutEffect, DeleteContractEffect, DeleteKeyEffect,
                DeleteSbEffect, history
  <1>3. Typed /\ Working(b) /\ Working(c) /\ b.kind # "create" /\ b.kind # "refresh"
        /\ \A i \in Jobs : i # j => jobs'[i] = jobs[i]
    BY <1>1, StepTask DEF Orderly, KeyInv, Working, TearingPCs, TeardownCalls, All
  <1>4. /\ HasRow(b) /\ rows[s] = b.rec /\ s \in Scenarios /\ req \in Request /\ b.rec # Null
        /\ JobInv(b) /\ asked[s] = req
    BY <1>1, <1>3, WorkRow, AtWork DEF Orderly, KeyInv
  <1>5. TaskTidy(Outside, b) /\ Provisioned(s) /\ RowTidy(s, b.rec)
    BY <1>4 DEF Provisioning, Provisioned
  <1>6. /\ OnlyMoves(j) /\ About(j) = {s}
        /\ ~BeingMade(s) /\ ~BeingMade(s)'
        /\ \A i \in Jobs : i # j => jobs[i].sid # s /\ jobs'[i].sid # s
    BY <1>1, <1>2, <1>3, CallOnlyMoves
  <1>7. \A t \in Scenarios \ About(j) : Spared(Outside, Outside', t, rows[t])
    BY <1>1, <1>3, <1>5, <1>6, TeardownSpares DEF TearingPCs
  <1>8. c.rec = b.rec /\ c.kind = b.kind /\ c.sid = s
    BY <1>1 DEF SameWork
  <1>9. TaskTidy(Outside', c)
    <2>1. ASSUME c.pc = "detachPut" PROVE req.key # NoKey /\ c.seen \subseteq keyRefs'[req.key]
      <3>1. DetachGet(j)
        BY <2>1, DetachOrder
      <3>2. /\ req.key \in liveKeys /\ UNCHANGED keyRefs
            /\ c = [b EXCEPT !.pc = "detachPut", !.seen = keyRefs[req.key]]
        BY <1>3, <3>1, BecomesTask DEF DetachGet, ReadApiKey, world, backoffice
      <3>3. c.seen = keyRefs[req.key]
        BY <1>4, <3>2 DEF HasRow, Job
      <3>4. NoKey \notin liveKeys
        BY <1>3, ConstantsAssumption DEF Typed, TypeOK
      <3> QED BY <3>2, <3>3, <3>4
    <2>2. c.pc \notin {"load", "sweep", "attachPut"}
      BY <1>1 DEF TearingPCs, TeardownCalls
    <2> QED BY <1>3, <1>8, <2>1, <2>2 DEF TaskTidy, Outside
  <1>10. Provisioned(s)'
    <2> DEFINE refs == Refs(Outside', s)
    <2>1. \A k \in ExistingKeys, p \in Suppliers : <<s, p>> \in keyRefs[k] => req.key = k
      BY <1>4, <1>5 DEF Provisioned
    <2>2. \A p \in Suppliers : <<s, p>> \in contracts' => p \in req.suppliers
      <3>1. \A p \in Suppliers : <<s, p>> \in contracts => p \in req.suppliers
        BY <1>4, <1>5 DEF Provisioned
      <3>2. contracts' \subseteq contracts
        BY <1>1 DEF TeardownEffect, FailEffect, RestoreEffect, CleanBrEffect, UnmockEffect,
                DetachGetEffect, DetachPutEffect, DeleteContractEffect, DeleteKeyEffect,
                DeleteSbEffect, world, backoffice
      <3> QED BY <3>1, <3>2
    <2>3. \A k \in ExistingKeys, p \in Suppliers : <<s, p>> \in keyRefs'[k] => req.key = k
      <3>1. \A k \in ExistingKeys : keyRefs'[k] = keyRefs[k] \/ req.key = k
        BY <1>1, <1>3
           DEF TeardownEffect, FailEffect, RestoreEffect, CleanBrEffect, UnmockEffect,
                DetachGetEffect, DetachPutEffect, DeleteContractEffect, DeleteKeyEffect,
                DeleteSbEffect, world, backoffice, Typed, TypeOK
      <3> QED BY <2>1, <3>1
    <2>4. ASSUME s \notin failed' \cup killed' \cup refreshed'
          PROVE  /\ \A p \in refs : <<s, p>> \in contracts'
                 /\ Noted(refs, b.rec.assets) /\ TaskKnowsRefs(refs, c)
      <3>1. ~FailEffect(b)
        BY <2>4 DEF FailEffect
      <3>2. RefsKnown(Outside, s)
        BY <1>2, <1>5, <2>4 DEF Provisioned
      <3>3. TaskKnowsRefs(Refs(Outside, s), b) /\ Noted(Refs(Outside, s), b.rec.assets)
        BY <1>4, <1>6, <3>2 DEF RefsKnown
      <3>4. \A p \in Refs(Outside, s) : <<s, p>> \in contracts
        BY <3>2 DEF RefsKnown, Outside
      <3> QED BY <1>1, <1>3, <1>4, <1>5, <2>1, <3>1, <3>3, <3>4, TeardownRefs
    <2> HIDE DEF refs
    <2>5. refs = Refs(Outside', s)
      BY DEF refs
    <2> QED BY <1>1, <1>2, <1>3, <2>2, <2>3, <2>4, <2>5, CallProvisioned
  <1>11. ASSUME Clean' PROVE Undone'
    <2>1. Undone /\ ~FailEffect(b)
      <3>1. Clean
        BY <1>2, <1>11 DEF Clean
      <3> QED BY <1>11, <3>1 DEF Provisioning, Clean, FailEffect
    <2>2. b.pc = "restore" => b.todo \subseteq Altered(b.rec)
      BY <1>3, <1>4 DEF JobInv, TearingDown, TeardownCalls
    <2>3. /\ \A e \in Envs, p \in Suppliers : prebooking'[<<e, p>>] # prebooking[<<e, p>>] =>
                 b.rec.assets.restore[p] # "none" /\ prebooking'[<<e, p>>] = b.rec.assets.restore[p]
          /\ \A p \in Suppliers : b.pc = "restore" /\ p \in b.todo =>
                 \/ c.pc = "restore" /\ p \in c.todo
                 \/ prebooking'[<<b.rec.req.env, p>>] = b.rec.assets.restore[p]
      BY <1>1, <1>3, <1>4, <2>1, <2>2, TeardownFlags
    <2>4. Restorable(b.rec.assets)
      BY <1>4, <2>1 DEF Undone
    <2>5. \A e \in Envs, p \in Suppliers : prebooking'[<<e, p>>] \in {"absent", prebooking[<<e, p>>]}
      BY <2>3, <2>4 DEF Restorable
    <2>6. ASSUME NEW p \in Suppliers, Undoes(s, p), prebooking'[<<req.env, p>>] # "absent"
          PROVE  Undoes(s, p)'
      <3>1. p \in Pinned(req) /\ b.rec.assets.restore[p] = "absent" /\ b.pc = "restore" /\ p \in b.todo
        BY <1>1, <1>4, <1>6, <2>6 DEF Undoes, TearingPCs
      <3>2. c.pc = "restore" /\ p \in c.todo
        BY <2>3, <2>6, <3>1
      <3> QED BY <1>1, <1>4, <1>6, <3>1, <3>2 DEF Undoes
    <2> QED BY <1>1, <1>3, <1>4, <1>6, <1>8, <2>1, <2>4, <2>5, <2>6, StepUndone
  <1> QED BY <1>6, <1>7, <1>9, <1>10, <1>11, StepProvisions
-----------------------------------------------------------------------------
\* A step of one task that keeps, or is done with, the scenarios of its list.
LEMMA MovesAlone ==
    ASSUME Orderly, NEW j \in Jobs, NEW b, b = jobs[j], NEW c, c = jobs'[j],
           \A i \in Jobs : i # j => jobs'[i] = jobs[i],
           \A i \in Jobs : i # j /\ c.sid \in Scenarios => jobs[i].sid # c.sid,
           \A t \in Scenarios \ About(j) : rows'[t] = rows[t] /\ asked'[t] = asked[t],
           \A t \in Sids(b) \ About(j) : t \in Sids(c) /\ c.kind = b.kind,
           failed \subseteq failed', killed \subseteq killed', refreshed \subseteq refreshed'
    PROVE  OnlyMoves(j)
  <1>1. ASSUME NEW i \in Jobs, i # j, jobs[i].sid \in About(j) PROVE FALSE
    <2>1. jobs[i].sid = b.sid /\ b.sid \in Scenarios
      BY <1>1 DEF About
    <2>2. b.kind # "idle"
      BY <2>1, ConstantsAssumption DEF Orderly, Lanes, Lane, IdleJob
    <2> QED BY <1>1, <2>1, <2>2, NoOther
  <1>2. ASSUME NEW t \in Scenarios \ About(j), OnlyRefreshed(t)' PROVE OnlyRefreshed(t)
    <2> SUFFICES ASSUME NEW i \in Jobs, t \in Sids(jobs[i]) PROVE jobs[i].kind = "refresh"
      BY DEF OnlyRefreshed
    <2>1. CASE i = j
      BY <1>2, <2>1 DEF OnlyRefreshed
    <2>2. CASE i # j
      BY <1>2, <2>2 DEF OnlyRefreshed
    <2> QED BY <2>1, <2>2
  <1> QED BY <1>1, <1>2 DEF OnlyMoves

LEMMA BundleSaved ==
    ASSUME NEW row \in Row, NEW o \in Assets, NEW saved, saved = ApplyBundle(row, o)
    PROVE  /\ saved.req = row.req /\ saved.status = "READY" /\ saved # Null
           /\ saved.assets.key = o.key /\ saved.assets.ext = o.ext
           /\ saved.assets.contracts = o.contracts
           /\ saved.assets.restore = IF o.restore = NoAssets.restore THEN row.assets.restore
                                     ELSE o.restore
  <1>1. row.assets \in Assets
    BY RowFields
  <1>2. saved.req = row.req /\ saved.status = "READY"
        /\ saved.assets = [o EXCEPT !.sb = row.assets.sb \cup @,
                                    !.br = row.assets.br \/ @,
                                    !.restore = IF @ = NoAssets.restore
                                                THEN row.assets.restore ELSE @]
    BY DEF ApplyBundle, Row
  <1>3. /\ saved.assets.key = o.key /\ saved.assets.ext = o.ext
        /\ saved.assets.contracts = o.contracts
        /\ saved.assets.restore = IF o.restore = NoAssets.restore THEN row.assets.restore
                                  ELSE o.restore
    BY <1>1, <1>2 DEF Assets
  <1>4. saved # Null
    BY ApplyBundleType, ConstantsAssumption
  <1> QED BY <1>2, <1>3, <1>4

\* What a finished create has made is what was asked for.
LEMMA AllMade ==
    ASSUME NEW b, b.pc = "finish"
    PROVE  Made(b) = Wanted(b.sid, b.rec.req)
  BY DEF Made, Wanted, Prebooks, AfterKey

LEMMA SaveProvisions ==
    ASSUME Orderly, Provisioning, NEW j \in Jobs,
           Finish(j) \/ CreateRaises(j) \/ RefreshRaises(j),
           NEW b, b = jobs[j], NEW s, s = b.sid
    PROVE  Provisioning'
  <1> DEFINE w == Outside
             refs == Refs(Outside, s)
  <1>1. Working(b) /\ Becomes(j, IdleJob)
    BY SaveRows
  <1>2. PICK row : /\ rows' = [rows EXCEPT ![s] = row] /\ row.req = b.rec.req
                   /\ b.pc = "finish" => row = ApplyBundle(b.rec, b.out)
                   /\ b.pc \in CreateCalls => row = FailedRow(b.rec)
                   /\ b.pc = "reregister" => row = b.rec
    BY SaveRows
  <1>3. /\ HasRow(b) /\ rows[s] = b.rec /\ s \in Scenarios /\ b.rec \in Row /\ b.kind # "idle"
        /\ Lane(b) /\ b.rec # Null /\ b \in Job /\ b.rec.req \in Request
        /\ b.rec.assets \in Assets /\ b.out \in Assets /\ asked[s] = b.rec.req
    BY <1>1, WorkRow DEF Job
  <1>4. jobs'[j] = IdleJob /\ (\A i \in Jobs : i # j => jobs'[i] = jobs[i]) /\ rows'[s] = row
        /\ \A t \in Scenarios : t # s => rows'[t] = rows[t]
    BY <1>1, <1>2, <1>3, BecomesTask DEF Orderly, KeyInv, Typed, TypeOK
  <1>5. /\ UNCHANGED <<backoffice, brRules, asked, killed>>
        /\ failed \subseteq failed' /\ refreshed \subseteq refreshed'
    BY DEF Finish, CreateRaises, RefreshRaises, CallFails, world
  <1>6. b.kind \in {"create", "refresh"}
        /\ (b.kind = "create" => b.pc \in CreateCalls \cup {"finish"})
        /\ (b.kind = "refresh" => b.pc \in {"finish", "reregister"})
    <2>1. b.pc \in CreateCalls \cup {"finish", "reregister"}
      BY DEF Finish, CreateRaises, RefreshRaises, At
    <2> QED BY <1>3, <2>1 DEF Lane, Job, Kinds, TearingPCs, TeardownCalls, CreateCalls, All
  <1>7. IdleJob.sid = Null /\ IdleJob.kind = "idle" /\ IdleJob.pc = "idle" /\ Null \notin Scenarios
    BY ConstantsAssumption DEF IdleJob
  <1>8. About(j) = {s} /\ (\A i \in Jobs : jobs'[i].sid # s) /\ OnlyMoves(j)
    <2>1. About(j) = {s}
      BY <1>3, <1>4, <1>7 DEF About
    <2>2. \A i \in Jobs : jobs'[i].sid # s
      BY <1>3, <1>4, <1>7, NoOther
    <2>3. Sids(b) \subseteq {s}
      BY <1>3, <1>6 DEF Lane, Sids
    <2> QED BY <1>4, <1>5, <1>7, <2>1, <2>2, <2>3, MovesAlone
  <1>9. Outside' = w /\ \A t \in Scenarios : Spared(Outside, Outside', t, rows[t])
    BY <1>5, OutsideSame
  <1>10. TaskTidy(w, b) /\ Provisioned(s) /\ RowTidy(s, b.rec)
    BY <1>3 DEF Provisioning, Provisioned
  <1>11. /\ row # Null
         /\ row.assets.key = IF b.pc = "finish" THEN b.out.key ELSE b.rec.assets.key
         /\ row.assets.restore = IF b.pc = "finish" /\ b.out.restore # NoAssets.restore
                                 THEN b.out.restore ELSE b.rec.assets.restore
         /\ row.status = "PENDING" => b.pc = "reregister" /\ row = b.rec
         /\ row.status = "READY" => b.pc \in {"finish", "reregister"}
         /\ b.pc = "finish" => row.assets.ext = b.out.ext /\ row.assets.contracts = b.out.contracts
    <2>1. CASE b.pc = "finish"
      BY <1>2, <1>3, <2>1, BundleSaved
    <2>2. CASE b.pc \in CreateCalls
      <3>1. row.assets = b.rec.assets /\ row.status = "FAILED" /\ row \in Row
        BY <1>2, <1>3, <2>2 DEF FailedRow, Row
      <3>2. row # Null
        BY <3>1, ConstantsAssumption
      <3> QED BY <2>2, <3>1, <3>2 DEF CreateCalls
    <2>3. CASE b.pc = "reregister"
      BY <1>2, <1>3, <2>3
    <2> QED BY <1>6, <2>1, <2>2, <2>3
  <1>12. ASSUME b.kind = "refresh"
         PROVE  b.out = RefreshBundle(b.rec) /\ b.out.restore = NoAssets.restore
                /\ b.out.key = b.rec.assets.key
    BY <1>1, <1>10, <1>12 DEF TaskTidy, RefreshBundle, NoAssets
  <1>13. b.kind = "create" => MakerTidy(b) /\ MadeThere(w, b)
    BY <1>1, <1>10 DEF TaskTidy
  <1>14. RowTidy(s, row)
    <2>1. row.assets.key \in Scenarios => row.assets.key = s
      BY <1>6, <1>10, <1>11, <1>12, <1>13 DEF RowTidy, MakerTidy
    <2>2. Altered(row) \subseteq Pinned(row.req)
      <3> SUFFICES ASSUME NEW p \in Suppliers, row.assets.restore[p] # "none"
                   PROVE  p \in Pinned(b.rec.req)
        BY <1>2 DEF Altered
      <3> QED BY <1>6, <1>10, <1>11, <1>12, <1>13 DEF RowTidy, MakerTidy, Altered
    <2> QED BY <1>10, <1>11, <2>1, <2>2 DEF RowTidy
  <1>15. ASSUME s \notin killed', Ready(s)'
         PROVE  /\ There(w, s, b.rec.req, Wanted(s, b.rec.req))
                /\ NamesKey(s, b.rec.req, row.assets)
    <2>1. row.status = "READY"
      BY <1>4, <1>15 DEF Ready
    <2>2. CASE b.kind = "create"
      <3>1. b.pc = "finish"
        BY <1>6, <1>11, <2>1, <2>2 DEF CreateCalls
      <3>2. NamesKey(s, b.rec.req, b.out)
        BY <1>13, <2>2, <3>1 DEF MakerTidy, AfterKey
      <3> QED BY <1>11, <1>13, <2>2, <3>1, <3>2, AllMade DEF MadeThere, NamesKey
    <2>3. CASE b.kind = "refresh"
      <3>1. OnlyRefreshed(s)
        BY <1>3, <2>3, NotListed DEF OnlyRefreshed
      <3>2. Ready(s)
        BY <1>3, <2>3 DEF Orderly, Current, Fresh, Ready
      <3>3. There(w, s, b.rec.req, Wanted(s, b.rec.req)) /\ NamesKey(s, b.rec.req, b.rec.assets)
        BY <1>3, <1>5, <1>10, <1>15, <3>1, <3>2 DEF Provisioned, Supplied
      <3> QED BY <1>11, <1>12, <2>3, <3>3 DEF NamesKey
    <2> QED BY <1>6, <2>2, <2>3
  <1>16. ASSUME s \notin killed' PROVE Supplied(Outside, s)'
    <2> SUFFICES ASSUME Ready(s)'
                 PROVE  /\ There(w, s, rows'[s].req, Wanted(s, rows'[s].req))
                        /\ NamesKey(s, rows'[s].req, rows'[s].assets)
      BY <1>9 DEF Supplied
    <2> QED BY <1>2, <1>4, <1>15, <1>16
  <1>17. ASSUME s \notin failed' \cup killed' \cup refreshed' PROVE RefsKnown(Outside, s)'
    <2>1. Finish(j) /\ b.pc = "finish" /\ b.kind = "create"
      BY <1>3, <1>6, <1>17 DEF Finish, At, CreateRaises, RefreshRaises, CallFails
    <2>2. RefsKnown(w, s)
      BY <1>5, <1>10, <1>17 DEF Provisioned
    <2>3. Noted(refs, b.out)
      BY <2>1, <2>2 DEF RefsKnown, TaskKnowsRefs, AfterKey
    <2>4. Noted(refs, row.assets)
      BY <1>11, <2>1, <2>3 DEF Noted
    <2>5. \A p \in refs : <<s, p>> \in w.contracts
      BY <2>2 DEF RefsKnown
    <2>6. Refs(Outside', s) = refs /\ Outside'.contracts = w.contracts
      BY <1>9
    <2> HIDE DEF refs, w
    <2> QED BY <1>4, <1>8, <1>11, <2>4, <2>5, <2>6 DEF RefsKnown
  <1>18. Provisioned(s)'
    <2>1. /\ \A p \in Suppliers :
                 <<s, p>> \in contracts' => asked'[s] # Null /\ p \in asked'[s].suppliers
          /\ \A k \in ExistingKeys, p \in Suppliers :
                 <<s, p>> \in keyRefs'[k] => asked'[s] # Null /\ asked'[s].key = k
      BY <1>5, <1>10 DEF Provisioned, backoffice
    <2> QED BY <1>4, <1>14, <1>16, <1>17, <2>1 DEF Provisioned
  <1>19. TaskTidy(Outside', jobs'[j])
    BY <1>4, <1>7 DEF TaskTidy, Working
  <1>20. ASSUME Clean' PROVE Undone'
    <2>1. Undone
      BY <1>5, <1>20 DEF Provisioning, Clean
    <2>2. Finish(j) /\ b.pc = "finish"
      BY <1>20 DEF Clean, Finish, At, CreateRaises, RefreshRaises, CallFails
    <2>3. Restorable(row.assets)
      <3>1. Restorable(b.rec.assets)
        BY <1>3, <2>1 DEF Undone
      <3>2. b.kind = "create" => Restorable(b.out)
        BY <1>1, <2>1 DEF Undone
      <3> QED BY <1>6, <1>11, <1>12, <3>1, <3>2 DEF Restorable
    <2>4. ASSUME NEW p \in Suppliers, Undoes(s, p) PROVE Undoes(s, p)'
      <3>1. p \in Pinned(row.req)
        BY <1>2, <1>3, <2>4 DEF Undoes
      <3>2. ~BeingMade(s)'
        BY <1>8 DEF BeingMade
      <3>3. row.assets.restore[p] = "absent"
        <4>1. CASE b.kind = "create"
          <5>1. BeingMade(s)
            BY <1>1, <4>1 DEF BeingMade
          <5>2. PICK i \in Jobs : jobs[i].sid = s /\ jobs[i].out.restore[p] = "absent"
            BY <2>4, <5>1 DEF Undoes
          <5>3. i = j
            BY <1>3, <5>2, NoOther
          <5>4. b.out.restore # NoAssets.restore
            BY <5>2, <5>3 DEF NoAssets
          <5> QED BY <1>11, <2>2, <5>2, <5>3, <5>4
        <4>2. CASE b.kind = "refresh"
          <5>1. ~BeingMade(s)
            BY <1>3, <4>2, NoOther DEF BeingMade
          <5>2. b.rec.assets.restore[p] = "absent"
            BY <1>3, <2>4, <5>1 DEF Undoes
          <5> QED BY <1>11, <1>12, <4>2, <5>2
        <4> QED BY <1>6, <4>1, <4>2
      <3> QED BY <1>4, <1>8, <1>11, <3>1, <3>2, <3>3 DEF Undoes
    <2>5. UNCHANGED prebooking
      BY <1>5 DEF backoffice
    <2> QED BY <1>2, <1>3, <1>4, <1>7, <1>8, <2>1, <2>3, <2>4, <2>5, StepUndone
  <1> QED BY <1>8, <1>9, <1>18, <1>19, <1>20, StepProvisions

\* The row is deleted: what still refers to the scenario has been detached by then.
LEMMA RemoveRowProvisions ==
    ASSUME Orderly, Provisioning, NEW j \in Jobs, RemoveRow(j),
           NEW b, b = jobs[j], NEW c, c = jobs'[j], NEW s, s = b.sid
    PROVE  Provisioning'
  <1> DEFINE refs == Refs(Outside, s)
  <1>1. Working(b) /\ b.pc = "removeRow"
        /\ UNCHANGED <<backoffice, brRules, asked, failed, killed, refreshed>>
    BY DEF RemoveRow, At, Working, history, world
  <1>2. s \in Scenarios /\ b.kind # "idle" /\ b \in Job /\ Lane(b) /\ b.rec # Null /\ rows[s] = b.rec
    BY <1>1, WorkRow
  <1>3. rows \in [Scenarios -> Row \cup {Null}] /\ rows' = [rows EXCEPT ![s] = Null]
        /\ \A i \in Jobs : i # j => jobs'[i] = jobs[i]
    BY StepTask DEF RemoveRow, Orderly, KeyInv, Typed, TypeOK, TeardownStep
  <1>4. rows'[s] = Null /\ \A t \in Scenarios : t # s => rows'[t] = rows[t]
    BY <1>2, <1>3
  <1>5. b.kind \in {"teardown", All}
    BY <1>1, <1>2 DEF Job, Kinds, Lane, CreateCalls, All
  <1>6. /\ c.sid = Null /\ c.pc \in {"idle", "next"} /\ c.kind # "create"
        /\ Sids(b) \subseteq {s} \/ (c.queue = b.queue /\ c.kind = b.kind)
    <2>1. CASE b.kind = "teardown"
      <3>1. c = IdleJob
        BY <2>1, BecomesTask DEF RemoveRow, Orderly, KeyInv
      <3> QED BY <1>2, <2>1, <3>1 DEF IdleJob, Lane, Sids
    <2>2. CASE b.kind = All
      <3>1. c = [b EXCEPT !.pc = "next", !.sid = Null, !.rec = Null, !.torn = @ \/ b.ok]
        BY <2>2, BecomesTask DEF RemoveRow, Orderly, KeyInv, All
      <3> QED BY <1>2, <2>2, <3>1 DEF Job, All
    <2> QED BY <1>5, <2>1, <2>2
  <1>7. Null \notin Scenarios
    BY ConstantsAssumption
  <1>8. About(j) = {s} /\ (\A i \in Jobs : jobs'[i].sid # s) /\ OnlyMoves(j)
    <2>1. About(j) = {s}
      BY <1>2, <1>6, <1>7 DEF About
    <2>2. \A i \in Jobs : jobs'[i].sid # s
      BY <1>2, <1>3, <1>6, <1>7, NoOther
    <2>3. \A t \in Sids(b) \ About(j) : t \in Sids(c) /\ c.kind = b.kind
      BY <1>6, <2>1 DEF Sids
    <2> QED BY <1>1, <1>3, <1>4, <1>6, <1>7, <2>1, <2>2, <2>3, MovesAlone
  <1>9. Outside' = Outside /\ \A t \in Scenarios : Spared(Outside, Outside', t, rows[t])
    BY <1>1, OutsideSame
  <1>10. Provisioned(s)
    BY <1>2 DEF Provisioning
  <1>11. ASSUME s \notin failed' \cup killed' \cup refreshed' PROVE RefsKnown(Outside, s)'
    <2>1. refs = {}
      BY <1>1, <1>10, <1>11 DEF Provisioned, RefsKnown, TaskKnowsRefs, Detached
    <2>2. Refs(Outside', s) = {}
      BY <1>9, <2>1
    <2> QED BY <1>4, <1>8, <2>2 DEF RefsKnown
  <1>12. Provisioned(s)'
    <2>1. /\ \A p \in Suppliers :
                 <<s, p>> \in contracts' => asked'[s] # Null /\ p \in asked'[s].suppliers
          /\ \A k \in ExistingKeys, p \in Suppliers :
                 <<s, p>> \in keyRefs'[k] => asked'[s] # Null /\ asked'[s].key = k
      BY <1>1, <1>10 DEF Provisioned, backoffice
    <2> QED BY <1>4, <1>11, <2>1 DEF Provisioned, Supplied, Ready
  <1>13. TaskTidy(Outside', c)
    BY <1>6, <1>7 DEF TaskTidy, Working
  <1>14. ASSUME Clean' PROVE Undone'
    <2>1. Undone
      BY <1>1, <1>14 DEF Provisioning, Clean
    <2>2. ASSUME NEW p \in Suppliers, Undoes(s, p) PROVE FALSE
      <3>1. ~BeingMade(s)
        BY <1>2, <1>5, NoOther DEF BeingMade, All
      <3> QED BY <1>1, <2>2, <3>1 DEF Undoes, TearingPCs
    <2>3. UNCHANGED prebooking
      BY <1>1 DEF backoffice
    <2> QED BY <1>4, <1>6, <1>8, <2>1, <2>2, <2>3, StepUndone
  <1> QED BY <1>8, <1>9, <1>12, <1>13, <1>14, StepProvisions

\* The first step of a task.
LEMMA LoadProvisions ==
    ASSUME Orderly, Accounted, Provisioning, NEW j \in Jobs, Load(j),
           NEW b, b = jobs[j], NEW c, c = jobs'[j], NEW s, s = b.sid
    PROVE  Provisioning'
  <1> DEFINE w == Outside
             refs == Refs(Outside, s)
  <1>1. b.pc = "load" /\ b.kind # "idle" /\ b \in Job /\ Lane(b) /\ b.out = NoAssets
    BY DEF Orderly, Lanes, Lane, IdleJob, Load, At, KeyInv, Typed, TypeOK, Accounted, FreshBundles
  <1>2. /\ UNCHANGED <<rows, backoffice, brRules, asked, failed, killed, refreshed>>
        /\ \A i \in Jobs : i # j => jobs'[i] = jobs[i]
    BY BecomesTask DEF Orderly, KeyInv, Load, history, world
  <1>3. Outside' = w /\ (\A t \in Scenarios : Spared(Outside, Outside', t, rows[t]))
        /\ UNCHANGED prebooking
    BY <1>2, OutsideSame DEF backoffice
  <1>4. b.queue = {}
    BY <1>1 DEF Provisioning, TaskTidy
  <1>5. Null \notin Scenarios
    BY ConstantsAssumption
  <1>6. CASE b.kind = All /\ c.kind = All /\ c.pc = "next" /\ c.sid = Null
    <2>1. b.sid = Null
      BY <1>1, <1>6 DEF Lane, All
    <2>2. About(j) = {}
      BY <1>5, <1>6, <2>1 DEF About
    <2>3. OnlyMoves(j)
      BY <1>2, <1>4, <1>5, <1>6, <2>1, <2>2, MovesAlone DEF Sids
    <2>4. TaskTidy(Outside', c)
      BY <1>6 DEF TaskTidy, Working, All
    <2>5. ASSUME Clean' PROVE Undone'
      <3>1. Undone
        BY <1>2, <2>5 DEF Provisioning, Clean
      <3> QED BY <1>3, <1>6, <2>2, <2>3, <3>1, StepUndone DEF All
    <2> QED BY <1>3, <2>2, <2>3, <2>4, <2>5, StepProvisions
  <1>7. CASE /\ b.kind \in {"create", "refresh", "teardown"} /\ c.kind = b.kind
             /\ c.sid = b.sid /\ c.sid \in Scenarios /\ c.queue = {} /\ Working(c)
             /\ c.rec = rows[b.sid] /\ c.rec \in Row /\ c.rec # Null
             /\ b.kind = "create" => /\ c.pc = "register" /\ c.out = b.out
                                     /\ c.todo = c.rec.req.suppliers
             /\ b.kind = "refresh" => /\ c.pc = "reregister" /\ c.out = RefreshBundle(c.rec)
                                      /\ c.rec.status = "READY"
                                      /\ c.todo = c.rec.req.suppliers
             /\ b.kind = "teardown" => \E d : /\ HasRow(d) /\ d.rec = c.rec /\ d.sid = c.sid
                                              /\ d.kind = b.kind /\ c = ToRestore(d)
    <2>1. s \in Scenarios /\ \A i \in Jobs : i # j => jobs[i].sid # s
      BY <1>1, <1>7, NoOther
    <2>2. ~BeingMade(s) /\ (BeingMade(s)' <=> b.kind = "create")
      BY <1>1, <1>2, <1>7, <2>1 DEF BeingMade, Working
    <2>3. About(j) = {s}
      BY <1>7 DEF About
    <2>4. OnlyMoves(j)
      BY <1>2, <1>4, <1>7, <2>1, <2>3, MovesAlone DEF Sids
    <2>5. Provisioned(s) /\ RowTidy(s, c.rec)
      BY <1>7, <2>1 DEF Provisioning, Provisioned
    <2>6. b.kind = "create" => c.rec.assets = NoAssets /\ c.pc = "register" /\ c.out = NoAssets
      <3>1. b.kind = "create" => rows[s].status = "PENDING"
        BY DEF Orderly, Current, Fresh
      <3> QED BY <1>1, <1>7, <2>5, <3>1 DEF RowTidy
    <2>7. b.kind = "teardown" =>
            /\ c.pc \in {"restore", "cleanBr", "unmock"}
            /\ Altered(c.rec) # {} => c.pc = "restore" /\ c.todo = Altered(c.rec)
      BY <1>7, RestoreNext DEF AtRestore, AtCleanBr, AtUnmock
    <2>8. OnlyRefreshed(s)' => OnlyRefreshed(s)
      <3> SUFFICES ASSUME OnlyRefreshed(s)' PROVE OnlyRefreshed(s)
        OBVIOUS
      <3>1. s \in Sids(c)
        BY <1>5, <1>7 DEF Sids
      <3>2. b.kind = "refresh"
        BY <1>7, <3>1 DEF OnlyRefreshed
      <3> QED BY <1>1, <1>7, <3>2, NotListed DEF OnlyRefreshed
    <2>9. ASSUME RefsKnown(Outside, s) PROVE TaskKnowsRefs(refs, c)
      <3>1. CASE b.kind = "create"
        <4>1. Noted(refs, NoAssets)
          BY <1>7, <2>2, <2>6, <2>9, <3>1 DEF RefsKnown
        <4>2. refs = {}
          BY <4>1 DEF Noted, NoAssets
        <4> QED BY <1>7, <2>6, <3>1, <4>2 DEF TaskKnowsRefs, AfterKey, Detached
      <3>2. CASE b.kind # "create"
        <4>1. c.pc \notin Detached
          BY <1>7, <2>7, <3>2 DEF Detached
        <4> QED BY <1>7, <3>2, <4>1 DEF TaskKnowsRefs
      <3> QED BY <3>1, <3>2
    <2>10. Provisioned(s)'
      <3>1. RefsKnown(Outside, s) => \A i \in Jobs : jobs'[i].sid = s =>
               jobs'[i] = jobs[i] \/ TaskKnowsRefs(Refs(Outside, s), jobs'[i])
        BY <1>2, <2>9
      <3> QED BY <1>2, <2>1, <2>2, <2>8, <3>1, SameProvisioned
    <2>11. TaskTidy(Outside', c)
      <3>1. c.pc \notin {"load", "sweep", "attachPut", "detachPut"}
        BY <1>7, <2>7
      <3>2. ASSUME b.kind = "create" PROVE MakerTidy(c) /\ MadeThere(w, c)
        <4>1. MakerTidy(c)
          <5>1. NoKey \notin Scenarios
            BY ConstantsAssumption DEF Keys
          <5> QED BY <2>6, <3>2, <5>1 DEF MakerTidy, NoAssets, Attaches, AfterKey
        <4>2. Made(c).contracts = {} /\ Made(c).sb = {} /\ Made(c).keys = {}
              /\ Made(c).rules = {} /\ Made(c).pins = {}
          BY <2>6, <3>2 DEF Made, Prebooks, AfterKey
        <4> QED BY <4>1, <4>2 DEF MadeThere, There
      <3> QED BY <1>3, <1>7, <3>1, <3>2 DEF TaskTidy
    <2>12. ASSUME Clean' PROVE Undone'
      <3>1. Undone
        BY <1>2, <2>12 DEF Provisioning, Clean
      <3>2. c.kind = "create" => Restorable(c.out)
        BY <1>7, <2>6 DEF Restorable, NoAssets
      <3>3. ASSUME NEW p \in Suppliers, Undoes(s, p) PROVE Undoes(s, p)'
        <4>1. c.rec.assets.restore[p] = "absent" /\ p \in Altered(c.rec)
              /\ p \in Pinned(c.rec.req)
          BY <1>7, <2>2, <3>3 DEF Undoes, Altered
        <4>2. b.kind # "create"
          BY <2>6, <4>1 DEF NoAssets
        <4>3. c.pc \in TearingPCs => c.pc = "restore" /\ p \in c.todo
          BY <1>7, <2>7, <4>1, <4>2 DEF TearingPCs, TeardownCalls
        <4>4. \A i \in Jobs : jobs'[i].sid = s => jobs'[i] = c
          BY <1>2, <2>1
        <4> QED BY <1>2, <1>7, <2>2, <4>1, <4>2, <4>3, <4>4 DEF Undoes
      <3> QED BY <1>2, <1>3, <2>1, <2>3, <2>4, <3>1, <3>2, <3>3, StepUndone DEF Undone
    <2> QED BY <1>3, <2>3, <2>4, <2>10, <2>11, <2>12, StepProvisions
  <1> QED BY <1>6, <1>7, LoadMoves

\* The steps of a teardown of everything between two rows of its list.
LEMMA TeardownAllProvisions ==
    ASSUME Orderly, Provisioning, NEW j \in Jobs, TeardownAllStep(j),
           NEW b, b = jobs[j], NEW c, c = jobs'[j]
    PROVE  Provisioning'
  <1>1. b.pc \in {"next", "sweep"} /\ b \in Job /\ Lane(b)
        /\ (TakeNext(j) \/ QueueDone(j) => b.pc = "next")
    BY DEF TeardownAllStep, TakeNext, QueueDone, Sweep, SweepFails, At, Orderly, Lanes,
           KeyInv, Typed, TypeOK
  <1>2. b.kind = All /\ b.sid = Null
    BY <1>1 DEF Job, Lane, IdleJob, CreateCalls, TearingPCs, TeardownCalls, Kinds, All
  <1>3. /\ UNCHANGED <<rows, backoffice, brRules, asked, failed, killed, refreshed>>
        /\ \A i \in Jobs : i # j => jobs'[i] = jobs[i]
    BY BecomesTask DEF TeardownAllStep, TakeNext, QueueDone, Sweep, SweepFails, Orderly, KeyInv,
                       history, world
  <1>4. /\ Outside' = Outside /\ UNCHANGED prebooking
        /\ \A t \in Scenarios : Spared(Outside, Outside', t, rows[t])
    BY <1>3, OutsideSame DEF backoffice
  <1>5. Null \notin Scenarios
    BY ConstantsAssumption
  <1>6. CASE TakeNext(j)
    <2>1. PICK e \in b.queue, d \in Job :
             /\ HasRow(d) /\ d.sid = e.sid /\ d.rec = e.row /\ d.kind = All
             /\ d.queue = b.queue \ {e} /\ c = ToRestore(d) /\ SameWork(d, c)
             /\ c.pc \in {"restore", "cleanBr", "unmock"} /\ rows[e.sid] = e.row /\ e \in Entry
      BY <1>6, TakeNextMoves
    <2> DEFINE s == e.sid
    <2>2. /\ s \in Scenarios /\ c.sid = s /\ c.rec = rows[s] /\ c.kind = b.kind
          /\ c.queue = b.queue \ {e}
      BY <1>2, <2>1 DEF SameWork, Entry
    <2> HIDE DEF s
    <2>3. \A i \in Jobs : i # j => jobs[i].sid # s /\ jobs'[i].sid # s
      <3>1. \A i \in Jobs : i # j => jobs[i].kind = "idle"
        BY <1>2 DEF Orderly, Alone, All
      <3>2. \A i \in Jobs : i # j => jobs[i] = IdleJob
        BY <3>1 DEF Orderly, Lanes, Lane
      <3> QED BY <1>3, <1>5, <2>2, <3>2 DEF IdleJob
    <2>4. ~BeingMade(s) /\ ~BeingMade(s)'
      BY <1>2, <2>2, <2>3 DEF BeingMade, All
    <2>5. About(j) = {s}
      BY <1>2, <1>5, <2>2 DEF About
    <2>6. OnlyMoves(j)
      <3>1. Sids(b) \subseteq Sids(c)
        BY <1>2, <2>1, <2>2, ConstantsAssumption DEF Sids, Entry, s
      <3> QED BY <1>3, <2>2, <2>3, <2>5, <3>1, MovesAlone
    <2>7. Provisioned(s)'
      <3>1. ~OnlyRefreshed(s)'
        <4>1. s \in Sids(c)
          BY <1>5, <2>2 DEF Sids
        <4> QED BY <1>2, <2>2, <4>1 DEF OnlyRefreshed, All
      <3>2. \A refs : TaskKnowsRefs(refs, c)
        BY <1>2, <2>1, <2>2 DEF TaskKnowsRefs, Detached, All
      <3>3. \A i \in Jobs : jobs'[i].sid = s => TaskKnowsRefs(Refs(Outside, s), jobs'[i])
        BY <2>3, <3>2
      <3> QED BY <1>3, <2>2, <2>4, <3>1, <3>3, SameProvisioned
    <2>8. TaskTidy(Outside', c)
      BY <1>2, <2>1, <2>2 DEF TaskTidy, All
    <2>9. ASSUME Clean' PROVE Undone'
      <3>1. Undone
        BY <1>3, <2>9 DEF Provisioning, Clean
      <3>2. ASSUME NEW p \in Suppliers, Undoes(s, p) PROVE Undoes(s, p)'
        <4>1. c.rec.assets.restore[p] = "absent" /\ p \in Altered(c.rec)
              /\ p \in Pinned(c.rec.req)
          BY <2>2, <2>4, <3>2 DEF Undoes, Altered
        <4>2. AtRestore(c)
          BY <2>1, RestoreNext
        <4>3. c.pc = "restore" /\ p \in c.todo
          BY <4>1, <4>2 DEF AtRestore
        <4>4. \A i \in Jobs : jobs'[i].sid = s => jobs'[i] = c
          BY <2>3
        <4> QED BY <1>3, <2>2, <2>4, <3>2, <4>1, <4>3, <4>4 DEF Undoes
      <3> QED BY <1>2, <1>3, <1>4, <2>2, <2>5, <2>6, <3>1, <3>2, StepUndone DEF Undone, All
    <2> QED BY <1>4, <2>5, <2>6, <2>7, <2>8, <2>9, StepProvisions
  <1>7. CASE ~TakeNext(j)
    <2>1. b.queue = {}
      BY <1>1, <1>7 DEF TeardownAllStep, QueueDone, Sweep, SweepFails, At, Provisioning, TaskTidy
    <2>2. c = IdleJob \/ c = [b EXCEPT !.pc = "sweep"]
      BY <1>7, BecomesTask
         DEF TeardownAllStep, QueueDone, Sweep, SweepFails, Orderly, KeyInv
    <2>3. c.sid = Null /\ c.pc \in {"idle", "sweep"} /\ c.queue = {}
      BY <1>1, <1>2, <2>1, <2>2 DEF Job, IdleJob
    <2>4. About(j) = {}
      BY <1>2, <1>5, <2>3 DEF About
    <2>5. OnlyMoves(j)
      BY <1>2, <1>3, <1>5, <2>1, <2>3, <2>4, MovesAlone DEF Sids
    <2>6. TaskTidy(Outside', c)
      BY <2>3 DEF TaskTidy, Working
    <2>7. ASSUME Clean' PROVE Undone'
      <3>1. Undone /\ ~Working(c)
        BY <1>3, <2>3, <2>7 DEF Provisioning, Clean, Working
      <3> QED BY <1>4, <2>4, <2>5, <3>1, StepUndone
    <2> QED BY <1>4, <2>4, <2>5, <2>6, <2>7, StepProvisions
  <1> QED BY <1>6, <1>7

\* A caller starts a task.
LEMMA SpawnProvisions ==
    ASSUME ~Overlap, Orderly, Provisioning, NEW s \in Scenarios,
           NEW kind \in {"create", "refresh", "teardown"}, MayStart(s), Spawn(kind, s),
           UNCHANGED <<world, refreshed, failed, killed>>,
           \A t \in Scenarios : t # s => rows'[t] = rows[t] /\ asked'[t] = asked[t],
           \/ rows'[s] = rows[s] /\ asked'[s] = asked[s]
           \/ rows[s] = Null /\ asked[s] = Null /\ rows'[s] # Null /\ rows'[s].status = "PENDING"
              /\ rows'[s].assets = NoAssets
    PROVE  Provisioning'
  <1> DEFINE new == [IdleJob EXCEPT !.kind = kind, !.pc = "load", !.sid = s]
  <1>1. PICK j \in Jobs : Idle(j) /\ Becomes(j, new)
    BY DEF Spawn
  <1>2. new.pc = "load" /\ new.sid = s /\ new.queue = {} /\ ~Working(new)
    BY DEF IdleJob, Working
  <1> HIDE DEF new
  <1>3. jobs'[j] = new /\ \A i \in Jobs : i # j => jobs'[i] = jobs[i]
    BY <1>1, BecomesTask DEF Orderly, KeyInv
  <1>4. UNCHANGED <<backoffice, brRules, refreshed, failed, killed>> /\ Null \notin Scenarios
    BY ConstantsAssumption DEF world
  <1>5. Quiet(s) /\ OnlyRefreshed(s) /\ \A i \in Jobs : jobs[i].sid # s
    BY <1>4 DEF MayStart, Quiet, Sids, OnlyRefreshed
  <1>6. jobs[j].sid = Null /\ Sids(jobs[j]) = {}
    BY <1>1 DEF Idle, Orderly, Lanes, Lane, IdleJob, Sids
  <1>7. About(j) = {s}
    BY <1>2, <1>3, <1>4, <1>6 DEF About
  <1>8. OnlyMoves(j)
    <2>1. \A i \in Jobs : i # j => jobs[i].sid # jobs'[j].sid
      BY <1>2, <1>3, <1>5
    <2> QED BY <1>3, <1>4, <1>6, <1>7, <2>1, MovesAlone
  <1>9. /\ Outside' = Outside /\ UNCHANGED <<contracts, keyRefs, prebooking>>
        /\ \A t \in Scenarios : Spared(Outside, Outside', t, rows[t])
    BY <1>4, OutsideSame DEF backoffice
  <1>10. ~BeingMade(s) /\ ~BeingMade(s)' /\ \A i \in Jobs : jobs'[i].sid = s => jobs'[i] = new
    <2>1. \A i \in Jobs : jobs'[i].sid = s => jobs'[i] = new
      BY <1>3, <1>5
    <2> QED BY <1>2, <1>5, <2>1 DEF BeingMade
  <1>11. \A refs : TaskKnowsRefs(refs, new)
    BY <1>2 DEF TaskKnowsRefs, BeforeKey, AfterKey, CreateCalls, Detached
  <1>12. Provisioned(s)
    BY DEF Provisioning
  <1>13. Provisioned(s)'
    <2>1. CASE rows'[s] = rows[s] /\ asked'[s] = asked[s]
      <3>1. \A i \in Jobs : jobs'[i].sid = s => TaskKnowsRefs(Refs(Outside, s), jobs'[i])
        BY <1>10, <1>11
      <3> QED BY <1>4, <1>5, <1>10, <2>1, <3>1, SameProvisioned
    <2>2. CASE asked[s] = Null /\ rows'[s] # Null /\ rows'[s].status = "PENDING"
               /\ rows'[s].assets = NoAssets
      <3>1. (\A p \in Suppliers : <<s, p>> \notin contracts)
            /\ \A k \in ExistingKeys, p \in Suppliers : <<s, p>> \notin keyRefs[k]
        BY <1>12, <2>2 DEF Provisioned
      <3>2. Refs(Outside', s) = {}
        BY <1>9, <3>1 DEF Refs, Outside
      <3>3. RefsKnown(Outside, s)'
        BY <1>10, <1>11, <2>2, <3>2 DEF RefsKnown, Noted
      <3>4. RowTidy(s, rows'[s])
        <4>1. NoKey \notin Scenarios
          BY ConstantsAssumption DEF Keys
        <4> QED BY <2>2, <4>1 DEF RowTidy, NoAssets, Altered
      <3>5. ~Ready(s)'
        BY <2>2 DEF Ready
      <3> QED BY <1>9, <3>1, <3>3, <3>4, <3>5 DEF Provisioned, Supplied
    <2> QED BY <2>1, <2>2
  <1>14. TaskTidy(Outside', jobs'[j])
    BY <1>2, <1>3 DEF TaskTidy
  <1>15. ASSUME Clean' PROVE Undone'
    <2>1. Undone
      BY <1>4, <1>15 DEF Provisioning, Clean
    <2>2. rows'[s] # Null => Restorable(rows'[s].assets)
      BY <2>1 DEF Undone, Restorable, NoAssets
    <2>3. ASSUME NEW p \in Suppliers, Undoes(s, p) PROVE Undoes(s, p)' /\ rows'[s] = rows[s]
      <3>1. rows'[s] = rows[s] /\ rows[s].assets.restore[p] = "absent" /\ p \in Pinned(rows[s].req)
            /\ rows[s] # Null
        BY <1>10, <2>3 DEF Undoes
      <3>2. new.pc \notin TearingPCs
        BY <1>2 DEF TearingPCs, TeardownCalls
      <3> QED BY <1>10, <3>1, <3>2 DEF Undoes
    <2> QED BY <1>2, <1>3, <1>7, <1>8, <1>9, <2>1, <2>2, <2>3, StepUndone
  <1> QED BY <1>7, <1>8, <1>9, <1>13, <1>14, <1>15, StepProvisions

LEMMA AskProvisions ==
    ASSUME ~Overlap, Orderly, Provisioning, Ask
    PROVE  Provisioning'
  <1>1. rows \in [Scenarios -> Row \cup {Null}] /\ asked \in [Scenarios -> Request \cup {Null}]
    BY DEF Orderly, KeyInv, Typed, TypeOK
  <1>2. ASSUME NEW s \in Scenarios, Submit(s) PROVE Provisioning'
    <2>1. PICK req \in RequestsOf[s] :
            /\ rows' = [rows EXCEPT ![s] = [req |-> req, status |-> "PENDING",
                                            assets |-> NoAssets]]
            /\ asked' = [asked EXCEPT ![s] = req]
      BY <1>2 DEF Submit
    <2> DEFINE row == [req |-> req, status |-> "PENDING", assets |-> NoAssets]
    <2>2. row \in Row /\ row.assets = NoAssets /\ row.status = "PENDING" /\ row # Null
      BY NoAssetsType, ConstantsAssumption DEF Row
    <2> HIDE DEF row
    <2>3. rows'[s] = row /\ \A t \in Scenarios : t # s => rows'[t] = rows[t] /\ asked'[t] = asked[t]
      BY <1>1, <2>1 DEF row
    <2>4. asked[s] = Null /\ Spawn("create", s) /\ MayStart(s)
          /\ UNCHANGED <<world, refreshed, failed, killed>>
      BY <1>2 DEF Submit
    <2>5. rows[s] = Null
      <3>1. rows[s] # Null => rows[s] \in Row /\ rows[s].req = asked[s]
        BY <1>1 DEF Orderly, KeyInv, RowsBound, Bound
      <3> QED BY <2>4, <3>1, RowFields, ConstantsAssumption
    <2> QED BY <2>2, <2>3, <2>4, <2>5, SpawnProvisions
  <1>3. ASSUME NEW s \in Scenarios, AskRefresh(s) PROVE Provisioning'
    BY <1>3, SpawnProvisions DEF AskRefresh, history
  <1>4. ASSUME NEW s \in Scenarios, AskTeardown(s) PROVE Provisioning'
    BY <1>4, SpawnProvisions DEF AskTeardown, history
  <1>5. ASSUME NEW e \in Envs, AskTeardownAll(e) PROVE Provisioning'
    <2> DEFINE new == [IdleJob EXCEPT !.kind = "teardown_all", !.pc = "load", !.env = e]
    <2>1. PICK j \in Jobs : Idle(j) /\ Becomes(j, new)
      BY <1>5 DEF AskTeardownAll
    <2>2. new.pc = "load" /\ new.sid = Null /\ new.queue = {} /\ ~Working(new)
      BY DEF IdleJob, Working
    <2> HIDE DEF new
    <2>3. jobs'[j] = new /\ \A i \in Jobs : i # j => jobs'[i] = jobs[i]
      BY <2>1, BecomesTask DEF Orderly, KeyInv
    <2>4. jobs[j].sid = Null /\ Sids(jobs[j]) = {} /\ Null \notin Scenarios
      BY <2>1, ConstantsAssumption DEF Idle, Orderly, Lanes, Lane, IdleJob, Sids
    <2>5. UNCHANGED <<rows, backoffice, brRules, asked, refreshed, failed, killed>>
      BY <1>5 DEF AskTeardownAll, history, world
    <2>6. About(j) = {}
      BY <2>2, <2>3, <2>4 DEF About
    <2>7. OnlyMoves(j)
      BY <2>2, <2>3, <2>4, <2>5, <2>6, MovesAlone
    <2>8. /\ Outside' = Outside /\ UNCHANGED prebooking
          /\ \A t \in Scenarios : Spared(Outside, Outside', t, rows[t])
      BY <2>5, OutsideSame DEF backoffice
    <2>9. TaskTidy(Outside', jobs'[j])
      BY <2>2, <2>3 DEF TaskTidy
    <2>10. ASSUME Clean' PROVE Undone'
      <3>1. Undone
        BY <2>5, <2>10 DEF Provisioning, Clean
      <3> QED BY <2>2, <2>3, <2>6, <2>7, <2>8, <3>1, StepUndone
    <2> QED BY <2>6, <2>7, <2>8, <2>9, <2>10, StepProvisions
  <1> QED BY <1>2, <1>3, <1>4, <1>5 DEF Ask

LEMMA CrashProvisions == ASSUME Orderly, Provisioning, Crash PROVE Provisioning'
  <1>1. /\ UNCHANGED <<rows, backoffice, brRules, asked, refreshed, failed>>
        /\ killed \subseteq killed'
        /\ \A j \in Jobs : jobs'[j] = IdleJob /\ Sids(jobs[j]) \subseteq killed'
    BY DEF Crash, world
  <1>2. IdleJob.sid = Null /\ IdleJob.pc = "idle" /\ Null \notin Scenarios /\ ~Working(IdleJob)
    BY ConstantsAssumption DEF IdleJob, Working
  <1>3. ASSUME NEW s \in Scenarios, s \notin killed'
        PROVE  OnlyRefreshed(s) /\ ~BeingMade(s) /\ \A j \in Jobs : jobs[j].sid # s
    <2>1. \A j \in Jobs : s \notin Sids(jobs[j])
      BY <1>1, <1>3
    <2> QED BY <1>2, <2>1 DEF OnlyRefreshed, BeingMade, Sids
  <1>4. \A s \in Scenarios : ~BeingMade(s)' /\ \A j \in Jobs : jobs'[j].sid # s
    BY <1>1, <1>2 DEF BeingMade
  <1>5. ASSUME NEW s \in Scenarios PROVE Provisioned(s)'
    BY <1>1, <1>3, <1>4, SameProvisioned
  <1>6. ASSUME NEW j \in Jobs PROVE TaskTidy(Outside', jobs'[j])
    BY <1>1, <1>2 DEF TaskTidy
  <1>7. ASSUME Clean' PROVE Undone'
    <2>1. killed' = {} /\ Undone
      BY <1>1, <1>7 DEF Provisioning, Clean
    <2>2. ASSUME NEW s \in Scenarios, NEW p \in Suppliers, Undoes(s, p) PROVE Undoes(s, p)'
      BY <1>1, <1>3, <1>4, <2>1, <2>2 DEF Undoes
    <2>3. UNCHANGED prebooking
      BY <1>1 DEF backoffice
    <2> QED BY <1>1, <1>2, <2>1, <2>2, <2>3 DEF Undone
  <1> QED BY <1>5, <1>6, <1>7 DEF Provisioning

LEMMA InitProvisioning == Init => Provisioning
  <1> SUFFICES ASSUME Init PROVE Provisioning
    OBVIOUS
  <1>1. (\A j \in Jobs : jobs[j] = IdleJob) /\ (\A s \in Scenarios : rows[s] = Null)
    BY DEF Init
  <1>2. IdleJob.sid = Null /\ IdleJob.pc = "idle" /\ Null \notin Scenarios /\ ~Working(IdleJob)
    BY ConstantsAssumption DEF IdleJob, Working
  <1>3. ASSUME NEW s \in Scenarios PROVE Provisioned(s)
    <2>1. Refs(Outside, s) = {}
      BY DEF Init, Refs, Outside
    <2>2. RefsKnown(Outside, s)
      BY <1>1, <1>2, <2>1 DEF RefsKnown
    <2> QED BY <1>1, <2>2 DEF Init, Provisioned, Supplied, Ready
  <1>4. ASSUME NEW j \in Jobs PROVE TaskTidy(Outside, jobs[j])
    BY <1>1, <1>2 DEF TaskTidy
  <1>5. Undone
    BY <1>1, <1>2 DEF Init, Undone
  <1> QED BY <1>3, <1>4, <1>5 DEF Provisioning

LEMMA NextProvisioning ==
    ASSUME ~Overlap
    PROVE  Orderly /\ Accounted /\ Provisioning /\ Unshared /\ [Next]_vars => Provisioning'
  <1> SUFFICES ASSUME Orderly, Accounted, Provisioning, Unshared, [Next]_vars
               PROVE  Provisioning'
    OBVIOUS
  <1>1. CASE UNCHANGED vars
    <2>1. UNCHANGED <<rows, jobs, backoffice, brRules, asked, refreshed, failed, killed>>
      BY <1>1 DEF vars, history, world
    <2>2. Outside' = Outside /\ UNCHANGED prebooking
      BY <2>1, OutsideSame DEF backoffice
    <2>3. \A s \in Scenarios : (BeingMade(s)' <=> BeingMade(s)) /\ (OnlyRefreshed(s)' <=> OnlyRefreshed(s))
      BY <2>1 DEF BeingMade, OnlyRefreshed
    <2>4. ASSUME NEW s \in Scenarios PROVE Provisioned(s)'
      BY <2>1, <2>3, SameProvisioned
    <2>5. \A j \in Jobs : TaskTidy(Outside', jobs'[j])
      BY <2>1, <2>2 DEF Provisioning
    <2>6. Undone => Undone'
      BY <2>1, <2>2, <2>3 DEF Undone, Undoes
    <2> QED BY <2>1, <2>4, <2>5, <2>6 DEF Provisioning, Clean
  <1>2. ASSUME NEW j \in Jobs, CreateStep(j) \/ RefreshStep(j) \/ TeardownStep(j)
        PROVE  Provisioning'
    BY <1>2, CreateProvisions, RefreshProvisions, TeardownProvisions, SaveProvisions,
       RemoveRowProvisions
  <1>3. ASSUME NEW j \in Jobs, Step(j) PROVE Provisioning'
    BY <1>2, <1>3, LoadProvisions, SaveProvisions, TeardownAllProvisions DEF Step
  <1> QED BY <1>1, <1>3, AskProvisions, CrashProvisions DEF Next

LEMMA AlwaysProvisioning == ASSUME ~Overlap PROVE Spec /\ []Unshared => [](Orderly /\ Provisioning)
  <1>1. Init => Orderly /\ Accounted /\ Provisioning
    BY InitOrderly, InitAccounted, InitProvisioning
  <1>2. Orderly /\ Accounted /\ Provisioning /\ Unshared /\ [Next]_vars
          => (Orderly /\ Accounted /\ Provisioning)'
    BY NextOrderly, NextAccounted, NextProvisioning
  <1> QED BY <1>1, <1>2, PTL DEF Spec

\* As long as no two scenarios use the same existing apiKey, or pin the same supplier
\* record: a READY scenario that no task works on, and no crash has cut a task of, has the
\* contracts it asked for and no others, an apiKey that exists, its SmartBooking entities,
\* its rules, and its pinned supplier records (create_scenario, teardown_scenario).
THEOREM ReadyCanBeRun == ASSUME ~Overlap PROVE Spec /\ []Unshared => []ReadyIsProvisioned
  <1>1. Orderly /\ Provisioning => ReadyIsProvisioned
    <2> SUFFICES ASSUME Orderly, Provisioning, NEW s \in Scenarios, Ready(s), Settled(s)
                 PROVE  LET req == rows[s].req
                            a == rows[s].assets
                        IN /\ LiveContracts(s) = req.suppliers
                           /\ (req.depth = "full" \/ req.key # NoKey) => a.key \in liveKeys
                           /\ req.sb => LiveSb(s) = SbKinds
                           /\ NeedsBr(req) => s \in brRules
                           /\ \A p \in Pinned(req) : prebooking[<<req.env, p>>] = req.pin[p]
      BY DEF ReadyIsProvisioned
    <2> DEFINE req == rows[s].req
               all == Wanted(s, req)
    <2>1. /\ rows[s] # Null /\ rows[s] \in Row /\ req \in Request /\ req.suppliers \subseteq Suppliers
          /\ asked[s] = req
      BY RowFields DEF Ready, Orderly, KeyInv, Typed, TypeOK, RowsBound, Bound
    <2>2. OnlyRefreshed(s) /\ Provisioned(s) /\ s \notin killed
      BY DEF Settled, Quiet, OnlyRefreshed, Provisioning
    <2>3. There(Outside, s, req, all) /\ NamesKey(s, req, rows[s].assets)
      BY <2>2 DEF Provisioned, Supplied
    <2>4. LiveContracts(s) = req.suppliers
      <3>1. all.contracts = req.suppliers
        BY DEF Wanted
      <3>2. \A p \in req.suppliers : <<s, p>> \in contracts
        BY <2>3, <3>1 DEF There, Outside
      <3>3. \A p \in Suppliers : <<s, p>> \in contracts => p \in req.suppliers
        BY <2>1, <2>2 DEF Provisioned
      <3> QED BY <2>1, <3>2, <3>3 DEF LiveContracts
    <2>5. (req.depth = "full" \/ req.key # NoKey) => rows[s].assets.key \in liveKeys
      <3>1. (req.depth = "full" \/ req.key # NoKey) => all.keys # {}
        BY DEF Wanted
      <3> QED BY <2>3, <3>1 DEF NamesKey, There, Outside
    <2>6. req.sb => LiveSb(s) = SbKinds
      <3>1. req.sb => all.sb = SbKinds
        BY DEF Wanted
      <3>2. req.sb => \A kind \in SbKinds : <<s, kind>> \in sbEntities
        BY <2>3, <3>1 DEF There, Outside
      <3> QED BY <3>2 DEF LiveSb
    <2>7. NeedsBr(req) => s \in brRules
      BY <2>3 DEF There, Outside, Wanted
    <2>8. \A p \in Pinned(req) : prebooking[<<req.env, p>>] = req.pin[p]
      BY <2>3 DEF There, Outside, Wanted
    <2> QED BY <2>4, <2>5, <2>6, <2>7, <2>8
  <1> QED BY <1>1, AlwaysProvisioning, PTL

\* An existing apiKey lists only contracts that exist, except those of scenarios that were
\* refreshed or of which a call failed or a task died: whoever deletes a contract knows
\* from its own bundle or row that an apiKey lists it (attach_contracts, detach_contracts).
THEOREM RefsNeverDangle == ASSUME ~Overlap PROVE Spec /\ []Unshared => []NoDanglingRefs
  <1>1. Orderly /\ Provisioning => NoDanglingRefs
    <2> SUFFICES ASSUME Orderly, Provisioning, NEW k \in ExistingKeys, NEW c \in keyRefs[k],
                        c[1] \notin failed \cup killed \cup refreshed
                 PROVE  c \in contracts
      BY DEF NoDanglingRefs
    <2>1. PICK s \in Scenarios, p \in Suppliers : c = <<s, p>>
      BY DEF Orderly, KeyInv, Typed, TypeOK, Contracts
    <2>2. RefsKnown(Outside, s)
      BY <2>1 DEF Provisioning, Provisioned
    <2>3. p \in Refs(Outside, s)
      BY <2>1 DEF Refs, Outside
    <2> QED BY <2>1, <2>2, <2>3 DEF RefsKnown, Outside
  <1> QED BY <1>1, AlwaysProvisioning, PTL

\* While no call failed and no task died, the prebooking flag of every supplier is back
\* where it was once no row and no task is left: the create that changes it notes the old
\* value before it writes, and that note outlives every save (set_supplier_prebooking,
\* apply_bundle, teardown_scenario).
THEOREM FlagsAreRestored == ASSUME ~Overlap PROVE Spec /\ []Unshared => []PrebookingRestored
  <1>1. Orderly /\ Provisioning => PrebookingRestored
    <2> SUFFICES ASSUME Provisioning, \A s \in Scenarios : rows[s] = Null, Clean,
                        NEW e \in Envs, NEW p \in Suppliers
                 PROVE  prebooking[<<e, p>>] = "absent"
      BY DEF PrebookingRestored, Clean
    <2> QED BY DEF Provisioning, Undone, Undoes
  <1> QED BY <1>1, AlwaysProvisioning, PTL

-----------------------------------------------------------------------------
\* How long a task can go on.

\* The places of the calls of a task, in order; the two calls for a pinned supplier are
\* one place, since the loop over the suppliers is around both.
Place(pc) ==
    CASE pc \in {"register", "reregister", "restore"} -> 1
      [] pc \in {"prebookGet", "prebookPut", "cleanBr"} -> 2
      [] pc \in {"contracts", "unmock"} -> 3
      [] pc \in {"sbGroup", "detachGet"} -> 4
      [] pc \in {"sbConfig", "detachPut"} -> 5
      [] pc \in {"createKey", "attachGet", "deleteContracts"} -> 6
      [] pc \in {"attachPut", "deleteKey"} -> 7
      [] pc \in {"clearCache", "deleteSb"} -> 8
      [] pc \in {"provisionBr", "removeRow"} -> 9
      [] pc \in {"finish", "next"} -> 10
      [] OTHER -> 11

\* What is left of a task gets less: it is over, or has read its row, or has one row less
\* in its list, or is at a later call, or has one item less in the loop it is in.
Fewer(S, T) == S \subseteq T /\ S # T
LessHere(b, c) ==
    \/ Fewer(c.todo, b.todo)
    \/ c.todo = b.todo /\ b.pc = "prebookGet" /\ c.pc = "prebookPut"
    \/ c.todo = b.todo /\ b.pc = "deleteSb" /\ Fewer(c.sbTodo, b.sbTodo)
Later(b, c) == Place(c.pc) > Place(b.pc) \/ (Place(c.pc) = Place(b.pc) /\ LessHere(b, c))
Forward(b, c) ==
    \/ c = IdleJob /\ b # IdleJob
    \/ b.pc = "load" /\ c.pc \notin {"load", "idle"}
    \/ /\ b.pc \notin {"load", "idle"} /\ c.pc \notin {"load", "idle"}
       /\ Fewer(c.queue, b.queue) \/ (c.queue = b.queue /\ Later(b, c))

\* Every step of a task takes it forward, and nobody else touches it.
OnlyForward == \A j \in Jobs :
    /\ Step(j) => Forward(jobs[j], jobs'[j])
    /\ jobs'[j] = jobs[j] \/ jobs[j] = IdleJob \/ Forward(jobs[j], jobs'[j])

LEMMA Places ==
    /\ Place("register") = 1 /\ Place("reregister") = 1 /\ Place("restore") = 1
    /\ Place("prebookGet") = 2 /\ Place("prebookPut") = 2 /\ Place("cleanBr") = 2
    /\ Place("contracts") = 3 /\ Place("unmock") = 3
    /\ Place("sbGroup") = 4 /\ Place("detachGet") = 4
    /\ Place("sbConfig") = 5 /\ Place("detachPut") = 5
    /\ Place("createKey") = 6 /\ Place("attachGet") = 6 /\ Place("deleteContracts") = 6
    /\ Place("attachPut") = 7 /\ Place("deleteKey") = 7
    /\ Place("clearCache") = 8 /\ Place("deleteSb") = 8
    /\ Place("provisionBr") = 9 /\ Place("removeRow") = 9
    /\ Place("finish") = 10 /\ Place("next") = 10 /\ Place("sweep") = 11
  BY DEF Place

\* Where the next stage of a create can be.
LEMMA CreateOrder ==
    ASSUME NEW b, HasRow(b)
    PROVE  /\ Place(ToBr(b).pc) > 8 /\ Place(ToKey(b).pc) > 5 /\ Place(ToSb(b).pc) > 3
           /\ Place(ToContracts(b).pc) > 2 /\ Place(ToPrebook(b).pc) > 1
  <1>1. ToBr(b).pc \in {"provisionBr", "finish"} /\ ToContracts(b).pc = "contracts"
    BY DEF HasRow, Job, ToBr, ToContracts
  <1>2. ToKey(b).pc \in {"createKey", "attachGet", "provisionBr", "finish"}
    BY <1>1 DEF HasRow, Job, ToKey
  <1>3. ToSb(b).pc \in {"sbGroup", "createKey", "attachGet", "provisionBr", "finish"}
    BY <1>2 DEF HasRow, Job, ToSb
  <1>4. ToPrebook(b).pc \in {"prebookGet", "contracts"}
    BY <1>1 DEF HasRow, Job, ToPrebook
  <1> QED BY <1>1, <1>2, <1>3, <1>4, Places

\* A loop step is one item less, or the next place.
LEMMA LoopLater ==
    ASSUME NEW b \in Job, NEW c \in Job, NEW p \in b.todo, c.todo = b.todo,
           Place(c.pc) = Place(b.pc), NEW done, Place(done.pc) > Place(b.pc)
    PROVE  Later(b, Loop(c, p, done))
  <1>1. CASE c.todo = {p}
    BY <1>1 DEF Loop, Later
  <1>2. CASE c.todo # {p}
    <2> DEFINE d == [c EXCEPT !.todo = @ \ {p}]
    <2>1. d.pc = c.pc /\ d.todo = b.todo \ {p} /\ Loop(c, p, done) = d
      BY <1>2 DEF Job, Loop
    <2> HIDE DEF d
    <2>2. Fewer(d.todo, b.todo)
      BY <2>1 DEF Fewer
    <2> QED BY <2>1, <2>2 DEF Later, LessHere
  <1> QED BY <1>1, <1>2

LEMMA MovesForward ==
    ASSUME NEW b, Working(b), NEW c, Moves(b, c), c = IdleJob \/ Later(b, c)
    PROVE  Forward(b, c)
  <1>1. CASE c = IdleJob
    BY <1>1 DEF Working, IdleJob, Forward
  <1>2. CASE c # IdleJob
    <2>1. SameWork(b, c) /\ c.pc \in CreateCalls \cup TearingPCs \cup {"finish", "reregister"}
          /\ b.pc \in CreateCalls \cup TeardownCalls \cup {"reregister"}
      BY <1>2 DEF Moves
    <2>2. c.pc \notin {"load", "idle"} /\ b.pc \notin {"load", "idle"}
      BY <2>1 DEF CreateCalls, TearingPCs, TeardownCalls
    <2> QED BY <1>2, <2>1, <2>2 DEF Forward, SameWork
  <1> QED BY <1>1, <1>2

LEMMA CreateForward ==
    ASSUME Typed, NEW j \in Jobs, CreateStep(j)
    PROVE  Forward(jobs[j], jobs'[j])
  <1> DEFINE b == jobs[j]
             d == jobs'[j]
  <1>1. HasRow(b) /\ b \in Job /\ Working(b) /\ Moves(b, d)
    BY CreateMoves DEF HasRow
  <1> SUFFICES d = IdleJob \/ Later(b, d)
    BY <1>1, MovesForward
  <1>2. ASSUME NEW c, Becomes(j, c) PROVE d = c
    BY <1>2, BecomesTask
  <1>3. CASE Register(j)
    <2>1. PICK p \in b.todo : b.pc = "register" /\ Becomes(j, Loop(b, p, ToPrebook(b)))
      BY <1>3 DEF Register, At
    <2> QED BY <1>1, <1>2, <2>1, LoopLater, CreateOrder, Places
  <1>4. CASE PrebookGet(j)
    <2>1. PICK p \in b.todo :
            Becomes(j, [b EXCEPT !.pc = "prebookPut",
                                 !.out.restore[p] = prebooking[<<b.rec.req.env, p>>]])
      BY <1>4 DEF PrebookGet
    <2>2. d = [b EXCEPT !.pc = "prebookPut",
                        !.out.restore[p] = prebooking[<<b.rec.req.env, p>>]]
      BY <2>1, BecomesTask
    <2>3. b.pc = "prebookGet" /\ d.pc = "prebookPut" /\ d.todo = b.todo
      BY <1>1, <1>4, <2>2 DEF PrebookGet, At, Job
    <2> QED BY <2>3, Places DEF Later, LessHere
  <1>5. CASE PrebookPut(j)
    <2> DEFINE c == [b EXCEPT !.pc = "prebookGet"]
    <2>1. PICK p \in b.todo : b.pc = "prebookPut" /\ Becomes(j, Loop(c, p, ToContracts(b)))
      BY <1>5 DEF PrebookPut, At
    <2>2. c \in Job /\ c.todo = b.todo /\ c.pc = "prebookGet"
      BY <1>1 DEF Job, PCs, CreateCalls
    <2> HIDE DEF c
    <2> QED BY <1>1, <1>2, <2>1, <2>2, LoopLater, CreateOrder, Places
  <1>6. CASE CreateContract(j)
    <2>1. PICK p \in b.todo :
            LET c == [b EXCEPT !.out.contracts = @ \cup {p}]
            IN  Becomes(j, Loop(c, p, ToSb(c)))
      BY <1>6 DEF CreateContract
    <2> DEFINE c == [b EXCEPT !.out.contracts = @ \cup {p}]
    <2>2. p \in Suppliers /\ b.out \in Assets
      BY <1>1 DEF Job
    <2>3. c \in Job /\ c.todo = b.todo /\ c.pc = b.pc /\ c.rec = b.rec /\ c.sid = b.sid
      BY <1>1, <2>2 DEF Job, Assets
    <2>4. HasRow(c) /\ b.pc = "contracts" /\ Becomes(j, Loop(c, p, ToSb(c)))
      BY <1>1, <1>6, <2>1, <2>3 DEF HasRow, CreateContract, At
    <2> HIDE DEF c
    <2> QED BY <1>1, <1>2, <2>3, <2>4, LoopLater, CreateOrder, Places
  <1>7. CASE CreateSbGroup(j)
    <2>1. b.pc = "sbGroup" /\ d = [b EXCEPT !.pc = "sbConfig", !.out.sb = @ \cup {"group"}]
      BY <1>2, <1>7 DEF CreateSbGroup, At
    <2>2. d.pc = "sbConfig"
      BY <1>1, <2>1 DEF Job
    <2> QED BY <2>1, <2>2, Places DEF Later
  <1>8. CASE CreateSbConfig(j)
    <2> DEFINE c == [b EXCEPT !.out.sb = @ \cup {"config"}]
    <2>1. b.pc = "sbConfig" /\ d = ToKey(c)
      BY <1>2, <1>8 DEF CreateSbConfig, At
    <2>2. HasRow(c)
      BY <1>1 DEF HasRow, Job, Assets, SbKinds
    <2> HIDE DEF c
    <2> QED BY <2>1, <2>2, CreateOrder, Places DEF Later
  <1>9. CASE CreateApiKey(j)
    <2>1. b.pc = "createKey" /\ d = [b EXCEPT !.pc = "clearCache", !.out.key = b.sid]
      BY <1>2, <1>9 DEF CreateApiKey, At
    <2>2. d.pc = "clearCache"
      BY <1>1, <2>1 DEF Job
    <2> QED BY <2>1, <2>2, Places DEF Later
  <1>10. CASE AttachGet(j)
    <2>1. b.pc = "attachGet"
          /\ d = [b EXCEPT !.pc = "attachPut", !.seen = keyRefs[b.rec.req.key]]
      BY <1>2, <1>10 DEF AttachGet, ReadApiKey, At
    <2>2. d.pc = "attachPut"
      BY <1>1, <2>1 DEF Job
    <2> QED BY <2>1, <2>2, Places DEF Later
  <1>11. CASE AttachPut(j)
    <2>1. b.pc = "attachPut"
          /\ d = [b EXCEPT !.pc = "clearCache", !.seen = {},
                           !.out.key = b.rec.req.key, !.out.ext = TRUE]
      BY <1>2, <1>11 DEF AttachPut, At
    <2>2. d.pc = "clearCache"
      BY <1>1, <2>1 DEF Job
    <2> QED BY <2>1, <2>2, Places DEF Later
  <1>12. CASE ClearCache(j)
    <2>1. b.pc = "clearCache" /\ d = ToBr(b)
      BY <1>2, <1>12 DEF ClearCache, At
    <2> QED BY <1>1, <2>1, CreateOrder, Places DEF Later
  <1>13. CASE ProvisionBr(j)
    <2>1. b.pc = "provisionBr" /\ d = [b EXCEPT !.pc = "finish", !.out.br = TRUE]
      BY <1>2, <1>13 DEF ProvisionBr, At
    <2>2. d.pc = "finish"
      BY <1>1, <2>1 DEF Job
    <2> QED BY <2>1, <2>2, Places DEF Later
  <1>14. CASE CreateRaises(j)
    BY <1>2, <1>14 DEF CreateRaises
  <1> QED
    BY <1>3, <1>4, <1>5, <1>6, <1>7, <1>8, <1>9, <1>10, <1>11, <1>12, <1>13, <1>14
       DEF CreateStep

LEMMA RefreshForward ==
    ASSUME Typed, NEW j \in Jobs, RefreshStep(j)
    PROVE  Forward(jobs[j], jobs'[j])
  <1> DEFINE b == jobs[j]
             d == jobs'[j]
  <1>1. b \in Job /\ b.pc = "reregister" /\ Working(b) /\ Moves(b, d)
    BY RefreshMoves DEF HasRow
  <1>2. CASE Reregister(j)
    <2> DEFINE done == [b EXCEPT !.pc = "finish", !.todo = {}]
    <2>1. PICK p \in b.todo : Becomes(j, Loop(b, p, done))
      BY <1>2 DEF Reregister
    <2>2. done.pc = "finish"
      BY <1>1 DEF Job
    <2> HIDE DEF done
    <2>3. Later(b, d)
      BY <1>1, <2>1, <2>2, LoopLater, BecomesTask, Places
    <2> QED BY <1>1, <2>3, MovesForward
  <1>3. CASE RefreshRaises(j)
    BY <1>1, <1>3, BecomesTask, MovesForward DEF RefreshRaises
  <1> QED BY <1>2, <1>3 DEF RefreshStep

LEMMA TeardownForward ==
    ASSUME Typed, NEW j \in Jobs, TeardownStep(j), ~RemoveRow(j)
    PROVE  Forward(jobs[j], jobs'[j])
  <1> DEFINE b == jobs[j]
             d == jobs'[j]
  <1>1. HasRow(b) /\ b \in Job /\ Working(b) /\ Moves(b, d)
    BY TeardownMoves DEF HasRow
  <1> SUFFICES d = IdleJob \/ Later(b, d)
    BY <1>1, MovesForward
  <1>2. ASSUME NEW c, Becomes(j, c) PROVE d = c
    BY <1>2, BecomesTask
  <1>3. ASSUME NEW c, HasRow(c)
        PROVE  /\ Place(ToRemoveRow(c).pc) > 8 /\ Place(ToDeleteSb(c).pc) > 7
               /\ Place(ToDeleteKey(c).pc) > 6 /\ Place(ToDeleteContracts(c).pc) > 5
               /\ Place(ToDetach(c).pc) > 3 /\ Place(ToUnmock(c).pc) > 2
               /\ Place(ToCleanBr(c).pc) > 1
    BY <1>3, StageOrder, Places
  <1>4. CASE RestorePrebooking(j) \/ RestoreFails(j)
    <2>1. PICK p \in b.todo : b.pc = "restore" /\ Becomes(j, Loop(b, p, ToCleanBr(b)))
      BY <1>4 DEF RestorePrebooking, RestoreFails, At
    <2> QED BY <1>1, <1>2, <1>3, <2>1, LoopLater, Places
  <1>5. CASE CleanBr(j)
    <2>1. b.pc = "cleanBr" /\ d = ToUnmock(b)
      BY <1>2, <1>5 DEF CleanBr, At
    <2> QED BY <1>1, <1>3, <2>1, Places DEF Later
  <1>6. CASE Unmock(j)
    <2>1. PICK p \in b.todo : b.pc = "unmock" /\ Becomes(j, Loop(b, p, ToDetach(b)))
      BY <1>6 DEF Unmock, At
    <2> QED BY <1>1, <1>2, <1>3, <2>1, LoopLater, Places
  <1>7. CASE DetachGet(j)
    <2>1. b.pc = "detachGet"
          /\ d = [b EXCEPT !.pc = "detachPut", !.seen = keyRefs[b.rec.req.key]]
      BY <1>2, <1>7 DEF DetachGet, ReadApiKey, At
    <2>2. d.pc = "detachPut"
      BY <1>1, <2>1 DEF Job
    <2> QED BY <2>1, <2>2, Places DEF Later
  <1>8. CASE DetachPut(j) \/ DetachFails(j)
    <2> DEFINE c == [b EXCEPT !.seen = {}]
    <2>1. b.pc \in {"detachGet", "detachPut"} /\ d = ToDeleteContracts(c)
      BY <1>2, <1>8 DEF DetachPut, DetachFails, At
    <2>2. HasRow(c)
      BY <1>1 DEF HasRow, Job
    <2> HIDE DEF c
    <2>3. Place(b.pc) \in {4, 5}
      BY <2>1, Places
    <2>4. d.pc \in {"deleteContracts", "deleteKey", "deleteSb", "removeRow"}
      BY <2>1, <2>2, StageOrder
    <2> QED BY <2>3, <2>4, Places DEF Later
  <1>9. CASE DeleteContract(j)
    <2>1. PICK p \in b.todo : b.pc = "deleteContracts" /\ Becomes(j, Loop(b, p, ToDeleteKey(b)))
      BY <1>9 DEF DeleteContract, At
    <2> QED BY <1>1, <1>2, <1>3, <2>1, LoopLater, Places
  <1>10. CASE DeleteApiKey(j)
    <2>1. b.pc = "deleteKey" /\ d = ToDeleteSb(b)
      BY <1>2, <1>10 DEF DeleteApiKey, At
    <2> QED BY <1>1, <1>3, <2>1, Places DEF Later
  <1>11. CASE DeleteSb(j) \/ DeleteSbFails(j)
    <2>1. PICK kind \in b.sbTodo : b.pc = "deleteSb" /\ d = LoopSb(b, kind)
      BY <1>2, <1>11 DEF DeleteSb, DeleteSbFails, At
    <2>2. CASE b.sbTodo = {kind}
      <3> DEFINE c == [b EXCEPT !.sbTodo = {}]
      <3>1. HasRow(c) /\ d = ToRemoveRow(c)
        BY <1>1, <2>1, <2>2 DEF HasRow, Job, LoopSb
      <3> HIDE DEF c
      <3> QED BY <1>3, <2>1, <3>1, Places DEF Later
    <2>3. CASE b.sbTodo # {kind}
      <3>1. d = [b EXCEPT !.sbTodo = @ \ {kind}]
        BY <2>1, <2>3 DEF LoopSb
      <3>2. d.sbTodo = b.sbTodo \ {kind} /\ d.pc = b.pc /\ d.todo = b.todo
        BY <1>1, <3>1 DEF Job
      <3>3. Fewer(d.sbTodo, b.sbTodo)
        BY <2>1, <3>2 DEF Fewer
      <3> QED BY <2>1, <3>2, <3>3 DEF Later, LessHere
    <2> QED BY <2>2, <2>3
  <1>12. CASE TeardownRaises(j)
    <2> DEFINE c == [b EXCEPT !.ok = FALSE]
    <2>1. b.pc \in {"cleanBr", "unmock", "deleteContracts", "deleteKey"} /\ d = ToRemoveRow(c)
      BY <1>2, <1>12 DEF TeardownRaises, Aborted
    <2>2. HasRow(c)
      BY <1>1 DEF HasRow, Job
    <2> HIDE DEF c
    <2>3. ToRemoveRow(c).pc = "removeRow"
      BY <2>2, StageOrder
    <2> QED BY <2>1, <2>3, Places DEF Later
  <1> QED
    BY <1>4, <1>5, <1>6, <1>7, <1>8, <1>9, <1>10, <1>11, <1>12 DEF TeardownStep

LEMMA LoadForward ==
    ASSUME Typed, Lanes, NEW j \in Jobs, Load(j)
    PROVE  Forward(jobs[j], jobs'[j])
  <1> DEFINE b == jobs[j]
             d == jobs'[j]
             row == rows[b.sid]
  <1>1. b \in Job /\ b.pc = "load" /\ Lane(b)
    BY DEF Load, At, Typed, TypeOK, Lanes
  <1>2. ASSUME NEW c, Becomes(j, c) PROVE d = c
    BY <1>2, BecomesTask
  <1> SUFFICES d = IdleJob \/ d.pc \notin {"load", "idle"}
    BY <1>1 DEF Forward, IdleJob
  <1>3. CASE Becomes(j, [b EXCEPT !.pc = "next", !.queue = Tearable(b.env)])
    <2>1. d.pc = "next"
      BY <1>1, <1>2, <1>3 DEF Job
    <2> QED BY <2>1
  <1>4. CASE Becomes(j, [b EXCEPT !.pc = "register", !.rec = row, !.todo = row.req.suppliers])
    <2>1. d.pc = "register"
      BY <1>1, <1>2, <1>4 DEF Job
    <2> QED BY <2>1
  <1>5. CASE Becomes(j, [b EXCEPT !.pc = "reregister", !.rec = row,
                                  !.todo = row.req.suppliers, !.out = RefreshBundle(row)])
    <2>1. d.pc = "reregister"
      BY <1>1, <1>2, <1>5 DEF Job
    <2> QED BY <2>1
  <1>6. CASE /\ b.kind = "teardown" /\ StillWanted(b.kind, row)
             /\ Becomes(j, ToRestore([b EXCEPT !.rec = row]))
    <2> DEFINE c == [b EXCEPT !.rec = row]
    <2>1. row \in Row /\ b.sid \in Scenarios
      BY <1>1, <1>6 DEF Typed, TypeOK, Lane, StillWanted
    <2>2. HasRow(c) /\ d = ToRestore(c)
      BY <1>1, <1>2, <1>6, <2>1 DEF HasRow, Job
    <2> HIDE DEF c
    <2> QED BY <2>2, StageOrder
  <1> QED BY <1>2, <1>3, <1>4, <1>5, <1>6 DEF Load

\* The steps between the rows of a teardown of everything, and the removal of a row.
LEMMA TeardownAllForward ==
    ASSUME Typed, Lanes, NEW j \in Jobs, TeardownAllStep(j) \/ RemoveRow(j)
    PROVE  Forward(jobs[j], jobs'[j])
  <1> DEFINE b == jobs[j]
             d == jobs'[j]
  <1>1. b \in Job /\ b.pc \in {"next", "sweep", "removeRow"}
    BY DEF Typed, TypeOK, TeardownAllStep, TakeNext, QueueDone, Sweep, SweepFails, RemoveRow, At
  <1>2. ASSUME NEW c, Becomes(j, c) PROVE d = c
    BY <1>2, BecomesTask
  <1>3. CASE Becomes(j, IdleJob)
    BY <1>1, <1>2, <1>3 DEF Forward, IdleJob
  <1>4. CASE TakeNext(j)
    <2>1. PICK e \in b.queue :
            Becomes(j, ToRestore([b EXCEPT !.sid = e.sid, !.rec = e.row,
                                           !.queue = @ \ {e}, !.ok = TRUE]))
      BY <1>4 DEF TakeNext
    <2> DEFINE c == [b EXCEPT !.sid = e.sid, !.rec = e.row, !.queue = @ \ {e}, !.ok = TRUE]
    <2>2. e \in Entry /\ d = ToRestore(c)
      BY <1>1, <1>2, <2>1 DEF Job
    <2>3. HasRow(c) /\ c.queue = b.queue \ {e}
      BY <1>1, <2>2 DEF HasRow, Job, Entry
    <2> HIDE DEF c
    <2>4. d.queue = c.queue /\ d.pc \in {"restore", "cleanBr", "unmock"}
      BY <2>2, <2>3, RestoreStage, StageOrder DEF SameTask
    <2>5. Fewer(d.queue, b.queue)
      BY <2>3, <2>4 DEF Fewer
    <2> QED BY <1>1, <2>4, <2>5 DEF Forward
  <1>5. CASE QueueDone(j) /\ ~Becomes(j, IdleJob)
    <2>1. b.pc = "next" /\ d = [b EXCEPT !.pc = "sweep"]
      BY <1>2, <1>5 DEF QueueDone, At
    <2>2. d.pc = "sweep" /\ d.queue = b.queue
      BY <1>1, <2>1 DEF Job
    <2> QED BY <2>1, <2>2, Places DEF Forward, Later
  <1>6. CASE RemoveRow(j) /\ ~Becomes(j, IdleJob)
    <2>1. b.pc = "removeRow"
          /\ d = [b EXCEPT !.pc = "next", !.sid = Null, !.rec = Null, !.torn = @ \/ b.ok]
      BY <1>2, <1>6 DEF RemoveRow, At
    <2>2. d.pc = "next" /\ d.queue = b.queue
      BY <1>1, <2>1 DEF Job
    <2> QED BY <2>1, <2>2, Places DEF Forward, Later
  <1> QED BY <1>3, <1>4, <1>5, <1>6 DEF TeardownAllStep, Sweep, SweepFails

LEMMA StepForward ==
    ASSUME Typed, Lanes, NEW j \in Jobs, Step(j)
    PROVE  Forward(jobs[j], jobs'[j]) /\ \A i \in Jobs : i # j => jobs'[i] = jobs[i]
  <1>1. CASE CreateStep(j) \/ RefreshStep(j) \/ (TeardownStep(j) /\ ~RemoveRow(j))
    BY <1>1, CreateForward, RefreshForward, TeardownForward, StepTask
  <1>2. CASE Finish(j)
    BY <1>2, BecomesTask DEF Finish, At, Forward, IdleJob
  <1>3. CASE Load(j)
    BY <1>3, LoadForward, BecomesTask DEF Load
  <1>4. CASE TeardownAllStep(j) \/ RemoveRow(j)
    BY <1>4, TeardownAllForward, BecomesTask
       DEF TeardownAllStep, TakeNext, QueueDone, Sweep, SweepFails, RemoveRow
  <1> QED BY <1>1, <1>2, <1>3, <1>4 DEF Step

LEMMA NextForward == Typed /\ Lanes /\ [Next]_vars => [OnlyForward]_vars
  <1> SUFFICES ASSUME Typed, Lanes, Next PROVE OnlyForward
    BY DEF OnlyForward
  <1> SUFFICES ASSUME NEW j \in Jobs
               PROVE  jobs'[j] = jobs[j] \/ jobs[j] = IdleJob \/ Forward(jobs[j], jobs'[j])
    BY StepForward DEF OnlyForward
  <1>1. CASE Ask
    <2>1. PICK i \in Jobs : jobs[i].kind = "idle" /\ \E c : Becomes(i, c)
      BY <1>1 DEF Ask, Submit, AskRefresh, AskTeardown, AskTeardownAll, Spawn, Idle
    <2>2. jobs[i] = IdleJob
      BY <2>1 DEF Lanes, Lane
    <2> QED BY <2>1, <2>2, BecomesTask
  <1>2. CASE Crash
    BY <1>2 DEF Crash, Forward
  <1>3. ASSUME NEW i \in Jobs, Step(i)
        PROVE  jobs'[j] = jobs[j] \/ Forward(jobs[j], jobs'[j])
    BY <1>3, StepForward
  <1> QED BY <1>1, <1>2, <1>3 DEF Next

\* A task always gets on: each of its steps reads its row, takes a row off its list, takes
\* it to a later call or to the same one with less in its loop, or ends it, and nobody
\* else moves it but a crash, which ends it too.  So no create, refresh or teardown goes
\* round in circles, whatever overlaps with it and whatever fails.
THEOREM TasksGoForward == Spec => [][OnlyForward]_vars
  <1>1. Init => Lanes
    BY IdleLane DEF Init, Lanes
  <1>2. KeyInv => Typed
    BY DEF KeyInv
  <1>3. Spec => [](KeyInv /\ Lanes)
    BY <1>1, <1>2, InitKey, NextKey, NextLanes, PTL DEF Spec
  <1>4. KeyInv /\ Lanes /\ [Next]_vars => [OnlyForward]_vars
    BY <1>2, NextForward
  <1> QED BY <1>3, <1>4, PTL DEF Spec
=============================================================================
