----------------------------- MODULE RunTemplate -----------------------------
(***************************************************************************)
(* One HTTP request that creates a scenario from a template, runs it       *)
(* against the core application and tears it down again                    *)
(* (api/routes/run_template.py), and the Run button of the UI              *)
(* (api/routes/scenarios.py), which runs any READY scenario.               *)
(*                                                                         *)
(* Creation and teardown are modelled call by call in ScenarioLifecycle;   *)
(* here each is one step, with the outcomes it has there.  Other callers   *)
(* may tear the scenario down at any time.                                 *)
(***************************************************************************)
EXTENDS CoreRun

CONSTANTS
    Runs,         \* requests to run a template, each for a scenario of its own
    UiRuns,       \* presses of the Run button
    Null,
    Failures      \* how many of a run's own calls may fail

\* RunTemplateRequest, reduced to what steers the control flow: whether the
\* depth yields an apiKey, whether a package is to be booked, and the two flags.
Request == [keyed : BOOLEAN, book : BOOLEAN, delete : BOOLEAN, force : BOOLEAN]

\* RunTemplateResponse; "ERROR" is an answer the route did not mean to give.
Codes == {"REJECTED", "SCENARIO_NOT_FOUND", "SCENARIO_CREATION_TIMEOUT",
          "SCENARIO_CREATION_FAILED", "SCENARIO_RUN_FAILED", "CORE_RUN_FAILED",
          "NO_PACKAGES", "BOOKING_FAILED", "none"}
Response == [status : {"PENDING", "COMPLETED", "FAILED", "TIMEOUT", "ERROR"},
             code : Codes, bid : BOOLEAN, deleted : BOOLEAN]
NoAnswer == [status |-> "PENDING", code |-> "none", bid |-> FALSE, deleted |-> FALSE]

PCs == {"start", "creating", "running", "cleanup", "answered"}
Rows == {"none", "PENDING", "READY", "FAILED"}

ASSUME RunAssumption == /\ Clients = Runs \cup UiRuns /\ Runs \cap UiRuns = {}
                        /\ Null \notin Runs /\ Failures \in Nat

VARIABLES
    pc, req, resp,   \* the request: how far, what was asked, what is answered
    row,             \* the scenario's row
    keyed,           \* whether that row names an apiKey
    assets,          \* runs of which mocks, contracts or an apiKey exist
    ui,              \* the run whose scenario each press of Run drives, or Null
    troubled,        \* history: runs some own call of which failed, with the call
    failures

mine == <<pc, req, resp>>
scenario == <<row, keyed, assets>>
vars == <<mine, scenario, ui, troubled, failures, coreVars>>

Init == /\ pc = [r \in Runs |-> "start"]
        /\ req \in [Runs -> Request]
        /\ resp = [r \in Runs |-> NoAnswer]
        /\ row = [r \in Runs |-> "none"]
        /\ keyed = [r \in Runs |-> FALSE]
        /\ assets = {}
        /\ ui = [u \in UiRuns |-> Null]
        /\ troubled = {}
        /\ failures = 0
        /\ CoreInit

Goes(r, to) == pc' = [pc EXCEPT ![r] = to] /\ UNCHANGED req
Answers(r, answer) == resp' = [resp EXCEPT ![r] = answer]
Fails(r, call) == /\ failures < Failures /\ failures' = failures + 1
                  /\ troubled' = troubled \cup {<<r, call>>}
NoTrouble == UNCHANGED <<troubled, failures>>

\* Answer(status, code) of run r, with what is known of it so far.
Answer(r, status, code) == [resp[r] EXCEPT !.status = status, !.code = code]

-----------------------------------------------------------------------------
\* An unknown template, a dynamic markup the environment has not, a request that
\* does not validate or a hotel mapping that fails: answered before anything is made.
Reject(r) ==
    /\ pc[r] = "start"
    /\ Answers(r, Answer(r, "FAILED", "REJECTED"))
    /\ Goes(r, "answered")
    /\ NoTrouble /\ UNCHANGED <<scenario, ui, coreVars>>

\* create_pending, and run_create_scenario awaited in the same request.
Create(r) ==
    /\ pc[r] = "start"
    /\ row' = [row EXCEPT ![r] = "PENDING"]
    /\ Goes(r, "creating")
    /\ NoTrouble /\ UNCHANGED <<resp, keyed, assets, ui, coreVars>>

\* The create ended and its row, read again, is READY.  Without an apiKey the
\* route returns _finish_without_run(...) without awaiting it: the coroutine is no
\* RunTemplateResponse, so the caller gets an error, and it never runs.
CreateReady(r) ==
    /\ pc[r] = "creating"
    /\ row' = [row EXCEPT ![r] = "READY"]
    /\ keyed' = [keyed EXCEPT ![r] = req[r].keyed]
    /\ assets' = assets \cup {r}
    /\ IF req[r].keyed
       THEN /\ Goes(r, "running") /\ UNCHANGED resp
            /\ flow' = [flow EXCEPT ![r] = Started(req[r].book)]
            /\ UNCHANGED <<core, orders>>
       ELSE /\ Goes(r, "answered")
            /\ Answers(r, Answer(r, "ERROR", "none"))
            /\ UNCHANGED coreVars
    /\ NoTrouble /\ UNCHANGED ui

\* It is FAILED, with or without something made: the run tears it down.
CreateFailed(r) ==
    /\ pc[r] = "creating"
    /\ row' = [row EXCEPT ![r] = "FAILED"]
    /\ \E made \in {{}, {r}} : assets' = assets \cup made
    /\ Goes(r, "cleanup")
    /\ Answers(r, Answer(r, "FAILED", "SCENARIO_CREATION_FAILED"))
    /\ Fails(r, "create") /\ UNCHANGED <<keyed, ui, coreVars>>

\* The create could not save its row: what was there, PENDING or nothing, stays.
CreateUnsaved(r) ==
    /\ pc[r] = "creating"
    /\ assets' = assets \cup {r}
    /\ Goes(r, "answered")
    /\ Answers(r, IF row[r] = "none" THEN Answer(r, "FAILED", "SCENARIO_NOT_FOUND")
                  ELSE Answer(r, "TIMEOUT", "SCENARIO_CREATION_TIMEOUT"))
    /\ Fails(r, "save") /\ UNCHANGED <<row, keyed, ui, coreVars>>

-----------------------------------------------------------------------------
\* Judging the run.  An answer that is COMPLETED must have packages and, when a
\* package was to be booked, a bId and an order that matches.
\* Mutant: a bId is enough, the order is not looked at.
Code_AnyOrder(r, res) ==
    IF res.error THEN "CORE_RUN_FAILED"
    ELSE IF "packages" \notin res.ids THEN "NO_PACKAGES"
    ELSE IF req[r].book /\ "booking" \notin res.ids THEN "BOOKING_FAILED" ELSE "none"
Code(r, res) ==
    IF res.error THEN "CORE_RUN_FAILED"
    ELSE IF "packages" \notin res.ids THEN "NO_PACKAGES"
    ELSE IF req[r].book /\ ("booking" \notin res.ids \/ res.match # "yes")
    THEN "BOOKING_FAILED" ELSE "none"

\* The booking is named whenever the core gave it an id.
\* Mutant: only when it succeeded.
Named_MatchedOnly(r, res) == "booking" \in res.ids /\ res.match = "yes"
Named(r, res) == req[r].book /\ "booking" \in res.ids

JudgedTo(r) == IF req[r].delete THEN "cleanup" ELSE "answered"
Judge(r) ==
    /\ pc[r] = "running" /\ At(r, "returned")
    /\ LET res == flow[r].result
           code == Code(r, res)
       IN Answers(r, [Answer(r, IF code = "none" THEN "COMPLETED" ELSE "FAILED", code)
                      EXCEPT !.bid = Named(r, res)])
    /\ Goes(r, JudgedTo(r))
    /\ NoTrouble /\ UNCHANGED <<scenario, ui, coreVars>>

\* An exception: the fields of the response that tell of the booking stay unset.
\* Mutant: the error path forgets to clean up.
RaisedTo_NoCleanup(r) == "answered"
RaisedTo(r) == IF req[r].force THEN "cleanup" ELSE "answered"
RunRaised(r) ==
    /\ pc[r] = "running" /\ At(r, "raised")
    /\ Answers(r, Answer(r, "FAILED", "SCENARIO_RUN_FAILED"))
    /\ Goes(r, RaisedTo(r))
    /\ NoTrouble /\ UNCHANGED <<scenario, ui, coreVars>>

\* run_teardown: a failing call leaves things behind but not the row; only a
\* failing delete of the row itself is seen by the route.
CleanedUp(r) ==
    /\ pc[r] = "cleanup"
    /\ Goes(r, "answered")
    /\ Answers(r, [resp[r] EXCEPT !.deleted = TRUE])
    /\ row' = [row EXCEPT ![r] = "none"]
    /\ \/ NoTrouble /\ assets' = IF row[r] = "none" THEN assets ELSE assets \ {r}
       \/ row[r] # "none" /\ Fails(r, "teardown") /\ UNCHANGED assets
    /\ UNCHANGED <<keyed, ui, coreVars>>

\* Mutant: the cleanup counts as done although it raised.
Warned_Deleted(r) == [resp[r] EXCEPT !.deleted = TRUE]
Warned(r) == resp[r]
CleanupRaises(r) ==
    /\ pc[r] = "cleanup"
    /\ Goes(r, "answered")
    /\ \E left \in SUBSET {r} : assets' = (assets \ {r}) \cup (assets \cap left)
    /\ Answers(r, Warned(r))
    /\ Fails(r, "deleteRow") /\ UNCHANGED <<row, keyed, ui, coreVars>>

-----------------------------------------------------------------------------
\* DELETE /scenarios/{id} or /scenarios/all by someone else, who sees the row.
OthersTearDown(r) ==
    /\ row[r] # "none"
    /\ row' = [row EXCEPT ![r] = "none"]
    /\ assets' = assets \ {r}
    /\ NoTrouble /\ UNCHANGED <<mine, keyed, ui, coreVars>>

\* POST /scenarios/{id}/run: for a READY scenario with an apiKey, with or without
\* its booking (mode = packages).
PressRun(u, r) ==
    /\ ui[u] = Null
    /\ row[r] = "READY" /\ keyed[r]
    /\ ui' = [ui EXCEPT ![u] = r]
    /\ \E book \in {FALSE, req[r].book} : flow' = [flow EXCEPT ![u] = Started(book)]
    /\ NoTrouble /\ UNCHANGED <<mine, scenario, core, orders>>

CoreStep == /\ \E c \in Clients : CallCore(c) \/ \E stage \in Stages : CoreWorks(c, stage)
            /\ UNCHANGED <<mine, scenario, ui, troubled, failures>>

Handle(r) == \/ Reject(r) \/ Create(r) \/ CreateReady(r) \/ CreateFailed(r)
             \/ CreateUnsaved(r) \/ Judge(r) \/ RunRaised(r) \/ CleanedUp(r)
             \/ CleanupRaises(r)

Next == \/ \E r \in Runs : Handle(r) \/ OthersTearDown(r) \/ \E u \in UiRuns : PressRun(u, r)
        \/ CoreStep

Spec == Init /\ [][Next]_vars

\* A request once received is worked on, and its calls are made; none has to fail.
\* Nothing is assumed of the core.
Call(c) == /\ Post(c) \/ Poll(c) \/ Select(c) \/ GetOrder(c)
           /\ UNCHANGED <<mine, scenario, ui, troubled, failures>>
FairSpec == Spec /\ \A r \in Runs : WF_vars(Handle(r)) /\ WF_vars(Call(r))

-----------------------------------------------------------------------------
\* Properties.

\* Every variable keeps to its set.
TypeOK == /\ CoreTypeOK
          /\ pc \in [Runs -> PCs]
          /\ req \in [Runs -> Request]
          /\ resp \in [Runs -> Response]
          /\ row \in [Runs -> Rows]
          /\ keyed \in [Runs -> BOOLEAN]
          /\ assets \subseteq Runs
          /\ ui \in [UiRuns -> Runs \cup {Null}]
          /\ failures \in 0..Failures

Answered(r) == pc[r] = "answered"
Had(r, call) == <<r, call>> \in troubled

\* "COMPLETED only when the core run actually produced packages (and a booking, if
\* one was requested)": the core finished the run's packages, and holds the order.
CompletedMeansRan ==
    \A r \in Runs : resp[r].status = "COMPLETED" =>
        /\ core[r]["search"] = "done" /\ core[r]["packages"] = "done"
        /\ req[r].book => core[r]["booking"] = "done" /\ r \in orders /\ resp[r].bid

\* An order the core holds is named in the answer, so that someone can cancel it,
\* even when its poll timed out, getOrder failed or the order did not match;
\* excepted are a lost answer to the POST and one that is no JSON.
OrdersAreNamed ==
    \A r \in Runs : Answered(r) /\ core[r]["booking"] # "none" =>
        \/ resp[r].bid
        \/ resp[r].code = "SCENARIO_RUN_FAILED" \/ "booking" \notin flow[r].result.ids

\* Deleted means gone: when the answer says so, the row is gone, and nothing of
\* the scenario exists, unless a call of the teardown failed or the create was
\* never recorded.
DeletedMeansGone ==
    \A r \in Runs : Answered(r) /\ resp[r].deleted =>
        row[r] = "none" /\ (r \in assets => Had(r, "teardown"))

\* A run that was told to delete its scenario has deleted it when it answers,
\* however the run went, with the exceptions the code has: no apiKey, a create
\* that could not save its row, an exception without force_cleanup, and a row
\* that could not be deleted.
CleanupHonoured ==
    \A r \in Runs : Answered(r) /\ req[r].delete /\ resp[r].code # "REJECTED" =>
        \/ row[r] = "none"
        \/ ~req[r].keyed \/ Had(r, "save") \/ Had(r, "deleteRow")
        \/ resp[r].code = "SCENARIO_RUN_FAILED" /\ ~req[r].force

\* Every request is answered, however slow the core.
RunAnswers == \A r \in Runs : pc[r] \in {"creating", "running", "cleanup"} ~> Answered(r)
=============================================================================
