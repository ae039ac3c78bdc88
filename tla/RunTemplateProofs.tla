-------------------------- MODULE RunTemplateProofs --------------------------
(***************************************************************************)
(* What RunTemplate promises its caller, for any number of requests to run *)
(* a template, presses of the Run button, attempts of a poll and failures. *)
(***************************************************************************)
EXTENDS RunTemplate, TLAPS

\* How far a client's run of the core is, and what the core's tasks are then.
Driven(c) ==
    LET f == flow[c] IN
    /\ f.pc = "idle" => \A stage \in Stages : core[c][stage] = "none"
    /\ f.stage = "search" => core[c]["packages"] = "none" /\ core[c]["booking"] = "none"
    /\ f.stage # "search" => core[c]["search"] = "done"
    /\ f.stage = "packages" => core[c]["booking"] = "none"
    /\ f.stage = "booking" => core[c]["packages"] = "done" /\ f.book
    /\ f.pc = "poll" => f.tries < Attempts
    /\ f.pc = "select" => f.stage = "packages" /\ f.book /\ core[c]["packages"] = "done"
    /\ f.pc = "order" => f.stage = "booking" /\ core[c]["booking"] = "done"
    /\ f.pc = "returned" /\ ~f.result.error =>
           core[c]["search"] = "done" /\ core[c]["packages"] = "done"
    /\ f.result.match = "yes" => f.pc = "returned" /\ core[c]["booking"] = "done" /\ c \in orders

\* How far the request is, and its run of the core.
InStep(r) ==
    /\ pc[r] \in {"start", "creating"} => At(r, "idle") /\ resp[r] = NoAnswer
    /\ pc[r] = "running" => ~At(r, "idle") /\ flow[r].book = req[r].book /\ resp[r] = NoAnswer
    /\ pc[r] \in {"cleanup", "answered"} => flow[r].pc \in {"idle", "returned", "raised"}

\* The properties, request by request, as they hold from the judgement on.
Honest(r) ==
    resp[r].status = "COMPLETED" =>
        /\ pc[r] \in {"cleanup", "answered"} /\ At(r, "returned")
        /\ core[r]["search"] = "done" /\ core[r]["packages"] = "done"
        /\ req[r].book => core[r]["booking"] = "done" /\ r \in orders /\ resp[r].bid
NamesOrder(r) ==
    pc[r] \in {"cleanup", "answered"} /\ core[r]["booking"] # "none" =>
        \/ resp[r].bid
        \/ resp[r].code = "SCENARIO_RUN_FAILED" \/ "booking" \notin flow[r].result.ids
Gone(r) ==
    /\ pc[r] \in {"running", "cleanup"} /\ row[r] = "none" => r \notin assets
    /\ resp[r].deleted => /\ pc[r] = "answered" /\ row[r] = "none"
                          /\ r \in assets => Had(r, "teardown")
Honoured(r) ==
    Answered(r) /\ req[r].delete /\ resp[r].code # "REJECTED" =>
        \/ row[r] = "none"
        \/ ~req[r].keyed \/ Had(r, "save") \/ Had(r, "deleteRow")
        \/ resp[r].code = "SCENARIO_RUN_FAILED" /\ ~req[r].force

Kept(r) == InStep(r) /\ Honest(r) /\ NamesOrder(r) /\ Gone(r) /\ Honoured(r)

RunInv == /\ TypeOK
          /\ \A c \in Clients : Driven(c)
          /\ \A r \in Runs : Kept(r)
          /\ \A u \in UiRuns : ui[u] = Null => At(u, "idle")

LEMMA FirstFlow == NoResult \in Result /\ NoFlow \in Flow
  <1>1. NoResult \in Result
    BY DEF NoResult, Result, Stages
  <1> QED
    BY <1>1, CoreAssumption DEF NoFlow, Flow, FlowPCs, Stages

LEMMA InvInit == Init => RunInv
  <1> SUFFICES ASSUME Init PROVE RunInv
    OBVIOUS
  <1> USE RunAssumption, CoreAssumption DEF Init, CoreInit
  <1>1. NoFlow \in Flow /\ NoAnswer \in Response
    BY FirstFlow DEF NoAnswer, Response, Codes
  <1>2. TypeOK
    BY <1>1 DEF TypeOK, CoreTypeOK, TaskStates, PCs, Rows
  <1>3. ASSUME NEW c \in Clients PROVE Driven(c)
    BY <1>3 DEF Driven, NoFlow, NoResult, Stages
  <1>4. ASSUME NEW r \in Runs PROVE Kept(r)
    BY <1>4 DEF Kept, InStep, Honest, NamesOrder, Gone, Honoured, At, Answered, NoAnswer,
                NoFlow, NoResult, Stages
  <1>5. ASSUME NEW u \in UiRuns PROVE At(u, "idle")
    BY <1>5 DEF At, NoFlow
  <1> QED
    BY <1>2, <1>3, <1>4, <1>5 DEF RunInv

-----------------------------------------------------------------------------
\* A run of the core.

LEMMA FlowFields ==
    ASSUME NEW f \in Flow
    PROVE  /\ f.pc \in FlowPCs /\ f.stage \in Stages /\ f.tries \in 0..Attempts
           /\ f.book \in BOOLEAN /\ f.result \in Result
           /\ f.result.ids \subseteq Stages /\ f.result.polled \subseteq Stages
           /\ f.result.match \in {"none", "no", "yes"} /\ f.result.error \in BOOLEAN
  BY DEF Flow, Result

LEMMA FailedFlow ==
    ASSUME NEW f \in Flow
    PROVE  /\ Failed(f) \in Flow /\ Failed(f).pc = "returned" /\ Failed(f).stage = f.stage
           /\ Failed(f).book = f.book /\ Failed(f).result.ids = f.result.ids
           /\ f.stage = "booking" => Failed(f).result.match = "no"
                                     /\ Failed(f).result.error = f.result.error
           /\ f.stage # "booking" => Failed(f).result.error
                                     /\ Failed(f).result.match = f.result.match
  <1>1. f.result \in Result
    BY FlowFields
  <1>2. CASE f.stage = "booking"
    <2>1. [f.result EXCEPT !.match = "no"] \in Result
      BY <1>1 DEF Result
    <2> QED
      BY <1>1, <1>2, <2>1 DEF Flow, Result, Failed, FlowPCs
  <1>3. CASE f.stage # "booking"
    <2>1. [f.result EXCEPT !.error = TRUE] \in Result
      BY <1>1 DEF Result
    <2> QED
      BY <1>1, <1>3, <2>1 DEF Flow, Result, Failed, FlowPCs
  <1> QED
    BY <1>2, <1>3

LEMMA StartedFlow ==
    ASSUME NEW book \in BOOLEAN
    PROVE  /\ Started(book) \in Flow /\ Started(book).pc = "post"
           /\ Started(book).stage = "search" /\ Started(book).book = book
           /\ Started(book).result = NoResult
  BY FirstFlow, CoreAssumption DEF Flow, Started, FlowPCs, NoFlow, Stages

LEMMA PolledFlow ==
    ASSUME NEW f \in Flow
    PROVE  /\ Polled(f) \in Flow /\ Polled(f).book = f.book
           /\ Polled(f).result.ids = f.result.ids
           /\ Polled(f).result.match = f.result.match
           /\ Polled(f).result.error = f.result.error
           /\ f.stage = "search" => Polled(f).pc = "post" /\ Polled(f).stage = "packages"
           /\ f.stage = "packages" => Polled(f).pc = (IF f.book THEN "select" ELSE "returned")
                                      /\ Polled(f).stage = "packages"
           /\ f.stage = "booking" => Polled(f).pc = "order" /\ Polled(f).stage = "booking"
  BY DEF Flow, Result, Polled, FlowPCs, Stages

\* A step of one client's run leaves the others alone.
SameRun(c) == /\ flow'[c] = flow[c] /\ core'[c] = core[c]
              /\ c \in orders' <=> c \in orders

LEMMA DrivenSame ==
    ASSUME NEW c \in Clients, Driven(c), SameRun(c)
    PROVE  Driven(c)'
  BY DEF Driven, SameRun

LEMMA MovesOne ==
    ASSUME CoreTypeOK, NEW c \in Clients, NEW f \in Flow, Moves(c, f)
    PROVE  /\ flow' \in [Clients -> Flow] /\ flow'[c] = f
           /\ \A d \in Clients \ {c} : flow'[d] = flow[d]
  BY DEF CoreTypeOK, Moves

LEMMA SetsOne ==
    ASSUME CoreTypeOK, NEW c \in Clients, NEW state \in TaskStates, Sets(c, state)
    PROVE  /\ core' \in [Clients -> [Stages -> TaskStates]]
           /\ \A d \in Clients \ {c} : core'[d] = core[d]
           /\ \A stage \in Stages :
                core'[c][stage] = IF stage = flow[c].stage THEN state ELSE core[c][stage]
  <1>1. flow[c].stage \in Stages
    BY FlowFields DEF CoreTypeOK
  <1> QED
    BY <1>1 DEF CoreTypeOK, Sets, Stage

LEMMA PollingFlow ==
    ASSUME NEW f \in Flow, NEW res \in Result
    PROVE  LET g == [f EXCEPT !.pc = "poll", !.tries = 0, !.result = res] IN
           /\ g \in Flow /\ g.pc = "poll" /\ g.tries = 0 /\ g.stage = f.stage
           /\ g.book = f.book /\ g.result = res
  <1>1. 0 \in 0..Attempts /\ "poll" \in FlowPCs
    BY CoreAssumption DEF FlowPCs
  <1> QED
    BY <1>1 DEF Flow

\* What a call of client c does.
Drives(c) == /\ CoreTypeOK' /\ Driven(c)'
             /\ \A d \in Clients \ {c} : SameRun(d)
             /\ flow[c].pc \in {"post", "poll", "select", "order"}
             /\ ~At(c, "idle")' /\ flow'[c].book = flow[c].book

LEMMA PostDrives ==
    ASSUME CoreTypeOK, NEW c \in Clients, Driven(c), Post(c)
    PROVE  Drives(c)
  <1> DEFINE f == flow[c]
             res == [f.result EXCEPT !.ids = @ \cup {Stage(c)}]
             g == [f EXCEPT !.pc = "poll", !.tries = 0, !.result = res]
  <1>1. f \in Flow /\ f.pc = "post"
    BY DEF CoreTypeOK, Post, At
  <1>r. res \in Result /\ res.match = f.result.match
    BY <1>1, FlowFields DEF Result, Stage
  <1>2. /\ g \in Flow /\ g.pc = "poll" /\ g.tries = 0 /\ g.stage = f.stage /\ g.book = f.book
        /\ g.result.match = f.result.match
    <2> HIDE DEF res
    <2> QED
      BY <1>1, <1>r, PollingFlow
  <1>3. Moves(c, g) /\ Sets(c, "running") /\ UNCHANGED orders
    BY DEF Post
  <1> HIDE DEF f, res, g
  <1>4. /\ flow' \in [Clients -> Flow] /\ flow'[c] = g
        /\ \A d \in Clients \ {c} : flow'[d] = flow[d]
    BY <1>2, <1>3, MovesOne
  <1>5. /\ core' \in [Clients -> [Stages -> TaskStates]]
        /\ \A d \in Clients \ {c} : core'[d] = core[d]
        /\ \A stage \in Stages :
             core'[c][stage] = IF stage = f.stage THEN "running" ELSE core[c][stage]
    BY <1>3, SetsOne DEF TaskStates, f
  <1>6. Driven(c)'
    BY <1>1, <1>2, <1>4, <1>5, FlowFields, CoreAssumption DEF Driven, Stages, f
  <1> QED
    BY <1>1, <1>2, <1>3, <1>4, <1>5, <1>6 DEF Drives, CoreTypeOK, SameRun, At, f

\* The other calls leave the core as it is, or have it work on what was posted.
LEMMA CallDrives ==
    ASSUME CoreTypeOK, NEW c \in Clients, NEW g \in Flow, Moves(c, g), UNCHANGED orders,
           flow[c].pc \in {"post", "poll", "select", "order"}, g.pc # "idle",
           g.book = flow[c].book, core' = core \/ Sets(c, "running"),
           Driven(c)'
    PROVE  Drives(c)
  <1>1. /\ flow' \in [Clients -> Flow] /\ flow'[c] = g
        /\ \A d \in Clients \ {c} : flow'[d] = flow[d]
    BY MovesOne
  <1>2. /\ core' \in [Clients -> [Stages -> TaskStates]]
        /\ \A d \in Clients \ {c} : core'[d] = core[d]
    BY SetsOne DEF TaskStates, CoreTypeOK
  <1> QED
    BY <1>1, <1>2 DEF Drives, CoreTypeOK, SameRun, At

LEMMA FailedDrives ==
    ASSUME CoreTypeOK, NEW c \in Clients, Driven(c), UNCHANGED orders,
           Moves(c, Failed(flow[c])),
           \/ flow[c].pc = "post" /\ (core' = core \/ Sets(c, "running"))
           \/ flow[c].pc = "poll" /\ core' = core
    PROVE  Drives(c)
  <1>1. flow[c] \in Flow
    BY DEF CoreTypeOK
  <1>2. Failed(flow[c]) \in Flow /\ flow'[c] = Failed(flow[c])
    BY <1>1, FailedFlow, MovesOne
  <1>3. core' = core \/ (flow[c].pc = "post" /\ \A stage \in Stages :
             core'[c][stage] = IF stage = flow[c].stage THEN "running" ELSE core[c][stage])
    BY SetsOne DEF TaskStates
  <1>4. Driven(c)'
    BY <1>1, <1>2, <1>3, FailedFlow, FlowFields DEF Driven, Stages
  <1> QED
    BY <1>1, <1>2, <1>4, FailedFlow, CallDrives

LEMMA PostFailsDrives ==
    ASSUME CoreTypeOK, NEW c \in Clients, Driven(c), PostFails(c)
    PROVE  Drives(c)
  BY FailedDrives DEF PostFails, At

LEMMA PollFailsDrives ==
    ASSUME CoreTypeOK, NEW c \in Clients, Driven(c), PollFails(c)
    PROVE  Drives(c)
  BY FailedDrives DEF PollFails, At

LEMMA TriedFlow ==
    ASSUME NEW f \in Flow, f.tries < Attempts
    PROVE  LET g == TriesUp(f) IN
           /\ g \in Flow /\ g.pc = f.pc /\ g.stage = f.stage /\ g.book = f.book
           /\ g.result = f.result /\ g.tries = f.tries + 1
  <1>1. f.tries + 1 \in 0..Attempts
    BY FlowFields, CoreAssumption
  <1> QED
    BY <1>1 DEF Flow, TriesUp

LEMMA PollDrives ==
    ASSUME CoreTypeOK, NEW c \in Clients, Driven(c), Poll(c)
    PROVE  Drives(c)
  <1> DEFINE f == TriesUp(flow[c])
  <1>1. flow[c] \in Flow /\ flow[c].pc = "poll" /\ flow[c].tries < Attempts
    BY DEF CoreTypeOK, Poll, At, Driven
  <1>2. /\ f \in Flow /\ f.pc = "poll" /\ f.stage = flow[c].stage /\ f.book = flow[c].book
        /\ f.result = flow[c].result /\ f.tries = flow[c].tries + 1
    BY <1>1, TriedFlow
  <1>3. PICK g : /\ Moves(c, g) /\ UNCHANGED <<core, orders>>
                 /\ \/ core[c][f.stage] = "done" /\ g = Polled(f)
                    \/ g = Failed(f)
                    \/ ~LastTry(f) /\ g = f
    BY <1>2 DEF Poll, Stage
  <1> HIDE DEF f
  <1>4. g \in Flow /\ g.pc # "idle" /\ g.book = flow[c].book
    BY <1>1, <1>2, <1>3, PolledFlow, FailedFlow, FlowFields DEF Stages
  <1>5. flow'[c] = g
    BY <1>3, <1>4, MovesOne
  <1>6. Driven(c)'
    <2>1. CASE core[c][f.stage] = "done" /\ g = Polled(f)
      BY <1>1, <1>2, <1>3, <1>5, <2>1, PolledFlow, FlowFields DEF Driven, Stages
    <2>2. CASE g = Failed(f)
      BY <1>1, <1>2, <1>3, <1>5, <2>2, FailedFlow, FlowFields DEF Driven, Stages
    <2>3. CASE ~LastTry(f) /\ g = f
      BY <1>1, <1>2, <1>3, <1>5, <2>3, FlowFields, CoreAssumption DEF Driven, Stages, LastTry
    <2> QED
      BY <1>3, <2>1, <2>2, <2>3
  <1> QED
    BY <1>1, <1>3, <1>4, <1>6, CallDrives

LEMMA SelectDrives ==
    ASSUME CoreTypeOK, NEW c \in Clients, Driven(c), Select(c)
    PROVE  Drives(c)
  <1> DEFINE f == [flow[c] EXCEPT !.stage = "booking"]
             h == [f EXCEPT !.pc = "post"]
  <1>1. flow[c] \in Flow /\ flow[c].pc = "select"
    BY DEF CoreTypeOK, Select, At
  <1>2. /\ f \in Flow /\ f.stage = "booking" /\ f.book = flow[c].book /\ f.result = flow[c].result
        /\ h \in Flow /\ h.stage = "booking" /\ h.book = flow[c].book /\ h.result = flow[c].result
        /\ h.pc = "post"
    BY <1>1 DEF Flow, FlowPCs, Stages
  <1>3. PICK g : Moves(c, g) /\ UNCHANGED <<core, orders>> /\ (g = h \/ g = Failed(f))
    BY DEF Select
  <1> HIDE DEF f, h
  <1>4. /\ g \in Flow /\ g.pc # "idle" /\ g.book = flow[c].book
        /\ g.stage = "booking" /\ g.pc \in {"post", "returned"}
        /\ g.result.match = "yes" => flow[c].result.match = "yes"
    BY <1>2, <1>3, FailedFlow
  <1>5. flow'[c] = g
    BY <1>3, <1>4, MovesOne
  <1>6. Driven(c)'
    BY <1>1, <1>3, <1>4, <1>5 DEF Driven, Stages
  <1> QED
    BY <1>1, <1>3, <1>4, <1>6, CallDrives

LEMMA GetOrderDrives ==
    ASSUME CoreTypeOK, NEW c \in Clients, Driven(c), GetOrder(c)
    PROVE  Drives(c)
  <1>1. flow[c] \in Flow /\ flow[c].pc = "order"
    BY DEF CoreTypeOK, GetOrder, At
  <1>2. PICK ok \in BOOLEAN : /\ ok => c \in orders
                              /\ Moves(c, Verdict(flow[c], ok)) /\ UNCHANGED <<core, orders>>
    BY DEF GetOrder
  <1> DEFINE res == [flow[c].result EXCEPT !.match = IF ok THEN "yes" ELSE "no"]
             g == [flow[c] EXCEPT !.pc = "returned", !.result = res]
  <1>3. res \in Result /\ (res.match = "yes" => c \in orders)
    BY <1>1, <1>2, FlowFields DEF Result
  <1>4. g = Verdict(flow[c], ok)
    BY DEF Verdict
  <1> HIDE DEF res
  <1>5. /\ g \in Flow /\ g.pc = "returned" /\ g.stage = flow[c].stage /\ g.book = flow[c].book
        /\ g.result = res
    BY <1>1, <1>3 DEF Flow, FlowPCs
  <1> HIDE DEF g
  <1>6. flow'[c] = g
    BY <1>2, <1>4, <1>5, MovesOne
  <1>7. Driven(c)'
    BY <1>1, <1>2, <1>3, <1>5, <1>6 DEF Driven, Stages
  <1> QED
    BY <1>1, <1>2, <1>4, <1>5, <1>7, CallDrives

LEMMA GarbledDrives ==
    ASSUME CoreTypeOK, NEW c \in Clients, Driven(c), Garbled(c)
    PROVE  Drives(c)
  <1> DEFINE g == [flow[c] EXCEPT !.pc = "raised"]
  <1>1. flow[c] \in Flow /\ flow[c].pc \in {"post", "poll", "order"}
    BY DEF CoreTypeOK, Garbled
  <1>2. /\ g \in Flow /\ g.pc = "raised" /\ g.stage = flow[c].stage /\ g.book = flow[c].book
        /\ g.result = flow[c].result
    BY <1>1 DEF Flow, FlowPCs
  <1>3. /\ Moves(c, g) /\ UNCHANGED orders
        /\ core' = core \/ (flow[c].pc = "post" /\ Sets(c, "running"))
    BY DEF Garbled, At
  <1> HIDE DEF g
  <1>4. core' = core \/ (flow[c].pc = "post" /\ \A stage \in Stages :
             core'[c][stage] = IF stage = flow[c].stage THEN "running" ELSE core[c][stage])
    BY <1>3, SetsOne DEF TaskStates
  <1>5. flow'[c] = g
    BY <1>2, <1>3, MovesOne
  <1>6. Driven(c)'
    BY <1>1, <1>2, <1>3, <1>4, <1>5, FlowFields DEF Driven, Stages
  <1> QED
    BY <1>1, <1>2, <1>3, <1>6, CallDrives

LEMMA CoreWorksDrives ==
    ASSUME CoreTypeOK, NEW c \in Clients, Driven(c), NEW stage \in Stages, CoreWorks(c, stage)
    PROVE  /\ CoreTypeOK' /\ Driven(c)' /\ flow' = flow
           /\ \A d \in Clients \ {c} : SameRun(d)
           /\ \A s \in Stages : /\ core[c][s] = "done" => core'[c][s] = "done"
                                /\ core[c][s] = "none" => core'[c][s] = "none"
           /\ orders \subseteq orders'
  <1>1. PICK state \in {"done", "failed"} : core' = [core EXCEPT ![c][stage] = state]
    BY DEF CoreWorks
  <1>2. /\ core' \in [Clients -> [Stages -> TaskStates]]
        /\ \A d \in Clients \ {c} : core'[d] = core[d]
        /\ \A s \in Stages : core'[c][s] = IF s = stage THEN state ELSE core[c][s]
    BY <1>1 DEF CoreTypeOK, TaskStates
  <1>3. /\ flow' = flow /\ core[c][stage] = "running"
        /\ orders' = orders \/ orders' = orders \cup {c}
    BY DEF CoreWorks
  <1>4. Driven(c)'
    BY <1>2, <1>3 DEF Driven, Stages
  <1> QED
    BY <1>2, <1>3, <1>4 DEF CoreTypeOK, SameRun

-----------------------------------------------------------------------------
\* A step leaves all requests but one alone.

SameRequest(q) == /\ pc'[q] = pc[q] /\ req'[q] = req[q] /\ resp'[q] = resp[q] /\ row'[q] = row[q]
                  /\ q \in assets' <=> q \in assets
                  /\ troubled \subseteq troubled'
                  /\ SameRun(q)

LEMMA KeptSame ==
    ASSUME NEW q \in Runs, Kept(q), SameRequest(q)
    PROVE  Kept(q)'
  BY DEF Kept, InStep, Honest, NamesOrder, Gone, Honoured, At, Answered, Had, SameRequest, SameRun

LEMMA RunsAreClients == Runs \subseteq Clients /\ UiRuns \subseteq Clients /\ Runs \cap UiRuns = {}
  BY RunAssumption

LEMMA RequestFields ==
    ASSUME TypeOK, NEW r \in Runs
    PROVE  /\ pc[r] \in PCs /\ req[r] \in Request /\ resp[r] \in Response /\ row[r] \in Rows
           /\ req[r].book \in BOOLEAN /\ req[r].keyed \in BOOLEAN
           /\ resp[r].status \in {"PENDING", "COMPLETED", "FAILED", "TIMEOUT", "ERROR"}
           /\ resp[r].code \in Codes /\ resp[r].bid \in BOOLEAN /\ resp[r].deleted \in BOOLEAN
  BY DEF TypeOK, Request, Response

LEMMA AnswerTyped ==
    ASSUME TypeOK, NEW r \in Runs,
           NEW status \in {"PENDING", "COMPLETED", "FAILED", "TIMEOUT", "ERROR"},
           NEW code \in Codes, NEW bid \in BOOLEAN
    PROVE  /\ Answer(r, status, code) \in Response
           /\ [Answer(r, status, code) EXCEPT !.bid = bid] \in Response
           /\ [resp[r] EXCEPT !.deleted = TRUE] \in Response
  BY RequestFields DEF Response, Answer

LEMMA AnswersTyped ==
    ASSUME TypeOK, NEW r \in Runs, NEW answer \in Response, Answers(r, answer)
    PROVE  resp' \in [Runs -> Response]
  BY DEF TypeOK, Answers

\* What the handlers have in common.
Handles(r) == /\ \A q \in Runs \ {r} : SameRequest(q)
              /\ \A c \in Clients \ {r} : SameRun(c)
              /\ UNCHANGED ui

LEMMA HandleFrame ==
    ASSUME RunInv, NEW r \in Runs, Handle(r) \/ OthersTearDown(r)
    PROVE  Handles(r)
  <1> USE RunsAreClients
      DEF RunInv, TypeOK, CoreTypeOK, Handles, SameRequest, SameRun, Goes, Answers, Fails, NoTrouble,
          scenario, mine, coreVars
  <1>1. CASE Reject(r) \/ Create(r) \/ Judge(r) \/ RunRaised(r)
    BY <1>1 DEF Reject, Create, Judge, RunRaised
  <1>2. CASE CreateReady(r)
    BY <1>2 DEF CreateReady
  <1>3. CASE CreateFailed(r) \/ CreateUnsaved(r)
    BY <1>3 DEF CreateFailed, CreateUnsaved
  <1>4. CASE CleanedUp(r) \/ CleanupRaises(r) \/ OthersTearDown(r)
    BY <1>4 DEF CleanedUp, CleanupRaises, OthersTearDown
  <1> QED
    BY <1>1, <1>2, <1>3, <1>4 DEF Handle

LEMMA FailsTyped ==
    ASSUME TypeOK, NEW r \in Runs, NEW call, Fails(r, call) \/ NoTrouble
    PROVE  failures' \in 0..Failures
  BY RunAssumption DEF TypeOK, Fails, NoTrouble

LEMMA HandleTyped ==
    ASSUME RunInv, NEW r \in Runs, Handle(r) \/ OthersTearDown(r)
    PROVE  TypeOK'
  <1>0. TypeOK
    BY DEF RunInv
  <1> USE <1>0, RunsAreClients, RunAssumption
      DEF TypeOK, CoreTypeOK, Goes, NoTrouble, scenario, mine, coreVars, PCs, Rows
  <1>a. \A status \in {"PENDING", "COMPLETED", "FAILED", "TIMEOUT", "ERROR"}, code \in Codes,
           bid \in BOOLEAN :
          /\ Answer(r, status, code) \in Response
          /\ [Answer(r, status, code) EXCEPT !.bid = bid] \in Response
    BY AnswerTyped
  <1>b. resp[r] \in Response /\ [resp[r] EXCEPT !.deleted = TRUE] \in Response
    BY AnswerTyped DEF Codes
  <1>1. CASE Reject(r)
    <2>1. resp' \in [Runs -> Response]
      BY <1>1, <1>a, AnswersTyped DEF Reject, Codes
    <2> QED
      BY <1>1, <2>1 DEF Reject
  <1>2. CASE Create(r)
    BY <1>2 DEF Create
  <1>3. CASE CreateReady(r)
    <2>1. Started(req[r].book) \in Flow /\ req[r].keyed \in BOOLEAN
      BY StartedFlow, RequestFields
    <2>2. resp' \in [Runs -> Response]
      BY <1>3, <1>a, AnswersTyped DEF CreateReady, Codes
    <2>3. pc' \in [Runs -> PCs] /\ req' = req
      BY <1>3 DEF CreateReady
    <2>4. flow' \in [Clients -> Flow] /\ core' = core /\ orders' = orders
      BY <1>3, <2>1 DEF CreateReady
    <2> QED
      BY <1>3, <2>1, <2>2, <2>3, <2>4 DEF CreateReady
  <1>4. CASE CreateFailed(r)
    <2>1. resp' \in [Runs -> Response]
      BY <1>4, <1>a, AnswersTyped DEF CreateFailed, Codes
    <2>2. failures' \in 0..Failures
      BY <1>4, FailsTyped DEF CreateFailed
    <2> QED
      BY <1>4, <2>1, <2>2 DEF CreateFailed
  <1>5. CASE CreateUnsaved(r)
    <2>1. resp' \in [Runs -> Response]
      BY <1>5, <1>a, AnswersTyped DEF CreateUnsaved, Codes
    <2>2. failures' \in 0..Failures
      BY <1>5, FailsTyped DEF CreateUnsaved
    <2> QED
      BY <1>5, <2>1, <2>2 DEF CreateUnsaved
  <1>6. CASE Judge(r)
    <2>1. Code(r, flow[r].result) \in Codes /\ Named(r, flow[r].result) \in BOOLEAN
      BY DEF Code, Codes, Named
    <2>2. resp' \in [Runs -> Response]
      BY <1>6, <1>a, <2>1, AnswersTyped DEF Judge
    <2> QED
      BY <1>6, <2>2 DEF Judge, JudgedTo
  <1>7. CASE RunRaised(r)
    <2>1. resp' \in [Runs -> Response]
      BY <1>7, <1>a, AnswersTyped DEF RunRaised, Codes
    <2> QED
      BY <1>7, <2>1 DEF RunRaised, RaisedTo
  <1>8. CASE CleanedUp(r)
    <2>1. resp' \in [Runs -> Response]
      BY <1>8, <1>b, AnswersTyped DEF CleanedUp
    <2>2. failures' \in 0..Failures
      BY <1>8, FailsTyped DEF CleanedUp
    <2> QED
      BY <1>8, <2>1, <2>2 DEF CleanedUp
  <1>9. CASE CleanupRaises(r)
    <2>1. resp' \in [Runs -> Response]
      BY <1>9, <1>b, AnswersTyped DEF CleanupRaises, Warned
    <2>2. failures' \in 0..Failures
      BY <1>9, FailsTyped DEF CleanupRaises
    <2> QED
      BY <1>9, <2>1, <2>2 DEF CleanupRaises
  <1>10. CASE OthersTearDown(r)
    BY <1>10 DEF OthersTearDown
  <1> QED
    BY <1>1, <1>2, <1>3, <1>4, <1>5, <1>6, <1>7, <1>8, <1>9, <1>10 DEF Handle

-----------------------------------------------------------------------------
\* Each handler keeps what its own request promises.

LEMMA AnswerFields ==
    ASSUME TypeOK, NEW r \in Runs, NEW status, NEW code, NEW bid
    PROVE  LET a == Answer(r, status, code)
               b == [Answer(r, status, code) EXCEPT !.bid = bid]
           IN /\ a.status = status /\ a.code = code /\ a.bid = resp[r].bid
              /\ a.deleted = resp[r].deleted
              /\ b.status = status /\ b.code = code /\ b.bid = bid /\ b.deleted = resp[r].deleted
  BY RequestFields DEF Response, Answer

LEMMA DeletedFields ==
    ASSUME TypeOK, NEW r \in Runs
    PROVE  LET d == [resp[r] EXCEPT !.deleted = TRUE] IN
           /\ d.status = resp[r].status /\ d.code = resp[r].code /\ d.bid = resp[r].bid
           /\ d.deleted
  BY RequestFields DEF Response

LEMMA AnswersOne ==
    ASSUME TypeOK, NEW r \in Runs, NEW answer, Answers(r, answer)
    PROVE  resp'[r] = answer
  BY DEF TypeOK, Answers

LEMMA GoesOne ==
    ASSUME TypeOK, NEW r \in Runs, NEW to, Goes(r, to)
    PROVE  pc'[r] = to /\ req' = req
  BY DEF TypeOK, Goes

LEMMA HandleKept ==
    ASSUME RunInv, NEW r \in Runs, Handle(r) \/ OthersTearDown(r)
    PROVE  Kept(r)' /\ Driven(r)'
  <1>0. TypeOK /\ Kept(r) /\ Driven(r) /\ r \in Clients
    BY RunsAreClients DEF RunInv
  <1>n. NoAnswer.status = "PENDING" /\ ~NoAnswer.deleted /\ ~NoAnswer.bid /\ NoAnswer.code = "none"
    BY DEF NoAnswer
  <1>t. /\ pc[r] \in PCs /\ row \in [Runs -> Rows] /\ req[r].book \in BOOLEAN
        /\ flow[r].result \in Result /\ flow[r].book \in BOOLEAN /\ flow \in [Clients -> Flow]
    BY <1>0, RequestFields, FlowFields DEF TypeOK, CoreTypeOK
  <1> USE <1>0, <1>n, <1>t DEF Kept, InStep, Honest, NamesOrder, Gone, Honoured, At, Answered, Had,
                        NoTrouble, scenario, coreVars, mine
  <1>1. CASE Reject(r)
    <2>1. /\ resp'[r].status = "FAILED" /\ resp'[r].code = "REJECTED" /\ ~resp'[r].deleted
          /\ pc[r] = "start" /\ pc'[r] = "answered" /\ req' = req
          /\ UNCHANGED <<row, assets, troubled, flow, core, orders>>
      BY <1>1, AnswersOne, AnswerFields, GoesOne DEF Reject
    <2> QED
      BY <2>1 DEF Driven, Stages
  <1>2. CASE Create(r)
    <2>1. /\ pc'[r] = "creating" /\ req' = req /\ row'[r] = "PENDING" /\ pc[r] = "start"
          /\ UNCHANGED <<resp, assets, troubled, flow, core, orders>>
      BY <1>2, GoesOne DEF Create
    <2> QED
      BY <2>1 DEF Driven
  <1>3. CASE CreateReady(r)
    <2>1. pc[r] = "creating" /\ row'[r] = "READY" /\ UNCHANGED <<troubled, core, orders>>
      BY <1>3 DEF CreateReady
    <2>2. CASE req[r].keyed
      <3>1. /\ pc'[r] = "running" /\ req' = req /\ resp' = resp
            /\ flow'[r] = Started(req[r].book)
        BY <1>3, <2>2, GoesOne DEF CreateReady
      <3> QED
        BY <2>1, <3>1, StartedFlow DEF Driven, Stages, NoResult
    <2>3. CASE ~req[r].keyed
      <3>1. /\ pc'[r] = "answered" /\ req' = req /\ flow' = flow
            /\ resp'[r].status = "ERROR" /\ ~resp'[r].deleted
        BY <1>3, <2>3, GoesOne, AnswersOne, AnswerFields DEF CreateReady
      <3> QED
        BY <2>1, <2>3, <3>1 DEF Driven, Stages
    <2> QED
      BY <2>2, <2>3
  <1>4. CASE CreateFailed(r)
    <2>1. /\ pc[r] = "creating" /\ pc'[r] = "cleanup" /\ req' = req /\ row'[r] = "FAILED"
          /\ resp'[r].status = "FAILED" /\ ~resp'[r].deleted
          /\ UNCHANGED <<flow, core, orders>>
      BY <1>4, GoesOne, AnswersOne, AnswerFields DEF CreateFailed
    <2> QED
      BY <2>1 DEF Driven, Stages
  <1>5. CASE CreateUnsaved(r)
    <2>1. /\ pc[r] = "creating" /\ pc'[r] = "answered" /\ req' = req /\ row' = row
          /\ resp'[r].status \in {"FAILED", "TIMEOUT"} /\ ~resp'[r].deleted
          /\ <<r, "save">> \in troubled'
          /\ UNCHANGED <<flow, core, orders>>
      BY <1>5, GoesOne, AnswersOne, AnswerFields DEF CreateUnsaved, Fails
    <2> QED
      BY <2>1 DEF Driven, Stages
  <1>6. CASE Judge(r)
    <2> DEFINE res == flow[r].result
               code == Code(r, res)
    <2>a. resp'[r] = [Answer(r, IF code = "none" THEN "COMPLETED" ELSE "FAILED", code)
                      EXCEPT !.bid = Named(r, res)]
      BY <1>6, AnswersOne DEF Judge
    <2>1. /\ pc[r] = "running" /\ flow[r].pc = "returned" /\ pc'[r] = JudgedTo(r) /\ req' = req
          /\ resp'[r].status = (IF code = "none" THEN "COMPLETED" ELSE "FAILED")
          /\ resp'[r].bid = Named(r, res) /\ ~resp'[r].deleted
          /\ UNCHANGED <<row, assets, troubled, flow, core, orders>>
      <3>1. /\ pc[r] = "running" /\ flow[r].pc = "returned" /\ pc'[r] = JudgedTo(r) /\ req' = req
            /\ UNCHANGED <<row, assets, troubled, flow, core, orders>>
        BY <1>6, GoesOne DEF Judge
      <3> HIDE DEF code, res
      <3> QED
        BY <2>a, <3>1, AnswerFields
    <2>2. code = "none" => /\ ~res.error
                           /\ req[r].book => "booking" \in res.ids /\ res.match = "yes"
      BY DEF Code
    <2>3. core[r]["booking"] # "none" => req[r].book
      BY <2>1, FlowFields DEF Driven, Stages, TypeOK, CoreTypeOK
    <2>4. pc'[r] \in {"cleanup", "answered"} /\ (pc'[r] = "answered" => ~req[r].delete)
      BY <2>1 DEF JudgedTo
    <2>5. Honest(r)'
      BY <2>1, <2>2, <2>4 DEF Driven, Named
    <2> QED
      BY <2>1, <2>3, <2>4, <2>5 DEF Driven, Named
  <1>7. CASE RunRaised(r)
    <2>1. /\ pc[r] = "running" /\ flow[r].pc = "raised" /\ pc'[r] = RaisedTo(r) /\ req' = req
          /\ resp'[r].status = "FAILED" /\ resp'[r].code = "SCENARIO_RUN_FAILED"
          /\ ~resp'[r].deleted
          /\ UNCHANGED <<row, assets, troubled, flow, core, orders>>
      BY <1>7, GoesOne, AnswersOne, AnswerFields DEF RunRaised
    <2> QED
      BY <2>1 DEF Driven, RaisedTo
  <1>8. CASE CleanedUp(r)
    <2>1. /\ pc[r] = "cleanup" /\ pc'[r] = "answered" /\ req' = req /\ row'[r] = "none"
          /\ resp'[r].status = resp[r].status /\ resp'[r].code = resp[r].code
          /\ resp'[r].bid = resp[r].bid
          /\ UNCHANGED <<flow, core, orders>>
      BY <1>8, GoesOne, AnswersOne, DeletedFields DEF CleanedUp, TypeOK
    <2>2. r \in assets' => <<r, "teardown">> \in troubled'
      BY <1>8 DEF CleanedUp, Fails
    <2> QED
      BY <2>1, <2>2 DEF Driven
  <1>9. CASE CleanupRaises(r)
    <2>1. /\ pc[r] = "cleanup" /\ pc'[r] = "answered" /\ req' = req /\ row' = row
          /\ resp'[r] = resp[r] /\ <<r, "deleteRow">> \in troubled'
          /\ UNCHANGED <<flow, core, orders>>
      BY <1>9, GoesOne, AnswersOne DEF CleanupRaises, Warned, Fails
    <2> QED
      BY <2>1 DEF Driven
  <1>10. CASE OthersTearDown(r)
    <2>1. /\ row'[r] = "none" /\ r \notin assets' /\ row[r] # "none"
          /\ UNCHANGED <<pc, req, resp, troubled, flow, core, orders>>
      BY <1>10 DEF OthersTearDown
    <2> QED
      BY <2>1 DEF Driven
  <1> QED
    BY <1>1, <1>2, <1>3, <1>4, <1>5, <1>6, <1>7, <1>8, <1>9, <1>10 DEF Handle

-----------------------------------------------------------------------------
\* Every step keeps the invariant.

LEMMA HandleStep ==
    ASSUME RunInv, NEW r \in Runs, Handle(r) \/ OthersTearDown(r)
    PROVE  RunInv'
  <1>1. Handles(r) /\ TypeOK' /\ Kept(r)' /\ Driven(r)'
    BY HandleFrame, HandleTyped, HandleKept
  <1>2. ASSUME NEW c \in Clients PROVE Driven(c)'
    BY <1>1, <1>2, DrivenSame DEF RunInv, Handles
  <1>3. ASSUME NEW q \in Runs PROVE Kept(q)'
    BY <1>1, <1>3, KeptSame DEF RunInv, Handles
  <1>4. ASSUME NEW u \in UiRuns, ui'[u] = Null PROVE At(u, "idle")'
    BY <1>1, <1>4, RunsAreClients DEF RunInv, Handles, SameRun, At
  <1> QED
    BY <1>1, <1>2, <1>3, <1>4 DEF RunInv

LEMMA PressStep ==
    ASSUME RunInv, NEW u \in UiRuns, NEW r \in Runs, PressRun(u, r)
    PROVE  RunInv'
  <1>1. PICK book \in BOOLEAN : flow' = [flow EXCEPT ![u] = Started(book)]
    BY RequestFields DEF PressRun, RunInv
  <1>2. Started(book) \in Flow /\ u \in Clients /\ u \notin Runs
    BY StartedFlow, RunsAreClients
  <1>3. /\ ui' = [ui EXCEPT ![u] = r] /\ ui[u] = Null
        /\ UNCHANGED <<mine, scenario, core, orders, troubled, failures>>
    BY DEF PressRun, NoTrouble
  <1>4. /\ flow' \in [Clients -> Flow] /\ flow'[u] = Started(book)
        /\ \A d \in Clients \ {u} : flow'[d] = flow[d]
    BY <1>1, <1>2 DEF RunInv, TypeOK, CoreTypeOK
  <1>5. TypeOK'
    BY <1>3, <1>4 DEF RunInv, TypeOK, CoreTypeOK, mine, scenario
  <1>6. ASSUME NEW c \in Clients PROVE Driven(c)'
    <2>1. CASE c = u
      BY <1>2, <1>3, <1>4, <2>1, StartedFlow DEF RunInv, Driven, At, Stages, NoResult
    <2>2. CASE c # u
      BY <1>3, <1>4, <1>6, <2>2, DrivenSame DEF RunInv, SameRun
    <2> QED
      BY <2>1, <2>2
  <1>7. ASSUME NEW q \in Runs PROVE Kept(q)'
    BY <1>2, <1>3, <1>4, <1>7, KeptSame, RunsAreClients
       DEF RunInv, SameRequest, SameRun, mine, scenario
  <1>8. ASSUME NEW v \in UiRuns, ui'[v] = Null PROVE At(v, "idle")'
    <2>1. v # u
      BY <1>3, <1>8, RunAssumption DEF RunInv, TypeOK
    <2> QED
      BY <1>3, <1>4, <1>8, <2>1, RunsAreClients DEF RunInv, TypeOK, At
  <1> QED
    BY <1>5, <1>6, <1>7, <1>8 DEF RunInv

LEMMA CallStep ==
    ASSUME RunInv, NEW c \in Clients, CallCore(c),
           UNCHANGED <<mine, scenario, ui, troubled, failures>>
    PROVE  RunInv'
  <1>1. Drives(c)
    BY PostDrives, PostFailsDrives, PollDrives, PollFailsDrives, SelectDrives, GetOrderDrives,
       GarbledDrives DEF CallCore, RunInv, TypeOK
  <1>2. TypeOK'
    BY <1>1 DEF RunInv, TypeOK, Drives, mine, scenario
  <1>3. ASSUME NEW d \in Clients PROVE Driven(d)'
    BY <1>1, <1>3, DrivenSame DEF RunInv, Drives
  <1>4. ASSUME NEW q \in Runs PROVE Kept(q)'
    <2>1. CASE q = c
      <3>1. pc[q] = "running" /\ pc'[q] = "running" /\ req' = req /\ resp' = resp
            /\ row' = row /\ assets' = assets
        BY <1>1, <1>4, <2>1, RequestFields
           DEF RunInv, Kept, InStep, At, Drives, PCs, mine, scenario
      <3>2. ~At(q, "idle")' /\ flow'[q].book = flow[q].book
        BY <1>1, <2>1 DEF Drives
      <3> QED
        BY <1>4, <3>1, <3>2
           DEF RunInv, Kept, InStep, Honest, NamesOrder, Gone, Honoured, Answered, NoAnswer
    <2>2. CASE q # c
      BY <1>1, <1>4, <2>2, KeptSame, RunsAreClients
         DEF RunInv, Drives, SameRequest, mine, scenario
    <2> QED
      BY <2>1, <2>2
  <1>5. ASSUME NEW u \in UiRuns, ui'[u] = Null PROVE At(u, "idle")'
    <2>1. At(u, "idle") /\ u # c
      BY <1>1, <1>5 DEF RunInv, At, Drives
    <2> QED
      BY <1>1, <1>5, <2>1, RunsAreClients DEF Drives, SameRun, At
  <1> QED
    BY <1>2, <1>3, <1>4, <1>5 DEF RunInv

LEMMA WorksStep ==
    ASSUME RunInv, NEW c \in Clients, NEW stage \in Stages, CoreWorks(c, stage),
           UNCHANGED <<mine, scenario, ui, troubled, failures>>
    PROVE  RunInv'
  <1>1. /\ CoreTypeOK' /\ Driven(c)' /\ flow' = flow
        /\ \A d \in Clients \ {c} : SameRun(d)
        /\ \A s \in Stages : /\ core[c][s] = "done" => core'[c][s] = "done"
                             /\ core[c][s] = "none" => core'[c][s] = "none"
        /\ orders \subseteq orders'
    BY CoreWorksDrives DEF RunInv, TypeOK
  <1>2. TypeOK'
    BY <1>1 DEF RunInv, TypeOK, mine, scenario
  <1>3. ASSUME NEW d \in Clients PROVE Driven(d)'
    BY <1>1, <1>3, DrivenSame DEF RunInv
  <1>4. ASSUME NEW q \in Runs PROVE Kept(q)'
    <2>1. CASE q = c
      BY <1>1, <1>4, <2>1
         DEF RunInv, Kept, InStep, Honest, NamesOrder, Gone, Honoured, At, Answered, Had,
             mine, scenario, Stages
    <2>2. CASE q # c
      BY <1>1, <1>4, <2>2, KeptSame, RunsAreClients
         DEF RunInv, SameRequest, mine, scenario
    <2> QED
      BY <2>1, <2>2
  <1>5. ASSUME NEW u \in UiRuns, ui'[u] = Null PROVE At(u, "idle")'
    BY <1>1, <1>5 DEF RunInv, At
  <1> QED
    BY <1>2, <1>3, <1>4, <1>5 DEF RunInv

LEMMA IdleStep == RunInv /\ UNCHANGED vars => RunInv'
  BY DEF RunInv, TypeOK, CoreTypeOK, Kept, InStep, Honest, NamesOrder, Gone, Honoured, Driven, At,
         Answered, Had, vars, mine, scenario, coreVars

LEMMA InvNext == RunInv /\ [Next]_vars => RunInv'
  BY HandleStep, PressStep, CallStep, WorksStep, IdleStep DEF Next, CoreStep

\* Types, and that a poll makes no more than its attempts (run_search_and_packages).
THEOREM RunTyped == Spec => []TypeOK
  <1>1. RunInv => TypeOK
    BY DEF RunInv
  <1> QED
    BY <1>1, InvInit, InvNext, PTL DEF Spec

\* An answer COMPLETED is only given for packages the core produced and, if a package
\* was to be booked, an order it holds (run_template's judgement of the run).
THEOREM CompletedRan == Spec => []CompletedMeansRan
  <1>1. RunInv => CompletedMeansRan
    BY DEF RunInv, Kept, Honest, CompletedMeansRan
  <1> QED
    BY <1>1, InvInit, InvNext, PTL DEF Spec

\* An order the core holds is named in the answer, however the run ended, but for an
\* exception and a lost answer to the POST.
THEOREM OrdersNamed == Spec => []OrdersAreNamed
  <1>1. RunInv => OrdersAreNamed
    BY DEF RunInv, Kept, NamesOrder, OrdersAreNamed, Answered
  <1> QED
    BY <1>1, InvInit, InvNext, PTL DEF Spec

\* An answer that says deleted is right, whoever else tears the scenario down and
\* whichever calls fail: no row, and nothing left unless the teardown failed to.
THEOREM DeletedGone == Spec => []DeletedMeansGone
  <1>1. RunInv => DeletedMeansGone
    BY DEF RunInv, Kept, Gone, DeletedMeansGone
  <1> QED
    BY <1>1, InvInit, InvNext, PTL DEF Spec

\* A run that was to delete its scenario has done so when it answers, but for the
\* exceptions the code makes (_finish_without_run, force_cleanup).
THEOREM CleanedUpAsAsked == Spec => []CleanupHonoured
  <1>1. RunInv => CleanupHonoured
    BY DEF RunInv, Kept, Honoured, CleanupHonoured
  <1> QED
    BY <1>1, InvInit, InvNext, PTL DEF Spec

-----------------------------------------------------------------------------
\* How long a run can go on.

\* Calls of the core that a run can have left, every attempt of every poll included.
FlowLeft(f) ==
    LET tries == Attempts - f.tries IN
    CASE f.pc = "idle" -> 3 * Attempts + 9
      [] f.pc = "post" -> CASE f.stage = "search" -> 3 * Attempts + 8
                            [] f.stage = "packages" -> 2 * Attempts + 6
                            [] OTHER -> Attempts + 3
      [] f.pc = "poll" -> CASE f.stage = "search" -> 2 * Attempts + 7 + tries
                            [] f.stage = "packages" -> Attempts + 5 + tries
                            [] OTHER -> 2 + tries
      [] f.pc = "select" -> Attempts + 4
      [] f.pc = "order" -> 1
      [] OTHER -> 0
CallsLeft(c) == FlowLeft(flow[c])

\* The same for a request, whose own steps go from the start to the answer.
PhasesLeft(phase) == CASE phase = "start" -> 4 [] phase = "creating" -> 3
                       [] phase = "running" -> 2 [] phase = "cleanup" -> 1
                       [] OTHER -> 0
StepsLeft(r) == CallsLeft(r) + PhasesLeft(pc[r])
MostSteps == 3 * Attempts + 13

\* A step that is a call of c's run uses one up, and no other step gives one back.
Bounded ==
    /\ \A c \in Clients : /\ CallsLeft(c)' <= CallsLeft(c)
                          /\ CallCore(c) => CallsLeft(c)' < CallsLeft(c)
    /\ \A r \in Runs : /\ StepsLeft(r) \in 0..MostSteps /\ StepsLeft(r)' <= StepsLeft(r)
                       /\ Handle(r) \/ CallCore(r) => StepsLeft(r)' < StepsLeft(r)

LEMMA FlowLeftIs ==
    ASSUME NEW f \in Flow
    PROVE  /\ FlowLeft(f) \in 0..(3 * Attempts + 9)
           /\ f.pc = "idle" => FlowLeft(f) = 3 * Attempts + 9
           /\ f.pc # "idle" => FlowLeft(f) <= 3 * Attempts + 8
           /\ f.pc \in {"returned", "raised"} => FlowLeft(f) = 0
           /\ f.pc \in {"post", "poll", "select", "order"} => FlowLeft(f) > 0
  BY FlowFields, CoreAssumption DEF FlowLeft, FlowPCs, Stages

LEMMA PhasesLeftIs ==
    ASSUME NEW phase \in PCs
    PROVE  PhasesLeft(phase) \in 0..4
  BY DEF PhasesLeft, PCs

LEMMA FailedLeft ==
    ASSUME NEW f \in Flow
    PROVE  FlowLeft(Failed(f)) = 0
  BY FailedFlow, FlowLeftIs

LEMMA PostLeft ==
    ASSUME CoreTypeOK, NEW c \in Clients, Driven(c), Post(c)
    PROVE  CallsLeft(c)' < CallsLeft(c)
  <1> DEFINE f == flow[c]
             res == [f.result EXCEPT !.ids = @ \cup {Stage(c)}]
             g == [f EXCEPT !.pc = "poll", !.tries = 0, !.result = res]
  <1>1. f \in Flow /\ f.pc = "post" /\ f.stage \in Stages
    BY FlowFields DEF CoreTypeOK, Post, At
  <1>2. res \in Result
    BY <1>1, FlowFields DEF Result, Stage
  <1>3. g \in Flow /\ g.pc = "poll" /\ g.tries = 0 /\ g.stage = f.stage
    <2> HIDE DEF res
    <2> QED
      BY <1>1, <1>2, PollingFlow
  <1>4. Moves(c, g)
    BY DEF Post
  <1> HIDE DEF f, res, g
  <1>5. flow'[c] = g
    BY <1>3, <1>4, MovesOne
  <1> QED
    BY <1>1, <1>3, <1>5, CoreAssumption DEF CallsLeft, FlowLeft, Stages, f

LEMMA PollLeft ==
    ASSUME CoreTypeOK, NEW c \in Clients, Driven(c), Poll(c)
    PROVE  CallsLeft(c)' < CallsLeft(c)
  <1> DEFINE f == TriesUp(flow[c])
  <1>1. flow[c] \in Flow /\ flow[c].pc = "poll" /\ flow[c].tries < Attempts
        /\ flow[c].stage \in Stages /\ flow[c].tries \in Nat
    BY FlowFields, CoreAssumption DEF CoreTypeOK, Poll, At, Driven
  <1>2. f \in Flow /\ f.pc = "poll" /\ f.stage = flow[c].stage /\ f.tries = flow[c].tries + 1
    BY <1>1, TriedFlow
  <1>3. PICK g : Moves(c, g) /\ g \in {Polled(f), Failed(f), f}
    BY DEF Poll
  <1> HIDE DEF f
  <1>4. g \in Flow
    BY <1>2, <1>3, PolledFlow, FailedFlow
  <1>5. flow'[c] = g
    BY <1>3, <1>4, MovesOne
  <1>6. CASE g = Polled(f)
    BY <1>1, <1>2, <1>5, <1>6, PolledFlow, CoreAssumption DEF CallsLeft, FlowLeft, Stages
  <1>7. CASE g = Failed(f)
    BY <1>1, <1>2, <1>5, <1>7, FailedLeft, FlowLeftIs DEF CallsLeft
  <1>8. CASE g = f
    BY <1>1, <1>2, <1>5, <1>8, CoreAssumption DEF CallsLeft, FlowLeft, Stages
  <1> QED
    BY <1>3, <1>6, <1>7, <1>8

LEMMA CallLeft ==
    ASSUME CoreTypeOK, NEW c \in Clients, Driven(c), CallCore(c)
    PROVE  CallsLeft(c)' < CallsLeft(c)
  <1>1. flow[c] \in Flow
    BY DEF CoreTypeOK
  <1>2. ASSUME NEW g \in Flow, Moves(c, g), g.pc \in {"returned", "raised"},
               flow[c].pc \in {"post", "poll", "select", "order"}
        PROVE  CallsLeft(c)' < CallsLeft(c)
    BY <1>1, <1>2, MovesOne, FlowLeftIs DEF CallsLeft
  <1>3. CASE PostFails(c) \/ PollFails(c)
    BY <1>1, <1>2, <1>3, FailedFlow DEF PostFails, PollFails, At
  <1>4. CASE Select(c)
    <2> DEFINE f == [flow[c] EXCEPT !.stage = "booking"]
               h == [f EXCEPT !.pc = "post"]
    <2>1. flow[c].pc = "select" /\ (Moves(c, h) \/ Moves(c, Failed(f)))
      BY <1>4 DEF Select, At
    <2>2. f \in Flow /\ h \in Flow /\ h.pc = "post" /\ h.stage = "booking"
      BY <1>1 DEF Flow, FlowPCs, Stages
    <2> HIDE DEF f, h
    <2>3. CASE Moves(c, h)
      <3>1. flow'[c] = h
        BY <2>2, <2>3, MovesOne
      <3> QED
        BY <1>1, <2>1, <2>2, <3>1, CoreAssumption DEF CallsLeft, FlowLeft
    <2> QED
      BY <1>2, <2>1, <2>2, <2>3, FailedFlow
  <1>5. CASE GetOrder(c)
    <2>1. PICK ok \in BOOLEAN : Moves(c, Verdict(flow[c], ok))
      BY <1>5 DEF GetOrder
    <2> DEFINE res == [flow[c].result EXCEPT !.match = IF ok THEN "yes" ELSE "no"]
               g == [flow[c] EXCEPT !.pc = "returned", !.result = res]
    <2>2. res \in Result
      BY <1>1, FlowFields DEF Result
    <2>3. g = Verdict(flow[c], ok)
      BY DEF Verdict
    <2> HIDE DEF res
    <2>4. g \in Flow /\ g.pc = "returned"
      BY <1>1, <2>2 DEF Flow, FlowPCs
    <2> HIDE DEF g
    <2> QED
      BY <1>2, <1>5, <2>1, <2>3, <2>4 DEF GetOrder, At
  <1>6. CASE Garbled(c)
    <2> DEFINE g == [flow[c] EXCEPT !.pc = "raised"]
    <2>1. g \in Flow /\ g.pc = "raised" /\ Moves(c, g)
      BY <1>1, <1>6 DEF Garbled, Flow, FlowPCs
    <2> HIDE DEF g
    <2> QED
      BY <1>2, <1>6, <2>1 DEF Garbled
  <1> QED
    BY <1>3, <1>4, <1>5, <1>6, PostLeft, PollLeft DEF CallCore

LEMMA SameLeft ==
    ASSUME NEW c, flow'[c] = flow[c]
    PROVE  CallsLeft(c)' = CallsLeft(c)
  BY DEF CallsLeft

\* A handler goes to a later phase; the one that starts a run finds none started.
LEMMA HandleLeft ==
    ASSUME RunInv, NEW r \in Runs, Handle(r)
    PROVE  StepsLeft(r)' < StepsLeft(r) /\ CallsLeft(r)' <= CallsLeft(r)
  <1>1. r \in Clients /\ pc \in [Runs -> PCs] /\ flow \in [Clients -> Flow] /\ flow[r] \in Flow
    BY RunsAreClients DEF RunInv, TypeOK, CoreTypeOK
  <1>2. CallsLeft(r) \in Nat /\ CallsLeft(r) <= 3 * Attempts + 9
    BY <1>1, FlowLeftIs, CoreAssumption DEF CallsLeft
  <1>3. CASE CreateReady(r) /\ req[r].keyed
    <2>1. flow' = [flow EXCEPT ![r] = Started(req[r].book)] /\ pc[r] = "creating" /\ pc'[r] = "running"
      BY <1>1, <1>3 DEF CreateReady, Goes
    <2>2. Started(req[r].book) \in Flow /\ Started(req[r].book).pc = "post"
      BY RequestFields, StartedFlow DEF RunInv
    <2>3. flow'[r] \in Flow /\ flow'[r].pc = "post"
      BY <1>1, <2>1, <2>2
    <2>4. flow[r].pc = "idle"
      BY <2>1 DEF RunInv, Kept, InStep, At
    <2>5. CallsLeft(r) = 3 * Attempts + 9 /\ CallsLeft(r)' \in Nat /\ CallsLeft(r)' <= 3 * Attempts + 8
      BY <1>1, <2>3, <2>4, FlowLeftIs, CoreAssumption DEF CallsLeft
    <2> QED
      BY <2>1, <2>5, CoreAssumption DEF StepsLeft, PhasesLeft
  <1>4. CASE ~(CreateReady(r) /\ req[r].keyed)
    <2>1. flow' = flow
      BY <1>4 DEF Handle, Reject, Create, CreateReady, CreateFailed, CreateUnsaved, Judge, RunRaised,
                  CleanedUp, CleanupRaises, coreVars
    <2>2. CallsLeft(r)' = CallsLeft(r)
      BY <2>1, SameLeft
    <2>3. PhasesLeft(pc[r])' < PhasesLeft(pc[r])
      <3> USE <1>1 DEF PhasesLeft, Goes, PCs
      <3>1. CASE Reject(r) \/ Create(r) \/ CreateReady(r)
        BY <1>4, <3>1 DEF Reject, Create, CreateReady
      <3>2. CASE CreateFailed(r) \/ CreateUnsaved(r)
        BY <3>2 DEF CreateFailed, CreateUnsaved
      <3>3. CASE Judge(r) \/ RunRaised(r)
        BY <3>3 DEF Judge, RunRaised, JudgedTo, RaisedTo
      <3>4. CASE CleanedUp(r) \/ CleanupRaises(r)
        BY <3>4 DEF CleanedUp, CleanupRaises
      <3> QED
        BY <3>1, <3>2, <3>3, <3>4 DEF Handle
    <2>4. pc[r] \in PCs /\ pc'[r] \in PCs
      BY <1>1, HandleTyped DEF RunInv, TypeOK
    <2> QED
      BY <1>2, <2>2, <2>3, <2>4, PhasesLeftIs DEF StepsLeft
  <1> QED
    BY <1>3, <1>4

\* Every run is over after a bounded number of calls, and every request answered after
\* MostSteps steps of its own, whatever the core and others do in between: no poll,
\* retry or cleanup can go on for ever (the loops of _poll_until_completed and
\* _poll_booking, and run_template).
THEOREM RunsAreBounded == Spec => [][Bounded]_vars
  <1>1. ASSUME RunInv, [Next]_vars, vars' # vars PROVE Bounded
    <2>0. /\ RunInv' /\ \A c \in Clients : flow[c] \in Flow /\ flow'[c] \in Flow
          /\ \A r \in Runs : r \in Clients /\ pc[r] \in PCs /\ pc'[r] \in PCs
      BY <1>1, InvNext, RunsAreClients DEF RunInv, TypeOK, CoreTypeOK
    <2>1. /\ \A c \in Clients : /\ CallsLeft(c) \in Nat /\ CallsLeft(c)' \in Nat
                                /\ CallsLeft(c) <= 3 * Attempts + 9
          /\ \A r \in Runs : PhasesLeft(pc[r]) \in 0..4 /\ PhasesLeft(pc[r])' \in 0..4
      BY <2>0, FlowLeftIs, PhasesLeftIs, CoreAssumption DEF CallsLeft
    <2>2. \A c \in Clients : CallCore(c) => CallsLeft(c)' < CallsLeft(c)
      BY <1>1, CallLeft DEF RunInv, TypeOK
    <2>3. \A r \in Runs : Handle(r) => StepsLeft(r)' < StepsLeft(r) /\ CallsLeft(r)' <= CallsLeft(r)
      BY <1>1, HandleLeft
    <2>4. /\ \A c \in Clients : CallsLeft(c)' <= CallsLeft(c)
          /\ \A r \in Runs : Handle(r) \/ pc'[r] = pc[r]
      <3>1. CASE \E r \in Runs : Handle(r) \/ OthersTearDown(r)
        <4>1. PICK r \in Runs : Handle(r) \/ OthersTearDown(r)
          BY <3>1
        <4>2. Handles(r)
          BY <1>1, <4>1, HandleFrame
        <4>3. CallsLeft(r)' <= CallsLeft(r) /\ (Handle(r) \/ pc'[r] = pc[r])
          <5>1. CASE OthersTearDown(r)
            BY <2>0, <2>1, <5>1, SameLeft DEF OthersTearDown, coreVars, mine
          <5> QED
            BY <2>3, <4>1, <5>1
        <4> QED
          BY <2>1, <4>2, <4>3, SameLeft DEF Handles, SameRun, SameRequest
      <3>2. CASE \E u \in UiRuns, r \in Runs : PressRun(u, r)
        <4>1. PICK u \in UiRuns, r \in Runs : PressRun(u, r)
          BY <3>2
        <4>2. PICK book \in BOOLEAN : flow' = [flow EXCEPT ![u] = Started(book)]
          BY <1>1, <4>1, RequestFields DEF PressRun, RunInv
        <4>3. u \in Clients /\ flow[u].pc = "idle" /\ flow[u] \in Flow
          BY <1>1, <2>0, <4>1, RunsAreClients DEF PressRun, RunInv, At
        <4>4. \A c \in Clients \ {u} : flow'[c] = flow[c]
          BY <1>1, <4>2 DEF RunInv, TypeOK, CoreTypeOK
        <4>5. CallsLeft(u)' <= CallsLeft(u)
          BY <2>0, <4>3, FlowLeftIs, CoreAssumption DEF CallsLeft
        <4> QED
          BY <2>1, <4>1, <4>4, <4>5, SameLeft DEF PressRun, mine
      <3>3. CASE CoreStep
        <4>1. PICK c \in Clients : CallCore(c) \/ \E stage \in Stages : CoreWorks(c, stage)
          BY <3>3 DEF CoreStep
        <4>2. CASE CallCore(c)
          <5>1. Drives(c)
            BY <1>1, <4>2, PostDrives, PostFailsDrives, PollDrives, PollFailsDrives, SelectDrives,
               GetOrderDrives, GarbledDrives DEF CallCore, RunInv, TypeOK
          <5> QED
            BY <2>1, <2>2, <3>3, <4>2, <5>1, SameLeft DEF Drives, SameRun, CoreStep, mine
        <4>3. CASE \E stage \in Stages : CoreWorks(c, stage)
          BY <2>1, <3>3, <4>3, SameLeft DEF CoreWorks, CoreStep, mine
        <4> QED
          BY <4>1, <4>2, <4>3
      <3> QED
        BY <1>1, <3>1, <3>2, <3>3 DEF Next
    <2>5. ASSUME NEW r \in Runs
          PROVE  /\ StepsLeft(r) \in 0..MostSteps /\ StepsLeft(r)' <= StepsLeft(r)
                 /\ Handle(r) \/ CallCore(r) => StepsLeft(r)' < StepsLeft(r)
      <3>0. StepsLeft(r) \in 0..MostSteps /\ StepsLeft(r)' \in Nat
        BY <2>0, <2>1, <2>5, CoreAssumption DEF StepsLeft, MostSteps
      <3>1. CASE Handle(r)
        <4>1. StepsLeft(r)' < StepsLeft(r)
          BY <2>3, <2>5, <3>1
        <4> QED
          BY <3>0, <4>1, CoreAssumption DEF MostSteps
      <3>2. CASE pc'[r] = pc[r]
        BY <2>0, <2>1, <2>2, <2>3, <2>4, <2>5, <3>2, CoreAssumption DEF StepsLeft, MostSteps
      <3> QED
        BY <2>4, <3>1, <3>2
    <2> QED
      BY <2>2, <2>4, <2>5 DEF Bounded
  <1>2. RunInv /\ [Next]_vars => [Bounded]_vars
    BY <1>1
  <1> QED
    BY <1>2, InvInit, InvNext, PTL DEF Spec
=============================================================================
