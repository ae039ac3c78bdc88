----------------------------- MODULE CrawlaQueue -----------------------------
(***************************************************************************)
(* The queue of Crawla scenarios in the browser                            *)
(* (components/CrawlaQueueRunner.tsx): for one bucket after the other it   *)
(* creates a scenario, polls until it is READY, runs it, asks for its      *)
(* teardown and polls until it is gone; whatever happens in between, the   *)
(* scenario is to be torn down before the next bucket.                     *)
(*                                                                         *)
(* The loop outlives its screen: when the user leaves the tab, the         *)
(* component is unmounted and its loop goes on, without a Stop button, and *)
(* a new component may start another.  The backend works in background     *)
(* tasks (ScenarioLifecycle has them in full); any request may fail, and   *)
(* others use the scenarios too.                                           *)
(***************************************************************************)
EXTENDS Naturals

CONSTANTS
    Loops,       \* calls of runAll
    Buckets,     \* the length of BUCKET_ORDER
    PollReady,   \* MAX_POLL_READY
    PollTorn,    \* MAX_POLL_TORN
    None

ASSUME QueueAssumption == /\ Buckets \in Nat \ {0} /\ PollReady \in Nat \ {0}
                          /\ PollTorn \in Nat \ {0} /\ None \notin Loops

Scenarios == Loops \X (1..Buckets)

VARIABLES
    shown,     \* the loop of the component on the screen, None before its start
    pc,        \* [Loops -> Phases]
    at,        \* [Loops -> the bucket it is at]
    known,     \* loops whose bucket has a scenario id
    torn,      \* tornDown: loops whose bucket's teardown was accepted
    polls,     \* [Loops -> attempts of the poll under way]
    stopped,   \* abortRef: loops told to stop
    item,      \* [Scenarios -> BucketStatus; "warned" is completed, with an error]
    row,       \* [Scenarios -> status of the scenario row, or "none"]
    task,      \* [Scenarios -> background tasks at work on it]
    mocks,     \* scenarios with mocks on MockServer
    asked,     \* history: [Scenarios -> what became of the loop's teardown request]
    hurt,      \* history: scenarios with a teardown call that failed, or a teardown
               \* that overlapped the create
    lost       \* history: scenarios whose id never reached the loop

loopVars == <<shown, pc, at, known, torn, polls, stopped, item, asked>>
serverVars == <<row, task, mocks, hurt, lost>>
vars == <<loopVars, serverVars>>

Phases == {"idle", "next", "create", "poll", "run", "delete", "verify", "finally", "ended"}
Items == {"pending", "running", "completed", "warned", "failed"}
Rows == {"none", "PENDING", "READY", "FAILED", "TORN_DOWN"}
Tasks == {"create", "teardown", "deleteRow"}

Here(l) == <<l, at[l]>>
Goto(l, phase) == pc' = [pc EXCEPT ![l] = phase]
Mark(l, status) == item' = [item EXCEPT ![Here(l)] = status]

Init == /\ shown = None
        /\ pc = [l \in Loops |-> "idle"] /\ at = [l \in Loops |-> 1]
        /\ known = {} /\ torn = {} /\ stopped = {} /\ polls = [l \in Loops |-> 0]
        /\ item = [s \in Scenarios |-> "pending"]
        /\ row = [s \in Scenarios |-> "none"] /\ task = [s \in Scenarios |-> {}]
        /\ mocks = {} /\ hurt = {} /\ lost = {} /\ asked = [s \in Scenarios |-> "no"]

-----------------------------------------------------------------------------
\* The user.

\* runAll; the button is disabled while the component's own loop runs.
Start(l) == /\ pc[l] = "idle"
            /\ shown # None => pc[shown] = "ended"
            /\ shown' = l /\ Goto(l, "next")
            /\ UNCHANGED <<at, known, torn, polls, stopped, item, asked, serverVars>>

\* Another tab and back: a new component, whose state is fresh.
Leave == /\ shown # None /\ shown' = None
         /\ UNCHANGED <<pc, at, known, torn, polls, stopped, item, asked, serverVars>>

\* handleStop.
Stop == /\ shown # None /\ pc[shown] # "ended"
        /\ stopped' = stopped \cup {shown}
        /\ UNCHANGED <<shown, pc, at, known, torn, polls, item, asked, serverVars>>

-----------------------------------------------------------------------------
\* One bucket.  The flag to stop is looked at when an answer has come.

NextBucket(l) == /\ pc[l] = "next" /\ at[l] <= Buckets /\ l \notin stopped
                 /\ Mark(l, "running") /\ Goto(l, "create")
                 /\ UNCHANGED <<shown, at, known, torn, polls, stopped, asked, serverVars>>
End(l) == /\ pc[l] = "next" /\ (at[l] > Buckets \/ l \in stopped)
          /\ Goto(l, "ended")
          /\ UNCHANGED <<shown, at, known, torn, polls, stopped, item, asked, serverVars>>

\* An answer that was waited for: on to the next phase, or out of the bucket.
Onward(l, phase) == /\ Goto(l, IF l \in stopped THEN "finally" ELSE phase)
                    /\ polls' = [polls EXCEPT ![l] = 0]
                    /\ UNCHANGED <<shown, at, stopped, item>>
\* catch: the bucket has failed, the queue goes on.
Caught(l) == /\ Mark(l, "failed") /\ Goto(l, "finally")
             /\ UNCHANGED <<shown, at, known, torn, polls, stopped, asked>>

\* create_crawla_scenario saves the row before it answers.
Accepted(s) == /\ row' = [row EXCEPT ![s] = "PENDING"]
               /\ task' = [task EXCEPT ![s] = {"create"}]
               /\ UNCHANGED <<mocks, hurt>>
Create(l) == /\ pc[l] = "create" /\ Accepted(Here(l))
             /\ known' = known \cup {l} /\ Onward(l, "poll")
             /\ UNCHANGED <<torn, asked, lost>>
\* Refused, or accepted and the answer lost: no id either way.
CreateFails(l) == /\ pc[l] = "create" /\ Caught(l)
                  /\ \/ Accepted(Here(l)) /\ lost' = lost \cup {Here(l)}
                     \/ UNCHANGED serverVars

\* pollUntilStatus(["READY"]).
Ready(l) == /\ pc[l] = "poll" /\ row[Here(l)] = "READY" /\ Onward(l, "run")
            /\ UNCHANGED <<known, torn, asked, serverVars>>
\* Mutant: the count starts over.
Tries_Endless(l, limit) == polls' = [polls EXCEPT ![l] = (@ + 1) % limit]
Tries(l, limit) == polls[l] + 1 < limit /\ polls' = [polls EXCEPT ![l] = @ + 1]
NotYet(l) == /\ pc[l] = "poll" /\ row[Here(l)] \notin {"READY", "FAILED", "none"}
             /\ Tries(l, PollReady)
             /\ UNCHANGED <<shown, pc, at, known, torn, stopped, item, asked, serverVars>>
\* FAILED, not found, or out of attempts.
PollThrows(l) == /\ pc[l] = "poll"
                 /\ \/ row[Here(l)] \in {"FAILED", "none"}
                    \/ row[Here(l)] # "READY" /\ polls[l] + 1 = PollReady
                 /\ Caught(l) /\ UNCHANGED serverVars
PollFails(l) == pc[l] = "poll" /\ Caught(l) /\ UNCHANGED serverVars

\* run_crawla_scenario.
Run(l) == /\ pc[l] = "run" /\ row[Here(l)] = "READY" /\ Onward(l, "delete")
          /\ UNCHANGED <<known, torn, asked, serverVars>>
RunFails(l) == pc[l] = "run" /\ Caught(l) /\ UNCHANGED serverVars

\* DELETE /api/scenarios/{id}: 404 or 409 without a row to tear down.  A second one
\* that comes before the first has begun does the same again, and counts as one.
Teardown(s, answer) == /\ row[s] \notin {"none", "TORN_DOWN"}
                       /\ task' = [task EXCEPT ![s] = @ \cup {"teardown"}]
                       /\ hurt' = IF "create" \in task[s] THEN hurt \cup {s} ELSE hurt
                       /\ asked' = [asked EXCEPT ![s] = answer]
                       /\ UNCHANGED <<row, mocks, lost>>
\* Refused, or accepted and the answer lost.
TeardownFails(s) == \/ asked' = [asked EXCEPT ![s] = "failed"] /\ UNCHANGED serverVars
                    \/ Teardown(s, "failed")
Delete(l) == /\ pc[l] = "delete" /\ Teardown(Here(l), "accepted")
             /\ torn' = torn \cup {l}
             /\ Goto(l, "verify") /\ polls' = [polls EXCEPT ![l] = 0]
             /\ UNCHANGED <<shown, at, known, stopped, item>>
DeleteFails(l) == /\ pc[l] = "delete" /\ TeardownFails(Here(l))
                  /\ Mark(l, "failed") /\ Goto(l, "finally")
                  /\ UNCHANGED <<shown, at, known, torn, polls, stopped>>

\* pollUntilStatus(["TORN_DOWN"]), where not found is as good.
Verified(l) == /\ pc[l] = "verify" /\ row[Here(l)] \in {"TORN_DOWN", "none"}
               /\ Mark(l, "completed") /\ Goto(l, "finally")
               /\ UNCHANGED <<shown, at, known, torn, polls, stopped, asked, serverVars>>
StillThere(l) == /\ pc[l] = "verify" /\ row[Here(l)] \notin {"TORN_DOWN", "none"}
                 /\ Tries(l, PollTorn)
                 /\ UNCHANGED <<shown, pc, at, known, torn, stopped, item, asked, serverVars>>
\* Out of attempts, or the request failed: completed with a warning.
Warned(l) == /\ Mark(l, "warned") /\ Goto(l, "finally")
             /\ UNCHANGED <<shown, at, known, torn, polls, stopped, asked, serverVars>>
Unverified(l) == /\ pc[l] = "verify" /\ row[Here(l)] \notin {"TORN_DOWN", "none"}
                 /\ polls[l] + 1 = PollTorn /\ Warned(l)
VerifyFails(l) == pc[l] = "verify" /\ Warned(l)

\* finally: a scenario that was created and not torn down is torn down now; a
\* request that fails is forgotten.
\* Mutant: nothing is.
Leftover_None(l) == FALSE
Leftover(l) == l \in known \ torn
NextAfter(l) == /\ pc[l] = "finally"
                /\ at' = [at EXCEPT ![l] = @ + 1] /\ Goto(l, "next")
                /\ known' = known \ {l} /\ torn' = torn \ {l}
                /\ UNCHANGED <<shown, polls, stopped, item>>
Finally(l) == /\ NextAfter(l)
              /\ IF Leftover(l) THEN Teardown(Here(l), "accepted") \/ TeardownFails(Here(l))
                 ELSE UNCHANGED <<asked, serverVars>>

Answered(l) == \/ NextBucket(l) \/ End(l) \/ Create(l) \/ Ready(l) \/ NotYet(l) \/ PollThrows(l)
               \/ Run(l) \/ Delete(l) \/ Verified(l) \/ StillThere(l) \/ Unverified(l)
               \/ Finally(l)
Failing(l) == CreateFails(l) \/ PollFails(l) \/ RunFails(l) \/ DeleteFails(l) \/ VerifyFails(l)

-----------------------------------------------------------------------------
\* The backend: run_create_scenario registers mocks and saves its row, back to
\* life if it was deleted in between; run_teardown clears and deletes it.

Register(s) == /\ "create" \in task[s] /\ mocks' = mocks \cup {s}
               /\ UNCHANGED <<loopVars, row, task, hurt, lost>>
CreateEnds(s) == /\ "create" \in task[s]
                 /\ \/ s \in mocks /\ row' = [row EXCEPT ![s] = "READY"]
                    \/ row' = [row EXCEPT ![s] = "FAILED"]
                 /\ task' = [task EXCEPT ![s] = @ \ {"create"}]
                 /\ UNCHANGED <<loopVars, mocks, hurt, lost>>
ClearMocks(s) == /\ "teardown" \in task[s]
                 /\ \/ /\ mocks' = mocks \ {s} /\ row' = [row EXCEPT ![s] = "TORN_DOWN"]
                       /\ UNCHANGED hurt
                    \/ hurt' = hurt \cup {s} /\ UNCHANGED <<mocks, row>>
                 /\ task' = [task EXCEPT ![s] = (@ \ {"teardown"}) \cup {"deleteRow"}]
                 /\ UNCHANGED <<loopVars, lost>>
DeleteRow(s) == /\ "deleteRow" \in task[s]
                /\ row' = [row EXCEPT ![s] = "none"]
                /\ task' = [task EXCEPT ![s] = @ \ {"deleteRow"}]
                /\ UNCHANGED <<loopVars, mocks, hurt, lost>>

\* "Clear all data" by someone else.
OthersClear(s) == /\ row[s] = "READY" /\ task[s] = {}
                  /\ row' = [row EXCEPT ![s] = "none"] /\ mocks' = mocks \ {s}
                  /\ UNCHANGED <<loopVars, task, hurt, lost>>

Next == \/ Leave \/ Stop
        \/ \E l \in Loops : Start(l) \/ Answered(l) \/ Failing(l)
        \/ \E s \in Scenarios : \/ Register(s) \/ CreateEnds(s) \/ ClearMocks(s)
                                \/ DeleteRow(s) \/ OthersClear(s)

\* Every request is answered or fails (POST and DELETE are not repeated, so either
\* will do) and every timer fires; a poll need not fail.  Of the backend's tasks
\* and of the user nothing is assumed.
Progress(l) == Answered(l) \/ CreateFails(l) \/ RunFails(l) \/ DeleteFails(l)
Spec == Init /\ [][Next]_vars /\ \A l \in Loops : WF_vars(Progress(l))

-----------------------------------------------------------------------------
\* What holds.

TypeOK ==
    /\ shown \in Loops \cup {None} /\ pc \in [Loops -> Phases]
    /\ at \in [Loops -> 1..Buckets + 1] /\ polls \in [Loops -> Nat]
    /\ known \subseteq Loops /\ torn \subseteq known /\ stopped \subseteq Loops
    /\ item \in [Scenarios -> Items] /\ row \in [Scenarios -> Rows]
    /\ task \in [Scenarios -> SUBSET Tasks] /\ mocks \subseteq Scenarios
    /\ asked \in [Scenarios -> {"no", "accepted", "failed"}] /\ hurt \subseteq Scenarios

\* "Executed, and cleared before the next one begins" (App.tsx): once the loop is
\* past a bucket and the tasks of its scenario are over, nothing of it is left,
\* unless its id never reached the loop, the teardown request or one of its calls
\* failed, or the teardown overlapped the create.  A bucket that shows as completed
\* without a warning is cleared already, and for good.  Whenever the user stops it or
\* leaves.
BucketsCleared ==
    \A l \in Loops, k \in 1..Buckets :
        LET s == <<l, k>>
            over == at[l] > k /\ task[s] = {}
        IN  /\ over /\ s \notin lost /\ asked[s] = "no" => row[s] = "none" /\ s \notin mocks
            /\ over /\ asked[s] = "accepted" /\ s \notin hurt => row[s] = "none" /\ s \notin mocks
            /\ item[s] = "completed" => row[s] \in {"TORN_DOWN", "none"} /\ s \notin mocks \ hurt

\* A queue that was started ends: whatever the backend does, every wait is bounded.
QueueEnds == \A l \in Loops : pc[l] = "next" ~> pc[l] = "ended"
=============================================================================
