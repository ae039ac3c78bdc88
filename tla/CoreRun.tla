------------------------------- MODULE CoreRun -------------------------------
(***************************************************************************)
(* Driving the core application with a scenario's apiKey                   *)
(* (integrations/core_app.py, run_search_and_packages): search, packages   *)
(* and, when a package was selected, book and getOrder.  Search, packages  *)
(* and booking are tasks of the core, started by a POST and polled with a  *)
(* bounded number of GETs; the core works on them at its own pace.         *)
(***************************************************************************)
EXTENDS Naturals

CONSTANTS
    Clients,     \* who drives a run of the core
    Attempts     \* GETs per poll (16 in the code)

Stages == {"search", "packages", "booking"}
TaskStates == {"none", "running", "done", "failed"}

\* CrawlaRunScenarioResponse: which ids were returned, how each poll ended, and
\* the verdict on the order ("none": no booking flow).
Result == [ids : SUBSET Stages, polled : SUBSET Stages,
           match : {"none", "no", "yes"}, error : BOOLEAN]
NoResult == [ids |-> {}, polled |-> {}, match |-> "none", error |-> FALSE]

FlowPCs == {"idle", "post", "poll", "select", "order", "returned", "raised"}
Flow == [pc : FlowPCs, stage : Stages, tries : 0..Attempts, book : BOOLEAN,
         result : Result]
NoFlow == [pc |-> "idle", stage |-> "search", tries |-> 0, book |-> FALSE,
           result |-> NoResult]

ASSUME CoreAssumption == Attempts \in Nat \ {0}

VARIABLES
    flow,    \* where each client's run is
    core,    \* the core's tasks: [Clients -> [Stages -> TaskStates]]
    orders   \* clients whose booking the core has confirmed

coreVars == <<flow, core, orders>>

CoreInit == /\ flow = [c \in Clients |-> NoFlow]
            /\ core = [c \in Clients |-> [stage \in Stages |-> "none"]]
            /\ orders = {}

At(c, pc) == flow[c].pc = pc
Stage(c) == flow[c].stage
Moves(c, f) == flow' = [flow EXCEPT ![c] = f]
Sets(c, state) == core' = [core EXCEPT ![c][Stage(c)] = state]

\* A CoreAppError.  In search and packages it ends the run with an error message;
\* in the booking flow it becomes a verdict, and what came before still counts.
Failed(f) == IF f.stage = "booking"
             THEN [f EXCEPT !.pc = "returned", !.result.match = "no"]
             ELSE [f EXCEPT !.pc = "returned", !.result.error = TRUE]

Started(book) == [NoFlow EXCEPT !.pc = "post", !.book = book]

\* POST /search, /packages, /booking: the core starts a task and returns its id.
Post(c) ==
    /\ At(c, "post")
    /\ Sets(c, "running")
    /\ Moves(c, [flow[c] EXCEPT !.pc = "poll", !.tries = 0, !.result.ids = @ \cup {Stage(c)}])
    /\ UNCHANGED orders

\* A refused POST, one whose answer timed out or came without an id: the task
\* may be running all the same.
PostFails(c) ==
    /\ At(c, "post")
    /\ \/ Sets(c, "running")
       \/ UNCHANGED core
    /\ Moves(c, Failed(flow[c]))
    /\ UNCHANGED orders

\* After a poll that found its task done.
Polled(f) == LET r == [f EXCEPT !.result.polled = @ \cup {f.stage}]
             IN CASE f.stage = "search" -> [r EXCEPT !.pc = "post", !.stage = "packages"]
                  [] f.stage = "packages" ->
                       [r EXCEPT !.pc = IF f.book THEN "select" ELSE "returned"]
                  [] f.stage = "booking" -> [r EXCEPT !.pc = "order"]

\* _poll_until_completed and _poll_booking, one GET.  Every attempt may find the
\* task still running; the last one that does ends the poll.
LastTry(f) == f.tries = Attempts
\* Mutant: the attempts are not counted.
TriesUp_Never(f) == f
TriesUp(f) == [f EXCEPT !.tries = @ + 1]
Poll(c) ==
    /\ At(c, "poll")
    /\ LET f == TriesUp(flow[c]) IN
         Moves(c, CASE core[c][Stage(c)] = "done" -> Polled(f)
                   [] core[c][Stage(c)] = "failed" -> Failed(f)
                   [] OTHER -> IF LastTry(f) THEN Failed(f) ELSE f)
    /\ UNCHANGED <<core, orders>>

\* A poll that is refused or times out is not repeated.
PollFails(c) ==
    /\ At(c, "poll")
    /\ Moves(c, Failed(flow[c]))
    /\ UNCHANGED <<core, orders>>

\* _select_package: some package, whichever fits best, unless there is none.
Select(c) ==
    /\ At(c, "select")
    /\ LET f == [flow[c] EXCEPT !.stage = "booking"] IN
         \/ Moves(c, [f EXCEPT !.pc = "post"])
         \/ Moves(c, Failed(f))
    /\ UNCHANGED <<core, orders>>

\* POST /booking/get-order: the verdict needs the order's status and its price.
Verdict(f, ok) == [f EXCEPT !.pc = "returned", !.result.match = IF ok THEN "yes" ELSE "no"]
GetOrder(c) ==
    /\ At(c, "order")
    /\ \E ok \in BOOLEAN : /\ ok => c \in orders
                          /\ Moves(c, Verdict(flow[c], ok))
    /\ UNCHANGED <<core, orders>>

\* An answer that is no JSON raises what the CoreAppError handlers do not catch.
Garbled(c) ==
    /\ flow[c].pc \in {"post", "poll", "order"}
    /\ \/ At(c, "post") /\ Sets(c, "running")
       \/ UNCHANGED core
    /\ Moves(c, [flow[c] EXCEPT !.pc = "raised"])
    /\ UNCHANGED orders

\* The core finishes a task; a booking it finishes may be confirmed as an order,
\* whether or not anyone still polls for it.
CoreWorks(c, stage) ==
    /\ core[c][stage] = "running"
    /\ \E state \in {"done", "failed"} :
         /\ core' = [core EXCEPT ![c][stage] = state]
         /\ \/ UNCHANGED orders
            \/ stage = "booking" /\ state = "done" /\ orders' = orders \cup {c}
    /\ UNCHANGED flow

CallCore(c) == \/ Post(c) \/ PostFails(c) \/ Poll(c) \/ PollFails(c) \/ Select(c)
               \/ GetOrder(c) \/ Garbled(c)

CoreTypeOK == /\ flow \in [Clients -> Flow]
              /\ core \in [Clients -> [Stages -> TaskStates]]
              /\ orders \subseteq Clients
=============================================================================
