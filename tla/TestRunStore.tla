---------------------------- MODULE TestRunStore ----------------------------
(***************************************************************************)
(* The live test-run store (services/test_run_store.py): one entry of a    *)
(* dictionary in memory, to which a Java test listener posts results and,  *)
(* separately, the step trees of those results.  The routes are plain      *)
(* functions, so each request has a thread of its own, and threads switch  *)
(* between the store's reads and writes.                                   *)
(*                                                                         *)
(* One run_id is modelled; runs share nothing.                             *)
(***************************************************************************)
EXTENDS Naturals, Sequences, FiniteSets, SequencesExt

CONSTANTS
    Posts,       \* POST /{run_id}/result requests, each with one test result
    StepPosts,   \* POST /{run_id}/result-steps requests, each with a step tree
    Completes,   \* POST /{run_id}/complete requests
    Threads,     \* how many requests are handled at once (40 in the server's pool)
    Methods,     \* test methods
    Batches,     \* which test method and status each request is about
    None

Statuses == {"PASSED", "FAILED", "SKIPPED", "ABORTED"}
Counters == {"total", "passed", "failed", "skipped"}
Requests == Posts \cup StepPosts \cup Completes
Batch == [method : [Posts \cup StepPosts -> Methods], status : [Posts -> Statuses]]

\* TestRunState objects are named after the request that made them, or "start".
Objects == Posts \cup {"start"}
Object == [results : Seq(Posts), count : [Counters -> Nat], status : {"RUNNING", "COMPLETE"}]
Fresh == [results |-> <<>>, count |-> [c \in Counters |-> 0], status |-> "RUNNING"]

ASSUME StoreAssumption == /\ Batches \subseteq Batch
                          /\ Posts \cap StepPosts = {} /\ Posts \cap Completes = {}
                          /\ StepPosts \cap Completes = {} /\ Threads \in Nat \ {0}
                          /\ "start" \notin Requests /\ None \notin Requests \cup {"start"}

VARIABLES
    batch,     \* what this run's requests are about
    store,     \* _store[run_id]: an object, or None
    objects,   \* the TestRunState objects there are: [made -> Object]
    steps,     \* the steps of each result
    pending,   \* _pending_steps[run_id, m]
    pc, state, \* where each request is, and the object it works on
    number,    \* the number it holds: a counter it has read, or a loop index
    met        \* history: pairs of requests that were in progress at once

vars == <<batch, store, objects, steps, pending, pc, state, number, met>>

\* start_run, or a run_id the store does not know: lost, or from before a restart.
Init == /\ batch \in Batches
        /\ store \in {None, "start"}
        /\ objects = IF store = None THEN <<>> ELSE [o \in {"start"} |-> Fresh]
        /\ steps = [p \in Posts |-> None]
        /\ pending = [m \in Methods |-> None]
        /\ pc = [q \in Requests |-> "new"]
        /\ state = [q \in Requests |-> None]
        /\ number = [q \in Requests |-> 0]
        /\ met = {}

InProgress == {q \in Requests : pc[q] \notin {"new", "done"}}
Done(q) == pc[q] = "done"
At(q, where) == pc[q] = where
Goes(q, to) == pc' = [pc EXCEPT ![q] = to]
MethodOf(q) == batch.method[q]
Mine(q) == objects[state[q]]

-----------------------------------------------------------------------------
\* A request comes in and takes the run's state from the dictionary.
Get(q, known, unknown) ==
    /\ At(q, "new") /\ Cardinality(InProgress) < Threads
    /\ state' = [state EXCEPT ![q] = store]
    /\ Goes(q, IF store = None THEN unknown ELSE known)
    /\ met' = met \cup {{q, r} : r \in InProgress}
    /\ UNCHANGED <<batch, store, objects, steps, pending, number>>

Arrive(q) == \/ q \in Posts /\ Get(q, "merge", "make")
             \/ q \in StepPosts /\ Get(q, "scan", "buffer")
             \/ q \in Completes /\ Get(q, "mark", "done")

Moves(q, to) == Goes(q, to) /\ UNCHANGED <<batch, met>>

\* post_result, for a run it did not find: a new orphan run takes its place.
\* Mutant: the orphan is not put into the dictionary.
Adopted_Not(q) == store
Adopted(q) == q
MakeOrphan(q) ==
    /\ At(q, "make")
    /\ objects' = [o \in DOMAIN objects \cup {q} |-> IF o = q THEN Fresh ELSE objects[o]]
    /\ store' = Adopted(q)
    /\ state' = [state EXCEPT ![q] = q]
    /\ Moves(q, "merge") /\ UNCHANGED <<steps, pending, number>>

\* Steps that came first are popped and put into the result.
Merged(q) == pending[MethodOf(q)]
Merge(q) ==
    /\ At(q, "merge")
    /\ steps' = [steps EXCEPT ![q] = Merged(q)]
    /\ pending' = [pending EXCEPT ![MethodOf(q)] = None]
    /\ Moves(q, "append") /\ UNCHANGED <<store, objects, state, number>>

Append1(q) ==
    /\ At(q, "append")
    /\ objects' = [objects EXCEPT ![state[q]].results = Append(@, q)]
    /\ Moves(q, "readTotal") /\ UNCHANGED <<store, steps, pending, state, number>>

\* state.total += 1 and one of passed, failed and skipped: a read and a write each.
Read(q, counter, at, to) ==
    /\ At(q, at)
    /\ number' = [number EXCEPT ![q] = Mine(q).count[counter]]
    /\ Moves(q, to) /\ UNCHANGED <<store, objects, steps, pending, state>>

Write(q, counter, at, to) ==
    /\ At(q, at)
    /\ objects' = [objects EXCEPT ![state[q]].count[counter] = number[q] + 1]
    /\ number' = [number EXCEPT ![q] = 0]
    /\ Moves(q, to) /\ UNCHANGED <<store, steps, pending, state>>

\* Mutant: an aborted test counts as failed.
CounterOf_Aborted(q) == CASE batch.status[q] = "PASSED" -> "passed"
                          [] batch.status[q] = "SKIPPED" -> "skipped"
                          [] OTHER -> "failed"
CounterOf(q) == CASE batch.status[q] = "PASSED" -> "passed"
                  [] batch.status[q] = "FAILED" -> "failed"
                  [] OTHER -> "skipped"

Count(q) == \/ Read(q, "total", "readTotal", "writeTotal")
            \/ Write(q, "total", "writeTotal", "readOne")
            \/ Read(q, CounterOf(q), "readOne", "writeOne")
            \/ Write(q, CounterOf(q), "writeOne", "done")

-----------------------------------------------------------------------------
\* attach_steps: the newest result of the method that has no steps yet, looked for
\* one by one from the end the list had when the loop began.
Scan(q) ==
    /\ At(q, "scan")
    /\ number' = [number EXCEPT ![q] = Len(Mine(q).results)]
    /\ Moves(q, "look") /\ UNCHANGED <<store, objects, steps, pending, state>>

\* Mutant: whatever its method.
Match_AnyMethod(q, p) == steps[p] = None
Match(q, p) == MethodOf(p) = MethodOf(q) /\ steps[p] = None
Look(q) ==
    /\ At(q, "look")
    /\ LET i == number[q] IN
         IF i = 0 THEN Moves(q, "buffer") /\ UNCHANGED number
         ELSE IF Match(q, Mine(q).results[i]) THEN Moves(q, "attach") /\ UNCHANGED number
         ELSE Moves(q, "look") /\ number' = [number EXCEPT ![q] = i - 1]
    /\ UNCHANGED <<store, objects, steps, pending, state>>

Attach(q) ==
    /\ At(q, "attach")
    /\ steps' = [steps EXCEPT ![Mine(q).results[number[q]]] = q]
    /\ number' = [number EXCEPT ![q] = 0]
    /\ Moves(q, "done") /\ UNCHANGED <<store, objects, pending, state>>

\* No such result yet: the steps wait for it, in place of any that waited before.
Buffer(q) ==
    /\ At(q, "buffer")
    /\ pending' = [pending EXCEPT ![MethodOf(q)] = q]
    /\ Moves(q, "done") /\ UNCHANGED <<store, objects, steps, state, number>>

\* complete_run: the run may be completed while requests about it are in progress.
Mark(q) ==
    /\ At(q, "mark")
    /\ objects' = [objects EXCEPT ![state[q]].status = "COMPLETE"]
    /\ Moves(q, "done") /\ UNCHANGED <<store, steps, pending, state, number>>

Next == \E q \in Requests :
          \/ Arrive(q) \/ MakeOrphan(q) \/ Merge(q) \/ Append1(q) \/ Count(q)
          \/ Scan(q) \/ Look(q) \/ Attach(q) \/ Buffer(q) \/ Mark(q)

Spec == Init /\ [][Next]_vars

-----------------------------------------------------------------------------
\* Properties.

\* Every variable keeps to its set.
PCs == {"new", "make", "merge", "append", "readTotal", "writeTotal", "readOne",
        "writeOne", "scan", "look", "attach", "buffer", "mark", "done"}

TypeOK == /\ batch \in Batches
          /\ store \in Objects \cup {None}
          /\ DOMAIN objects \subseteq Objects
          /\ \A o \in DOMAIN objects : objects[o] \in Object
          /\ steps \in [Posts -> StepPosts \cup {None}]
          /\ pending \in [Methods -> StepPosts \cup {None}]
          /\ pc \in [Requests -> PCs]
          /\ state \in [Requests -> DOMAIN objects \cup {None}]
          /\ number \in [Requests -> Nat]
          /\ met \in SUBSET SUBSET Requests

Times(q, seq) == Cardinality({i \in DOMAIN seq : seq[i] = q})
Overlapped(q, r) == {q, r} \in met
\* Two posts may each find the run unknown and make it.
OrphanedTwice == Cardinality(DOMAIN objects) > 1

\* A lost run_id does not lose results: every result posted is in the run exactly
\* once, completed or unknown as the run may be, unless two posts made it at once.
ResultsKept ==
    \A p \in Posts : Done(p) /\ ~OrphanedTwice =>
        store # None /\ Times(p, objects[store].results) = 1

\* Between requests the dashboard's numbers add up, provided no two results were
\* posted at once; and no total ever runs ahead of the results.
CountersAddUp ==
    \A o \in DOMAIN objects :
        LET run == objects[o]
            Posted(status) == {p \in Posts : p \in ToSet(run.results)
                                             /\ batch.status[p] \in status}
        IN /\ run.count["total"] <= Len(run.results)
           /\ InProgress = {} /\ (\A p, q \in Posts : p = q \/ ~Overlapped(p, q)) =>
                /\ run.count["total"] = Len(run.results)
                /\ run.count["passed"] = Cardinality(Posted({"PASSED"}))
                /\ run.count["failed"] = Cardinality(Posted({"FAILED"}))
                /\ run.count["skipped"] = Cardinality(Posted({"SKIPPED", "ABORTED"}))

Alone(p, s) == /\ MethodOf(p) = MethodOf(s)
               /\ \A q \in (Posts \cup StepPosts) \ {p, s} : MethodOf(q) # MethodOf(s)

\* The only result of a method gets the only steps of that method, whichever came
\* first, provided that the two were not posted at once.
StepsMerged ==
    \A p \in Posts, s \in StepPosts :
        Alone(p, s) /\ Done(p) /\ Done(s) /\ ~OrphanedTwice /\ ~Overlapped(p, s) => steps[p] = s
=============================================================================
