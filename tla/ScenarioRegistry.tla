-------------------------- MODULE ScenarioRegistry --------------------------
(***************************************************************************)
(* What the scenario API promises a caller who waits for each operation:   *)
(* a scenario is accepted under a namespace nobody holds, its creation     *)
(* ends in READY or FAILED, and a teardown deletes it for good and gives   *)
(* the namespace back.  ScenarioLifecycle implements this specification.   *)
(***************************************************************************)
CONSTANTS Scenarios, Namespaces, None

VARIABLES state,    \* how far each scenario id has come
          holds     \* the namespace each scenario holds, or None

States == {"new", "pending", "ready", "failed", "deleted"}

Init == /\ state = [s \in Scenarios |-> "new"]
        /\ holds = [s \in Scenarios |-> None]

Accept(s, n) == /\ state[s] = "new"
                /\ \A t \in Scenarios : holds[t] # n
                /\ state' = [state EXCEPT ![s] = "pending"]
                /\ holds' = [holds EXCEPT ![s] = n]

Complete(s) == /\ state[s] = "pending"
               /\ \E outcome \in {"ready", "failed"} :
                    state' = [state EXCEPT ![s] = outcome]
               /\ UNCHANGED holds

Delete(s) == /\ state[s] \in {"pending", "ready", "failed"}
             /\ state' = [state EXCEPT ![s] = "deleted"]
             /\ holds' = [holds EXCEPT ![s] = None]

Next == \E s \in Scenarios : \/ \E n \in Namespaces : Accept(s, n)
                             \/ Complete(s)
                             \/ Delete(s)

vars == <<state, holds>>
Spec == Init /\ [][Next]_vars
FairSpec == Spec /\ \A s \in Scenarios : WF_vars(Complete(s))
=============================================================================
