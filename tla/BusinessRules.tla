---------------------------- MODULE BusinessRules ----------------------------
(***************************************************************************)
(* The Business Rules setup of a scenario (integrations/business_rules.py):*)
(* CrawlaBusinessRulesProvisioner assigns an apiKey to the markup rules,   *)
(* creates conditions and, for some templates, child conditions, and takes *)
(* them away again on teardown.                                            *)
(*                                                                         *)
(* Each call to the BR service is a step; those of different scenarios     *)
(* interleave, and other people use the same apiKeys.  A failed call is    *)
(* recorded and passed over, by provisioning and cleanup alike.            *)
(***************************************************************************)
EXTENDS Naturals, Sequences

CONSTANTS
    Scenarios,
    ExistingKeys,   \* apiKeys SMF did not create; `full` makes its own
    NoKey,          \* contract_br without an apiKey
    Refreshable,    \* scenarios whose booking ids may be refreshed while they are up
    Others,         \* whoever else assigns rules to an apiKey
    Kids,           \* number of child conditions configured for a template
    Plans,          \* what the scenarios may ask for: functions to Plan or None
    OthersOn,       \* rules that others may have assigned to shared apiKeys
    None,           \* "not recorded"
    MaxFailures     \* bound on failing calls

AllRules == <<"static", "dynamic">>
Rules == {"static", "dynamic"}
Keys == Scenarios \cup ExistingKeys     \* a created apiKey is named by its maker

\* What a scenario asks for: the conditions match on its contracts (contract_br)
\* or on its apiKey (full); the environment may have no dynamic rule; its template
\* may have child conditions.
Plan == [mode : {"contract", "full"}, key : Keys \cup {NoKey},
         dynamic : BOOLEAN, kids : BOOLEAN]

\* An assignment of an apiKey to a rule; each create-assign makes a new one.
Configs == [rule : Rules, key : Keys, by : Scenarios \cup {Others}]

\* br_setup, as the scenario's row keeps it.
Setup == [snapped : SUBSET Rules, snap : [Rules -> SUBSET Configs],
          stored : [Rules -> Configs \cup {None}],
          conds : SUBSET Rules, kids : 0..Kids, errors : BOOLEAN]
NoSetup == [snapped |-> {}, snap |-> [r \in Rules |-> {}],
            stored |-> [r \in Rules |-> None], conds |-> {}, kids |-> 0, errors |-> FALSE]

ASSUME BrAssumption ==
    /\ Kids \in Nat /\ MaxFailures \in Nat
    /\ NoKey \notin Keys /\ Others \notin Scenarios
    /\ None \notin Configs
    /\ Scenarios \cap ExistingKeys = {}
    /\ Plans \subseteq [Scenarios -> Plan \cup {None}]
    /\ OthersOn \subseteq Rules
    /\ \A p \in Plans : \A s \in Scenarios : p[s] # None =>
         p[s].key \in (IF p[s].mode = "full" THEN {s} ELSE ExistingKeys \cup {NoKey})

VARIABLES
    configs,     \* rule assignments that exist in BR
    conditions,  \* scenarios' conditions that exist, as <<scenario, rule>>
    children,    \* child conditions that exist, as <<scenario, n>>
    plan,        \* what each scenario asked for
    phase,       \* how far each scenario has come
    todo,        \* the calls it has still to make, in order
    setup,       \* its br_setup
    made,        \* number of children created so far in the step that creates them
    doomed,      \* rule assignments its cleanup has decided to delete
    forgot,      \* history: scenarios whose row forgot that the apiKey is not its own
    failedUp,    \* history: scenarios some provisioning call of which failed
    failedDown,  \* history: scenarios some cleanup call of which failed
    failures     \* how much of MaxFailures is used

br == <<configs, conditions, children>>
progress == <<plan, phase, todo>>
own == <<setup, made, doomed>>
history == <<forgot, failedUp, failedDown, failures>>
vars == <<br, progress, own, history>>

Phases == {"new", "provision", "up", "cleanup", "gone"}

\* Others may have assigned rules to a shared apiKey before.
Init == /\ configs \in SUBSET {c \in Configs : /\ c.rule \in OthersOn /\ c.by = Others
                                              /\ c.key \in ExistingKeys}
        /\ conditions = {} /\ children = {}
        /\ plan \in Plans
        /\ phase = [s \in Scenarios |-> "new"]
        /\ todo = [s \in Scenarios |-> <<>>]
        /\ setup = [s \in Scenarios |-> NoSetup]
        /\ made = [s \in Scenarios |-> 0]
        /\ doomed = [s \in Scenarios |-> {}]
        /\ forgot = {} /\ failedUp = {} /\ failedDown = {}
        /\ failures = 0

-----------------------------------------------------------------------------
\* The calls of each operation, in order: <<call, argument>>.

Calls(call, args) == [i \in DOMAIN args |-> <<call, args[i]>>]
RefreshCall == <<<<"refresh", None>>>>
RulesOf(p) == IF p.dynamic THEN AllRules ELSE <<"static">>

ProvisionCalls(p) ==
    LET snapshots == IF p.mode = "contract" /\ p.key # NoKey
                     THEN Calls("snapshot", AllRules) ELSE <<>>
        assigns == IF p.key # NoKey THEN Calls("assign", RulesOf(p)) ELSE <<>>
        kids == IF p.mode = "full" /\ p.kids /\ p.dynamic /\ Kids > 0
                THEN <<<<"children", "dynamic">>>> ELSE <<>>
    IN snapshots \o assigns \o Calls("condition", RulesOf(p)) \o kids \o RefreshCall

KidCalls(s) == [n \in 1..setup[s].kids |-> <<"deleteKid", n>>]
DeleteCalls(s, r) == IF r \in setup[s].conds THEN <<<<"deleteCondition", r>>>> ELSE <<>>

\* cleanup() for conditions that match on contracts: children of nothing, so any
\* order would do; then the rule assignments this scenario added.
ContractCleanup(s) ==
    DeleteCalls(s, "dynamic") \o DeleteCalls(s, "static") \o Calls("diff", AllRules)
    \o <<<<"deleteConfigs", None>>>> \o RefreshCall

\* cleanup() by apiKey: children, conditions, then everything on the apiKey.
\* Mutant: the conditions before their children.
FullCleanup_ParentsFirst(s) ==
    DeleteCalls(s, "static") \o DeleteCalls(s, "dynamic") \o KidCalls(s)
    \o <<<<"sweep", "static">>, <<"deleteConfigs", None>>,
         <<"sweep", "dynamic">>, <<"deleteConfigs", None>>>> \o RefreshCall
FullCleanup(s) ==
    KidCalls(s) \o DeleteCalls(s, "static") \o DeleteCalls(s, "dynamic")
    \o <<<<"sweep", "static">>, <<"deleteConfigs", None>>,
         <<"sweep", "dynamic">>, <<"deleteConfigs", None>>>> \o RefreshCall

\* An apiKey is passed to cleanup() unless the row says it is not SMF's own.
CleanupCalls(s) ==
    LET p == plan[s]
        contract == p.mode = "contract" /\ (setup[s].conds # {} \/ p.key # NoKey)
    IN IF ~contract THEN IF p.mode = "full" THEN FullCleanup(s) ELSE RefreshCall
       ELSE ContractCleanup(s) \o (IF s \in forgot THEN FullCleanup(s) ELSE <<>>)

-----------------------------------------------------------------------------
Awaits(call, s) == todo[s] # <<>> /\ Head(todo[s])[1] = call
Arg(s) == Head(todo[s])[2]
On(r, k) == {c \in configs : c.rule = r /\ c.key = k}
Own(s, r) == [rule |-> r, key |-> plan[s].key, by |-> s]

\* Scenario s is left with these calls; after the last one the phase is over.
Continue(s, calls) ==
    /\ todo' = [todo EXCEPT ![s] = calls]
    /\ phase' = [phase EXCEPT ![s] = IF calls # <<>> THEN @
                                     ELSE IF @ = "provision" THEN "up" ELSE "gone"]
    /\ UNCHANGED plan
Advance(s) == Continue(s, Tail(todo[s]))
Records(s, su) == setup' = [setup EXCEPT ![s] = su] /\ UNCHANGED <<made, doomed>>

\* provision() or provision_for_contracts().  Of the contracts' autoIds some may
\* be missing (an error), or all of them: then nothing at all is provisioned.
Provision(s) ==
    /\ phase[s] = "new" /\ plan[s] # None
    /\ \E known \in IF plan[s].mode = "full" THEN {"all"} ELSE {"all", "some", "none"} :
         /\ setup' = [setup EXCEPT ![s].errors = known # "all"]
         /\ todo' = [todo EXCEPT ![s] = IF known = "none" THEN <<>>
                                        ELSE ProvisionCalls(plan[s])]
         /\ phase' = [phase EXCEPT ![s] = IF known = "none" THEN "up" ELSE "provision"]
    /\ UNCHANGED <<br, plan, made, doomed, history>>

\* _snapshot_rule_configs
Snapshot(s) ==
    /\ Awaits("snapshot", s)
    /\ Records(s, [setup[s] EXCEPT !.snapped = @ \cup {Arg(s)},
                                !.snap[Arg(s)] = On(Arg(s), plan[s].key)])
    /\ Advance(s)
    /\ UNCHANGED <<br, history>>

\* A snapshot that fails is left out; that is not counted as an error.
SnapshotFails(s) ==
    /\ Awaits("snapshot", s)
    /\ failures < MaxFailures /\ failures' = failures + 1
    /\ Advance(s)
    /\ UNCHANGED <<br, own, forgot, failedUp, failedDown>>

\* _assign_rule: the answer may carry no id, which is then looked up by name.
Assign(s) ==
    /\ Awaits("assign", s)
    /\ configs' = configs \cup {Own(s, Arg(s))}
    /\ \/ Records(s, [setup[s] EXCEPT !.stored[Arg(s)] = Own(s, Arg(s))]) /\ Advance(s)
       \/ Continue(s, <<<<"lookUp", Arg(s)>>>> \o Tail(todo[s])) /\ UNCHANGED own
    /\ UNCHANGED <<conditions, children, history>>

\* The first match is taken, whoever made it.
LookUp(s) ==
    /\ Awaits("lookUp", s)
    /\ LET matches == On(Arg(s), plan[s].key) IN
       \E c \in IF matches = {} THEN {None} ELSE matches :
         Records(s, [setup[s] EXCEPT !.stored[Arg(s)] = c])
    /\ Advance(s)
    /\ UNCHANGED <<br, history>>

\* _create_condition and _create_contract_condition
Condition(s) ==
    /\ Awaits("condition", s)
    /\ conditions' = conditions \cup {<<s, Arg(s)>>}
    /\ Records(s, [setup[s] EXCEPT !.conds = @ \cup {Arg(s)}])
    /\ Advance(s)
    /\ UNCHANGED <<configs, children, history>>

\* _create_template_child_conditions: the ids are recorded after the last one.
Child(s) ==
    /\ Awaits("children", s) /\ "dynamic" \in setup[s].conds
    /\ LET n == made[s] + 1 IN
         /\ children' = children \cup {<<s, n>>}
         /\ IF n < Kids
            THEN /\ made' = [made EXCEPT ![s] = n]
                 /\ UNCHANGED <<progress, setup, doomed>>
            ELSE /\ setup' = [setup EXCEPT ![s].kids = n]
                 /\ made' = [made EXCEPT ![s] = 0]
                 /\ Advance(s)
                 /\ UNCHANGED doomed
    /\ UNCHANGED <<configs, conditions, history>>

\* No parent, no children: an error.
NoParent(s) ==
    /\ Awaits("children", s) /\ "dynamic" \notin setup[s].conds
    /\ Records(s, [setup[s] EXCEPT !.errors = TRUE])
    /\ Advance(s)
    /\ UNCHANGED <<br, history>>

Refresh(s) ==
    /\ Awaits("refresh", s)
    /\ Advance(s)
    /\ UNCHANGED <<br, own, history>>

\* _run_step records the error and goes on with the next step.
WithError(su) == [su EXCEPT !.errors = TRUE]

\* A failed provisioning call may have taken effect all the same (a lost answer).
ProvisioningFails(s) ==
    /\ \E call \in {"assign", "lookUp", "condition", "children", "refresh"} : Awaits(call, s)
    /\ phase[s] = "provision"
    /\ \/ UNCHANGED br
       \/ /\ Awaits("assign", s)
          /\ configs' = configs \cup {Own(s, Arg(s))}
          /\ UNCHANGED <<conditions, children>>
       \/ /\ Awaits("condition", s)
          /\ conditions' = conditions \cup {<<s, Arg(s)>>}
          /\ UNCHANGED <<configs, children>>
       \/ /\ Awaits("children", s) /\ "dynamic" \in setup[s].conds
          /\ children' = children \cup {<<s, made[s] + 1>>}
          /\ UNCHANGED <<configs, conditions>>
    /\ setup' = [setup EXCEPT ![s] = WithError(@)]
    /\ made' = [made EXCEPT ![s] = 0]
    /\ Advance(s)
    /\ failures < MaxFailures /\ failures' = failures + 1
    /\ failedUp' = failedUp \cup {s}
    /\ UNCHANGED <<doomed, forgot, failedDown>>

-----------------------------------------------------------------------------
\* Between the two: a refresh of the booking ids makes the row forget that its
\* apiKey is not SMF's own (see ScenarioLifecycle!RefreshBundle).
Forget(s) ==
    /\ s \in Refreshable
    /\ phase[s] = "up" /\ plan[s].mode = "contract" /\ plan[s].key # NoKey
    /\ forgot' = forgot \cup {s}
    /\ UNCHANGED <<br, progress, own, failedUp, failedDown, failures>>

-----------------------------------------------------------------------------
Cleanup(s) ==
    /\ phase[s] = "up"
    /\ phase' = [phase EXCEPT ![s] = "cleanup"]
    /\ todo' = [todo EXCEPT ![s] = CleanupCalls(s)]
    /\ UNCHANGED <<br, plan, own, history>>

DeleteKid(s) ==
    /\ Awaits("deleteKid", s)
    /\ children' = children \ {<<s, Arg(s)>>}
    /\ Advance(s)
    /\ UNCHANGED <<configs, conditions, own, history>>

\* BR does not delete a condition that has children.
HasChildren(s, r) == r = "dynamic" /\ \E n \in 1..Kids : <<s, n>> \in children

DeleteCondition(s) ==
    /\ Awaits("deleteCondition", s) /\ ~HasChildren(s, Arg(s))
    /\ conditions' = conditions \ {<<s, Arg(s)>>}
    /\ Advance(s)
    /\ UNCHANGED <<configs, children, own, history>>

\* _cleanup_step records the error and goes on with the next step.
DeleteRefused(s) ==
    /\ Awaits("deleteCondition", s) /\ HasChildren(s, Arg(s))
    /\ Advance(s)
    /\ UNCHANGED <<br, own, history>>

Dooms(s, cs) == /\ doomed' = [doomed EXCEPT ![s] = @ \cup cs]
                /\ UNCHANGED <<setup, made>>
Stored(s, r) == {setup[s].stored[r]} \ {None}

\* _contract_rule_config_ids: what the rule holds for the apiKey now and did not
\* hold before; without a snapshot or a difference, the id stored when assigning.
\* Mutant: the snapshot is not subtracted.
Added_NoSnapshot(s, r, current) == IF current = {} THEN Stored(s, r) ELSE current
Added(s, r, current) ==
    LET added == IF r \in setup[s].snapped THEN current \ setup[s].snap[r] ELSE {}
    IN IF added = {} THEN Stored(s, r) ELSE added
Diff(s) ==
    /\ Awaits("diff", s)
    /\ Dooms(s, IF plan[s].key = NoKey THEN {}
                ELSE Added(s, Arg(s), On(Arg(s), plan[s].key)))
    /\ Advance(s)
    /\ UNCHANGED <<br, history>>

\* The list could not be read: as if the rule held nothing.
DiffFails(s) ==
    /\ Awaits("diff", s) /\ plan[s].key # NoKey /\ Arg(s) \in setup[s].snapped
    /\ Dooms(s, Added(s, Arg(s), {}))
    /\ Advance(s)
    /\ failures < MaxFailures /\ failures' = failures + 1
    /\ failedDown' = failedDown \cup {s}
    /\ UNCHANGED <<br, forgot, failedUp>>

\* The stored id and everything found under the apiKey's name.
\* Mutant: only the stored id.
Named_StoredOnly(s, r) == Stored(s, r)
Named(s, r) == Stored(s, r) \cup On(r, plan[s].key)
SweepByName(s) ==
    /\ Awaits("sweep", s)
    /\ Dooms(s, Named(s, Arg(s)))
    /\ Advance(s)
    /\ UNCHANGED <<br, history>>

\* This one read is not guarded: cleanup() raises, and nothing more is deleted.
SweepByNameFails(s) ==
    /\ Awaits("sweep", s)
    /\ Continue(s, <<>>)
    /\ failures < MaxFailures /\ failures' = failures + 1
    /\ failedDown' = failedDown \cup {s}
    /\ UNCHANGED <<br, own, forgot, failedUp>>

DeleteConfig(s) ==
    /\ Awaits("deleteConfigs", s)
    /\ \E c \in doomed[s] :
         /\ configs' = configs \ {c}
         /\ doomed' = [doomed EXCEPT ![s] = @ \ {c}]
         /\ IF doomed[s] = {c} THEN Advance(s) ELSE UNCHANGED progress
    /\ UNCHANGED <<conditions, children, setup, made, history>>

NoConfigs(s) ==
    /\ Awaits("deleteConfigs", s) /\ doomed[s] = {}
    /\ Advance(s)
    /\ UNCHANGED <<br, own, history>>

\* A failed cleanup call is passed over.
CleanupFails(s) ==
    /\ phase[s] = "cleanup"
    /\ \/ /\ \E call \in {"deleteKid", "deleteCondition", "refresh"} : Awaits(call, s)
          /\ Advance(s)
          /\ UNCHANGED doomed
       \/ /\ Awaits("deleteConfigs", s)
          /\ \E c \in doomed[s] :
               /\ doomed' = [doomed EXCEPT ![s] = @ \ {c}]
               /\ IF doomed[s] = {c} THEN Advance(s) ELSE UNCHANGED progress
    /\ failures < MaxFailures /\ failures' = failures + 1
    /\ failedDown' = failedDown \cup {s}
    /\ UNCHANGED <<br, setup, made, forgot, failedUp>>

-----------------------------------------------------------------------------
ProvisionStep(s) == \/ Snapshot(s) \/ SnapshotFails(s) \/ Assign(s) \/ LookUp(s)
                    \/ Condition(s) \/ Child(s) \/ NoParent(s) \/ Refresh(s)
                    \/ ProvisioningFails(s)

CleanupStep(s) == \/ DeleteKid(s) \/ DeleteCondition(s) \/ DeleteRefused(s) \/ Diff(s)
                  \/ DiffFails(s) \/ SweepByName(s) \/ SweepByNameFails(s)
                  \/ DeleteConfig(s) \/ NoConfigs(s) \/ CleanupFails(s)

Call(s) == ProvisionStep(s) \/ CleanupStep(s)

Next == \E s \in Scenarios : Provision(s) \/ Forget(s) \/ Cleanup(s) \/ Call(s)

Spec == Init /\ [][Next]_vars

-----------------------------------------------------------------------------
\* Properties.

RuleCalls == {"snapshot", "assign", "lookUp", "condition", "children",
              "deleteCondition", "diff", "sweep"}
CallSet == (RuleCalls \X Rules) \cup ({"refresh", "deleteConfigs"} \X {None})
           \cup ({"deleteKid"} \X (1..Kids))

\* Every variable keeps to its set.
TypeOK ==
    /\ configs \subseteq Configs
    /\ conditions \subseteq Scenarios \X Rules
    /\ children \subseteq Scenarios \X (1..Kids)
    /\ plan \in [Scenarios -> Plan \cup {None}]
    /\ phase \in [Scenarios -> Phases]
    /\ todo \in [Scenarios -> Seq(CallSet)]
    /\ setup \in [Scenarios -> Setup]
    /\ made \in [Scenarios -> 0..Kids]
    /\ doomed \in [Scenarios -> SUBSET Configs]
    /\ forgot \subseteq Scenarios /\ failedUp \subseteq Scenarios
    /\ failedDown \subseteq Scenarios
    /\ failures \in 0..MaxFailures

Lives(s) == [conds |-> {r \in Rules : <<s, r>> \in conditions},
             kids |-> {n \in 1..Kids : <<s, n>> \in children},
             configs |-> {c \in configs : c.by = s}]
Unsnapped(s, r) == plan[s].mode = "contract" /\ r \notin setup[s].snapped

\* A cleanup leaves nothing of its scenario in BR, whatever other scenarios and
\* other people do to the same apiKey meanwhile, unless a call of the scenario
\* failed.
NothingLeftBehind ==
    \A s \in Scenarios : phase[s] = "gone" /\ s \notin failedUp \cup failedDown =>
        /\ Lives(s).conds = {} /\ Lives(s).kids = {}
        /\ \A c \in Lives(s).configs : Unsnapped(s, c.rule)

\* A rule assignment whose answer was lost or carried no id is found again and
\* deleted: by name for an apiKey of its own, as the difference to the snapshot for
\* a shared one.  No call of provisioning can make it leak as long as the snapshot
\* was read, and no call of the cleanup fails.
AssignmentsFoundAgain ==
    \A s \in Scenarios : phase[s] = "gone" /\ s \notin failedDown =>
        \A c \in Lives(s).configs : Unsnapped(s, c.rule)

\* What was on a shared apiKey before the scenario ran is not touched by its
\* cleanup ("in the snapshot and therefore never touched"), with two exceptions:
\* the row forgot that the apiKey is shared, or the scenario had taken the first
\* match for its own and, at cleanup, its own was gone or could not be listed.
SnapshotUntouched ==
    [][\A s \in Scenarios, r \in Rules :
         phase[s] = "cleanup" /\ s \notin forgot /\ r \in setup[s].snapped =>
           \A c \in setup[s].snap[r] :
             c \in doomed'[s] /\ c \notin doomed[s] =>
                /\ c = setup[s].stored[r]
                /\ s \in failedDown' \/ Own(s, r) \notin configs]_vars
=============================================================================
