------------------------ MODULE MCScenarioLifecycle ------------------------
(***************************************************************************)
(* Instances of ScenarioLifecycle for TLC: which requests each scenario    *)
(* may be created with.                                                    *)
(***************************************************************************)
EXTENDS ScenarioLifecycle, TLC

CONSTANTS s1, s2, n1, n2, exp, hbs, dev, stg, k1

JobSymmetry == Permutations(Jobs)

\* Namespaces that stay apart as expectation ids.
MCApart == [n \in Namespaces |-> n]

NoPins == [p \in Suppliers |-> "keep"]
Plain(n, e) == [ns |-> n, env |-> e, suppliers |-> Suppliers, depth |-> "contract_only",
                key |-> NoKey, sb |-> FALSE, assignBr |-> FALSE, pin |-> NoPins]
Full(n, e) == [Plain(n, e) EXCEPT !.depth = "full", !.assignBr = TRUE]
WithSb(n, e) == [Full(n, e) EXCEPT !.sb = TRUE]
Attaching(n, e) == [Plain(n, e) EXCEPT !.key = k1]
Pinning(n, e) == [Plain(n, e) EXCEPT !.pin[exp] = "false"]
Rich(n, e) == [Attaching(n, e) EXCEPT !.depth = "contract_br", !.pin[exp] = "false"]

By(f1, f2) == (s1 :> f1) @@ (s2 :> f2)

\* One scenario with everything a contract_br request can have; one with
\* SmartBooking on an apiKey of its own that takes the first one's namespace over, or
\* is created where there is no SmartBooking, or one beside the first, without an apiKey.
MCFaults == By({Rich(n1, dev)}, {WithSb(n1, dev), WithSb(n2, stg), Plain(n2, dev)})

\* Two scenarios that compete for a namespace and an existing apiKey, in two
\* environments.
MCOverlap == By({Attaching(n1, dev), Pinning(n1, dev)}, {Plain(n1, stg), Attaching(n2, dev)})

\* For what the documents say and the code does not do.
MCAttaching == By({Attaching(n1, dev)}, {})
=============================================================================
