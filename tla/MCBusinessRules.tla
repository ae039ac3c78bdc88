-------------------------- MODULE MCBusinessRules --------------------------
(***************************************************************************)
(* Instances of BusinessRules for TLC: what each scenario may provision.   *)
(***************************************************************************)
EXTENDS BusinessRules, TLC

CONSTANTS s1, s2, k1

OnKey(k, dyn) == [mode |-> "contract", key |-> k, dynamic |-> dyn, kids |-> FALSE]
OwnKey(s, dyn) == [mode |-> "full", key |-> s, dynamic |-> dyn, kids |-> TRUE]

\* Two scenarios on a shared apiKey; one on an apiKey of its own with child
\* conditions, with and without the dynamic rule; one without an apiKey.
MCPlans == {(s1 :> OnKey(k1, FALSE)) @@ (s2 :> OnKey(k1, FALSE)),
            (s1 :> OwnKey(s1, TRUE)) @@ (s2 :> None),
            (s1 :> OwnKey(s1, FALSE)) @@ (s2 :> None),
            (s1 :> OnKey(k1, TRUE)) @@ (s2 :> None),
            (s1 :> OnKey(NoKey, TRUE)) @@ (s2 :> None)}
=============================================================================
