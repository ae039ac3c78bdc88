------------------------ MODULE MCSupplierCatalogue ------------------------
(***************************************************************************)
(* An instance of SupplierCatalogue for TLC: a built-in supplier with a    *)
(* plugin, and one that somebody may add, in one environment.              *)
(***************************************************************************)
EXTENDS SupplierCatalogue, TLC

CONSTANTS q1, q2, q3, EXP, OWN, odis

exp == <<EXP, odis>>
new == <<OWN, odis>>
MCSuppliers == {exp, new}
MCBuiltIn == {exp}
MCLogs == {"Packages", "CancellationPolicy", "Search"}
MCPluginLogs == {"Packages", "Search"}

\* EXP is gross in its seed and net in this environment's row.
MCBoot == [s \in MCBuiltIn |->
    [type |-> "net", linked |-> TRUE, logs |-> {"Packages", "Search"}, mutable |-> {"Packages"},
     path |-> "right", boards |-> "all", source |-> TRUE, map |-> {}]]
MCSeed == [s \in MCBuiltIn |-> [MCBoot[s] EXCEPT !.type = "gross"]]

\* A complete configuration, and one that is good for nothing yet.
Good == [type |-> "gross", linked |-> TRUE, logs |-> {"Packages", "CancellationPolicy"},
         mutable |-> {"Packages"}, path |-> "right", boards |-> "all", source |-> TRUE, map |-> {}]
Bare == [Good EXCEPT !.linked = FALSE, !.logs = {"Search"}, !.path = "wrong",
                     !.boards = "some", !.source = FALSE]
MCPayloads == {Good, Bare}
MCShipped == {EXP} \X MCPluginLogs
MCSymmetry == Permutations({q1, q2, q3})
=============================================================================
