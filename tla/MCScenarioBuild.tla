--------------------------- MODULE MCScenarioBuild ---------------------------
(***************************************************************************)
(* Instances of ScenarioBuild for TLC: one scenario with every kind of     *)
(* entry, and one of a few that stands beside it on MockServer.            *)
(***************************************************************************)
EXTENDS ScenarioBuild

CONSTANTS n1, n2

MCBoards == <<"RO", "BB">>
MCSame == [ns \in Namespaces |-> ns]

Two == [count |-> 2, prices |-> <<10, 20>>, boards |-> <<"RO", "BB">>, names |-> <<"A", "B">>,
        refundable |-> <<TRUE>>, pick |-> 1, status |-> "available", changed |-> None,
        url |-> TRUE, markups |-> <<>>, originals |-> <<>>]
One == [Two EXCEPT !.count = 1, !.prices = <<30>>, !.pick = 0]

Nothing == [Two EXCEPT !.pick = None]
Requoted == [Two EXCEPT !.status = "price_changed", !.changed = 25]
SoldOut == [Two EXCEPT !.status = "sold_out"]
Short == [Two EXCEPT !.count = 3, !.pick = 2]
AsCaptured == [Two EXCEPT !.prices = <<10, Captured>>]
NoSuchBoard == [Two EXCEPT !.boards = <<"BB", "XX">>]
FoodBoard == [Two EXCEPT !.boards = <<"IF", "SR">>]
Split == [Two EXCEPT !.originals = <<8, 17>>, !.markups = <<2, 3>>]
Unchecked == [Two EXCEPT !.url = FALSE]

Entries(codes, spec) == {[code |-> c, spec |-> spec] : c \in codes}
Kinds == Entries(Codes, Two)
         \cup Entries({"HBS", "EXP", "EXT"}, Nothing)
         \cup Entries({"HBS", "EXP", "EXT", "CHC"}, Requoted)
         \cup Entries({"EXP", "EXT", "CHC"}, SoldOut)
         \cup Entries({"HBS", "EXP", "EXT"}, Short)
         \cup Entries({"HBS", "RHK"}, AsCaptured)
         \cup Entries({"EXP", "EXT", "RHK", "GEN"}, NoSuchBoard)
         \cup Entries({"EXT"}, FoodBoard)
         \cup Entries({"EXP", "RHK"}, Split)
         \cup Entries({"EXP"}, Unchecked)
Pairs == Entries({"HBS", "EXP"}, Two) \X Entries({"HBS", "EXP", "EXT"}, One)

\* Every kind of entry, and pairs, also of one supplier.
MCRequests == [ns \in Namespaces |->
    IF ns = n1 THEN {<<e>> : e \in Kinds} \cup Pairs
    ELSE {<<e>> : e \in Entries({"EXP", "EXT"}, One)}]

\* Two scenarios with an EXP entry.
MCExpedia == [ns \in Namespaces |-> {<<e>> : e \in Entries({"EXP"}, One)}]
=============================================================================
