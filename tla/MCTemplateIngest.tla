-------------------------- MODULE MCTemplateIngest --------------------------
(***************************************************************************)
(* Instances of TemplateIngest for TLC: sessions that search and show      *)
(* packages of two hotels, and sessions that book.                         *)
(***************************************************************************)
EXTENDS TemplateIngest

CONSTANTS h1, h2, d1, d2, x1, x2

MCNames == {h1, h2, d1, d2, x1, x2}
Plain(type) == [type |-> type, ours |-> TRUE, time |-> 1, owner |-> "own", hotel |-> None,
                use |-> "good", dist |-> None, derby |-> None]

\* Searches and packages: of either hotel, a sibling's or nobody's, failed.
Hotel(type) == {[Plain(type) EXCEPT !.hotel = h, !.owner = o, !.use = u] :
                  h \in {h1, h2}, o \in {"own", "sibling"}, u \in {"good", "envelope"}}
               \cup {[Plain(type) EXCEPT !.hotel = h1, !.owner = None],
                     [Plain(type) EXCEPT !.hotel = h2, !.use = "pathless"],
                     [Plain(type) EXCEPT !.ours = FALSE]}
OwnHotel(type) == {r \in Hotel(type) : r.owner = "own" /\ r.ours}

\* Calls of the booking flow, at two times, about two reservations.
Order(type) == {[Plain(type) EXCEPT !.dist = d, !.derby = x, !.time = n, !.use = u] :
                  d \in {d1, d2}, x \in {x1, x2}, n \in {1, 3}, u \in {"good", "envelope"}}

MCLogs ==
    {<<>>, <<Plain("Other")>>, <<Plain("CancelBooking"), Plain("CancelOrder")>>}
    \cup (Hotel("Search") \X Hotel("Packages"))
    \cup {<<s1, p1, s2, p2>> : s1 \in Hotel("Search"), p1 \in OwnHotel("Packages"),
                               s2 \in OwnHotel("Search"), p2 \in OwnHotel("Packages")}
    \cup {<<b, g, [Plain("GetOrderResponse") EXCEPT !.time = 2], h>> :
             b \in {r \in Order("Booking") : r.time = 1}, g \in Order("GetOrder"),
             h \in {[Plain("GetOrder") EXCEPT !.time = 2], [Plain("CancelOrder") EXCEPT !.time = 3]}}
=============================================================================
