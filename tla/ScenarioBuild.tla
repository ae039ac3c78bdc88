---------------------------- MODULE ScenarioBuild ----------------------------
(***************************************************************************)
(* What is in the mocks of a scenario: core/scenario_engine.py loads the   *)
(* templates of each supplier entry, its plugin writes the packages asked  *)
(* for into them, propagates the package to be booked to the price check   *)
(* and the order, and core/linkage_validator.py refuses a build whose      *)
(* answers do not fit together.  The expectations then get their id, their *)
(* path and their links, a booking id each, and are PUT one after the      *)
(* other on a MockServer that several scenarios share; the contracts point *)
(* at their paths.  A refresh makes new booking ids and PUTs the booking   *)
(* flow again; a teardown deletes by id.                                   *)
(*                                                                         *)
(* A body is reduced to the rates it offers, the price check or the order  *)
(* it answers, and the booking id it carries; a path to what tells paths   *)
(* apart.  Tasks of one scenario that overlap are ScenarioLifecycle's      *)
(* subject: here a scenario does one thing at a time.                      *)
(***************************************************************************)
EXTENDS Integers, Sequences, FiniteSets, SequencesExt

CONSTANTS
    Namespaces,
    Requests,       \* [Namespaces -> set of requests]: sequences of entries
    Fold,           \* what build_expectation_id makes of a namespace
    Segment,        \* what safe_namespace_path_segment makes of it
    Gross,          \* suppliers with supplier_type "gross" in this environment
    GenericBoards,  \* board_values of a supplier from the Suppliers screen
    Captured,       \* the price a template was captured with
    MaxIds,         \* bound on booking ids
    None

LogTypes == <<"Search", "Packages", "PreBooking", "Booking", "GetOrder", "CancelOrder">>
BookingFlow == {"Booking", "GetOrder", "CancelOrder"}

\* HBS, EXP, EXT and RHK; CHC for the two Derby suppliers; GEN for a supplier
\* without a plugin of its own.
Codes == {"HBS", "EXP", "CHC", "EXT", "RHK", "GEN"}

-----------------------------------------------------------------------------
\* The request: a sequence of entries, a code and its packages.

\* pick: booking_package_index; url: prebook_url is not false.
PackageSpec == [count : 1..20, prices : Seq(Nat), boards : Seq(STRING), names : Seq(STRING),
         refundable : Seq(BOOLEAN), pick : Nat \cup {None},
         status : {"available", "price_changed", "sold_out"}, changed : Nat \cup {None},
         url : BOOLEAN, markups : Seq(Nat), originals : Seq(Nat)]

PickInRange(s) == s.pick # None => s.pick < s.count
StatusValid(s) == /\ (s.status = "price_changed") = (s.changed # None)
                  /\ ~s.url => s.status = "available"
PricingValid(s) == /\ Len(s.markups) = Len(s.originals) /\ Len(s.markups) <= Len(s.prices)
                   /\ \A i \in DOMAIN s.markups : s.prices[i] = s.originals[i] + s.markups[i]
Explicit(s) == s.markups # <<>>

Entry == [code : Codes, spec : PackageSpec]
ASSUME BuildAssumption ==
    /\ MaxIds \in Nat /\ Captured \in Nat /\ None \notin Nat \cup (Codes \X Nat)
    /\ \A ns \in Namespaces : None \notin Requests[ns] /\ \A r \in Requests[ns] :
         r \in Seq(Entry) /\ \A n \in DOMAIN r :
            PickInRange(r[n].spec) /\ StatusValid(r[n].spec) /\ PricingValid(r[n].spec)

\* _assign_supplier_instances, instance_key_for.
Instance(r, n) == Cardinality({m \in 1..n : r[m].code = r[n].code})
Key(r, n) == <<r[n].code, Instance(r, n)>>

\* The lists a plugin works with: one value per package.
Pad(seq, n) == [i \in 1..n |-> IF i <= Len(seq) THEN seq[i] ELSE seq[Len(seq)]]
Prices(s) == Pad(s.prices, s.count)
Boards(s) == Pad(s.boards, s.count)
RoomNames(s) == Pad(s.names, s.count)
Refundable(s) == [i \in 1..s.count |-> i <= Len(s.refundable) /\ s.refundable[i]]
Markups(s) == IF Explicit(s) THEN Pad(s.markups, s.count) ELSE [i \in 1..s.count |-> None]

\* The package the booking flow is about, and the price of its price check.
Picked(s) == IF s.pick = None THEN 1 ELSE s.pick + 1
EffectivePrice(s) == IF s.status = "price_changed" THEN s.changed ELSE Prices(s)[Picked(s)]

-----------------------------------------------------------------------------
\* mutate_packages: the rates each plugin writes into Packages.

Offer(s, i) == [price |-> Prices(s)[i], board |-> Boards(s)[i], name |-> RoomNames(s)[i],
                refundable |-> Refundable(s)[i], markup |-> None]

\* HBS replaces the captured price, wherever it stands in the body, by that of
\* the first package: also where it is the price asked for another one.
HbsRates(s) == [i \in 1..s.count |->
    [Offer(s, i) EXCEPT !.price = IF @ = Captured THEN Prices(s)[1] ELSE @]]

\* The boards a plugin can express; what it makes of any other.
ExpBoard(b) == IF b \in {"BB", "HB", "FB", "AI"} THEN b ELSE "RO"
ExpRates(s) == [i \in 1..s.count |->
    [Offer(s, i) EXCEPT !.board = ExpBoard(@), !.markup = Markups(s)[i]]]

DerbyBoard(b) == IF b \in {"RO", "BB", "HB", "FB", "AI"} THEN b ELSE "RO"
\* Derby names rooms by id, out of the hotel's catalogue.
DerbyRates(s) == [i \in 1..s.count |-> [Offer(s, i) EXCEPT !.board = DerbyBoard(@), !.name = None]]

ExtBoard(b) == IF b \in {"RO", "BB", "HB", "FB", "AI", "IF", "SR", "IR"} THEN b ELSE "RO"
ExtRates(s) == [i \in 1..s.count |-> [Offer(s, i) EXCEPT !.board = ExtBoard(@)]]
\* EXT indexes the names it was given, which nobody padded.
ExtBuilds(s) == Len(s.names) >= s.count

RhkBoard(b) == IF b \in {"RO", "BB", "HB", "FB", "AI"} THEN b ELSE "RO"
RhkRates(s) == [i \in 1..s.count |-> [Offer(s, i) EXCEPT !.board = RhkBoard(@)]]

GenericBoard(b) == IF GenericBoards = <<>> \/ b \in Range(GenericBoards) THEN b ELSE GenericBoards[1]
GenericRates(s) == [i \in 1..s.count |-> [Offer(s, i) EXCEPT !.board = GenericBoard(@)]]

Rates(e) == CASE e.code = "HBS" -> HbsRates(e.spec)
              [] e.code = "EXP" -> ExpRates(e.spec)
              [] e.code = "CHC" -> DerbyRates(e.spec)
              [] e.code = "EXT" -> ExtRates(e.spec)
              [] e.code = "RHK" -> RhkRates(e.spec)
              [] e.code = "GEN" -> GenericRates(e.spec)

\* Search offers what Packages does; EXP's only the first rate.
SearchRates(e) == IF e.code = "EXP" THEN <<Rates(e)[1]>> ELSE Rates(e)

-----------------------------------------------------------------------------
\* propagate_package_linkage: the price check, empty when nothing is left to
\* sell, or the package it is about and its price.

Check(package, price) == <<[package |-> package, price |-> price]>>

\* Mutant: the price check is always about the first package.
HbsQuote_First(s) == Check(1, HbsRates(s)[1].price)
HbsQuote(s) == Check(Picked(s), HbsRates(s)[Picked(s)].price)
ExpQuote(s) == IF s.status = "sold_out" THEN <<>> ELSE Check(Picked(s), EffectivePrice(s))
DerbyQuote(s) == IF s.status = "sold_out" THEN <<>>
                 ELSE Check(Picked(s), IF s.status = "price_changed" THEN EffectivePrice(s)
                                       ELSE DerbyRates(s)[Picked(s)].price)
ExtQuote(s) == IF s.status = "sold_out" THEN <<>>
               ELSE Check(Picked(s), IF s.status = "price_changed" THEN EffectivePrice(s)
                                     ELSE ExtRates(s)[Picked(s)].price)
\* RHK links the first package, whichever is booked, and leaves its price.
RhkQuote(s) == Check(1, Captured)
\* Without a plugin the template is served as captured.
GenericQuote(s) == Check(None, Captured)

Quote(e) == CASE e.code = "HBS" -> HbsQuote(e.spec)
              [] e.code = "EXP" -> ExpQuote(e.spec)
              [] e.code = "CHC" -> DerbyQuote(e.spec)
              [] e.code = "EXT" -> ExtQuote(e.spec)
              [] e.code = "RHK" -> RhkQuote(e.spec)
              [] e.code = "GEN" -> GenericQuote(e.spec)

\* The price of the order.  EXP's Booking answers an id and no price.
HbsOrder(s) == HbsRates(s)[Picked(s)].price
ExpOrder(s) == EffectivePrice(s)
ExtOrder(s) == ExtRates(s)[Picked(s)].price
Order(e) == CASE e.code = "HBS" -> HbsOrder(e.spec)
              [] e.code = "EXP" -> ExpOrder(e.spec)
              [] e.code = "EXT" -> ExtOrder(e.spec)
              [] OTHER -> Captured

-----------------------------------------------------------------------------
\* build_expectations, and what makes it raise.

\* Log types of the scenario: without a package to book there is no booking flow.
Booked(s) == s.pick # None /\ s.status # "sold_out"
Built(e, t) == t \in BookingFlow => Booked(e.spec)

\* One price-check template per status, unless the plugin shapes the statuses
\* itself: only EXP has those of "price_changed" and "sold_out".
OwnStatuses == {"CHC", "EXT"}
HasTemplates(e) == e.spec.status = "available" \/ e.code \in OwnStatuses \cup {"EXP"}

\* _reject_explicit_pricing_for_net_supplier.
PricingAllowed(e) == Explicit(e.spec) => e.code \in Gross

\* LinkageValidator.  Counts hold by construction.
BoardsAsAsked(e) == \A i \in 1..e.spec.count : Rates(e)[i].board = Boards(e.spec)[i]
\* EXP's boards are not looked at, and RHK's are compared with its own mapping.
Linked(e) == e.code \in {"EXP", "RHK"} \/ BoardsAsAsked(e)
\* _validate_ext_prebooking: exactly the rate on offer, or none.
QuoteLinked(e) == e.code = "EXT" =>
    Quote(e) = IF e.spec.status = "sold_out" THEN <<>>
               ELSE Check(Picked(e.spec), IF e.spec.status = "price_changed" THEN e.spec.changed
                                          ELSE Rates(e)[Picked(e.spec)].price)

\* Mutant: nothing is validated.
Builds_Unlinked(e) == HasTemplates(e) /\ PricingAllowed(e) /\ (e.code = "EXT" => ExtBuilds(e.spec))
Builds(e) == /\ HasTemplates(e) /\ PricingAllowed(e)
             /\ e.code = "EXT" => ExtBuilds(e.spec)
             /\ Linked(e) /\ QuoteLinked(e)

-----------------------------------------------------------------------------
\* finalize_expectation_for_register: ids, paths and links.

Id(ns, r, n, t) == <<Fold[ns], Key(r, n), t>>

\* The instance segment keeps a second entry of a supplier apart.
Prefix(ns, r, n) == <<Segment[ns], IF Instance(r, n) = 1 THEN None ELSE Key(r, n)>>

\* A path of each supplier's own for each log type, with the booking id where
\* the path carries it.
HbsPath(t, b) == IF t = "GetOrder" THEN <<"hotel-api", t, b>> ELSE <<"hotel-api", t>>
ExpPath(t, b) == CASE t = "Search" -> <<"search">>
                   [] t = "Packages" -> <<"package">>
                   [] t = "PreBooking" -> <<"v3", "properties">>
                   [] t = "Booking" -> <<"v3", "itineraries">>
                   [] t = "GetOrder" -> <<"v3", "itineraries", b>>
                   [] t = "CancelOrder" -> <<"v3", "itineraries", b, "rooms">>
DerbyPath(t) == <<"api/go", t>>
ExtBase(t) == IF t \in BookingFlow THEN "accommodation" ELSE "distribution"
ExtSuffix(t) == IF t \in {"Search", "GetOrder"} THEN "search" ELSE t
ExtPath(t) == <<"extranet", ExtBase(t), ExtSuffix(t)>>
\* RHK serves on the captured paths: Search and Packages were one call.
RhkPath(t) == <<"b2b", IF t \in {"Search", "Packages"} THEN "serp" ELSE t>>

Endpoint(e, t, b) == CASE e.code = "HBS" -> HbsPath(t, b)
                       [] e.code = "EXP" -> ExpPath(t, b)
                       [] e.code = "CHC" -> DerbyPath(t)
                       [] e.code = "EXT" -> ExtPath(t)
                       [] e.code = "RHK" -> RhkPath(t)
                       [] e.code = "GEN" -> <<"generic", t>>

At(prefix, call) == [prefix |-> prefix, call |-> call]
Path(ns, r, n, t, b) == At(Prefix(ns, r, n), Endpoint(r[n], t, b))

\* The templates' methods.
Method(e, t) == CASE e.code \in {"HBS", "EXP"} /\ t = "CancelOrder" -> "DELETE"
                  [] e.code \in {"HBS", "EXP"} /\ t = "GetOrder" -> "GET"
                  [] e.code = "EXP" /\ t # "Booking" -> "GET"
                  [] OTHER -> "POST"

\* EXP answers link to the next call: prefixed as the paths are.
NextCall(t) == CASE t \in {"Search", "Packages"} -> "PreBooking" [] t = "PreBooking" -> "Booking"
                 [] t = "Booking" -> "GetOrder" [] t = "GetOrder" -> "CancelOrder"
                 [] OTHER -> None
Links(e, t) == e.code = "EXP" /\ NextCall(t) # None
               /\ ~(t = "PreBooking" /\ e.spec.status = "sold_out")
\* Mutant: the links are prefixed with the namespace alone.
Href_Namespace(ns, r, n, t, b) ==
    IF Links(r[n], t) THEN At(<<Segment[ns], None>>, Endpoint(r[n], NextCall(t), b)) ELSE None
Href(ns, r, n, t, b) ==
    IF Links(r[n], t) THEN At(Prefix(ns, r, n), Endpoint(r[n], NextCall(t), b)) ELSE None

Answer(e, t, b) ==
    [rates |-> CASE t = "Search" -> SearchRates(e) [] t = "Packages" -> Rates(e) [] OTHER -> <<>>,
     quote |-> IF t = "PreBooking" THEN Quote(e) ELSE <<>>,
     order |-> IF t = "GetOrder" \/ (t = "Booking" /\ e.code # "EXP") THEN Order(e) ELSE None,
     booking |-> IF t \in BookingFlow THEN b ELSE None]

Expectation(ns, r, n, t, b) ==
    [id |-> Id(ns, r, n, t), path |-> Path(ns, r, n, t, b), method |-> Method(r[n], t),
     answer |-> Answer(r[n], t, b), href |-> Href(ns, r, n, t, b)]

\* The expectations of some log types: of each entry those it is built with, by
\* the place of the log type.  They are PUT entry by entry, in the order of the
\* log types.
Expectations(r, types) == {x \in (DOMAIN r) \X (DOMAIN LogTypes) :
                              LogTypes[x[2]] \in types /\ Built(r[x[1]], LogTypes[x[2]])}
Precedes(x, y) == x[1] < y[1] \/ (x[1] = y[1] /\ x[2] <= y[2])

-----------------------------------------------------------------------------
VARIABLES
    req,      \* [Namespaces -> the request, or None]
    phase,    \* [Namespaces -> Phases]
    todo,     \* [Namespaces -> the expectations still to be PUT: <<entry, log type>>]
    base,     \* [Namespaces -> its n-th entry has the booking id base + n]
    mocks,    \* the expectations on MockServer
    urls,     \* [Namespaces -> what its contracts say: <<entry, log type, path>>]
    last      \* the last booking id given out

vars == <<req, phase, todo, base, mocks, urls, last>>

\* A scenario is READY from "ready" to "half": as created, with a refresh under
\* way, with a refresh done, or with one that failed on the way.
Settled == {"ready", "renewed"}
Phases == {"absent", "pending", "registering", "failed", "gone", "refreshing", "half"} \cup Settled

Init == /\ req = [ns \in Namespaces |-> None]
        /\ phase = [ns \in Namespaces |-> "absent"]
        /\ todo = [ns \in Namespaces |-> {}] /\ base = [ns \in Namespaces |-> 0]
        /\ urls = [ns \in Namespaces |-> {}]
        /\ mocks = {} /\ last = 0

Become(ns, p) == phase' = [phase EXCEPT ![ns] = p]

Create(ns) == /\ phase[ns] = "absent"
              /\ \E r \in Requests[ns] : req' = [req EXCEPT ![ns] = r]
              /\ Become(ns, "pending")
              /\ UNCHANGED <<todo, base, mocks, urls, last>>

Enough(ns) == last + Len(req[ns]) <= MaxIds
Queue(ns, types) == /\ todo' = [todo EXCEPT ![ns] = Expectations(req[ns], types)]
                    /\ base' = [base EXCEPT ![ns] = last]
                    /\ last' = last + Len(req[ns])

\* Everything is built before anything is registered.
Build(ns) ==
    /\ phase[ns] = "pending"
    /\ \A n \in DOMAIN req[ns] : Builds(req[ns][n])
    /\ Enough(ns) /\ Queue(ns, Range(LogTypes))
    /\ Become(ns, "registering")
    /\ UNCHANGED <<req, mocks, urls>>
BuildRaises(ns) ==
    /\ phase[ns] = "pending"
    /\ \E n \in DOMAIN req[ns] : ~Builds(req[ns][n])
    /\ Become(ns, "failed")
    /\ UNCHANGED <<req, todo, base, mocks, urls, last>>

\* PUT /mockserver/expectation replaces the one of the same id.
\* Mutant: it is added beside it.
Put_Append(x) == mocks \cup {x}
Put(x) == {y \in mocks : y.id # x.id} \cup {x}

Working == {"registering", "refreshing"}
Register(ns) ==
    /\ phase[ns] \in Working
    /\ \E x \in todo[ns] :
          /\ \A y \in todo[ns] : Precedes(x, y)
          /\ mocks' = Put(Expectation(ns, req[ns], x[1], LogTypes[x[2]], base[ns] + x[1]))
          /\ todo' = [todo EXCEPT ![ns] = @ \ {x}]
    /\ UNCHANGED <<req, phase, base, urls, last>>
RegisterFails(ns) == /\ phase[ns] \in Working /\ todo[ns] # {}
                     /\ Become(ns, IF phase[ns] = "registering" THEN "failed" ELSE "half")
                     /\ todo' = [todo EXCEPT ![ns] = {}]
                     /\ UNCHANGED <<req, base, mocks, urls, last>>

\* build_mock_opt_urls: an opt URL per log type, once every mock is up.  HBS
\* appends the id to its order URL; EXP has no price-check URL if none is asked for.
HasUrl(e, t) == Built(e, t) /\ (e.code = "EXP" /\ t = "PreBooking" => e.spec.url)
Urls(ns, r) == UNION {
    {[entry |-> n, type |-> x.id[3],
      path |-> IF r[n].code = "HBS" /\ x.id[3] = "GetOrder" THEN [x.path EXCEPT !.call = Front(@)]
              ELSE x.path] :
        x \in {y \in mocks : y.id[1] = Fold[ns] /\ y.id[2] = Key(r, n) /\ HasUrl(r[n], y.id[3])}} :
    n \in DOMAIN r}
Contract(ns) == /\ phase[ns] = "registering" /\ todo[ns] = {}
                /\ urls' = [urls EXCEPT ![ns] = Urls(ns, req[ns])]
                /\ Become(ns, "ready")
                /\ UNCHANGED <<req, todo, base, mocks, last>>
ContractFails(ns) == /\ phase[ns] = "registering" /\ todo[ns] = {}
                     /\ Become(ns, "failed")
                     /\ UNCHANGED <<req, todo, base, mocks, urls, last>>

\* refresh_booking_ids: the whole scenario is built again and its booking flow
\* registered; the contracts are left as they are.
\* Mutant: the order is left out.
RefreshTypes_NoOrder == {"Booking", "CancelOrder"}
RefreshTypes == BookingFlow
Refresh(ns) == /\ phase[ns] \in Settled \cup {"half"}
               /\ Enough(ns) /\ Queue(ns, RefreshTypes)
               /\ Become(ns, "refreshing")
               /\ UNCHANGED <<req, mocks, urls>>
Refreshed(ns) == /\ phase[ns] = "refreshing" /\ todo[ns] = {}
                 /\ Become(ns, "renewed")
                 /\ UNCHANGED <<req, todo, base, mocks, urls, last>>

\* expectation_ids_for_namespace: every log type of every instance.
\* Mutant: of every supplier code.
IdsOf_Codes(ns, r) == {<<Fold[ns], <<r[n].code, 1>>, t>> : n \in DOMAIN r, t \in Range(LogTypes)}
IdsOf(ns, r) == {Id(ns, r, n, t) : n \in DOMAIN r, t \in Range(LogTypes)}
Delete(ns) == /\ phase[ns] \in Settled \cup {"half", "failed"}
              /\ mocks' = {x \in mocks : x.id \notin IdsOf(ns, req[ns])}
              /\ urls' = [urls EXCEPT ![ns] = {}]
              /\ Become(ns, "gone")
              /\ UNCHANGED <<req, todo, base, last>>

Next == \E ns \in Namespaces :
    \/ Create(ns) \/ Build(ns) \/ BuildRaises(ns)
    \/ Register(ns) \/ RegisterFails(ns)
    \/ Contract(ns) \/ ContractFails(ns)
    \/ Refresh(ns) \/ Refreshed(ns) \/ Delete(ns)

Spec == Init /\ [][Next]_vars

-----------------------------------------------------------------------------
\* What holds.

\* A scenario's own mock.
Mocks(ns, n, t) == {x \in mocks : x.id = Id(ns, req[ns], n, t)}
Mock(ns, n, t) == CHOOSE x \in Mocks(ns, n, t) : TRUE
Types(ns, n) == {t \in Range(LogTypes) : Built(req[ns][n], t)}
InService == {ns \in Namespaces : phase[ns] \in Settled}

\* The expectations on MockServer are well formed and no two have one id: a
\* registration replaces (PUT /mockserver/expectation), it never adds beside.
TypeOK ==
    /\ phase \in [Namespaces -> Phases] /\ last \in 0..MaxIds
    /\ \A ns \in Namespaces :
          /\ (req[ns] = None) = (phase[ns] = "absent")
          /\ req[ns] # None => req[ns] \in Requests[ns]
          /\ IF phase[ns] \in Working THEN todo[ns] \subseteq Expectations(req[ns], Range(LogTypes))
             ELSE todo[ns] = {}
          /\ base[ns] \in 0..last
    /\ \A x, y \in mocks : x.id = y.id => x = y

\* The addresses at which an adapter looks for an answer: what the contract says,
\* HBS with the id of the booking, and for EXP the link in the answer before.
ContractPaths(ns, n, t) ==
    {IF req[ns][n].code = "HBS" /\ t = "GetOrder"
     THEN [u.path EXCEPT !.call = Append(@, Mock(ns, n, "Booking").answer.booking)]
     ELSE u.path :
        u \in {v \in urls[ns] : v.entry = n /\ v.type = t}}
LinkPaths(ns, n, t) ==
    {Mock(ns, n, s).href : s \in {s \in Types(ns, n) : Links(req[ns][n], s) /\ NextCall(s) = t}}
\* There is one answer there, that of the scenario's own mock.  (RHK's search and
\* packages share an address, and answer alike.)
Reaches(ns, n, t, path) ==
    LET found == {x \in mocks : x.path = path /\ x.method = Method(req[ns][n], t)}
    IN  found # {} /\ \A x \in found : x.answer = Mock(ns, n, t).answer
\* A refresh leaves the id of the creation in EXP's contract.
Stranded(ns, n, t) == phase[ns] = "renewed" /\ req[ns][n].code = "EXP" /\ t \in {"GetOrder", "CancelOrder"}

\* In a scenario that is READY every step of the booking flow, by contract or by
\* link, ends at the mock of that very scenario and entry - whatever other
\* scenarios, and other entries of the supplier, have on the server, and after
\* any number of refreshes (apply_namespace_path_prefix, instance_path_segment,
\* _hbs_get_order_base_path).  But for Stranded.
FlowReachesOwnMocks ==
    \A ns \in InService : \A n \in DOMAIN req[ns] : \A t \in Types(ns, n) :
        /\ Mocks(ns, n, t) # {}
        /\ \A p \in LinkPaths(ns, n, t) : Reaches(ns, n, t, p)
        /\ ~Stranded(ns, n, t) => \A p \in ContractPaths(ns, n, t) : Reaches(ns, n, t, p)

\* docs/ARCHITECTURE.md:147, "refresh_booking_ids works for second booking": the
\* contracts of a refreshed scenario still lead to its mocks.
ContractsFollowRefresh ==
    \A ns \in InService : \A n \in DOMAIN req[ns] : \A t \in Types(ns, n) :
        \A p \in ContractPaths(ns, n, t) : Reaches(ns, n, t, p)

\* Booking, order and cancellation of an entry speak of one booking, and no mock
\* of anything else does (BookingIdInjector, refresh_booking_flow_expectations).
OneBookingId ==
    \A ns \in InService : \A n \in DOMAIN req[ns] : Booked(req[ns][n].spec) =>
        LET own == UNION {Mocks(ns, n, t) : t \in BookingFlow}
            b == Mock(ns, n, "Booking").answer.booking
        IN  /\ Cardinality(own) = 3
            /\ \A x \in own : x.answer.booking = b
            /\ \A x \in mocks \ own : x.answer.booking # b

\* The price check is about the package that is booked, at the price Packages
\* offers or the changed one, and says so if it is sold out; the order is at the
\* price that was checked (propagate_package_linkage of HBS, EXP, EXT and Derby).
\* But EXT's order has the price of Packages also when the check changed it.
QuoteAndOrderAgree ==
    \A ns \in InService : \A n \in DOMAIN req[ns] :
        LET e == req[ns][n]
            quote == Mock(ns, n, "PreBooking").answer.quote
            offered == Mock(ns, n, "Packages").answer.rates[Picked(e.spec)].price
        IN  /\ e.code \in {"HBS", "EXP", "EXT", "CHC"} =>
                  quote = CASE e.spec.status = "sold_out" -> <<>>
                            [] e.spec.status = "price_changed" -> Check(Picked(e.spec), e.spec.changed)
                            [] OTHER -> Check(Picked(e.spec), offered)
            /\ e.code \in {"HBS", "EXP", "EXT"} /\ Booked(e.spec) =>
                  Mock(ns, n, "GetOrder").answer.order =
                      IF e.code = "EXT" THEN offered ELSE quote[1].price

\* A scenario that is READY offers the packages it was asked for, in price, board,
\* name and refundability - a board the supplier cannot express fails the build - and
\* Search offers nothing else (mutate_packages, LinkageValidator).  But EXP and RHK
\* offer such a board as room only, HBS the first price for the captured one, and
\* Derby names rooms out of the hotel's catalogue.
Altered(e, i) == e.code = "HBS" /\ Prices(e.spec)[i] = Captured
OffersAsAsked ==
    \A ns \in InService : \A n \in DOMAIN req[ns] :
        LET e == req[ns][n]
            rates == Mock(ns, n, "Packages").answer.rates
        IN  /\ Len(rates) = e.spec.count
            /\ Range(Mock(ns, n, "Search").answer.rates) \subseteq Range(rates)
            /\ \A i \in DOMAIN rates :
                  /\ ~Altered(e, i) => rates[i].price = Prices(e.spec)[i]
                  /\ rates[i].refundable = Refundable(e.spec)[i]
                  /\ e.code # "CHC" => rates[i].name = RoomNames(e.spec)[i]
                  /\ e.code \notin {"EXP", "RHK"} => rates[i].board = Boards(e.spec)[i]
                  /\ Explicit(e.spec) =>
                        /\ e.code \in Gross
                        /\ e.code = "EXP" => rates[i].markup = Markups(e.spec)[i]

\* What was deleted has no mock left, whatever was registered and however far it
\* came, and the mocks of the other scenarios stay (expectation_ids_for_namespace).
GoneLeavesNothing ==
    /\ \A x \in mocks : \E ns \in Namespaces : x.id[1] = Fold[ns] /\ phase[ns] \notin {"absent", "gone"}
    /\ \A ns \in InService : \A n \in DOMAIN req[ns] : \A t \in Types(ns, n) : Mocks(ns, n, t) # {}
=============================================================================
