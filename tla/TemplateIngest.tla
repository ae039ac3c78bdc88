---------------------------- MODULE TemplateIngest ----------------------------
(***************************************************************************)
(* Building a supplier's templates from the adapter logs of one session    *)
(* (ingest/template_ingestor.py): the rows of the log list are sorted into *)
(* buckets by log type, rows of a sibling supplier on the same adapter are *)
(* dropped, the rows of the hotel that Packages is about are put first,    *)
(* and the first usable row of each bucket becomes the template.           *)
(*                                                                         *)
(* A log's detail is fetched from the logs service where it is first       *)
(* needed and kept; any fetch may fail.  Nothing is written before every   *)
(* bucket is decided; the files are written one after the other.           *)
(***************************************************************************)
EXTENDS Integers, Sequences

CONSTANTS
    Logs,      \* log lists a session may have: sequences of rows
    Shared,    \* whether the plugin shares its adapter (disambiguate_by_payload)
    Names,     \* hotels and reservation ids
    None

LogTypes == {"Search", "Packages", "CancellationPolicy", "PreBooking",
             "Booking", "GetOrder", "CancelOrder"}

\* canonical_log_type, with the aliases that are not mere spelling.
Canonical(raw) == CASE raw = "GetOrderResponse" -> "GetOrder"
                    [] raw = "CancelBooking" -> "CancelOrder"
                    [] raw \in LogTypes -> raw
                    [] OTHER -> None

\* A row of the list, and what its detail says.  ours: the source matches the
\* plugin's adapter, and there is a log to fetch.  owner: whose payload it is.
\* use: fit to replay, no HTTP path to be found, or the envelope of a failed call
\* (a failed call whose response has a JSON document of its own passes as fit).
\* dist, derby: the reservation ids of a Derby payload.
Row == [type : LogTypes \cup {"GetOrderResponse", "CancelBooking", "Other"},
        ours : BOOLEAN, time : Nat, owner : {"own", "sibling", None},
        hotel : Names \cup {None}, use : {"good", "pathless", "envelope"},
        dist : Names \cup {None}, derby : Names \cup {None}]

\* A template: the row it is made of, and its reservation id.
Template == [row : Nat, derby : Names \cup {None, "fresh"}]

ASSUME IngestAssumption == /\ Shared \subseteq BOOLEAN /\ Logs \subseteq Seq(Row)
                           /\ None \notin LogTypes \cup Names \cup {"fresh"}
                           /\ None \notin Nat /\ None \notin Template

VARIABLES
    log,       \* the session's rows
    shared,    \* whether the plugin shares its adapter
    pc,
    known,     \* detail_cache: rows whose detail was fetched
    buckets,   \* the rows of each log type, in the order Before gives them
    ahead,     \* rows that were moved to the front of their buckets
    pending,   \* pending_by_type: [row, derby], or None
    disk,      \* the templates: [row, derby], row 0 for one of an earlier session
    map,       \* the log types the field map on disk was inferred from
    lost       \* history: rows that could not be fetched when asked for first

vars == <<log, shared, pc, known, buckets, ahead, pending, disk, map, lost>>

Old == [row |-> 0, derby |-> None]

Init == /\ log \in Logs /\ shared \in Shared
        /\ pc = "list" /\ known = {} /\ lost = {}
        /\ buckets = [t \in LogTypes |-> {}] /\ ahead = {}
        /\ pending = [t \in LogTypes |-> None]
        /\ \E before \in {{}, LogTypes} :
             /\ disk = [t \in LogTypes |-> IF t \in before THEN Old ELSE None]
             /\ map = before

Rows == DOMAIN log
Fails == pc' = "failed" /\ UNCHANGED <<log, shared, known, buckets, ahead, pending, disk, map, lost>>

-----------------------------------------------------------------------------
\* list_logs, and _collect_candidates.
Belongs(i, t) == log[i].ours /\ Canonical(log[i].type) = t
Collect == /\ pc = "list" /\ log # <<>>
           /\ buckets' = [t \in LogTypes |-> {i \in Rows : Belongs(i, t)}]
           /\ pc' = IF shared THEN "attribute" ELSE "align"
           /\ UNCHANGED <<log, shared, known, ahead, pending, disk, map, lost>>

ListFails == pc = "list" /\ Fails

Candidates == UNION {buckets[t] : t \in LogTypes}

\* A pass over rows that survives those it cannot fetch.
Fetch(rows, missed) == /\ missed \subseteq rows \ known
                       /\ known' = known \cup (rows \ missed)
                       /\ lost' = lost \cup missed

\* _attribute_by_payload.  Mutant: a row that names no supplier is claimed.
Claims_Unnamed(i) == log[i].owner # "sibling"
Claims(i) == log[i].owner = "own"
Attribute ==
    /\ pc = "attribute"
    /\ \E missed \in SUBSET Candidates :
         /\ Fetch(Candidates, missed)
         /\ buckets' = [t \in LogTypes |-> {i \in buckets[t] \ missed : Claims(i)}]
    /\ pc' = "align"
    /\ UNCHANGED <<log, shared, ahead, pending, disk, map>>

\* payload_hotel_id: only the plugins of a shared adapter tell the hotel.
HotelOf(i) == IF shared THEN log[i].hotel ELSE None

\* The order of a bucket is that of the list, but for the rows moved to the front.
\* Mutant: they are moved to the back.
Before_Behind(i, j) == IF (i \in ahead) = (j \in ahead) THEN i < j ELSE j \in ahead
Before(i, j) == IF (i \in ahead) = (j \in ahead) THEN i < j ELSE i \in ahead
First(rows) == CHOOSE i \in rows : \A j \in rows \ {i} : Before(i, j)

\* _align_hotels_to_packages; only buckets with a choice are looked at.
Contested == {t \in LogTypes \ {"Packages"} : \E i, j \in buckets[t] : i # j}
Align ==
    /\ pc = "align"
    /\ IF buckets["Packages"] = {} THEN UNCHANGED <<known, lost, ahead>>
       ELSE LET lead == First(buckets["Packages"])
                others == UNION {buckets[t] : t \in Contested}
            IN \E missed \in SUBSET ({lead} \cup others) :
                 IF lead \in missed \/ HotelOf(lead) = None
                 THEN Fetch({lead}, missed) /\ UNCHANGED ahead
                 ELSE /\ Fetch({lead} \cup others, missed)
                      /\ ahead' = {i \in others \ missed : HotelOf(i) = HotelOf(lead)}
    /\ pc' = "build"
    /\ UNCHANGED <<log, shared, buckets, pending, disk, map>>

-----------------------------------------------------------------------------
\* _select_candidate: max and min take the first of equals.
Latest(rows) == First({i \in rows : \A j \in rows : log[j].time <= log[i].time})
Distance(i, j) == IF log[i].time < log[j].time THEN log[j].time - log[i].time
                  ELSE log[i].time - log[j].time
Nearest(rows, to) == First({i \in rows : \A j \in rows : Distance(i, to) <= Distance(j, to)})

\* The outbound call nearest to the latest GetOrderResponse.
SelectedOrder(rows) ==
    LET responses == {i \in rows : log[i].type = "GetOrderResponse"}
        outbound == rows \ responses
    IN IF outbound = {} THEN Latest(responses)
       ELSE IF responses = {} THEN Latest(outbound)
       ELSE Nearest(outbound, Latest(responses))

Selected(t) == CASE t = "GetOrder" -> SelectedOrder(buckets[t])
                 [] t = "CancelOrder" -> Latest(buckets[t])
                 [] OTHER -> First(buckets[t])

\* The selected row is tried first, then the others as fallbacks.
TriedBefore(i, j, t) == i # j /\ (i = Selected(t) \/ (j # Selected(t) /\ Before(i, j)))

\* resolve_http_path_and_method finds a path; is_error_envelope_payload.
HasPath(i) == log[i].use # "pathless"
Envelope(i) == log[i].use = "envelope"

\* Rows that can be replayed.  Mutant: any row with a path will do.
Usable_Envelope(i) == HasPath(i)
Usable(i) == HasPath(i) /\ ~Envelope(i)

\* build_expectation.
Expectation(i) == [row |-> i, derby |-> log[i].derby]

\* The row that becomes the template, or None.  Mutant: only the selected row
\* is tried.
Chosen_Selected(t) == IF Usable(Selected(t)) THEN Selected(t) ELSE None
Chosen(t) == LET usable == {i \in buckets[t] : Usable(i)}
             IN IF usable = {} THEN None
                ELSE IF Selected(t) \in usable THEN Selected(t) ELSE First(usable)

\* The rows of a bucket that are fetched until one is usable.  Mutant: the
\* usable one is not.
Tried_Before(t) == {i \in buckets[t] : Chosen(t) = None \/ TriedBefore(i, Chosen(t), t)}
Tried(t) == {i \in buckets[t] : Chosen(t) \in {None, i} \/ TriedBefore(i, Chosen(t), t)}

\* Unlike the passes before, building fails with the first row it cannot fetch,
\* or whose request body is not JSON.
Build ==
    /\ pc = "build"
    /\ LET filled == {t \in LogTypes : buckets[t] # {}}
           fetched == UNION {Tried(t) : t \in filled}
       IN \/ /\ known' = known \cup fetched
             /\ pending' = [t \in LogTypes |->
                  IF t \notin filled THEN None
                  ELSE IF Chosen(t) = None THEN None ELSE Expectation(Chosen(t))]
             /\ pc' = "ids"
             /\ UNCHANGED <<log, shared, buckets, ahead, disk, map, lost>>
          \/ fetched # {} /\ Fails

\* apply_aligned_derby_res_ids_for_booking_and_get_order: when both name the same
\* distributor's reservation, one fresh id replaces the ids they carry.
\* Mutant: the distributor's ids are not compared.
SameReservation_Any(b, g) == log[b.row].dist # None /\ log[g.row].dist # None
SameReservation(b, g) == log[b.row].dist # None /\ log[b.row].dist = log[g.row].dist
AlignIds ==
    /\ pc = "ids"
    /\ LET b == pending["Booking"]
           g == pending["GetOrder"]
           Renewed(p) == [p EXCEPT !.derby = IF @ = None THEN None ELSE "fresh"]
       IN IF b # None /\ g # None
          THEN pending' = IF SameReservation(b, g)
                          THEN [pending EXCEPT !["Booking"] = Renewed(b), !["GetOrder"] = Renewed(g)]
                          ELSE pending
          ELSE UNCHANGED pending
    /\ pc' = "write"
    /\ UNCHANGED <<log, shared, known, buckets, ahead, disk, map, lost>>

\* The files, one at a time; the disk may be full, or the process end.
Written(t) == disk[t] = pending[t]
Write(t) == /\ pc = "write" /\ pending[t] # None /\ ~Written(t)
            /\ disk' = [disk EXCEPT ![t] = pending[t]]
            /\ UNCHANGED <<log, shared, pc, known, buckets, ahead, pending, map, lost>>

WriteFails == pc = "write" /\ Fails

\* The field map is inferred from this session's templates alone.
Finish == /\ pc = "write" /\ \A t \in LogTypes : pending[t] # None => Written(t)
          /\ map' = {t \in LogTypes : pending[t] # None}
          /\ pc' = "done"
          /\ UNCHANGED <<log, shared, known, buckets, ahead, pending, disk, lost>>

Next == \/ Collect \/ ListFails \/ Attribute \/ Align \/ Build \/ AlignIds
        \/ (\E t \in LogTypes : Write(t)) \/ WriteFails \/ Finish

Spec == Init /\ [][Next]_vars

-----------------------------------------------------------------------------
\* Types; a template is only made of a row whose detail was fetched.
TypeOK == /\ pc \in {"list", "attribute", "align", "build", "ids", "write", "done", "failed"}
          /\ known \subseteq Rows /\ lost \subseteq Rows /\ map \subseteq LogTypes
          /\ ahead \subseteq Candidates
          /\ \A t \in LogTypes : /\ buckets[t] \subseteq Rows
                                 /\ pending[t] # None => /\ pending[t] \in Template
                                                         /\ pending[t].row \in known
                                 /\ disk[t] = None \/ disk[t] \in Template

\* Rows of the session that could be the template of a log type.
Fit(t) == {i \in Rows : Belongs(i, t) /\ log[i].use = "good" /\ (shared => log[i].owner = "own")}
New(t) == disk[t] # None /\ disk[t] # Old

\* Whatever is lost on the way, a template that is written is a replayable call
\* of its log type, and on a shared adapter the supplier's own: never the
\* envelope of a failed call, never a sibling's payload, nor one nobody signed.
NoForeignTemplate == \A t \in LogTypes : New(t) => disk[t].row \in Fit(t)

\* On a shared adapter, the Search template is about the hotel of the Packages
\* template when the session has such a row that could be fetched.  That is the
\* hotel of the first Packages row: when that row itself cannot be replayed, a
\* later one is, and Search is left with the hotel of the first.
HotelsAgree ==
    pc = "done" /\ shared /\ New("Search") /\ New("Packages") =>
      LET hotel == log[disk["Packages"].row].hotel IN
      \/ log[disk["Search"].row].hotel = hotel
      \/ disk["Packages"].row # First(buckets["Packages"])
      \/ hotel = None
      \/ {i \in Fit("Search") : log[i].hotel = hotel} \subseteq lost

\* An ingest that ends well has a new template for every log type the session
\* has a fit row of, fallbacks included, except rows it could not fetch.
UsableRowsUsed == pc = "done" => \A t \in LogTypes : New(t) \/ Fit(t) \subseteq lost

\* The Booking and GetOrder templates of a session carry the same reservation id
\* when they are about the same reservation, and their own when they are not.
BookingMatchesOrder ==
    pc = "done" /\ New("Booking") /\ New("GetOrder") =>
      LET b == disk["Booking"]  g == disk["GetOrder"] IN
      IF log[b.row].dist # None /\ log[b.row].dist = log[g.row].dist
      THEN b.derby = g.derby \/ None \in {b.derby, g.derby}
      ELSE b.derby = log[b.row].derby /\ g.derby = log[g.row].derby
=============================================================================
