------------------------ MODULE TemplateIngestProofs ------------------------
(***************************************************************************)
(* What TemplateIngest promises, for sessions with any number of rows in   *)
(* any order, on a shared and on an own adapter, and whichever details     *)
(* cannot be fetched and files cannot be written.                          *)
(***************************************************************************)
EXTENDS TemplateIngest, NaturalsInduction, WellFoundedInduction, TLAPS

PCs == {"list", "attribute", "align", "build", "ids", "write", "done", "failed"}
Typed ==
    /\ log \in Seq(Row) /\ shared \in BOOLEAN /\ pc \in PCs
    /\ known \subseteq Rows /\ lost \subseteq Rows
    /\ ahead \subseteq Candidates /\ map \subseteq LogTypes
    /\ buckets \in [LogTypes -> SUBSET Rows]
    /\ pending \in [LogTypes -> Template \cup {None}]
    /\ disk \in [LogTypes -> Template \cup {None}]

\* What a bucket holds: first every row of its log type, then those among them that
\* belong to the supplier, but for rows that could not be fetched to see.
Own(t) == {i \in Rows : Belongs(i, t) /\ (shared => log[i].owner = "own")}
Sorted ==
    /\ pc = "attribute" => /\ shared
                          /\ \A t \in LogTypes : buckets[t] = {i \in Rows : Belongs(i, t)}
    /\ pc \in {"align", "build", "ids", "write", "done"} =>
         \A t \in LogTypes : /\ buckets[t] \subseteq Own(t)
                             /\ Own(t) \subseteq buckets[t] \cup lost
                             /\ shared => buckets[t] \subseteq known

\* The hotel that the session drilled into, as far as the ingest can tell.
Lead == First(buckets["Packages"])
LeadTells == shared /\ buckets["Packages"] # {} /\ log[Lead].hotel # None
OfLead(i) == log[i].hotel = log[Lead].hotel

\* Its Search rows are in front of all others, and then the template is one of them if
\* any of them can be replayed.
InFront ==
    /\ pc \in {"list", "attribute", "align"} => ahead = {}
    /\ pc = "build" /\ LeadTells =>
         \A i, j \in buckets["Search"] : OfLead(i) /\ ~OfLead(j) => i \in ahead /\ j \notin ahead
    /\ pc \in {"ids", "write", "done"} /\ LeadTells /\ pending["Search"] # None =>
         \/ OfLead(pending["Search"].row)
         \/ \A i \in buckets["Search"] : OfLead(i) => ~Usable(i)

\* A template to be written is of a row that was read and is fit, and there is one
\* wherever there is such a row.
Made ==
    /\ pc \in {"list", "attribute", "align", "build"} => \A t \in LogTypes : pending[t] = None
    /\ \A t \in LogTypes : pending[t] # None => pending[t].row \in Fit(t) \cap known \cap buckets[t]
    /\ pc \in {"ids", "write", "done"} =>
         \A t \in LogTypes : pending[t] = None => \A i \in buckets[t] : ~Usable(i)

\* The reservation ids, before and after they are aligned.
Reserved ==
    /\ pc = "ids" => \A t \in LogTypes : pending[t] # None =>
                       pending[t].derby = log[pending[t].row].derby
    /\ pc \in {"write", "done"} /\ pending["Booking"] # None /\ pending["GetOrder"] # None =>
         LET b == pending["Booking"]  g == pending["GetOrder"] IN
         IF SameReservation(b, g) THEN b.derby = g.derby \/ None \in {b.derby, g.derby}
         ELSE b.derby = log[b.row].derby /\ g.derby = log[g.row].derby

\* What is on the disk is of an earlier session, or what was to be written.
OnDisk ==
    /\ pc \in {"list", "attribute", "align", "build", "ids"} => \A t \in LogTypes : ~New(t)
    /\ \A t \in LogTypes : New(t) => disk[t] = pending[t]
    /\ pc = "done" => \A t \in LogTypes : pending[t] # None => disk[t] = pending[t]

IngestInv == Typed /\ Sorted /\ InFront /\ Made /\ Reserved /\ OnDisk

-----------------------------------------------------------------------------
\* Orders on rows.
LEMMA LeastNat ==
    ASSUME NEW T \in SUBSET Nat, T # {}
    PROVE  \E m \in T : \A k \in T : m <= k
  <1>1. PICK m \in T : \A k \in T : <<k, m>> \notin OpToRel(<, Nat)
    BY WFMin, NatLessThanWellFounded
  <1>2. \A k \in T : ~(k < m)
    BY <1>1 DEF OpToRel
  <1> QED
    BY <1>2

\* Before, with the rows in front as a parameter, so that it can be said of two states.
Earlier(front, i, j) == IF (i \in front) = (j \in front) THEN i < j ELSE i \in front
FirstBy(front, T) == CHOOSE i \in T : \A j \in T \ {i} : Earlier(front, i, j)

LEMMA FirstByIs ==
    ASSUME NEW front, NEW T \in SUBSET Nat, T # {}
    PROVE  /\ FirstBy(front, T) \in T
           /\ \A j \in T \ {FirstBy(front, T)} : Earlier(front, FirstBy(front, T), j)
  <1>1. \E i \in T : \A j \in T \ {i} : Earlier(front, i, j)
    <2>1. CASE T \cap front = {}
      <3>1. PICK m \in T : \A k \in T : m <= k
        BY LeastNat
      <3> QED
        BY <2>1, <3>1 DEF Earlier
    <2>2. CASE T \cap front # {}
      <3>1. PICK m \in T \cap front : \A k \in T \cap front : m <= k
        BY <2>2, LeastNat
      <3> QED
        BY <3>1 DEF Earlier
    <2> QED
      BY <2>1, <2>2
  <1> QED
    BY <1>1 DEF FirstBy

LEMMA FirstIs ==
    ASSUME NEW T \in SUBSET Nat, T # {}
    PROVE  First(T) \in T /\ \A j \in T \ {First(T)} : Before(First(T), j)
  <1>1. First(T) = FirstBy(ahead, T)
    BY DEF First, FirstBy, Before, Earlier
  <1> QED
    BY <1>1, FirstByIs DEF Before, Earlier

\* Rows that are not in front have the same first one, whatever is in front.
LEMMA FirstOfTheRest ==
    ASSUME NEW one, NEW other, NEW T \in SUBSET Nat, T # {}, T \cap one = {}, T \cap other = {}
    PROVE  FirstBy(one, T) = FirstBy(other, T)
  <1>1. \A j \in T \ {FirstBy(one, T)} : FirstBy(one, T) < j
    BY FirstByIs DEF Earlier
  <1>2. \A j \in T \ {FirstBy(other, T)} : FirstBy(other, T) < j
    BY FirstByIs DEF Earlier
  <1>3. FirstBy(one, T) \in T /\ FirstBy(other, T) \in T
    BY FirstByIs
  <1>4. FirstBy(one, T) \in Nat /\ FirstBy(other, T) \in Nat
    BY <1>3
  <1>5. ASSUME FirstBy(one, T) # FirstBy(other, T) PROVE FALSE
    <2>1. FirstBy(one, T) < FirstBy(other, T)
      BY <1>1, <1>3, <1>5
    <2>2. FirstBy(other, T) < FirstBy(one, T)
      BY <1>2, <1>3, <1>5
    <2> QED
      BY <1>4, <2>1, <2>2
  <1> QED
    BY <1>5

\* A greatest weight there is: else there would be a least number of rows without one.
Upto(T, m) == {i \in T : i <= m}
Greatest(w, T, i) == i \in T /\ \A j \in T : w[j] <= w[i]

LEMMA GreatestThereIs ==
    ASSUME NEW n \in Nat, NEW w \in [1..n -> Nat], NEW T \in SUBSET (1..n), T # {}
    PROVE  \E i \in T : \A j \in T : w[j] <= w[i]
  <1> DEFINE Bad == {m \in 0..n : Upto(T, m) # {} /\ \A i \in T : ~Greatest(w, Upto(T, m), i)}
  <1>1. Bad \in SUBSET Nat
    OBVIOUS
  <1>2. ASSUME NEW m \in Bad, \A k \in Bad : m <= k PROVE FALSE
    <2>1. m \in 0..n /\ Upto(T, m) # {} /\ \A i \in T : ~Greatest(w, Upto(T, m), i)
      OBVIOUS
    <2>2. m \in 1..n /\ m - 1 \in 0..n
      <3>1. PICK i \in T : i <= m
        BY <2>1 DEF Upto
      <3>2. i \in 1..n
        OBVIOUS
      <3> QED
        BY <2>1, <3>1, <3>2
    <2>3. m - 1 \notin Bad
      BY <1>2, <2>2
    <2>4. \A i \in 1..n : i <= m <=> i <= m - 1 \/ i = m
      BY <2>2
    <2>5. \A i \in T : i \in Upto(T, m) <=> i \in Upto(T, m - 1) \/ i = m
      BY <2>4 DEF Upto
    <2>6. Upto(T, m) \subseteq T /\ Upto(T, m - 1) \subseteq T
      BY DEF Upto
    <2>7. CASE Upto(T, m - 1) = {}
      <3>1. m \in T /\ \A j \in Upto(T, m) : j = m
        BY <2>1, <2>5, <2>6, <2>7
      <3>2. m \in Upto(T, m) /\ w[m] \in Nat
        BY <2>2, <2>5, <3>1
      <3> QED
        BY <2>1, <3>1, <3>2 DEF Greatest
    <2>8. CASE Upto(T, m - 1) # {}
      <3>1. PICK i \in T : Greatest(w, Upto(T, m - 1), i)
        BY <2>2, <2>3, <2>8
      <3>2. i \in Upto(T, m) /\ w[i] \in Nat
        BY <2>5, <3>1 DEF Greatest
      <3>3. CASE m \in T /\ w[i] < w[m]
        <4>1. m \in Upto(T, m) /\ w[m] \in Nat
          BY <2>2, <2>5, <3>3
        <4>2. ASSUME NEW j \in Upto(T, m) PROVE w[j] <= w[m]
          <5>1. j \in T /\ w[j] \in Nat /\ (j = m \/ w[j] <= w[i])
            BY <2>5, <2>6, <3>1 DEF Greatest
          <5> QED
            BY <3>2, <3>3, <4>1, <5>1
        <4> QED
          BY <2>1, <3>3, <4>1, <4>2 DEF Greatest
      <3>4. CASE ~(m \in T /\ w[i] < w[m])
        <4>1. ASSUME NEW j \in Upto(T, m) PROVE w[j] <= w[i]
          <5>1. j \in T /\ w[j] \in Nat /\ (j = m \/ w[j] <= w[i])
            BY <2>5, <2>6, <3>1 DEF Greatest
          <5> QED
            BY <3>2, <3>4, <5>1
        <4> QED
          BY <2>1, <3>2, <4>1 DEF Greatest
      <3> QED
        BY <3>3, <3>4
    <2> QED
      BY <2>7, <2>8
  <1>3. Bad = {}
    <2> HIDE DEF Bad
    <2> QED
      BY <1>1, <1>2, LeastNat
  <1>4. n \in 0..n /\ n \notin Bad
    BY <1>3
  <1>5. Upto(T, n) = T
    <2>1. \A i \in T : i <= n
      OBVIOUS
    <2> QED
      BY <2>1 DEF Upto
  <1>6. \E i \in T : Greatest(w, T, i)
    BY <1>4, <1>5
  <1> QED
    BY <1>6 DEF Greatest

LEMMA RowFields ==
    ASSUME Typed, NEW i \in Rows
    PROVE  /\ i \in Nat \ {0} /\ log[i] \in Row /\ log[i].time \in Nat
           /\ log[i].use \in {"good", "pathless", "envelope"}
           /\ log[i].derby \in Names \cup {None}
  <1>1. Rows = 1..Len(log) /\ Len(log) \in Nat /\ log[i] \in Row
    BY DEF Typed, Rows
  <1> QED
    BY <1>1 DEF Row

-----------------------------------------------------------------------------
\* The selected row is one of the bucket, and so is the chosen one.
LEMMA LatestIn ==
    ASSUME Typed, NEW T \in SUBSET Rows, T # {}
    PROVE  Latest(T) \in T
  <1> DEFINE w == [i \in 1..Len(log) |-> log[i].time]
             best == {i \in T : \A j \in T : log[j].time <= log[i].time}
  <1>1. Rows = 1..Len(log) /\ Len(log) \in Nat
    BY DEF Typed, Rows
  <1>2. w \in [1..Len(log) -> Nat]
    BY <1>1, RowFields
  <1>3. \E i \in T : \A j \in T : w[j] <= w[i]
    BY <1>1, <1>2, GreatestThereIs
  <1>4. best # {} /\ best \in SUBSET Nat
    <2>1. \A i \in T : i \in 1..Len(log) /\ i \in Nat /\ w[i] = log[i].time
      BY <1>1
    <2> QED
      BY <1>3, <2>1
  <1>5. First(best) \in best
    BY <1>4, FirstIs
  <1> QED
    BY <1>5 DEF Latest

LEMMA NearestIn ==
    ASSUME Typed, NEW T \in SUBSET Rows, T # {}, NEW to \in Rows
    PROVE  Nearest(T, to) \in T
  <1> DEFINE far == {Distance(i, to) : i \in T}
             best == {i \in T : \A j \in T : Distance(i, to) <= Distance(j, to)}
  <1>1. \A i \in T : Distance(i, to) \in Nat
    BY RowFields DEF Distance
  <1>2. PICK m \in far : \A k \in far : m <= k
    BY <1>1, LeastNat
  <1>3. best # {} /\ best \in SUBSET Nat
    BY <1>2, RowFields
  <1>4. First(best) \in best
    BY <1>3, FirstIs
  <1> QED
    BY <1>4 DEF Nearest

LEMMA SelectedIn ==
    ASSUME Typed, NEW t \in LogTypes, buckets[t] # {}
    PROVE  Selected(t) \in buckets[t]
  <1>1. buckets[t] \in SUBSET Rows /\ buckets[t] \in SUBSET Nat
    BY RowFields DEF Typed
  <1>2. CASE t = "GetOrder"
    <2> DEFINE responses == {i \in buckets[t] : log[i].type = "GetOrderResponse"}
               outbound == buckets[t] \ responses
    <2>1. SelectedOrder(buckets[t]) \in buckets[t]
      <3>1. CASE outbound = {}
        <4>1. Latest(responses) \in responses
          BY <3>1, <1>1, LatestIn
        <4> QED
          BY <3>1, <4>1 DEF SelectedOrder
      <3>2. CASE outbound # {} /\ responses = {}
        <4>1. Latest(outbound) \in outbound
          BY <3>2, <1>1, LatestIn
        <4> QED
          BY <3>2, <4>1 DEF SelectedOrder
      <3>3. CASE outbound # {} /\ responses # {}
        <4>1. Latest(responses) \in responses
          BY <3>3, <1>1, LatestIn
        <4>2. Nearest(outbound, Latest(responses)) \in outbound
          BY <3>3, <4>1, <1>1, NearestIn
        <4> QED
          BY <3>3, <4>2 DEF SelectedOrder
      <3> QED
        BY <3>1, <3>2, <3>3
    <2> QED
      BY <1>2, <2>1 DEF Selected
  <1>3. CASE t = "CancelOrder"
    BY <1>1, <1>3, LatestIn DEF Selected
  <1>4. CASE t \notin {"GetOrder", "CancelOrder"}
    BY <1>1, <1>4, FirstIs DEF Selected
  <1> QED
    BY <1>2, <1>3, <1>4

LEMMA ChosenIs ==
    ASSUME Typed, NEW t \in LogTypes, NEW i \in buckets[t], Usable(i)
    PROVE  /\ Chosen(t) \in buckets[t] \cap Tried(t) /\ Usable(Chosen(t))
           /\ Chosen(t) # None
           /\ Chosen(t) = i \/ Chosen(t) = Selected(t) \/ Before(Chosen(t), i)
  <1> DEFINE usable == {k \in buckets[t] : Usable(k)}
  <1>1. usable \in SUBSET Nat /\ i \in usable /\ buckets[t] \in SUBSET Rows
    BY RowFields DEF Typed
  <1>2. Chosen(t) = IF Selected(t) \in usable THEN Selected(t) ELSE First(usable)
    BY <1>1 DEF Chosen
  <1>3. First(usable) \in usable /\ \A j \in usable \ {First(usable)} : Before(First(usable), j)
    BY <1>1, FirstIs
  <1>4. Chosen(t) \in usable
    BY <1>2, <1>3
  <1> QED
    BY <1>1, <1>2, <1>3, <1>4, IngestAssumption DEF Tried

LEMMA NoneChosen ==
    ASSUME NEW t \in LogTypes, \A i \in buckets[t] : ~Usable(i)
    PROVE  Chosen(t) = None
  BY DEF Chosen

-----------------------------------------------------------------------------
\* What is said of a session does not change with it.
LEMMA SameRows ==
    ASSUME UNCHANGED <<log, shared>>
    PROVE  /\ Rows' = Rows
           /\ \A t \in LogTypes : Own(t)' = Own(t) /\ Fit(t)' = Fit(t)
           /\ \A i : Usable(i)' <=> Usable(i)
           /\ \A b, g : SameReservation(b, g)' <=> SameReservation(b, g)
           /\ \A i, t : Belongs(i, t)' <=> Belongs(i, t)
  BY DEF Rows, Own, Fit, Belongs, Usable, HasPath, Envelope, SameReservation

LEMMA SameBuckets ==
    ASSUME UNCHANGED <<log, shared, buckets, ahead>>
    PROVE  /\ Candidates' = Candidates /\ Lead' = Lead
           /\ LeadTells' <=> LeadTells
           /\ \A i : OfLead(i)' <=> OfLead(i)
  <1>1. Lead' = Lead
    BY DEF Lead, First, Before
  <1> QED
    BY <1>1 DEF Candidates, LeadTells, OfLead

\* Rows that are fit are rows of the supplier that can be replayed.
LEMMA FitIs ==
    ASSUME Typed, NEW t \in LogTypes
    PROVE  Fit(t) = {i \in Own(t) : Usable(i)}
  <1>1. \A i \in Rows : log[i].use = "good" <=> Usable(i)
    BY RowFields DEF Usable, HasPath, Envelope
  <1> QED
    BY <1>1 DEF Fit, Own

LEMMA NewIs ==
    ASSUME Typed, NEW t \in LogTypes, pending[t] # None, pending[t].row \in Rows,
           disk[t] = pending[t]
    PROVE  New(t)
  <1>1. pending[t].row # 0
    BY RowFields
  <1> QED
    BY <1>1 DEF New, Old

LEMMA InvInit == Init => IngestInv
  <1> SUFFICES ASSUME Init PROVE IngestInv
    OBVIOUS
  <1>1. Typed
    <2>1. Old \in Template
      BY DEF Old, Template
    <2> QED
      BY <2>1, IngestAssumption DEF Init, Typed, PCs, Candidates
  <1>2. \A t \in LogTypes : ~New(t) /\ pending[t] = None
    BY DEF Init, New
  <1> QED
    BY <1>1, <1>2 DEF Init, IngestInv, Sorted, InFront, Made, Reserved, OnDisk

\* An ingest that fails leaves the templates it has written so far.
LEMMA FailsKeeps ==
    ASSUME IngestInv, Fails
    PROVE  IngestInv'
  <1>1. UNCHANGED <<log, shared, known, buckets, ahead, pending, disk, map, lost>> /\ pc' = "failed"
    BY DEF Fails
  <1>2. Typed'
    BY <1>1, SameRows, SameBuckets DEF IngestInv, Typed, PCs
  <1>3. Sorted' /\ InFront' /\ Reserved'
    BY <1>1 DEF Sorted, InFront, Reserved
  <1>4. Made' /\ OnDisk'
    BY <1>1, SameRows DEF IngestInv, Made, OnDisk, New
  <1> QED
    BY <1>2, <1>3, <1>4 DEF IngestInv

LEMMA CollectKeeps ==
    ASSUME IngestInv, Collect
    PROVE  IngestInv'
  <1>1. /\ UNCHANGED <<log, shared, known, ahead, pending, disk, map, lost>>
        /\ buckets' = [t \in LogTypes |-> {i \in Rows : Belongs(i, t)}]
        /\ pc = "list" /\ pc' = IF shared THEN "attribute" ELSE "align"
    BY DEF Collect
  <1>2. ahead = {}
    BY <1>1 DEF IngestInv, InFront
  <1>3. Typed'
    BY <1>1, <1>2, SameRows DEF IngestInv, Typed, PCs
  <1>4. Sorted'
    <2>1. CASE shared
      BY <1>1, <2>1, SameRows DEF Sorted
    <2>2. CASE ~shared
      <3>1. \A t \in LogTypes : buckets'[t] = Own(t)
        BY <1>1, <2>2 DEF Own
      <3> QED
        BY <1>1, <2>2, <3>1, SameRows DEF Sorted
    <2> QED
      BY <2>1, <2>2
  <1>5. InFront' /\ Made' /\ Reserved' /\ OnDisk'
    BY <1>1, <1>2, SameRows DEF IngestInv, InFront, Made, Reserved, OnDisk, New
  <1> QED
    BY <1>3, <1>4, <1>5 DEF IngestInv

\* The rows that stay were all read, so that none of them can be missed later.
LEMMA AttributeKeeps ==
    ASSUME IngestInv, Attribute
    PROVE  IngestInv'
  <1>1. PICK missed \in SUBSET Candidates :
            /\ Fetch(Candidates, missed)
            /\ buckets' = [t \in LogTypes |-> {i \in buckets[t] \ missed : Claims(i)}]
    BY DEF Attribute
  <1>2. UNCHANGED <<log, shared, ahead, pending, disk, map>> /\ pc = "attribute" /\ pc' = "align"
    BY DEF Attribute
  <1>3. Candidates \subseteq Rows /\ ahead = {}
    BY <1>2 DEF IngestInv, Typed, InFront, Candidates
  <1>4. known' = known \cup (Candidates \ missed) /\ lost' = lost \cup missed
    BY <1>1 DEF Fetch
  <1>5. Typed'
    BY <1>1, <1>2, <1>3, <1>4, SameRows DEF IngestInv, Typed, PCs
  <1>6. Sorted'
    <2>1. ASSUME NEW t \in LogTypes
          PROVE  /\ buckets'[t] \subseteq Own(t) /\ Own(t) \subseteq buckets'[t] \cup lost'
                 /\ buckets'[t] \subseteq known'
      <3>1. shared /\ buckets[t] = {i \in Rows : Belongs(i, t)} /\ buckets[t] \subseteq Candidates
        BY <1>2 DEF IngestInv, Sorted, Candidates
      <3>2. buckets'[t] = {i \in buckets[t] \ missed : log[i].owner = "own"}
        BY <1>1 DEF Claims
      <3> QED
        BY <1>4, <3>1, <3>2 DEF Own
    <2> QED
      BY <1>2, <2>1, SameRows DEF Sorted
  <1>7. InFront' /\ Reserved' /\ OnDisk'
    BY <1>2, <1>3 DEF IngestInv, InFront, Reserved, OnDisk, New
  <1>8. Made'
    BY <1>2 DEF IngestInv, Made
  <1> QED
    BY <1>5, <1>6, <1>7, <1>8 DEF IngestInv

\* On a shared adapter every row was read already, so none is missed: all the rows of
\* the lead's hotel, and no others, come to the front of a bucket with a choice.
LEMMA AlignKeeps ==
    ASSUME IngestInv, Align
    PROVE  IngestInv'
  <1> DEFINE others == UNION {buckets[t] : t \in Contested}
  <1>1. UNCHANGED <<log, shared, buckets, pending, disk, map>> /\ pc = "align" /\ pc' = "build"
    BY DEF Align
  <1>2. /\ others \subseteq Rows /\ others \subseteq Candidates
        /\ \A t \in LogTypes : buckets[t] \in SUBSET Rows /\ buckets[t] \in SUBSET Nat
    <2>1. \A t \in LogTypes : buckets[t] \in SUBSET Rows
      BY DEF IngestInv, Typed
    <2> QED
      BY <2>1, RowFields DEF IngestInv, Contested, Candidates
  <1>3. buckets["Packages"] # {} => Lead \in buckets["Packages"]
    BY <1>2, FirstIs DEF Lead, LogTypes
  <1>4. /\ ahead = {}
        /\ \A t \in LogTypes : /\ buckets[t] \subseteq Own(t)
                               /\ Own(t) \subseteq buckets[t] \cup lost
                               /\ shared => buckets[t] \subseteq known
    BY <1>1 DEF IngestInv, InFront, Sorted
  <1>5. /\ known \subseteq known' /\ known' \subseteq Rows
        /\ lost \subseteq lost' /\ lost' \subseteq Rows /\ ahead' \subseteq others
    <2>1. CASE buckets["Packages"] = {}
      BY <2>1, <1>4 DEF Align, IngestInv, Typed
    <2>2. CASE buckets["Packages"] # {}
      <3>1. PICK missed \in SUBSET ({Lead} \cup others) :
              IF Lead \in missed \/ HotelOf(Lead) = None
              THEN Fetch({Lead}, missed) /\ UNCHANGED ahead
              ELSE /\ Fetch({Lead} \cup others, missed)
                   /\ ahead' = {i \in others \ missed : HotelOf(i) = HotelOf(Lead)}
        BY <2>2 DEF Align, Lead
      <3>2. Lead \in Rows
        BY <2>2, <1>2, <1>3 DEF LogTypes
      <3>3. Fetch({Lead}, missed) \/ Fetch({Lead} \cup others, missed)
        BY <3>1
      <3>4. known' = known \cup ({Lead} \ missed) \/ known' = known \cup (({Lead} \cup others) \ missed)
        BY <3>3 DEF Fetch
      <3>5. lost' = lost \cup missed
        BY <3>3 DEF Fetch
      <3>6. known \subseteq Rows /\ lost \subseteq Rows
        BY DEF IngestInv, Typed
      <3> QED
        BY <1>2, <1>4, <3>1, <3>2, <3>4, <3>5, <3>6
    <2> QED
      BY <2>1, <2>2
  <1>6. Typed'
    <2>1. Candidates' = Candidates
      BY <1>1 DEF Candidates
    <2> QED
      BY <1>1, <1>2, <1>5, <2>1, SameRows DEF IngestInv, Typed, PCs
  <1>7. Sorted'
    BY <1>1, <1>4, <1>5, SameRows DEF Sorted
  <1>8. InFront'
    <2>1. CASE buckets["Packages"] = {} \/ ~shared
      BY <1>1, <2>1 DEF InFront, LeadTells
    <2>2. CASE buckets["Packages"] # {} /\ shared
      <3>1. Lead \in known /\ others \subseteq known
        BY <1>3, <1>4, <2>2 DEF Contested, LogTypes
      <3>2. PICK missed \in SUBSET ({Lead} \cup others) :
              IF Lead \in missed \/ HotelOf(Lead) = None
              THEN Fetch({Lead}, missed) /\ UNCHANGED ahead
              ELSE /\ Fetch({Lead} \cup others, missed)
                   /\ ahead' = {i \in others \ missed : HotelOf(i) = HotelOf(Lead)}
        BY <2>2 DEF Align, Lead
      <3>3. missed = {} /\ \A i : HotelOf(i) = log[i].hotel
        BY <2>2, <3>1, <3>2 DEF Fetch, HotelOf
      <3>4. ahead' = {} \/ ahead' = {i \in others : log[i].hotel = log[Lead].hotel}
        BY <1>4, <3>2, <3>3
      <3>5. log[Lead].hotel # None => ahead' = {i \in others : log[i].hotel = log[Lead].hotel}
        BY <3>2, <3>3
      <3>6. Lead' = Lead
        <4>1. buckets["Packages"] \cap others = {}
          <5>1. \A t \in Contested : t \in LogTypes /\ t # "Packages"
            BY DEF Contested
          <5>2. \A t \in LogTypes : \A i \in buckets[t] : Belongs(i, t)
            BY <1>4 DEF Own
          <5> QED
            BY <5>1, <5>2 DEF Belongs, LogTypes
        <4>2. Lead = FirstBy(ahead, buckets["Packages"])
          BY DEF Lead, First, FirstBy, Before, Earlier
        <4>3. Lead' = FirstBy(ahead', buckets["Packages"])
          BY <1>1 DEF Lead, First, FirstBy, Before, Earlier
        <4>4. buckets["Packages"] \cap ahead = {} /\ buckets["Packages"] \cap ahead' = {}
          BY <1>4, <1>5, <4>1
        <4> QED
          BY <1>2, <2>2, <4>2, <4>3, <4>4, FirstOfTheRest DEF LogTypes
      <3>7. ASSUME LeadTells', NEW i \in buckets["Search"], NEW j \in buckets["Search"],
                   OfLead(i)', ~OfLead(j)'
            PROVE  i \in ahead' /\ j \notin ahead'
        <4>1. log[Lead].hotel # None /\ log[i].hotel = log[Lead].hotel /\ log[j].hotel # log[Lead].hotel
          BY <1>1, <3>6, <3>7 DEF LeadTells, OfLead
        <4>2. "Search" \in Contested
          BY <4>1 DEF Contested, LogTypes
        <4> QED
          BY <3>5, <4>1, <4>2
      <3> QED
        BY <1>1, <3>7 DEF InFront
    <2> QED
      BY <2>1, <2>2
  <1>9. Made' /\ Reserved' /\ OnDisk'
    BY <1>1 DEF IngestInv, Made, Reserved, OnDisk, New
  <1> QED
    BY <1>6, <1>7, <1>8, <1>9 DEF IngestInv

\* The template of a log type is of the chosen row; of Search it is one of the lead's
\* hotel if any of these can be replayed, since they are all in front.
LEMMA BuildKeeps ==
    ASSUME IngestInv, Build, ~Fails
    PROVE  IngestInv'
  <1> DEFINE filled == {t \in LogTypes : buckets[t] # {}}
             fetched == UNION {Tried(t) : t \in filled}
  <1>1. /\ UNCHANGED <<log, shared, buckets, ahead, disk, map, lost>>
        /\ pc = "build" /\ pc' = "ids" /\ known' = known \cup fetched
        /\ pending' = [t \in LogTypes |->
             IF t \notin filled THEN None
             ELSE IF Chosen(t) = None THEN None ELSE Expectation(Chosen(t))]
    BY DEF Build
  <1>2. \A t \in LogTypes : /\ buckets[t] \subseteq Rows /\ buckets[t] \subseteq Own(t)
                            /\ Own(t) \subseteq buckets[t] \cup lost
                            /\ shared => buckets[t] \subseteq known
    BY <1>1 DEF IngestInv, Typed, Sorted
  <1>3. fetched \subseteq Rows
    BY <1>2 DEF Tried
  <1>4. ASSUME NEW t \in LogTypes, NEW i \in buckets[t], Usable(i)
        PROVE  /\ pending'[t] = Expectation(Chosen(t)) /\ pending'[t] \in Template
               /\ pending'[t] # None /\ pending'[t].row = Chosen(t)
               /\ pending'[t].derby = log[Chosen(t)].derby
               /\ Chosen(t) \in buckets[t] /\ Chosen(t) \in Fit(t) /\ Chosen(t) \in known'
    <2>1. /\ Chosen(t) \in buckets[t] \cap Tried(t) /\ Usable(Chosen(t)) /\ Chosen(t) # None
      BY <1>4, ChosenIs DEF IngestInv
    <2>2. pending'[t] = Expectation(Chosen(t)) /\ Chosen(t) \in fetched
      BY <1>1, <1>4, <2>1
    <2>3. Expectation(Chosen(t)) \in Template
      BY <1>2, <2>1, RowFields DEF IngestInv, Expectation, Template
    <2>4. Chosen(t) \in Fit(t)
      BY <1>2, <2>1, FitIs DEF IngestInv
    <2> QED
      BY <1>1, <2>1, <2>2, <2>3, <2>4, IngestAssumption DEF Expectation
  <1>5. ASSUME NEW t \in LogTypes, \A i \in buckets[t] : ~Usable(i)
        PROVE  pending'[t] = None
    BY <1>1, <1>5, NoneChosen
  <1>6. \A t \in LogTypes : pending'[t] \in Template \cup {None}
    BY <1>4, <1>5
  <1>7. Typed'
    BY <1>1, <1>3, <1>6, SameRows, SameBuckets DEF IngestInv, Typed, PCs
  <1>8. Sorted'
    BY <1>1, <1>2, SameRows DEF Sorted
  <1>9. InFront'
    <2>1. ASSUME LeadTells, pending'["Search"] # None, NEW i \in buckets["Search"],
                 OfLead(i), Usable(i)
          PROVE  OfLead(pending'["Search"].row)
      <3>1. /\ Chosen("Search") \in buckets["Search"] /\ pending'["Search"].row = Chosen("Search")
            /\ \/ Chosen("Search") = i \/ Chosen("Search") = Selected("Search")
               \/ Before(Chosen("Search"), i)
        BY <2>1, <1>4, ChosenIs DEF IngestInv, LogTypes
      <3>2. Selected("Search") = First(buckets["Search"])
        BY DEF Selected, LogTypes
      <3>3. buckets["Search"] \in SUBSET Nat
        BY <1>2, RowFields DEF IngestInv, LogTypes
      <3>4. Chosen("Search") = i \/ Before(Chosen("Search"), i)
        BY <2>1, <3>1, <3>2, <3>3, FirstIs
      <3>5. ~OfLead(Chosen("Search")) => i \in ahead /\ Chosen("Search") \notin ahead
        BY <1>1, <2>1, <3>1 DEF IngestInv, InFront
      <3> QED
        BY <2>1, <3>1, <3>4, <3>5 DEF Before
    <2> QED
      BY <1>1, <2>1, SameRows, SameBuckets DEF InFront
  <1>10. Made'
    BY <1>1, <1>4, <1>5, SameRows DEF Made
  <1>11. Reserved'
    BY <1>1, <1>4, <1>5 DEF Reserved
  <1>12. OnDisk'
    BY <1>1 DEF IngestInv, OnDisk, New
  <1> QED
    BY <1>7, <1>8, <1>9, <1>10, <1>11, <1>12 DEF IngestInv

LEMMA AlignIdsKeeps ==
    ASSUME IngestInv, AlignIds
    PROVE  IngestInv'
  <1> DEFINE b == pending["Booking"]
             g == pending["GetOrder"]
             Renewed(p) == [p EXCEPT !.derby = IF @ = None THEN None ELSE "fresh"]
  <1>1. /\ UNCHANGED <<log, shared, known, buckets, ahead, disk, map, lost>>
        /\ pc = "ids" /\ pc' = "write"
    BY DEF AlignIds
  <1>2. {"Booking", "GetOrder"} \subseteq LogTypes /\ pending \in [LogTypes -> Template \cup {None}]
    BY DEF LogTypes, IngestInv, Typed
  <1>3. \A t \in LogTypes : pending[t] # None => pending[t].derby = log[pending[t].row].derby
    BY <1>1 DEF IngestInv, Reserved
  <1>4. CASE b # None /\ g # None /\ SameReservation(b, g)
    <2>1. pending' = [pending EXCEPT !["Booking"] = Renewed(b), !["GetOrder"] = Renewed(g)]
      BY <1>4 DEF AlignIds
    <2>2. \A p \in Template : /\ Renewed(p) \in Template /\ Renewed(p).row = p.row
                              /\ Renewed(p).derby \in {None, "fresh"}
      BY DEF Template
    <2>3. b \in Template /\ g \in Template
      BY <1>2, <1>4
    <2>4. /\ pending'["Booking"] = Renewed(b) /\ pending'["GetOrder"] = Renewed(g)
          /\ \A t \in LogTypes \ {"Booking", "GetOrder"} : pending'[t] = pending[t]
          /\ DOMAIN pending' = LogTypes
      BY <1>2, <2>1
    <2> HIDE DEF Renewed
    <2>5. pending' \in [LogTypes -> Template \cup {None}]
      BY <1>2, <2>1, <2>2, <2>3
    <2>6. \A t \in LogTypes : /\ pending'[t] = None <=> pending[t] = None
                              /\ pending[t] # None => pending'[t].row = pending[t].row
      BY <1>2, <1>4, <2>2, <2>3, <2>4, IngestAssumption
    <2>7. pending'["Booking"].derby = pending'["GetOrder"].derby
             \/ None \in {pending'["Booking"].derby, pending'["GetOrder"].derby}
      BY <2>2, <2>3, <2>4
    <2>8. SameReservation(pending'["Booking"], pending'["GetOrder"])
      BY <1>2, <1>4, <2>6 DEF SameReservation
    <2>9. Typed' /\ Sorted' /\ InFront' /\ OnDisk'
      <3>1. Typed' /\ Sorted'
        BY <1>1, <2>5, SameRows, SameBuckets DEF IngestInv, Typed, PCs, Sorted
      <3>2. InFront'
        BY <1>1, <2>6, SameRows, SameBuckets DEF IngestInv, InFront, LogTypes
      <3>3. OnDisk'
        BY <1>1 DEF IngestInv, OnDisk, New
      <3> QED
        BY <3>1, <3>2, <3>3
    <2>10. Made'
      BY <1>1, <2>6, SameRows DEF IngestInv, Made
    <2>11. Reserved'
      BY <1>1, <2>7, <2>8, SameRows DEF Reserved
    <2> QED
      BY <2>9, <2>10, <2>11 DEF IngestInv
  <1>5. CASE ~(b # None /\ g # None /\ SameReservation(b, g))
    <2>1. pending' = pending
      BY <1>5 DEF AlignIds
    <2>2. Typed' /\ Sorted' /\ OnDisk'
      BY <1>1, <2>1, SameRows, SameBuckets DEF IngestInv, Typed, PCs, Sorted, OnDisk, New
    <2>3. InFront' /\ Made'
      BY <1>1, <2>1, SameRows, SameBuckets DEF IngestInv, InFront, Made
    <2>4. Reserved'
      BY <1>1, <1>2, <1>3, <1>5, <2>1, SameRows DEF Reserved
    <2> QED
      BY <2>2, <2>3, <2>4 DEF IngestInv
  <1> QED
    BY <1>4, <1>5

LEMMA WriteKeeps ==
    ASSUME IngestInv, NEW t \in LogTypes, Write(t)
    PROVE  IngestInv'
  <1>1. /\ UNCHANGED <<log, shared, pc, known, buckets, ahead, pending, map, lost>>
        /\ pc = "write" /\ pending[t] # None /\ disk' = [disk EXCEPT ![t] = pending[t]]
    BY DEF Write
  <1>2. disk \in [LogTypes -> Template \cup {None}] /\ pending[t] \in Template \cup {None}
    BY DEF IngestInv, Typed
  <1>3. disk'[t] = pending[t] /\ \A s \in LogTypes \ {t} : disk'[s] = disk[s]
    BY <1>1, <1>2
  <1>4. Typed' /\ Sorted'
    BY <1>1, <1>2, SameRows, SameBuckets DEF IngestInv, Typed, PCs, Sorted
  <1>5. InFront' /\ Made' /\ Reserved'
    BY <1>1, SameRows, SameBuckets DEF IngestInv, InFront, Made, Reserved
  <1>6. OnDisk'
    BY <1>1, <1>3 DEF IngestInv, OnDisk, New
  <1> QED
    BY <1>4, <1>5, <1>6 DEF IngestInv

LEMMA FinishKeeps ==
    ASSUME IngestInv, Finish
    PROVE  IngestInv'
  <1>1. /\ UNCHANGED <<log, shared, known, buckets, ahead, pending, disk, lost>>
        /\ pc = "write" /\ pc' = "done" /\ map' \subseteq LogTypes
        /\ \A t \in LogTypes : pending[t] # None => disk[t] = pending[t]
    BY DEF Finish, Written
  <1>2. Typed' /\ Sorted'
    BY <1>1, SameRows, SameBuckets DEF IngestInv, Typed, PCs, Sorted
  <1>3. InFront' /\ Made'
    BY <1>1, SameRows, SameBuckets DEF IngestInv, InFront, Made
  <1>4. Reserved' /\ OnDisk'
    BY <1>1, SameRows DEF IngestInv, Reserved, OnDisk, New
  <1> QED
    BY <1>2, <1>3, <1>4 DEF IngestInv

LEMMA NextKeeps == IngestInv /\ [Next]_vars => IngestInv'
  <1> SUFFICES ASSUME IngestInv, [Next]_vars PROVE IngestInv'
    OBVIOUS
  <1>1. CASE UNCHANGED vars
    <2>1. UNCHANGED <<log, shared, pc, known, buckets, ahead, pending, disk, map, lost>>
      BY <1>1 DEF vars
    <2>2. Typed' /\ Sorted'
      BY <2>1, SameRows, SameBuckets DEF IngestInv, Typed, PCs, Sorted
    <2>3. InFront' /\ Made'
      BY <2>1, SameRows, SameBuckets DEF IngestInv, InFront, Made
    <2>4. Reserved' /\ OnDisk'
      BY <2>1, SameRows DEF IngestInv, Reserved, OnDisk, New
    <2> QED
      BY <2>2, <2>3, <2>4 DEF IngestInv
  <1>2. CASE ListFails \/ WriteFails
    BY <1>2, FailsKeeps DEF ListFails, WriteFails
  <1>3. CASE Build
    BY <1>3, BuildKeeps, FailsKeeps
  <1>4. CASE Collect \/ Attribute \/ Align \/ AlignIds \/ Finish
    BY <1>4, CollectKeeps, AttributeKeeps, AlignKeeps, AlignIdsKeeps, FinishKeeps
  <1>5. CASE \E t \in LogTypes : Write(t)
    BY <1>5, WriteKeeps
  <1> QED
    BY <1>1, <1>2, <1>3, <1>4, <1>5 DEF Next

LEMMA Kept == Spec => []IngestInv
  BY InvInit, NextKeeps, PTL DEF Spec

-----------------------------------------------------------------------------
\* Every template that is to be written is of a row that the ingest has read, and
\* every bucket, template and field map is of this session or of an earlier one.
THEOREM TypeCorrect == Spec => []TypeOK
  <1>1. IngestInv => TypeOK
    <2> SUFFICES ASSUME IngestInv PROVE TypeOK
      OBVIOUS
    <2>1. ASSUME NEW t \in LogTypes
          PROVE  /\ buckets[t] \subseteq Rows
                 /\ pending[t] # None => pending[t] \in Template /\ pending[t].row \in known
                 /\ disk[t] = None \/ disk[t] \in Template
      BY DEF IngestInv, Typed, Made
    <2> QED
      BY <2>1 DEF IngestInv, Typed, PCs, TypeOK
  <1> QED
    BY <1>1, Kept, PTL

\* Whatever cannot be fetched and whatever cannot be written: a template is a call of
\* its log type that can be replayed, and never a sibling's on the same adapter.
THEOREM NoneIsForeign == Spec => []NoForeignTemplate
  <1>1. IngestInv => NoForeignTemplate
    <2> SUFFICES ASSUME IngestInv, NEW t \in LogTypes, New(t) PROVE disk[t].row \in Fit(t)
      BY DEF NoForeignTemplate
    <2>1. disk[t] = pending[t] /\ pending[t] # None
      BY DEF IngestInv, OnDisk, New
    <2> QED
      BY <2>1 DEF IngestInv, Made
  <1> QED
    BY <1>1, Kept, PTL

\* A session whose Packages and Search are about several hotels gives templates of one,
\* the hotel of its first Packages row, whenever it has a row that allows it.
THEOREM HotelsAreOne == Spec => []HotelsAgree
  <1>1. IngestInv => HotelsAgree
    <2> SUFFICES ASSUME IngestInv, pc = "done", shared, New("Search"), New("Packages"),
                        log[disk["Search"].row].hotel # log[disk["Packages"].row].hotel,
                        disk["Packages"].row = First(buckets["Packages"]),
                        log[disk["Packages"].row].hotel # None
                 PROVE  {i \in Fit("Search") :
                           log[i].hotel = log[disk["Packages"].row].hotel} \subseteq lost
      BY DEF HotelsAgree
    <2>1. {"Search", "Packages"} \subseteq LogTypes
      BY DEF LogTypes
    <2>2. /\ disk["Search"] = pending["Search"] /\ pending["Search"] # None
          /\ disk["Packages"] = pending["Packages"] /\ pending["Packages"] # None
      BY <2>1 DEF IngestInv, OnDisk, New
    <2>3. \A t \in LogTypes : Fit(t) = {i \in Own(t) : Usable(i)}
      BY FitIs DEF IngestInv
    <2>4. LeadTells
      <3>1. pending["Packages"].row \in buckets["Packages"]
        BY <2>1, <2>2 DEF IngestInv, Made
      <3> QED
        BY <2>2, <3>1 DEF LeadTells, Lead
    <2>5. \A i \in buckets["Search"] : OfLead(i) => ~Usable(i)
      BY <2>2, <2>4 DEF IngestInv, InFront, OfLead, Lead
    <2>6. Own("Search") \subseteq buckets["Search"] \cup lost
      BY <2>1 DEF IngestInv, Sorted
    <2> QED
      BY <2>1, <2>3, <2>5, <2>6 DEF OfLead, Lead
  <1> QED
    BY <1>1, Kept, PTL

\* One failed call in a session does not cost a log type its template as long as there
\* is another row to take it from.
THEOREM UsableAreUsed == Spec => []UsableRowsUsed
  <1>1. IngestInv => UsableRowsUsed
    <2> SUFFICES ASSUME IngestInv, pc = "done", NEW t \in LogTypes, ~New(t)
                 PROVE  Fit(t) \subseteq lost
      BY DEF UsableRowsUsed
    <2>1. pending[t] = None
      BY NewIs DEF IngestInv, OnDisk, Made, Typed
    <2>2. \A i \in buckets[t] : ~Usable(i)
      BY <2>1 DEF IngestInv, Made
    <2>3. Own(t) \subseteq buckets[t] \cup lost /\ Fit(t) = {i \in Own(t) : Usable(i)}
      BY FitIs DEF IngestInv, Sorted
    <2> QED
      BY <2>2, <2>3
  <1> QED
    BY <1>1, Kept, PTL

\* The Booking and the GetOrder row are chosen independently, and their templates carry
\* one reservation id if and only if they are about the same reservation.
THEOREM BookingIsTheOrders == Spec => []BookingMatchesOrder
  <1>1. IngestInv => BookingMatchesOrder
    <2> SUFFICES ASSUME IngestInv, pc = "done", New("Booking"), New("GetOrder")
                 PROVE  BookingMatchesOrder
      BY DEF BookingMatchesOrder
    <2>1. {"Booking", "GetOrder"} \subseteq LogTypes
      BY DEF LogTypes
    <2>2. /\ disk["Booking"] = pending["Booking"] /\ pending["Booking"] # None
          /\ disk["GetOrder"] = pending["GetOrder"] /\ pending["GetOrder"] # None
      BY <2>1 DEF IngestInv, OnDisk, New
    <2> QED
      BY <2>2 DEF IngestInv, Reserved, BookingMatchesOrder, SameReservation
  <1> QED
    BY <1>1, Kept, PTL
=============================================================================
