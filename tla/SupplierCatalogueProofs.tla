----------------------- MODULE SupplierCatalogueProofs -----------------------
(***************************************************************************)
(* What SupplierCatalogue promises, for any number of requests, threads,   *)
(* suppliers, environments and restarts, and whichever calls to Mongo      *)
(* fail: one row per code, deletions that spare the suppliers in use,      *)
(* readiness that the build agrees with, edits that nothing undoes, and a  *)
(* cache that is no staler than CacheFresh says.                           *)
(***************************************************************************)
EXTENDS SupplierCatalogue, FiniteSetTheorems, SequenceTheorems, TLAPS

\* What a lookup gives: a configuration, the codes there are, or the log types built.
Holding == Config \cup (SUBSET Codes) \cup (SUBSET LogTypes)
Holdings == Seq(Holding)
Request == [pc : Places, ask : Asks \cup {None}, row : Documents \cup {None}, held : Holdings]

\* What a request has looked up, by how far it is.
NoHold(r) == Held(r) = <<>>
OneConfig(r) == \E c \in Config : Held(r) = <<c>>
Looked(r) == \E c \in Config, b \in SUBSET LogTypes : Held(r) = <<c, b>>
LookedTwice(r) == \E c, d \in Config, b \in SUBSET LogTypes : Held(r) = <<c, b, d>>
Holds(r) ==
    /\ req[r].pc \in {"idle", "new", "check", "remove", "write", "fetch", "infer", "done", "failed"}
         => NoHold(r)
    /\ At(r, "fill codes") => \E x \in SUBSET Codes : Held(r) = <<x>>
    /\ At(r, "look") => NoHold(r) \/ Looked(r)
    /\ At(r, "fill") => OneConfig(r) \/ (Kind(r) = "probe" /\ LookedTwice(r))
    /\ req[r].pc \in {"load", "reread"} => OneConfig(r)
    /\ At(r, "link") => LookedTwice(r)
    /\ At(r, "save") => IF Kind(r) = "map" THEN OneConfig(r) ELSE NoHold(r)
    /\ At(r, "invalidate") => OneConfig(r) \/ NoHold(r)

\* The row a request has read, or is to make, is of the supplier it is about.
Idling == {"idle", "done", "failed"}
Reads(r) ==
    /\ req[r].pc \notin Idling => req[r].ask \in Asks
    /\ req[r].pc \in {"idle", "new"} => Row(r) = None
    /\ Row(r) # None => Row(r).supplier = Of(r)
    /\ req[r].pc \in {"save", "check", "remove", "write", "fetch", "infer", "reread"}
         => Row(r) # None
    /\ req[r].pc \in {"look", "load", "link"} => Kind(r) = "probe"
    /\ At(r, "fill") => Kind(r) \in {"lookup", "probe"}
    /\ req[r].pc \in {"infer", "reread"} => Kind(r) = "map"
    /\ At(r, "save") => Kind(r) \in {"create", "update", "map"}
    /\ At(r, "remove") => scenario[Of(r)] = None \/ r \in late

\* Every copy there is of a row: an id is of one supplier for good, and is not in
\* use before its request has come.
Copies == docs \cup {Row(r) : r \in {q \in Requests : Row(q) # None}}
IdsKept ==
    /\ \A d, e \in Copies : d.id = e.id => d.supplier = e.supplier
    /\ \A d \in Copies : /\ d.id \in BuiltIn => d.supplier = d.id
                         /\ d.id \in Requests => req[d.id].pc \notin {"idle", "new"}
OneRow == \A d, e \in docs : d.supplier = e.supplier => d = e

CatalogueInv ==
    /\ StoresOK /\ req \in [Requests -> Request]
    /\ \A r \in Requests : Holds(r) /\ Reads(r)
    /\ IdsKept /\ OneRow

-----------------------------------------------------------------------------
\* Rows and configurations.

LEMMA RowLookup ==
    ASSUME docs \subseteq Documents, NEW s \in Suppliers
    PROVE  /\ RowOf(s) \in Documents \cup {None}
           /\ RowsOf(s) = {} <=> RowOf(s) = None
           /\ RowOf(s) # None => RowOf(s) \in docs /\ RowOf(s).supplier = s
  <1>1. CASE RowsOf(s) = {}
    BY <1>1 DEF RowOf
  <1>2. CASE RowsOf(s) # {}
    <2>1. RowOf(s) \in RowsOf(s)
      BY <1>2 DEF RowOf
    <2> QED
      BY <1>2, <2>1, CatalogueAssumption DEF RowsOf
  <1> QED
    BY <1>1, <1>2

LEMMA ConfigsKept ==
    ASSUME NEW c \in Config
    PROVE  ToModel(c) \in Config /\ ToRow(c) \in Config /\ c.logs \in SUBSET LogTypes
           /\ \A lts \in SUBSET LogTypes : [c EXCEPT !.map = lts] \in Config
  BY CatalogueAssumption DEF Config, ToModel, ToRow

LEMMA Resolved ==
    ASSUME docs \subseteq Documents, NEW s \in Suppliers
    PROVE  Resolve(s) \in Config \cup {None} /\ Seed(s) \in Config \cup {None}
  <1>1. RowOf(s) # None => RowOf(s).config \in Config
    BY RowLookup DEF Documents
  <1> QED
    BY <1>1, ConfigsKept, CatalogueAssumption DEF Resolve, Seed

LEMMA ResolvedCodes ==
    ASSUME docs \subseteq Documents, NEW env
    PROVE  ResolveCodes(env) \in SUBSET Codes /\ SeedCodes \in SUBSET Codes
  BY CatalogueAssumption DEF ResolveCodes, RowCodes, SeedCodes, Codes, Documents

LEMMA SeededDocs ==
    ASSUME NEW ds \in SUBSET Documents
    PROVE  /\ Seeded(ds) \subseteq Documents /\ ds \subseteq Seeded(ds)
           /\ \A d \in Seeded(ds) \ ds :
                /\ d.supplier \in BuiltIn /\ d.id = d.supplier
                /\ \A e \in ds : e.supplier # d.supplier
           /\ \A d, e \in Seeded(ds) \ ds : d.supplier = e.supplier => d = e
  BY CatalogueAssumption DEF Seeded, Documents

-----------------------------------------------------------------------------
\* What a step does to the request it serves.

Others(r) == \A q \in Requests \ {r} : req'[q] = req[q]

LEMMA IdleTyped == Idle \in Request /\ Idle.pc = "idle" /\ Idle.row = None /\ Idle.held = <<>>
  BY DEF Idle, Request, Places, Holdings

LEMMA RequestFields ==
    ASSUME req \in [Requests -> Request], NEW r \in Requests
    PROVE  /\ req[r] \in Request /\ req[r].pc \in Places /\ req[r].ask \in Asks \cup {None}
           /\ req[r].row \in Documents \cup {None} /\ req[r].held \in Holdings
  BY DEF Request

LEMMA AskFields ==
    ASSUME NEW a \in Asks
    PROVE  /\ a.kind \in AllKinds /\ a.of \in Suppliers
           /\ a.kind \in {"create", "update"} => a.payload \in Config
  BY CatalogueAssumption DEF Asks

LEMMA Answered ==
    ASSUME req \in [Requests -> Request], NEW r \in Requests, NEW what, Answer(r, what)
    PROVE  /\ req' \in [Requests -> Request] /\ Others(r)
           /\ req'[r].pc \in {"done", "failed"} /\ req'[r].row = None /\ req'[r].held = <<>>
  BY IdleTyped DEF Answer, Others, Request, Places

LEMMA Gone ==
    ASSUME req \in [Requests -> Request], NEW r \in Requests, NEW to \in Places, Goes(r, to)
    PROVE  /\ req' \in [Requests -> Request] /\ Others(r)
           /\ req'[r].pc = to /\ req'[r].ask = req[r].ask /\ req'[r].row = req[r].row
           /\ req'[r].held = req[r].held
  BY RequestFields DEF Goes, Others, Request

LEMMA GoneWith ==
    ASSUME req \in [Requests -> Request], NEW r \in Requests, NEW to \in Places,
           NEW d \in Documents, GoesWith(r, to, d)
    PROVE  /\ req' \in [Requests -> Request] /\ Others(r)
           /\ req'[r].pc = to /\ req'[r].ask = req[r].ask /\ req'[r].row = d
           /\ req'[r].held = req[r].held
  BY RequestFields DEF GoesWith, Others, Request

LEMMA GoneHolding ==
    ASSUME req \in [Requests -> Request], NEW r \in Requests, NEW to \in Places,
           NEW c \in Config \cup (SUBSET Codes) \cup (SUBSET LogTypes), GoesHolding(r, to, c)
    PROVE  /\ req' \in [Requests -> Request] /\ Others(r)
           /\ req'[r].pc = to /\ req'[r].ask = req[r].ask /\ req'[r].row = req[r].row
           /\ req'[r].held = Append(req[r].held, c)
  <1>1. Append(req[r].held, c) \in Holdings
    BY RequestFields DEF Holdings, Holding
  <1> QED
    BY <1>1, RequestFields DEF GoesHolding, Others, Request

\* A request a step does not serve keeps what it holds and has read.
LEMMA OthersKeep ==
    ASSUME NEW q \in Requests, req'[q] = req[q], Holds(q), Reads(q),
           At(q, "remove") => (scenario'[Of(q)] = scenario[Of(q)] /\ (q \in late => q \in late'))
    PROVE  Holds(q)' /\ Reads(q)'
  BY DEF Holds, Reads, At, Kind, Held, Of, Row, NoHold, OneConfig, Looked, LookedTwice

\* No new copy, but of a row that is copied.
LEMMA IdsSame ==
    ASSUME IdsKept,
           \A d \in Copies' : \E e \in Copies : e.id = d.id /\ e.supplier = d.supplier,
           \A r \in Requests : req[r].pc \notin {"idle", "new"} => req'[r].pc \notin {"idle", "new"}
    PROVE  IdsKept'
  BY DEF IdsKept

LEMMA InvInit == Init => CatalogueInv
  <1> SUFFICES ASSUME Init PROVE CatalogueInv
    OBVIOUS
  <1> USE CatalogueAssumption DEF Init
  <1>1. docs \subseteq Documents /\ \A d \in docs : d.id = d.supplier /\ d.id \in BuiltIn
    BY SeededDocs
  <1>2. req \in [Requests -> Request]
    BY IdleTyped
  <1>3. \A r \in Requests : req[r] = Idle
    OBVIOUS
  <1>4. StoresOK
    BY <1>1, <1>2, RequestFields DEF StoresOK
  <1>5. ASSUME NEW r \in Requests PROVE Holds(r) /\ Reads(r)
    BY <1>3, <1>5, IdleTyped DEF Holds, Reads, At, Held, Row, NoHold, Idling
  <1>6. Copies = docs
    BY <1>3, IdleTyped DEF Copies, Row
  <1>7. IdsKept
    BY <1>1, <1>6 DEF IdsKept
  <1>8. OneRow
    BY SeededDocs DEF OneRow
  <1> QED
    BY <1>2, <1>4, <1>5, <1>7, <1>8 DEF CatalogueInv

-----------------------------------------------------------------------------
\* Steps that write no row.

\* The request comes into its next state with nothing but rows there are.
Serves(r) == /\ req' \in [Requests -> Request] /\ Others(r)
             /\ Holds(r)' /\ Reads(r)'
             /\ Row(r)' \in {None, Row(r)} \cup docs
             /\ req[r].pc = "idle" \/ req'[r].pc \notin {"idle", "new"}

LEMMA AnswerServes ==
    ASSUME CatalogueInv, NEW r \in Requests, NEW what, Answer(r, what)
    PROVE  Serves(r)
  <1>1. /\ req' \in [Requests -> Request] /\ Others(r)
        /\ req'[r].pc \in {"done", "failed"} /\ req'[r].row = None /\ req'[r].held = <<>>
    BY Answered DEF CatalogueInv
  <1> QED
    BY <1>1 DEF Serves, Holds, Reads, Idling, At, Held, Row, NoHold

LEMMA ServesStep ==
    ASSUME CatalogueInv, NEW r \in Requests, Serves(r), UNCHANGED <<docs, scenario, late>>
    PROVE  /\ \A q \in Requests : Holds(q)' /\ Reads(q)'
           /\ IdsKept' /\ OneRow'
  <1>1. ASSUME NEW q \in Requests PROVE Holds(q)' /\ Reads(q)'
    BY <1>1, OthersKeep DEF CatalogueInv, Serves, Others
  <1>2. ASSUME NEW d \in Copies', d \notin docs PROVE d \in Copies
    <2>1. PICK q \in Requests : d # None /\ Row(q)' = d
      BY <1>2 DEF Copies
    <2>2. CASE q = r
      BY <1>2, <2>1, <2>2, CatalogueAssumption DEF Copies, Serves
    <2>3. CASE q # r
      BY <2>1, <2>3 DEF Copies, Serves, Others, Row
    <2> QED
      BY <2>2, <2>3
  <1>3. IdsKept'
    BY <1>2, IdsSame DEF CatalogueInv, Serves, Others, Copies
  <1> QED
    BY <1>1, <1>3 DEF CatalogueInv, OneRow

\* The supplier of a request that is under way.
LEMMA Asked ==
    ASSUME CatalogueInv, NEW r \in Requests, req[r].pc \notin Idling
    PROVE  /\ req[r].ask \in Asks /\ Of(r) \in Suppliers /\ Kind(r) \in AllKinds
           /\ Env(r) \in Envs /\ Code(r) \in Codes
           /\ Kind(r) \in {"create", "update"} => req[r].ask.payload \in Config
  <1>1. req[r].ask \in Asks
    BY DEF CatalogueInv, Reads
  <1> QED
    BY <1>1, AskFields DEF Of, Kind, Env, Code, Envs, Codes

LEMMA ArriveServes ==
    ASSUME CatalogueInv, NEW r \in Requests, Arrive(r)
    PROVE  Serves(r)
  <1>1. PICK a \in Asks : req' = [req EXCEPT ![r].pc = "new", ![r].ask = a]
    BY DEF Arrive
  <1>2. req[r] \in Request /\ req[r].pc = "idle" /\ req[r].held = <<>> /\ req[r].row = None
    BY DEF CatalogueInv, Arrive, At, Holds, Reads, NoHold, Held, Row
  <1>3. /\ req' \in [Requests -> Request] /\ Others(r)
        /\ req'[r].pc = "new" /\ req'[r].ask = a /\ req'[r].held = <<>> /\ req'[r].row = None
    BY <1>1, <1>2 DEF CatalogueInv, Request, Others, Places
  <1> QED
    BY <1>2, <1>3 DEF Serves, Holds, Reads, Idling, At, Held, Row, NoHold

\* After a lookup the request is answered, or is a probe that goes on.
LEMMA AfterLookupServes ==
    ASSUME CatalogueInv, NEW r \in Requests, req[r].pc \notin Idling,
           Kind(r) \in {"lookup", "probe"},
           NEW held, AfterLookup(r, held), held \in Holdings,
           Kind(r) = "probe" =>
              \/ \E c \in Config : held = <<c>>
              \/ \E c, d \in Config, b \in SUBSET LogTypes : held = <<c, b, d>>
    PROVE  Serves(r)
  <1>1. CASE Kind(r) # "probe"
    BY <1>1, AnswerServes DEF AfterLookup
  <1>2. CASE Kind(r) = "probe"
    <2>1. req' = [req EXCEPT ![r].pc = IF Len(held) = 1 THEN "load" ELSE "link", ![r].held = held]
      BY <1>2 DEF AfterLookup
    <2>2. /\ req' \in [Requests -> Request] /\ Others(r)
          /\ req'[r].pc = (IF Len(held) = 1 THEN "load" ELSE "link")
          /\ req'[r].ask = req[r].ask /\ req'[r].row = req[r].row /\ req'[r].held = held
      BY <2>1, RequestFields DEF CatalogueInv, Request, Others, Places
    <2>3. Holds(r)'
      <3>1. CASE \E c \in Config : held = <<c>>
        BY <2>2, <3>1 DEF Holds, At, Held, OneConfig
      <3>2. CASE \E c, d \in Config, b \in SUBSET LogTypes : held = <<c, b, d>>
        BY <2>2, <3>2 DEF Holds, At, Held, LookedTwice
      <3> QED
        BY <1>2, <3>1, <3>2
    <2>4. Reads(r)'
      BY <1>2, <2>2 DEF CatalogueInv, Reads, Idling, At, Kind, Of, Row
    <2> QED
      BY <2>2, <2>3, <2>4 DEF Serves, Row
  <1> QED
    BY <1>1, <1>2

\* What looking up one more thing makes of what was looked up.
LEMMA OneMore ==
    ASSUME NEW h \in Holdings, NEW x \in Holding
    PROVE  /\ Append(h, x) \in Holdings
           /\ h = <<>> => Append(h, x) = <<x>>
           /\ \A c \in Holding, b \in Holding : h = <<c, b>> => Append(h, x) = <<c, b, x>>
           /\ \A c \in Holding : h = <<c>> => Append(h, x) = <<c, x>>
  <1> USE DEF Holdings
  <1>1. CASE h = <<>>
    <2>1. <<x>> \in Holdings /\ Append(h, x) \in Holdings /\ Len(Append(h, x)) = 1
      BY <1>1
    <2>2. \A i \in 1 .. 1 : Append(h, x)[i] = <<x>>[i]
      BY <1>1
    <2> QED
      BY <1>1, <2>1, <2>2, SeqEqual
  <1>2. ASSUME NEW c \in Holding, h = <<c>> PROVE Append(h, x) = <<c, x>>
    <2>1. <<c, x>> \in Holdings /\ Append(h, x) \in Holdings /\ Len(Append(h, x)) = 2
      BY <1>2
    <2>2. \A i \in 1 .. 2 : Append(h, x)[i] = <<c, x>>[i]
      BY <1>2
    <2> QED
      BY <2>1, <2>2, SeqEqual
  <1>3. ASSUME NEW c \in Holding, NEW b \in Holding, h = <<c, b>> PROVE Append(h, x) = <<c, b, x>>
    <2>1. <<c, b, x>> \in Holdings /\ Append(h, x) \in Holdings /\ Len(Append(h, x)) = 3
      BY <1>3
    <2>2. \A i \in 1 .. 3 : Append(h, x)[i] = <<c, b, x>>[i]
      BY <1>3
    <2> QED
      BY <2>1, <2>2, SeqEqual
  <1> QED
    BY <1>1, <1>2, <1>3

LEMMA LastHeld ==
    ASSUME NEW h, NEW x, NEW y, NEW z, h = <<x>> \/ h = <<x, y, z>>
    PROVE  Last(h) = IF h = <<x>> THEN x ELSE z
  <1>1. ASSUME h = <<x>> PROVE Last(h) = x
    BY <1>1 DEF Last
  <1>2. ASSUME h = <<x, y, z>> PROVE Last(h) = z
    BY <1>2 DEF Last
  <1> QED
    BY <1>1, <1>2

LEMMA LooksUp ==
    ASSUME CatalogueInv, NEW r \in Requests, Looking(r)
    PROVE  /\ req[r].pc \notin Idling /\ Kind(r) \in {"lookup", "probe"}
           /\ Kind(r) = "lookup" => NoHold(r)
           /\ NoHold(r) \/ Looked(r)
  BY DEF CatalogueInv, Holds, Reads, Looking, At, Idling

\* One configuration more.
LEMMA LookedUp ==
    ASSUME CatalogueInv, NEW r \in Requests, Looking(r), NEW c \in Config
    PROVE  /\ Append(Held(r), c) \in Holdings
           /\ \/ \E e \in Config : Append(Held(r), c) = <<e>>
              \/ Looked(r) /\ \E e, d \in Config, b \in SUBSET LogTypes :
                                 Append(Held(r), c) = <<e, b, d>>
  <1>1. Held(r) \in Holdings
    BY RequestFields DEF CatalogueInv, Held
  <1>2. CASE NoHold(r)
    BY <1>1, <1>2, OneMore DEF NoHold, Holding
  <1>3. CASE Looked(r)
    <2>1. PICK e \in Config, b \in SUBSET LogTypes : Held(r) = <<e, b>>
      BY <1>3 DEF Looked
    <2>2. Append(Held(r), c) = <<e, b, c>> /\ Append(Held(r), c) \in Holdings
      BY <1>1, <2>1, OneMore DEF Holding
    <2> QED
      BY <1>3, <2>2
  <1> QED
    BY <1>2, <1>3, LooksUp

LEMMA LookupHitStep ==
    ASSUME CatalogueInv, NEW r \in Requests, LookupHit(r)
    PROVE  Serves(r) /\ StoresOK'
  <1>1. Looking(r) /\ cache[Of(r)] # None
        /\ AfterLookup(r, Append(Held(r), cache[Of(r)]))
        /\ UNCHANGED <<docs, caches, world, overtaken>>
    BY DEF LookupHit
  <1>2. req[r].pc \notin Idling /\ Kind(r) \in {"lookup", "probe"}
    BY <1>1, LooksUp
  <1>3. cache[Of(r)] \in Config
    BY <1>1, <1>2, Asked DEF CatalogueInv, StoresOK
  <1>4. Serves(r)
    BY <1>1, <1>2, <1>3, LookedUp, AfterLookupServes
  <1> QED
    BY <1>1, <1>4 DEF CatalogueInv, StoresOK, Serves, caches, world

LEMMA LookupReadStep ==
    ASSUME CatalogueInv, NEW r \in Requests, LookupRead(r)
    PROVE  Serves(r) /\ StoresOK'
  <1>1. Looking(r) /\ UNCHANGED <<docs, caches, world>>
    BY DEF LookupRead
  <1>2. /\ req[r].pc \notin Idling /\ Kind(r) \in {"lookup", "probe"}
        /\ Kind(r) = "lookup" => NoHold(r)
    BY <1>1, LooksUp
  <1>3. PICK found \in {Resolve(Of(r)), Seed(Of(r))} :
          \/ found = None /\ Answer(r, "unknown") /\ UNCHANGED overtaken
          \/ found # None /\ GoesHolding(r, "fill", found) /\ overtaken' \in {overtaken, overtaken \cup {r}}
    BY DEF LookupRead
  <1>4. overtaken' \subseteq Requests
    BY <1>3 DEF CatalogueInv, StoresOK
  <1>5. CASE found = None
    <2>1. Serves(r)
      BY <1>3, <1>5, AnswerServes
    <2> QED
      BY <1>1, <1>4, <2>1 DEF CatalogueInv, StoresOK, Serves, caches, world
  <1>6. CASE found # None
    <2>1. found \in Config
      BY <1>2, <1>6, Asked, Resolved DEF CatalogueInv, StoresOK
    <2>2. /\ req' \in [Requests -> Request] /\ Others(r)
          /\ req'[r].pc = "fill" /\ req'[r].ask = req[r].ask /\ req'[r].row = req[r].row
          /\ req'[r].held = Append(req[r].held, found)
      BY <1>3, <1>6, <2>1, GoneHolding DEF CatalogueInv, Places
    <2>3. OneConfig(r)' \/ (Kind(r) = "probe" /\ LookedTwice(r)')
      BY <1>1, <1>2, <2>1, <2>2, LookedUp DEF OneConfig, LookedTwice, Held, Looked, NoHold
    <2>4. Holds(r)'
      BY <2>2, <2>3 DEF Holds, At, Kind
    <2>5. Reads(r)'
      BY <1>1, <1>2, <2>2 DEF CatalogueInv, Reads, Idling, At, Kind, Of, Row
    <2>6. Serves(r)
      BY <2>2, <2>4, <2>5 DEF Serves, Row
    <2> QED
      BY <1>1, <1>4, <2>6 DEF CatalogueInv, StoresOK, Serves, caches, world
  <1> QED
    BY <1>5, <1>6

LEMMA LookupFillStep ==
    ASSUME CatalogueInv, NEW r \in Requests, LookupFill(r)
    PROVE  Serves(r) /\ StoresOK'
  <1>1. /\ req[r].pc = "fill" /\ AfterLookup(r, Held(r)) /\ UNCHANGED <<docs, codes, world>>
        /\ cache' = [cache EXCEPT ![Of(r)] = Last(Held(r))]
        /\ old' \in {old, old \cup {Of(r)}} /\ overtaken' = overtaken \ {r}
    BY DEF LookupFill, At
  <1>2. /\ req[r].pc \notin Idling /\ Kind(r) \in {"lookup", "probe"}
        /\ OneConfig(r) \/ LookedTwice(r)
    BY <1>1, RequestFields DEF CatalogueInv, Holds, Reads, Idling, At, Held
  <1>3. Last(Held(r)) \in Config /\ Held(r) \in Holdings
    <2>1. Held(r) \in Holdings
      BY RequestFields DEF CatalogueInv, Held
    <2>2. CASE OneConfig(r)
      BY <2>1, <2>2, LastHeld DEF OneConfig
    <2>3. CASE LookedTwice(r)
      BY <2>1, <2>3, LastHeld DEF LookedTwice
    <2> QED
      BY <1>2, <2>1, <2>2, <2>3
  <1>4. Serves(r)
    BY <1>1, <1>2, <1>3, AfterLookupServes DEF OneConfig, LookedTwice
  <1>5. Of(r) \in Suppliers
    BY <1>2, Asked
  <1> QED
    BY <1>1, <1>3, <1>4, <1>5 DEF CatalogueInv, StoresOK, Serves, world

LEMMA CodesReadStep ==
    ASSUME CatalogueInv, NEW r \in Requests, CodesRead(r)
    PROVE  Serves(r) /\ StoresOK'
  <1>1. req[r].pc = "new" /\ Kind(r) = "codes" /\ UNCHANGED <<docs, caches, world>>
    BY DEF CodesRead, At
  <1>2. req[r].pc \notin Idling /\ Held(r) = <<>> /\ Row(r) = None
    BY <1>1 DEF CatalogueInv, Holds, Reads, Idling, NoHold
  <1>3. CASE Answer(r, "ok") /\ UNCHANGED overtaken
    <2>1. Serves(r)
      BY <1>3, AnswerServes
    <2> QED
      BY <1>1, <1>3, <2>1 DEF CatalogueInv, StoresOK, Serves, caches, world
  <1>4. CASE \E found \in {ResolveCodes(Env(r)), SeedCodes} :
               /\ GoesHolding(r, "fill codes", found)
               /\ overtaken' \in {overtaken, overtaken \cup {r}}
    <2>1. PICK found \in SUBSET Codes : /\ GoesHolding(r, "fill codes", found)
                                        /\ overtaken' \in {overtaken, overtaken \cup {r}}
      BY <1>4, ResolvedCodes DEF CatalogueInv, StoresOK
    <2>2. /\ req' \in [Requests -> Request] /\ Others(r)
          /\ req'[r].pc = "fill codes" /\ req'[r].ask = req[r].ask /\ req'[r].row = req[r].row
          /\ req'[r].held = Append(req[r].held, found)
      BY <2>1, GoneHolding DEF CatalogueInv, Places
    <2>3. req'[r].held = <<found>>
      BY <1>2, <2>2, OneMore, RequestFields DEF Held, Holding, CatalogueInv
    <2>4. Holds(r)' /\ Reads(r)'
      BY <1>1, <1>2, <2>2, <2>3 DEF CatalogueInv, Holds, Reads, Idling, At, Held, Row, Kind
    <2>5. Serves(r)
      BY <2>2, <2>4 DEF Serves, Row
    <2> QED
      BY <1>1, <2>1, <2>5 DEF CatalogueInv, StoresOK, Serves, caches, world
  <1> QED
    BY <1>3, <1>4 DEF CodesRead

LEMMA CodesFillStep ==
    ASSUME CatalogueInv, NEW r \in Requests, CodesFill(r)
    PROVE  Serves(r) /\ StoresOK'
  <1>1. /\ req[r].pc = "fill codes" /\ Answer(r, "ok") /\ UNCHANGED <<docs, cache, world>>
        /\ codes' = [codes EXCEPT ![Env(r)] = Last(Held(r))]
        /\ old' \in {old, old \cup {Env(r)}} /\ overtaken' = overtaken \ {r}
    BY DEF CodesFill, At
  <1>2. PICK x \in SUBSET Codes : Held(r) = <<x>>
    BY <1>1 DEF CatalogueInv, Holds, At
  <1>3. Last(Held(r)) \in SUBSET Codes /\ Env(r) \in Envs
    BY <1>1, <1>2, LastHeld, Asked DEF Idling
  <1>4. Serves(r)
    BY <1>1, AnswerServes
  <1> QED
    BY <1>1, <1>3, <1>4 DEF CatalogueInv, StoresOK, Serves, world

-----------------------------------------------------------------------------
\* Steps of the requests that work on a row.

LEMMA NoAnswerStep ==
    ASSUME CatalogueInv, NEW r \in Requests, NoAnswer(r)
    PROVE  Serves(r) /\ StoresOK'
  BY AnswerServes DEF NoAnswer, CatalogueInv, StoresOK, caches, world

\* The request goes on with a row there is.
LEMMA ReadsRow ==
    ASSUME CatalogueInv, NEW r \in Requests, req[r].pc \notin Idling, RowOf(Of(r)) # None,
           NEW to \in {"save", "check", "write", "fetch", "infer", "look"},
           GoesWith(r, to, RowOf(Of(r))),
           IF to = "save" THEN Kind(r) \in {"update", "map"} ELSE NoHold(r),
           IF Kind(r) = "map" /\ to = "save" THEN OneConfig(r) ELSE NoHold(r),
           to = "infer" => Kind(r) = "map", to = "look" => Kind(r) = "probe"
    PROVE  Serves(r)
  <1>1. Of(r) \in Suppliers /\ docs \subseteq Documents
    BY Asked DEF CatalogueInv, StoresOK
  <1>2. RowOf(Of(r)) \in docs /\ RowOf(Of(r)) \in Documents /\ RowOf(Of(r)).supplier = Of(r)
    BY <1>1, RowLookup
  <1>3. /\ req' \in [Requests -> Request] /\ Others(r)
        /\ req'[r].pc = to /\ req'[r].ask = req[r].ask /\ req'[r].row = RowOf(Of(r))
        /\ req'[r].held = req[r].held
    <2>1. to \in Places /\ req \in [Requests -> Request]
      BY DEF CatalogueInv, Places
    <2> QED
      BY <1>2, <2>1, GoneWith
  <1>4. Holds(r)'
    BY <1>3 DEF Holds, At, Held, Kind, NoHold, OneConfig
  <1>5. Reads(r)'
    BY <1>2, <1>3 DEF CatalogueInv, Reads, Idling, At, Kind, Of, Row
  <1> QED
    BY <1>2, <1>3, <1>4, <1>5 DEF Serves, Row

LEMMA ReadRowStep ==
    ASSUME CatalogueInv, NEW r \in Requests, ReadRow(r)
    PROVE  Serves(r) /\ StoresOK'
  <1>1. /\ req[r].pc = "new" /\ Kind(r) \notin {"lookup", "codes", "create"}
        /\ UNCHANGED <<docs, caches, world, overtaken>>
    BY DEF ReadRow, At
  <1>2. req[r].pc \notin Idling /\ NoHold(r)
    BY <1>1 DEF CatalogueInv, Holds, Idling
  <1>3. Kind(r) \in {"update", "delete", "upload", "ingest", "map", "probe"}
    BY <1>1, <1>2, Asked DEF AllKinds
  <1>4. ASSUME \E what : Answer(r, what) PROVE Serves(r)
    BY <1>4, AnswerServes
  <1>5. ASSUME ~(\E what : Answer(r, what)) PROVE Serves(r)
    <2> DEFINE to == AfterReading(r, RowOf(Of(r)).config)
    <2>1. RowOf(Of(r)) # None /\ to # "400" /\ GoesWith(r, to, RowOf(Of(r)))
      BY <1>5 DEF ReadRow
    <2>2. to \in {"save", "check", "write", "fetch", "infer", "look"}
      BY <1>3, <2>1 DEF AfterReading
    <2>3. /\ to = "save" => Kind(r) = "update"
          /\ to = "infer" => Kind(r) = "map"
          /\ to = "look" => Kind(r) = "probe"
      BY <1>3 DEF AfterReading
    <2> HIDE DEF to
    <2> QED
      BY <1>2, <2>1, <2>2, <2>3, ReadsRow
  <1> QED
    BY <1>1, <1>4, <1>5 DEF CatalogueInv, StoresOK, caches, world

LEMMA RereadStep ==
    ASSUME CatalogueInv, NEW r \in Requests, Reread(r)
    PROVE  Serves(r) /\ StoresOK'
  <1>1. req[r].pc = "reread" /\ UNCHANGED <<docs, caches, world, overtaken>>
    BY DEF Reread, At
  <1>2. req[r].pc \notin Idling /\ Kind(r) = "map" /\ OneConfig(r)
    BY <1>1 DEF CatalogueInv, Holds, Reads, Idling
  <1>3. ASSUME \E what : Answer(r, what) PROVE Serves(r)
    BY <1>3, AnswerServes
  <1>4. ASSUME RowOf(Of(r)) # None /\ GoesWith(r, "save", RowOf(Of(r))) PROVE Serves(r)
    BY <1>2, <1>4, ReadsRow
  <1> QED
    BY <1>1, <1>3, <1>4 DEF Reread, CatalogueInv, StoresOK, caches, world

LEMMA DeleteCheckStep ==
    ASSUME CatalogueInv, NEW r \in Requests, DeleteCheck(r)
    PROVE  Serves(r) /\ StoresOK'
  <1>1. req[r].pc = "check" /\ UNCHANGED <<docs, caches, world, overtaken>>
    BY DEF DeleteCheck, At
  <1>2. ASSUME \E what : Answer(r, what) PROVE Serves(r)
    BY <1>2, AnswerServes
  <1>3. ASSUME ~InUse(Of(r)) /\ Goes(r, "remove") PROVE Serves(r)
    <2>1. /\ req' \in [Requests -> Request] /\ Others(r)
          /\ req'[r].pc = "remove" /\ req'[r].ask = req[r].ask /\ req'[r].row = req[r].row
          /\ req'[r].held = req[r].held
      BY <1>3, Gone DEF CatalogueInv, Places
    <2>2. Holds(r)'
      BY <1>1, <2>1 DEF CatalogueInv, Holds, At, Held, NoHold
    <2>3. scenario'[Of(r)] = None
      BY <1>1, <1>3 DEF InUse, world
    <2>4. Reads(r)'
      BY <1>1, <2>1, <2>3 DEF CatalogueInv, Reads, Idling, At, Kind, Of, Row
    <2> QED
      BY <2>1, <2>2, <2>4 DEF Serves, Row
  <1> QED
    BY <1>1, <1>2, <1>3 DEF DeleteCheck, CatalogueInv, StoresOK, caches, world

LEMMA InvalidateStep ==
    ASSUME CatalogueInv, NEW r \in Requests, Invalidate(r)
    PROVE  Serves(r) /\ StoresOK'
  BY AnswerServes DEF Invalidate, CatalogueInv, StoresOK, world

LEMMA UploadStep ==
    ASSUME CatalogueInv, NEW r \in Requests, Upload(r)
    PROVE  Serves(r) /\ StoresOK'
  <1>1. Code(r) \in Codes
    BY Asked DEF Upload, At, Idling
  <1> QED
    BY <1>1, AnswerServes DEF Upload, CatalogueInv, StoresOK, caches

\* A request that has looked nothing up goes on to clear the cache.
LEMMA IngestStep ==
    ASSUME CatalogueInv, NEW r \in Requests, Ingest(r)
    PROVE  Serves(r) /\ StoresOK'
  <1>1. /\ req[r].pc = "fetch" /\ Code(r) \in Codes
        /\ UNCHANGED <<docs, caches, scenario, boots, late, overtaken>>
    BY Asked DEF Ingest, At, Idling
  <1>2. disk' \subseteq Codes \X LogTypes
    BY <1>1 DEF Ingest, CatalogueInv, StoresOK
  <1>3. ASSUME \E what : Answer(r, what) PROVE Serves(r)
    BY <1>3, AnswerServes
  <1>4. ASSUME Goes(r, "invalidate") PROVE Serves(r)
    <2>1. /\ req' \in [Requests -> Request] /\ Others(r)
          /\ req'[r].pc = "invalidate" /\ req'[r].ask = req[r].ask /\ req'[r].row = req[r].row
          /\ req'[r].held = req[r].held
      BY <1>4, Gone DEF CatalogueInv, Places
    <2>2. Holds(r)'
      BY <1>1, <2>1 DEF CatalogueInv, Holds, At, Held, NoHold
    <2>3. Reads(r)'
      BY <1>1, <2>1 DEF CatalogueInv, Reads, Idling, At, Kind, Of, Row
    <2> QED
      BY <2>1, <2>2, <2>3 DEF Serves, Row
  <1> QED
    BY <1>1, <1>2, <1>3, <1>4 DEF Ingest, CatalogueInv, StoresOK, caches

\* The map a request infers is one more thing it has looked up; so is what a probe builds.
LEMMA InferStep ==
    ASSUME CatalogueInv, NEW r \in Requests, Infer(r)
    PROVE  Serves(r) /\ StoresOK'
  <1> DEFINE c == ToModel(Row(r).config)
             lts == {lt \in c.logs : <<Code(r), lt>> \in disk}
             d == [c EXCEPT !.map = lts]
  <1>1. /\ req[r].pc = "infer" /\ GoesHolding(r, "reread", d)
        /\ UNCHANGED <<docs, caches, world, overtaken>>
    BY DEF Infer, At
  <1>2. Kind(r) = "map" /\ NoHold(r) /\ Row(r) \in Documents
    BY <1>1, RequestFields DEF CatalogueInv, Holds, Reads, Row
  <1>3. c \in Config
    BY <1>2, ConfigsKept DEF Documents
  <1>4. d \in Config
    <2>1. c.logs \in SUBSET LogTypes
      BY <1>3, ConfigsKept
    <2>2. lts \in SUBSET LogTypes
      BY <2>1
    <2> HIDE DEF c, lts
    <2> QED
      BY <1>3, <2>2, ConfigsKept
  <1> HIDE DEF d
  <1>5. Append(req[r].held, d) = <<d>>
    BY <1>2, <1>4, OneMore, RequestFields DEF CatalogueInv, NoHold, Held, Holding
  <1>6. /\ req' \in [Requests -> Request] /\ Others(r)
        /\ req'[r].pc = "reread" /\ req'[r].ask = req[r].ask /\ req'[r].row = req[r].row
        /\ req'[r].held = <<d>>
    BY <1>1, <1>4, <1>5, GoneHolding DEF CatalogueInv, Places, Holding
  <1>7. Holds(r)'
    BY <1>4, <1>6 DEF Holds, At, Held, OneConfig
  <1>8. Reads(r)'
    BY <1>1, <1>2, <1>6 DEF CatalogueInv, Reads, Idling, At, Kind, Of, Row
  <1> QED
    BY <1>1, <1>6, <1>7, <1>8 DEF Serves, Row, CatalogueInv, StoresOK, caches, world

LEMMA LoadStep ==
    ASSUME CatalogueInv, NEW r \in Requests, Load(r)
    PROVE  Serves(r) /\ StoresOK'
  <1>1. req[r].pc = "load" /\ UNCHANGED <<docs, caches, world, overtaken>>
    BY DEF Load, At
  <1>2. Kind(r) = "probe"
    BY <1>1 DEF CatalogueInv, Reads
  <1>3. PICK c \in Config : Held(r) = <<c>>
    BY <1>1 DEF CatalogueInv, Holds, OneConfig
  <1>4. ASSUME \E what : Answer(r, what) PROVE Serves(r)
    BY <1>4, AnswerServes
  <1>5. ASSUME ~(\E what : Answer(r, what)) PROVE Serves(r)
    <2>1. PICK served \in SUBSET LogTypes :
            GoesHolding(r, "look", {lt \in served : <<Code(r), lt>> \in disk})
      <3>1. PluginLogs \in SUBSET LogTypes /\ Held(r)[1].logs \in SUBSET LogTypes
        BY <1>3, ConfigsKept, CatalogueAssumption
      <3> QED
        BY <1>5, <3>1 DEF Load
    <2> DEFINE built == {lt \in served : <<Code(r), lt>> \in disk}
    <2>2. built \in SUBSET LogTypes
      OBVIOUS
    <2>3. GoesHolding(r, "look", built)
      BY <2>1
    <2> HIDE DEF built
    <2>4. Append(req[r].held, built) = <<c, built>>
      BY <1>3, <2>2, OneMore, RequestFields DEF CatalogueInv, Held, Holding
    <2>5. /\ req' \in [Requests -> Request] /\ Others(r)
          /\ req'[r].pc = "look" /\ req'[r].ask = req[r].ask /\ req'[r].row = req[r].row
          /\ req'[r].held = <<c, built>>
      BY <2>2, <2>3, <2>4, GoneHolding DEF CatalogueInv, Places, Holding
    <2>6. Holds(r)'
      BY <2>2, <2>5 DEF Holds, At, Held, Looked
    <2>7. Reads(r)'
      BY <1>1, <1>2, <2>5 DEF CatalogueInv, Reads, Idling, At, Kind, Of, Row
    <2> QED
      BY <2>5, <2>6, <2>7 DEF Serves, Row
  <1> QED
    BY <1>1, <1>4, <1>5 DEF CatalogueInv, StoresOK, caches, world

LEMMA LinkStep ==
    ASSUME CatalogueInv, NEW r \in Requests, Link(r)
    PROVE  Serves(r) /\ StoresOK'
  BY AnswerServes DEF Link, CatalogueInv, StoresOK, caches, world

\* A create that finds no row makes one under an id of its own.
LEMMA CreateCheckStep ==
    ASSUME CatalogueInv, NEW r \in Requests, CreateCheck(r)
    PROVE  CatalogueInv'
  <1>1. /\ req[r].pc = "new" /\ Kind(r) = "create"
        /\ UNCHANGED <<docs, caches, world, overtaken>>
    BY DEF CreateCheck, At
  <1>2. StoresOK'
    BY <1>1 DEF CatalogueInv, StoresOK, caches, world
  <1>3. CASE \E what : Answer(r, what)
    <2>1. Serves(r)
      BY <1>3, AnswerServes
    <2> QED
      BY <1>1, <1>2, <2>1, ServesStep DEF CatalogueInv, Serves, world
  <1>4. CASE ~(\E what : Answer(r, what))
    <2> DEFINE d == [id |-> r, supplier |-> Of(r), config |-> req[r].ask.payload]
    <2>1. GoesWith(r, "save", d)
      BY <1>4 DEF CreateCheck
    <2>2. req[r].ask \in Asks /\ Of(r) \in Suppliers /\ req[r].ask.payload \in Config /\ NoHold(r)
      BY <1>1, Asked DEF Idling, CatalogueInv, Holds
    <2>3. d \in Documents /\ d # None /\ d.id = r /\ d.supplier = Of(r)
      BY <2>2, CatalogueAssumption DEF Documents
    <2> HIDE DEF d
    <2>4. /\ req' \in [Requests -> Request] /\ Others(r)
          /\ req'[r].pc = "save" /\ req'[r].ask = req[r].ask /\ req'[r].row = d
          /\ req'[r].held = req[r].held
      BY <2>1, <2>3, GoneWith DEF CatalogueInv, Places
    <2>5. Holds(r)'
      BY <1>1, <2>2, <2>4 DEF Holds, At, Held, Kind, NoHold
    <2>6. Reads(r)'
      BY <1>1, <2>2, <2>3, <2>4 DEF Reads, Idling, At, Kind, Of, Row
    <2>7. ASSUME NEW q \in Requests PROVE Holds(q)' /\ Reads(q)'
      BY <1>1, <2>4, <2>5, <2>6, OthersKeep DEF CatalogueInv, Others, world
    <2>8. Copies' \subseteq Copies \cup {d}
      BY <1>1, <2>4 DEF Copies, Others, Row
    <2>9. r \notin BuiltIn /\ \A e \in Copies : e.id # r
      BY <1>1, CatalogueAssumption DEF CatalogueInv, IdsKept
    <2>10. \A q \in Requests : req[q].pc \notin {"idle", "new"} => req'[q].pc \notin {"idle", "new"}
      BY <2>4 DEF Others
    <2>11. IdsKept'
      BY <2>3, <2>4, <2>8, <2>9, <2>10 DEF CatalogueInv, IdsKept
    <2> QED
      BY <1>1, <1>2, <2>4, <2>7, <2>11 DEF CatalogueInv, OneRow
  <1> QED
    BY <1>3, <1>4

-----------------------------------------------------------------------------
\* Steps that write rows.

\* What is saved is the request's own copy of the row, but for the configuration.
LEMMA SavedRow ==
    ASSUME CatalogueInv, NEW r \in Requests, At(r, "save")
    PROVE  /\ Row(r) \in Documents /\ Row(r) \in Copies /\ Row(r).supplier = Of(r)
           /\ NewRow(r) \in Documents /\ NewRow(r).id = Row(r).id /\ NewRow(r).supplier = Of(r)
           /\ NewRow(r) = [Row(r) EXCEPT !.config = NewRow(r).config]
           /\ Kind(r) = "map" => Last(Held(r)) \in Config
           /\ NewRow(r).config = ToRow(IF Kind(r) = "map" THEN Last(Held(r))
                                       ELSE req[r].ask.payload)
  <1>1. /\ Row(r) # None /\ Row(r).supplier = Of(r) /\ Row(r) \in Documents \cup {None}
        /\ Kind(r) \in {"create", "update", "map"}
    BY RequestFields DEF CatalogueInv, Reads, At, Row, Idling
  <1>2. Row(r) \in Documents /\ Row(r) \in Copies
    BY <1>1 DEF Copies
  <1>3. ASSUME Kind(r) = "map" PROVE Last(Held(r)) \in Config
    <2>1. PICK c \in Config : Held(r) = <<c>>
      BY <1>3 DEF CatalogueInv, Holds, At, OneConfig
    <2> QED
      BY <2>1, LastHeld
  <1>4. ASSUME Kind(r) # "map" PROVE req[r].ask.payload \in Config
    BY <1>1, <1>4, Asked DEF At, Idling
  <1> DEFINE c == IF Kind(r) = "map" THEN Last(Held(r)) ELSE req[r].ask.payload
  <1>5. ToRow(c) \in Config
    BY <1>3, <1>4, ConfigsKept
  <1>6. NewRow(r) = [Row(r) EXCEPT !.config = ToRow(c)]
    BY DEF NewRow
  <1> HIDE DEF c
  <1>7. NewRow(r) \in Documents /\ NewRow(r).id = Row(r).id /\ NewRow(r).supplier = Row(r).supplier
        /\ NewRow(r).config = ToRow(c)
    BY <1>2, <1>5, <1>6 DEF Documents
  <1> QED
    BY <1>1, <1>2, <1>3, <1>6, <1>7 DEF c

\* A write after which no supplier has two rows, of rows that are of the same
\* suppliers as the copies under their ids.
LEMMA WritesKeep ==
    ASSUME CatalogueInv, NEW r \in Requests, req[r].pc \in {"save", "remove"},
           NEW ds \in SUBSET Documents, Written(r, ds, "invalidate"),
           UNCHANGED <<cache, codes, world>>,
           \A d \in ds : \E e \in Copies : e.id = d.id /\ e.supplier = d.supplier,
           \A d, e \in ds : d.supplier = e.supplier => d = e
    PROVE  CatalogueInv'
  <1>1. /\ Of(r) \in Suppliers /\ Env(r) \in Envs
        /\ NoHold(r) \/ OneConfig(r)
    BY Asked DEF Idling, CatalogueInv, Holds, At
  <1>2. StoresOK'
    BY <1>1 DEF Written, Overtakes, CatalogueInv, StoresOK, world
  <1>3. Serves(r)
    <2>1. ASSUME NEW what, Answer(r, what) PROVE Serves(r)
      BY <2>1, AnswerServes
    <2>2. ASSUME Goes(r, "invalidate") PROVE Serves(r)
      <3>1. /\ req' \in [Requests -> Request] /\ Others(r)
            /\ req'[r].pc = "invalidate" /\ req'[r].ask = req[r].ask /\ req'[r].row = req[r].row
            /\ req'[r].held = req[r].held
        BY <2>2, Gone DEF CatalogueInv, Places
      <3>2. Holds(r)'
        BY <1>1, <3>1 DEF Holds, At, Held, NoHold, OneConfig
      <3>3. Reads(r)'
        BY <3>1 DEF CatalogueInv, Reads, Idling, At, Kind, Of, Row
      <3> QED
        BY <3>1, <3>2, <3>3 DEF Serves, Row
    <2> QED
      BY <2>1, <2>2 DEF Written
  <1>4. ASSUME NEW q \in Requests PROVE Holds(q)' /\ Reads(q)'
    BY <1>3, <1>4, OthersKeep DEF CatalogueInv, Serves, Others, world
  <1>5. docs' = ds
    BY DEF Written
  <1>6. IdsKept'
    <2>1. ASSUME NEW d \in Copies' PROVE \E e \in Copies : e.id = d.id /\ e.supplier = d.supplier
      <3>1. CASE d \in ds
        BY <3>1
      <3>2. CASE d \notin ds
        <4>1. PICK q \in Requests : d # None /\ req'[q].row = d
          BY <1>5, <3>2 DEF Copies, Row
        <4>2. d \in Copies
          <5>1. CASE q = r
            BY <1>3, <4>1, <5>1 DEF Serves, Row, Copies
          <5>2. CASE q # r
            BY <1>3, <4>1, <5>2 DEF Serves, Others, Row, Copies
          <5> QED
            BY <5>1, <5>2
        <4> QED
          BY <4>2
      <3> QED
        BY <3>1, <3>2
    <2>2. \A q \in Requests : req[q].pc \notin {"idle", "new"} => req'[q].pc \notin {"idle", "new"}
      BY <1>3 DEF Serves, Others
    <2> QED
      BY <2>1, <2>2, IdsSame DEF CatalogueInv
  <1> QED
    BY <1>2, <1>3, <1>4, <1>5, <1>6 DEF CatalogueInv, Serves, OneRow

\* A step that writes nothing.
LEMMA ServesKeeps ==
    ASSUME CatalogueInv, NEW r \in Requests, Serves(r), StoresOK',
           UNCHANGED <<docs, scenario, late>>
    PROVE  CatalogueInv'
  BY ServesStep DEF CatalogueInv, Serves

LEMMA SaveStep ==
    ASSUME CatalogueInv, NEW r \in Requests, Save(r)
    PROVE  CatalogueInv'
  <1>1. req[r].pc = "save" /\ UNCHANGED <<cache, codes, world>>
    BY DEF Save, At
  <1>2. CASE Answer(r, "500") /\ UNCHANGED <<docs, old, overtaken>>
    <2>1. Serves(r) /\ StoresOK'
      BY <1>1, <1>2, AnswerServes DEF CatalogueInv, StoresOK, world
    <2> QED
      BY <1>1, <1>2, <2>1, ServesKeeps DEF world
  <1> DEFINE new == NewRow(r)
             ds == {d \in docs : d.id # new.id} \cup {new}
  <1>3. CASE ~Clashes(new) /\ Written(r, ds, "invalidate")
    <2>1. /\ Row(r) \in Copies /\ new \in Documents /\ new.id = Row(r).id
          /\ new.supplier = Row(r).supplier
      BY <1>1, SavedRow DEF At
    <2>2. ds \in SUBSET Documents
      BY <2>1 DEF CatalogueInv, StoresOK
    <2>3. \A d \in docs : d.supplier = new.supplier => d.id = new.id
      BY <1>3 DEF Clashes, RowsOf
    <2> HIDE DEF new
    <2>4. \A d \in ds : \E e \in Copies : e.id = d.id /\ e.supplier = d.supplier
      BY <2>1 DEF Copies
    <2>5. \A d, e \in ds : d.supplier = e.supplier => d = e
      BY <2>3 DEF CatalogueInv, OneRow
    <2> HIDE DEF ds
    <2> QED
      BY <1>1, <1>3, <2>2, <2>4, <2>5, WritesKeep
  <1> QED
    BY <1>2, <1>3 DEF Save, AfterSave

LEMMA DeleteOneStep ==
    ASSUME CatalogueInv, NEW r \in Requests, DeleteOne(r)
    PROVE  CatalogueInv'
  <1>1. req[r].pc = "remove" /\ UNCHANGED <<cache, codes, world>>
    BY DEF DeleteOne, At
  <1>2. CASE Answer(r, "500") /\ UNCHANGED <<docs, old, overtaken>>
    <2>1. Serves(r) /\ StoresOK'
      BY <1>1, <1>2, AnswerServes DEF CatalogueInv, StoresOK, world
    <2> QED
      BY <1>1, <1>2, <2>1, ServesKeeps DEF world
  <1> DEFINE ds == {d \in docs : d.id # Row(r).id}
  <1>3. CASE Written(r, ds, "invalidate")
    <2>1. ds \in SUBSET Documents /\ ds \subseteq docs
      BY DEF CatalogueInv, StoresOK
    <2> HIDE DEF ds
    <2>2. \A d \in ds : \E e \in Copies : e.id = d.id /\ e.supplier = d.supplier
      BY <2>1 DEF Copies
    <2>3. \A d, e \in ds : d.supplier = e.supplier => d = e
      BY <2>1 DEF CatalogueInv, OneRow
    <2> QED
      BY <1>1, <1>3, <2>1, <2>2, <2>3, WritesKeep
  <1> QED
    BY <1>2, <1>3 DEF DeleteOne

\* After a restart nobody holds a row, and the seeding adds one only where there is none.
LEMMA RestartStep ==
    ASSUME CatalogueInv, Restart
    PROVE  CatalogueInv'
  <1>1. /\ docs' = Seeded(docs) /\ boots' = boots + 1 /\ boots < Restarts
        /\ cache' = [s \in Suppliers |-> None] /\ codes' = [e \in Envs |-> None]
        /\ req' = [r \in Requests |-> IF At(r, "idle") THEN Idle ELSE [Idle EXCEPT !.pc = "done"]]
        /\ late' = {} /\ overtaken' = {} /\ old' = {} /\ UNCHANGED <<disk, scenario>>
    BY DEF Restart
  <1>2. StoresOK'
    <2>1. boots' \in 0..Restarts
      BY <1>1, CatalogueAssumption DEF CatalogueInv, StoresOK
    <2>2. docs' \subseteq Documents
      BY <1>1, SeededDocs DEF CatalogueInv, StoresOK
    <2> QED
      BY <1>1, <2>1, <2>2 DEF CatalogueInv, StoresOK
  <1>3. /\ req' \in [Requests -> Request]
        /\ \A r \in Requests : /\ req'[r].row = None /\ req'[r].held = <<>>
                               /\ req'[r].pc = IF req[r].pc = "idle" THEN "idle" ELSE "done"
    BY <1>1, IdleTyped DEF Request, Places, At
  <1>4. ASSUME NEW r \in Requests PROVE Holds(r)' /\ Reads(r)'
    BY <1>3 DEF Holds, Reads, At, Held, Row, NoHold, Idling
  <1>5. Copies' = Seeded(docs)
    BY <1>1, <1>3 DEF Copies, Row
  <1>6. docs \subseteq Copies /\ docs \in SUBSET Documents
    BY DEF Copies, CatalogueInv, StoresOK
  <1>7. IdsKept'
    <2>1. ASSUME NEW d \in Seeded(docs)
          PROVE  d \in Copies \/ (d.id \in BuiltIn /\ d.supplier = d.id)
      <3>1. CASE d \in docs
        BY <1>6, <3>1
      <3>2. CASE d \in Seeded(docs) \ docs
        BY <1>6, <3>2, SeededDocs
      <3> QED
        BY <3>1, <3>2
    <2>2. \A d \in Seeded(docs) : d.id \in BuiltIn => d.supplier = d.id
      BY <2>1 DEF CatalogueInv, IdsKept
    <2>3. \A d, e \in Seeded(docs) : d.id = e.id => d.supplier = e.supplier
      BY <2>1, <2>2 DEF CatalogueInv, IdsKept
    <2>4. \A d \in Seeded(docs) : d.id \in Requests => d \in Copies
      BY <2>1, CatalogueAssumption
    <2>5. \A d \in Seeded(docs) : d.id \in Requests => req'[d.id].pc \notin {"idle", "new"}
      BY <1>3, <2>4 DEF CatalogueInv, IdsKept
    <2> QED
      BY <1>5, <2>2, <2>3, <2>5 DEF IdsKept
  <1>8. OneRow'
    BY <1>1, <1>6, SeededDocs DEF CatalogueInv, OneRow
  <1> QED
    BY <1>2, <1>3, <1>4, <1>7, <1>8 DEF CatalogueInv

LEMMA ScenarioStep ==
    ASSUME CatalogueInv, NEW s \in Suppliers, ScenarioStarts(s) \/ ScenarioChanges(s)
    PROVE  CatalogueInv'
  <1>1. UNCHANGED <<docs, caches, disk, boots, req, overtaken>>
    BY DEF ScenarioStarts, ScenarioChanges
  <1>2. /\ scenario' \in [Suppliers -> {None, "PENDING", "READY", "FAILED"}]
        /\ late \subseteq late' /\ late' \subseteq Requests
        /\ \A q \in Suppliers \ {s} : scenario'[q] = scenario[q]
        /\ scenario[s] = None => \A r \in Requests : At(r, "remove") /\ Of(r) = s => r \in late'
    <2>1. CASE ScenarioStarts(s)
      BY <2>1 DEF ScenarioStarts, CatalogueInv, StoresOK
    <2>2. CASE ScenarioChanges(s)
      BY <2>2, CatalogueAssumption DEF ScenarioChanges, CatalogueInv, StoresOK
    <2> QED
      BY <2>1, <2>2
  <1>3. StoresOK'
    BY <1>1, <1>2 DEF CatalogueInv, StoresOK, caches
  <1>4. ASSUME NEW r \in Requests PROVE Holds(r)'
    BY <1>1 DEF CatalogueInv, Holds, At, Kind, Held, NoHold, OneConfig, Looked, LookedTwice
  <1>5. ASSUME NEW r \in Requests PROVE Reads(r)'
    <2>1. ASSUME At(r, "remove") PROVE scenario'[Of(r)] = None \/ r \in late'
      <3>1. scenario[Of(r)] = None \/ r \in late
        BY <2>1 DEF CatalogueInv, Reads
      <3>2. Of(r) \in Suppliers
        BY <2>1, Asked DEF At, Idling
      <3> QED
        BY <1>2, <2>1, <3>1, <3>2
    <2> QED
      BY <1>1, <2>1 DEF CatalogueInv, Reads, At, Kind, Of, Row, Idling
  <1>6. IdsKept' /\ OneRow'
    BY <1>1 DEF CatalogueInv, IdsKept, OneRow, Copies, Row
  <1> QED
    BY <1>1, <1>3, <1>4, <1>5, <1>6 DEF CatalogueInv

LEMMA StepKeeps ==
    ASSUME CatalogueInv, NEW r \in Requests, Step(r)
    PROVE  CatalogueInv'
  <1>1. CASE Arrive(r)
    <2>1. Serves(r) /\ StoresOK'
      BY <1>1, ArriveServes DEF Arrive, CatalogueInv, StoresOK, caches, world
    <2> QED
      BY <1>1, <2>1, ServesKeeps DEF Arrive, world
  <1>2. CASE LookupHit(r) \/ LookupRead(r) \/ LookupFill(r) \/ CodesRead(r) \/ CodesFill(r)
    <2>1. Serves(r) /\ StoresOK'
      BY <1>2, LookupHitStep, LookupReadStep, LookupFillStep, CodesReadStep, CodesFillStep
    <2>2. UNCHANGED <<docs, scenario, late>>
      BY <1>2 DEF LookupHit, LookupRead, LookupFill, CodesRead, CodesFill, world
    <2> QED
      BY <2>1, <2>2, ServesKeeps
  <1>3. CASE ReadRow(r) \/ NoAnswer(r) \/ DeleteCheck(r) \/ Invalidate(r) \/ Upload(r) \/ Ingest(r)
    <2>1. Serves(r) /\ StoresOK'
      BY <1>3, ReadRowStep, NoAnswerStep, DeleteCheckStep, InvalidateStep, UploadStep, IngestStep
    <2>2. UNCHANGED <<docs, scenario, late>>
      BY <1>3 DEF ReadRow, NoAnswer, DeleteCheck, Invalidate, Upload, Ingest, world
    <2> QED
      BY <2>1, <2>2, ServesKeeps
  <1>4. CASE Infer(r) \/ Reread(r) \/ Load(r) \/ Link(r)
    <2>1. Serves(r) /\ StoresOK'
      BY <1>4, InferStep, RereadStep, LoadStep, LinkStep
    <2>2. UNCHANGED <<docs, scenario, late>>
      BY <1>4 DEF Infer, Reread, Load, Link, world
    <2> QED
      BY <2>1, <2>2, ServesKeeps
  <1>5. CASE CreateCheck(r) \/ Save(r) \/ DeleteOne(r)
    BY <1>5, CreateCheckStep, SaveStep, DeleteOneStep
  <1> QED
    BY <1>1, <1>2, <1>3, <1>4, <1>5 DEF Step

LEMMA NextKeeps == CatalogueInv /\ [Next]_vars => CatalogueInv'
  <1> SUFFICES ASSUME CatalogueInv, [Next]_vars PROVE CatalogueInv'
    OBVIOUS
  <1>1. CASE UNCHANGED vars
    <2>1. UNCHANGED <<docs, cache, codes, old, disk, scenario, boots, late, req, overtaken>>
      BY <1>1 DEF vars
    <2>2. StoresOK' /\ IdsKept' /\ OneRow'
      BY <2>1 DEF CatalogueInv, StoresOK, IdsKept, OneRow, Copies, Row
    <2>3. ASSUME NEW q \in Requests PROVE Holds(q)' /\ Reads(q)'
      BY <2>1, OthersKeep DEF CatalogueInv
    <2> QED
      BY <2>1, <2>2, <2>3 DEF CatalogueInv
  <1> QED
    BY <1>1, RestartStep, ScenarioStep, StepKeeps DEF Next

LEMMA Kept == Spec => []CatalogueInv
  BY InvInit, NextKeeps, PTL DEF Spec

-----------------------------------------------------------------------------
\* Every request is where it can be with what it can hold, every row, cache and
\* template is of a supplier somebody asks about, whatever overlaps, fails or restarts.
THEOREM TypeCorrect == Spec => []TypeOK
  <1>1. CatalogueInv => TypeOK
    <2> SUFFICES ASSUME CatalogueInv PROVE TypeOK
      OBVIOUS
    <2>1. ASSUME NEW r \in Requests, NEW i \in DOMAIN Held(r)
          PROVE  IF At(r, "fill codes") THEN Held(r)[i] \subseteq Codes
                 ELSE IF i = 2 THEN Held(r)[i] \subseteq LogTypes
                 ELSE Held(r)[i] \in Config
      <3>1. req[r].pc \in Places /\ Holds(r)
        BY RequestFields DEF CatalogueInv
      <3>2. CASE At(r, "fill codes")
        <4>1. PICK x \in SUBSET Codes : Held(r) = <<x>>
          BY <3>1, <3>2 DEF Holds
        <4>2. Held(r)[i] \subseteq Codes
          BY <2>1, <4>1
        <4> QED
          BY <3>2, <4>2
      <3>3. CASE ~At(r, "fill codes")
        <4>1. NoHold(r) \/ OneConfig(r) \/ Looked(r) \/ LookedTwice(r)
          BY <3>1, <3>3 DEF Holds, At, Places
        <4>2. NoHold(r) => DOMAIN Held(r) = {}
          BY DEF NoHold
        <4>3. CASE OneConfig(r)
          <5>1. i # 2 /\ Held(r)[i] \in Config
            BY <2>1, <4>3 DEF OneConfig
          <5> QED
            BY <3>3, <5>1
        <4>4. CASE Looked(r) \/ LookedTwice(r)
          <5>1. IF i = 2 THEN Held(r)[i] \subseteq LogTypes ELSE Held(r)[i] \in Config
            BY <2>1, <4>4 DEF Looked, LookedTwice
          <5> QED
            BY <3>3, <5>1
        <4> QED
          BY <2>1, <4>1, <4>2, <4>3, <4>4
      <3> QED
        BY <3>2, <3>3
    <2>2. ASSUME NEW r \in Requests
          PROVE  /\ req[r].pc \in Places /\ req[r].ask \in Asks \cup {None}
                 /\ req[r].row \in Documents \cup {None}
      BY RequestFields DEF CatalogueInv
    <2> QED
      BY <2>1, <2>2 DEF TypeOK, CatalogueInv
  <1> QED
    BY <1>1, Kept, PTL

\* However creates, updates, deletes and restarts overlap, and whichever of their
\* writes fail or are reported to have failed, a supplier has at most one row per
\* environment: the unique index and the ids of the rows are enough.
THEOREM OneRowEach == Spec => []OneRowPerCode
  <1>1. CatalogueInv => OneRowPerCode
    <2> SUFFICES ASSUME CatalogueInv, NEW s \in Suppliers PROVE Cardinality(RowsOf(s)) <= 1
      BY DEF OneRowPerCode
    <2>1. CASE RowsOf(s) = {}
      BY <2>1, FS_EmptySet
    <2>2. CASE RowsOf(s) # {}
      <3>1. PICK d \in RowsOf(s) : TRUE
        BY <2>2
      <3>2. RowsOf(s) = {d}
        BY <3>1 DEF RowsOf, CatalogueInv, OneRow
      <3>3. Cardinality({d}) = 1
        BY FS_Singleton
      <3> QED
        BY <3>2, <3>3
    <2> QED
      BY <2>1, <2>2
  <1> QED
    BY <1>1, Kept, PTL

-----------------------------------------------------------------------------
\* A row of a supplier is the row of that supplier.
LEMMA TheRow ==
    ASSUME docs \subseteq Documents, OneRow, NEW d \in docs
    PROVE  RowOf(d.supplier) = d
  <1>1. RowsOf(d.supplier) = {d}
    BY DEF RowsOf, OneRow
  <1>2. RowOf(d.supplier) \in RowsOf(d.supplier)
    BY <1>1 DEF RowOf
  <1> QED
    BY <1>1, <1>2

\* The steps that write rows.
LEMMA NoWrite ==
    ASSUME NEW r \in Requests, Step(r), ~Save(r), ~DeleteOne(r)
    PROVE  UNCHANGED docs
  BY DEF Step, Arrive, LookupHit, LookupRead, LookupFill, CodesRead, CodesFill, ReadRow,
         NoAnswer, CreateCheck, DeleteCheck, Invalidate, Upload, Ingest, Infer, Reread,
         Load, Link

LEMMA Writers ==
    ASSUME Next, ~UNCHANGED docs
    PROVE  Restart \/ \E r \in Requests : Save(r) \/ DeleteOne(r)
  <1>1. ASSUME NEW p \in Suppliers, ScenarioStarts(p) \/ ScenarioChanges(p) PROVE UNCHANGED docs
    BY <1>1 DEF ScenarioStarts, ScenarioChanges
  <1> QED
    BY <1>1, NoWrite DEF Next

\* The row that a delete takes away, nobody needs, or somebody has come to need
\* since the delete looked: its own copy of it names the same supplier, and at
\* the look there was no scenario of that supplier.
THEOREM DeletesSpare == Spec => DeleteSparesUsers
  <1> DEFINE Spares == \A s \in Suppliers :
                         RowOf(s) # None /\ (RowOf(s) = None)' /\ scenario[s] # None
                           => \E r \in Requests : At(r, "remove") /\ Of(r) = s /\ r \in late
  <1>1. CatalogueInv /\ CatalogueInv' /\ [Next]_vars => [Spares]_vars
    <2> SUFFICES ASSUME CatalogueInv, CatalogueInv', Next, NEW s \in Suppliers,
                        RowOf(s) # None, RowOf(s)' = None, scenario[s] # None
                 PROVE  \E r \in Requests : At(r, "remove") /\ Of(r) = s /\ r \in late
      BY DEF Spares
    <2> DEFINE d == RowOf(s)
    <2>1. /\ d \in docs /\ d \in Documents /\ d.supplier = s
          /\ docs \subseteq Documents /\ docs' \subseteq Documents
      BY RowLookup DEF CatalogueInv, StoresOK
    <2>2. \A e \in docs' : e.supplier # s
      <3>1. RowsOf(s)' \subseteq Documents
        BY <2>1 DEF RowsOf
      <3>2. RowsOf(s)' # {} => RowOf(s)' \in RowsOf(s)'
        BY DEF RowOf
      <3>3. RowsOf(s)' = {}
        BY <3>1, <3>2, CatalogueAssumption
      <3> QED
        BY <3>3 DEF RowsOf
    <2> HIDE DEF d
    <2>3. ~(docs \subseteq docs')
      BY <2>1, <2>2
    <2>4. ASSUME NEW r \in Requests, Save(r), ~UNCHANGED docs PROVE FALSE
      <3>1. At(r, "save") /\ docs' = {e \in docs : e.id # NewRow(r).id} \cup {NewRow(r)}
        BY <2>4 DEF Save, Written
      <3>2. /\ Row(r) \in Copies /\ d \in Copies
            /\ NewRow(r).id = Row(r).id /\ NewRow(r).supplier = Row(r).supplier
        BY <2>1, <3>1, SavedRow DEF Copies
      <3>3. d.id = Row(r).id
        BY <2>1, <2>2, <3>1, <3>2
      <3> QED
        BY <2>1, <2>2, <3>1, <3>2, <3>3 DEF CatalogueInv, IdsKept
    <2>5. ASSUME NEW r \in Requests, DeleteOne(r), ~UNCHANGED docs
          PROVE  At(r, "remove") /\ Of(r) = s /\ r \in late
      <3>1. At(r, "remove") /\ docs' = {e \in docs : e.id # Row(r).id}
        BY <2>5 DEF DeleteOne, Written
      <3>2. d.id = Row(r).id /\ d \in Copies
        BY <2>1, <2>2, <3>1 DEF Copies
      <3>3. Row(r) # None /\ Row(r).supplier = Of(r) /\ Row(r) \in Copies
        BY <3>1 DEF CatalogueInv, Reads, At, Copies
      <3>4. Of(r) = s
        BY <2>1, <3>2, <3>3 DEF CatalogueInv, IdsKept
      <3> QED
        BY <3>1, <3>4 DEF CatalogueInv, Reads
    <2>6. ASSUME Restart PROVE docs \subseteq docs'
      BY <2>1, <2>6, SeededDocs DEF Restart
    <2> QED
      BY <2>3, <2>4, <2>5, <2>6, Writers
  <1> QED
    BY <1>1, Kept, PTL DEF Spec, DeleteSparesUsers

-----------------------------------------------------------------------------
\* What a probe has built covers the log types its plugin must serve.
Served(r) == IF Code(r) \in Plugged THEN PluginLogs ELSE Held(r)[1].logs
Built(r) == req[r].pc \in {"look", "fill", "link"} /\ (Looked(r) \/ LookedTwice(r))
              => Served(r) \ Optional \subseteq Held(r)[2]
AllBuilt == \A r \in Requests : Built(r)

\* Only a step of its own changes a request, but for a restart.
LEMMA OwnStep ==
    ASSUME CatalogueInv, CatalogueInv', Next, NEW r \in Requests
    PROVE  req'[r] = req[r] \/ req'[r].pc \in {"idle", "done"} \/ Step(r)
  <1>1. CASE Restart
    <2>1. req'[r] = IF At(r, "idle") THEN Idle ELSE [Idle EXCEPT !.pc = "done"]
      BY <1>1 DEF Restart
    <2> QED
      BY <2>1 DEF Idle
  <1>2. ASSUME NEW s \in Suppliers, ScenarioStarts(s) \/ ScenarioChanges(s) PROVE req' = req
    BY <1>2 DEF ScenarioStarts, ScenarioChanges
  <1>3. ASSUME NEW q \in Requests, Step(q), q # r PROVE req'[r] = req[r]
    <2>1. \E f : req' = [req EXCEPT ![q] = f]
      BY <1>3 DEF Step, Arrive, LookupHit, LookupRead, LookupFill, CodesRead, CodesFill, ReadRow,
                  NoAnswer, CreateCheck, Save, Written, DeleteCheck, DeleteOne, Invalidate, Upload,
                  Ingest, Infer, Reread, Load, Link, AfterLookup, Answer, Goes, GoesWith, GoesHolding
    <2> QED
      BY <1>3, <2>1
  <1> QED
    BY <1>1, <1>2, <1>3 DEF Next

\* One more configuration leaves what was built as it was.
LEMMA BuiltKept ==
    ASSUME NEW r \in Requests, NEW c \in Config, Held(r) \in Holdings, NoHold(r) \/ Looked(r),
           req'[r].ask = req[r].ask, req'[r].held = Append(Held(r), c),
           Looked(r) => Served(r) \ Optional \subseteq Held(r)[2]
    PROVE  Built(r)'
  <1>1. CASE NoHold(r)
    <2>1. Held(r)' = <<c>>
      BY <1>1, OneMore DEF NoHold, Holding, Held
    <2>2. ~(Looked(r)' \/ LookedTwice(r)')
      BY <2>1 DEF Looked, LookedTwice
    <2> QED
      BY <2>2 DEF Built
  <1>2. CASE Looked(r)
    <2>1. PICK e \in Config, b \in SUBSET LogTypes : Held(r) = <<e, b>>
      BY <1>2 DEF Looked
    <2>2. Held(r)' = <<e, b, c>>
      BY <2>1, OneMore DEF Holding, Held
    <2>3. Held(r)[1] = e /\ Held(r)[2] = b /\ Held(r)'[1] = e /\ Held(r)'[2] = b
      BY <2>1, <2>2
    <2>4. Served(r)' = Served(r)
      BY <2>3 DEF Served, Code, Of
    <2> QED
      BY <1>2, <2>3, <2>4 DEF Built
  <1> QED
    BY <1>1, <1>2

LEMMA PcAfter ==
    ASSUME req \in [Requests -> Request], NEW r \in Requests, NEW to, NEW x,
           Goes(r, to) \/ GoesWith(r, to, x) \/ GoesHolding(r, to, x)
    PROVE  req'[r].pc = to
  BY DEF Goes, GoesWith, GoesHolding, Request

LEMMA BuiltStep ==
    ASSUME CatalogueInv, CatalogueInv', AllBuilt, NEW r \in Requests, Step(r)
    PROVE  Built(r)'
  <1>1. Held(r) \in Holdings /\ req \in [Requests -> Request]
    BY RequestFields DEF CatalogueInv, Held
  <1>2. ASSUME NEW what, Answer(r, what) PROVE Built(r)'
    BY <1>1, <1>2, Answered DEF Built
  <1>3. ASSUME Looking(r), NEW c \in Config, req'[r].ask = req[r].ask,
               req'[r].held = Append(Held(r), c)
        PROVE  Built(r)'
    <2>1. NoHold(r) \/ Looked(r)
      BY <1>3, LooksUp
    <2>2. At(r, "new") => NoHold(r)
      BY DEF CatalogueInv, Holds, At
    <2>3. Looked(r) /\ NoHold(r) => FALSE
      BY DEF Looked, NoHold
    <2> QED
      BY <1>1, <1>3, <2>1, <2>2, <2>3, BuiltKept DEF AllBuilt, Built, Looking, At
  <1>4. CASE LookupHit(r)
    <2>1. Looking(r) /\ cache[Of(r)] # None /\ AfterLookup(r, Append(Held(r), cache[Of(r)]))
      BY <1>4 DEF LookupHit
    <2>2. cache[Of(r)] \in Config
      BY <2>1, LooksUp, Asked DEF CatalogueInv, StoresOK
    <2>3. CASE Kind(r) = "probe"
      <3>1. req'[r].ask = req[r].ask /\ req'[r].held = Append(Held(r), cache[Of(r)])
        BY <1>1, <2>1, <2>3 DEF AfterLookup, Request
      <3> QED
        BY <1>3, <2>1, <2>2, <3>1
    <2> QED
      BY <1>2, <2>1, <2>3 DEF AfterLookup
  <1>5. CASE LookupRead(r)
    <2>1. PICK found \in {Resolve(Of(r)), Seed(Of(r))} :
            IF found = None THEN Answer(r, "unknown") ELSE GoesHolding(r, "fill", found)
      BY <1>5 DEF LookupRead
    <2>2. CASE found # None
      <3>1. Looking(r) /\ found \in Config
        BY <1>5, <2>2, LooksUp, Asked, Resolved DEF LookupRead, CatalogueInv, StoresOK
      <3>2. req'[r].ask = req[r].ask /\ req'[r].held = Append(Held(r), found)
        BY <1>1, <2>1, <2>2, <3>1, GoneHolding DEF Places, Holding, Held
      <3> QED
        BY <1>3, <3>1, <3>2
    <2> QED
      BY <1>2, <2>1, <2>2
  <1>6. CASE LookupFill(r)
    <2>1. req[r].pc = "fill" /\ AfterLookup(r, Held(r))
      BY <1>6 DEF LookupFill, At
    <2>2. CASE Kind(r) = "probe"
      <3>1. req'[r].ask = req[r].ask /\ req'[r].held = Held(r)
        BY <1>1, <2>1, <2>2 DEF AfterLookup, Request
      <3> QED
        BY <2>1, <3>1 DEF AllBuilt, Built, Looked, LookedTwice, Served, Code, Of, Held
    <2> QED
      BY <1>2, <2>1, <2>2 DEF AfterLookup
  <1>7. CASE Load(r)
    <2> DEFINE served == IF Code(r) \in Plugged THEN PluginLogs ELSE Held(r)[1].logs
               built == {lt \in served : <<Code(r), lt>> \in disk}
    <2>1. PICK c \in Config : Held(r) = <<c>>
      BY <1>7 DEF Load, At, CatalogueInv, Holds, OneConfig
    <2>2. CASE served \ Optional \subseteq built /\ GoesHolding(r, "look", built)
      <3>1. built \in SUBSET LogTypes
        BY <2>1, ConfigsKept, CatalogueAssumption
      <3> HIDE DEF built
      <3>2. req'[r].ask = req[r].ask /\ req'[r].held = Append(Held(r), built)
        BY <1>1, <2>2, <3>1, GoneHolding DEF Places, Holding, Held
      <3>3. Held(r)' = <<c, built>>
        BY <1>1, <2>1, <3>1, <3>2, OneMore DEF Holding, Held
      <3>4. Held(r)[1] = c /\ Held(r)'[1] = c /\ Held(r)'[2] = built
        BY <2>1, <3>3
      <3>5. Served(r)' = served
        BY <3>2, <3>4 DEF Served, Code, Of
      <3> QED
        BY <2>2, <3>4, <3>5 DEF Built
    <2> HIDE DEF built
    <2> QED
      BY <1>2, <1>7, <2>2 DEF Load, built
  <1>8. CASE ReadRow(r)
    <2>1. NoHold(r) /\ (req'[r].held = req[r].held \/ \E what : Answer(r, what))
      <3>1. NoHold(r) /\ ((\E what : Answer(r, what)) \/ \E to, d : GoesWith(r, to, d))
        BY <1>8 DEF ReadRow, At, CatalogueInv, Holds
      <3>2. ASSUME NEW to, NEW d, GoesWith(r, to, d) PROVE req'[r].held = req[r].held
        BY <1>1, <3>2 DEF GoesWith, Request
      <3> QED
        BY <3>1, <3>2
    <2>2. Held(r)' = <<>> => ~(Looked(r)' \/ LookedTwice(r)')
      BY DEF Looked, LookedTwice
    <2> QED
      BY <1>2, <2>1, <2>2 DEF Built, NoHold, Held
  <1>9. CASE \/ Arrive(r) \/ CodesRead(r) \/ CodesFill(r) \/ NoAnswer(r) \/ CreateCheck(r)
             \/ Save(r) \/ DeleteCheck(r) \/ DeleteOne(r) \/ Invalidate(r) \/ Upload(r)
             \/ Ingest(r) \/ Infer(r) \/ Reread(r) \/ Link(r)
    <2>1. \/ \E what : Answer(r, what)
          \/ \E a \in Asks : req' = [req EXCEPT ![r].pc = "new", ![r].ask = a]
          \/ \E to \in {"fill codes", "save", "invalidate", "remove", "reread"} : \E x :
               Goes(r, to) \/ GoesWith(r, to, x) \/ GoesHolding(r, to, x)
      <3>1. CASE Arrive(r) \/ CodesRead(r) \/ CodesFill(r) \/ NoAnswer(r) \/ CreateCheck(r)
        BY <3>1 DEF Arrive, CodesRead, CodesFill, NoAnswer, CreateCheck
      <3>2. CASE Save(r) \/ DeleteCheck(r) \/ DeleteOne(r) \/ Invalidate(r) \/ Upload(r)
        BY <3>2 DEF Save, Written, AfterSave, DeleteCheck, DeleteOne, Invalidate, Upload
      <3>3. CASE Ingest(r) \/ Infer(r) \/ Reread(r) \/ Link(r)
        BY <3>3 DEF Ingest, Infer, Reread, Link
      <3> QED
        BY <1>9, <3>1, <3>2, <3>3
    <2>2. (\E what : Answer(r, what)) \/ req'[r].pc \notin {"look", "fill", "link"}
      BY <1>1, <2>1, PcAfter DEF Request
    <2> QED
      BY <1>2, <2>2 DEF Built
  <1> QED
    BY <1>4, <1>5, <1>6, <1>7, <1>8, <1>9 DEF Step

LEMMA KeptBuilt == Spec => []AllBuilt
  <1>1. Init => AllBuilt
    BY DEF Init, Idle, AllBuilt, Built
  <1>2. CatalogueInv /\ CatalogueInv' /\ AllBuilt /\ [Next]_vars => AllBuilt'
    <2> SUFFICES ASSUME CatalogueInv, CatalogueInv', AllBuilt, [Next]_vars, NEW r \in Requests
                 PROVE  Built(r)'
      BY DEF AllBuilt
    <2>1. CASE req'[r] = req[r]
      BY <2>1 DEF AllBuilt, Built, Looked, LookedTwice, Served, Code, Of, Held
    <2>2. CASE req'[r].pc \in {"idle", "done"}
      BY <2>2 DEF Built
    <2> QED
      BY <2>1, <2>2, OwnStep, BuiltStep DEF vars
  <1> QED
    BY <1>1, <1>2, Kept, PTL DEF Spec

\* A supplier whose readiness shows nothing blocking builds a scenario, given that
\* the build works from the configuration that readiness judged: every log type
\* the plugin must serve has its template, so the mutation makes its rates and the
\* linkage finds them; what readiness does not look at is listed in the property.
THEOREM ReadySuppliersBuild == Spec => ReadyBuilds
  <1> DEFINE c(r) == ToModel(Row(r).config)
             Amiss(r) == \/ ~Ready(Of(r), c(r))
                         \/ \E i \in {1, 3} \cap DOMAIN Held(r) : Held(r)[i] # c(r)
                         \/ "Packages" \notin c(r).logs \cap c(r).mutable
                         \/ IF Code(r) \in Plugged THEN ~(PluginLogs \ Optional \subseteq c(r).logs)
                            ELSE c(r).path = "wrong" \/ c(r).boards = "some"
             Builds == \A r \in Requests : req[r].pc \in {"load", "link"} /\ At(r, "failed")'
                                             => Amiss(r)
  <1>1. CatalogueInv /\ CatalogueInv' /\ AllBuilt /\ [Next]_vars => [Builds]_vars
    <2> SUFFICES ASSUME CatalogueInv, CatalogueInv', AllBuilt, Next, NEW r \in Requests,
                        req[r].pc \in {"load", "link"}, At(r, "failed")', ~Amiss(r)
                 PROVE  FALSE
      OBVIOUS
    <2>1. PICK e \in Config : /\ Held(r)[1] = e /\ 1 \in DOMAIN Held(r)
                              /\ At(r, "load") => Held(r) = <<e>>
      <3>1. CASE At(r, "load")
        <4>1. PICK e \in Config : Held(r) = <<e>>
          BY <3>1 DEF CatalogueInv, Holds, At, OneConfig
        <4>2. Held(r)[1] = e /\ 1 \in DOMAIN Held(r)
          BY <4>1
        <4> QED
          BY <4>1, <4>2
      <3>2. CASE At(r, "link")
        <4>1. PICK e \in Config, d \in Config, b \in SUBSET LogTypes : Held(r) = <<e, b, d>>
          BY <3>2 DEF CatalogueInv, Holds, LookedTwice
        <4>2. Held(r)[1] = e /\ 1 \in DOMAIN Held(r)
          BY <4>1
        <4> QED
          BY <3>2, <4>2 DEF At
      <3> QED
        BY <3>1, <3>2 DEF At
    <2>2. /\ e.linked /\ Missing(Of(r), e) = {} /\ (Code(r) \in Plugged \/ e.path # "")
          /\ "Packages" \in e.logs /\ "Packages" \in e.mutable
          /\ Code(r) \in Plugged => PluginLogs \ Optional \subseteq e.logs
          /\ Code(r) \notin Plugged => e.path # "wrong" /\ e.boards # "some"
      BY <2>1 DEF Ready, Code, Of
    <2>3. /\ \A lt \in e.logs \ Optional : <<Code(r), lt>> \in disk
          /\ "Packages" \in Served(r) \ Optional
          /\ Served(r) \ Optional \subseteq e.logs
          /\ Code(r) \notin Plugged => e.path = "right"
      BY <2>1, <2>2, CatalogueAssumption DEF Missing, Code, Served, Config, Optional
    <2>4. req'[r].pc = "failed" /\ req \in [Requests -> Request]
      BY DEF At, CatalogueInv
    <2>5. CASE At(r, "load")
      <3>1. Load(r)
        BY <2>4, <2>5, OwnStep DEF Step, At, Arrive, LookupHit, LookupRead, Looking, LookupFill,
             CodesRead, CodesFill, ReadRow, NoAnswer, CreateCheck, Save, DeleteCheck, DeleteOne,
             Invalidate, Upload, Ingest, Infer, Reread, Link
      <3> DEFINE built == {lt \in Served(r) : <<Code(r), lt>> \in disk}
      <3>2. built # {} /\ Served(r) \ Optional \subseteq built
        BY <2>3
      <3> HIDE DEF built
      <3>3. GoesHolding(r, "look", built)
        BY <3>1, <3>2 DEF Load, Served, built
      <3> QED
        BY <2>4, <3>3, PcAfter
    <2>6. CASE At(r, "link")
      <3>1. Link(r)
        BY <2>4, <2>6, OwnStep DEF Step, At, Arrive, LookupHit, LookupRead, Looking, LookupFill,
             CodesRead, CodesFill, ReadRow, NoAnswer, CreateCheck, Save, DeleteCheck, DeleteOne,
             Invalidate, Upload, Ingest, Infer, Reread, Load
      <3>2. Held(r)[3] = e
        <4>1. 3 \in DOMAIN Held(r)
          <5>1. PICK x \in Config, d \in Config, b \in SUBSET LogTypes : Held(r) = <<x, b, d>>
            BY <2>6 DEF CatalogueInv, Holds, LookedTwice
          <5> QED
            BY <5>1
        <4> QED
          BY <2>1, <4>1
      <3>3. Cloned(r)
        BY <2>1, <2>2, <2>3 DEF Cloned
      <3>4. "Packages" \in Held(r)[2]
        BY <2>3, <2>6 DEF AllBuilt, Built, CatalogueInv, Holds, At
      <3>5. ~Refused(r)
        BY <2>2, <2>3, <3>2, <3>4 DEF Refused
      <3>6. Answer(r, "ok")
        BY <3>1, <3>3, <3>5 DEF Link
      <3> QED
        BY <2>4, <3>6 DEF Answer, Failures, Idle
    <2> QED
      BY <2>5, <2>6 DEF At
  <1> QED
    BY <1>1, Kept, KeptBuilt, PTL DEF Spec, ReadyBuilds

-----------------------------------------------------------------------------
\* What a step writes, and what it leaves.

LEMMA SameRows ==
    ASSUME NEW s, RowsOf(s)' = RowsOf(s)
    PROVE  RowOf(s)' = RowOf(s)
  BY DEF RowOf

\* A restart changes no row there is, a write none of another supplier.
LEMMA RestartKeepsRows ==
    ASSUME CatalogueInv, Restart, NEW s \in Suppliers, RowOf(s) # None
    PROVE  RowOf(s)' = RowOf(s)
  <1>1. docs \subseteq Documents /\ docs' = Seeded(docs)
    BY DEF Restart, CatalogueInv, StoresOK
  <1>2. RowOf(s) \in docs /\ RowOf(s).supplier = s
    BY <1>1, RowLookup
  <1>3. docs \subseteq docs' /\ \A d \in docs' \ docs : d.supplier # s
    BY <1>1, <1>2, SeededDocs
  <1>4. RowsOf(s)' = RowsOf(s)
    BY <1>3 DEF RowsOf
  <1> QED
    BY <1>4, SameRows

LEMMA WriteKeepsOthers ==
    ASSUME CatalogueInv, NEW r \in Requests, Save(r) \/ DeleteOne(r), NEW s, s # Of(r)
    PROVE  RowsOf(s)' = RowsOf(s) /\ RowOf(s)' = RowOf(s)
  <1>1. CASE UNCHANGED docs
    <2>1. RowsOf(s)' = RowsOf(s)
      BY <1>1 DEF RowsOf
    <2> QED
      BY <2>1, SameRows
  <1>2. CASE ~UNCHANGED docs
    <2>1. Row(r) \in Copies /\ Row(r).supplier = Of(r)
      <3>1. req[r].pc \in {"save", "remove"}
        BY DEF Save, DeleteOne, At
      <3> QED
        BY <3>1 DEF CatalogueInv, Reads, Copies
    <2>2. \A d \in docs : d.id = Row(r).id => d.supplier # s
      BY <2>1 DEF CatalogueInv, IdsKept, Copies
    <2>3. CASE Save(r)
      <3>1. docs' = {d \in docs : d.id # NewRow(r).id} \cup {NewRow(r)}
        BY <1>2, <2>3 DEF Save, Written
      <3>2. NewRow(r).id = Row(r).id /\ NewRow(r).supplier # s
        BY <2>1, <2>3, SavedRow DEF Save
      <3>3. RowsOf(s)' = RowsOf(s)
        BY <2>2, <3>1, <3>2 DEF RowsOf
      <3> QED
        BY <3>3, SameRows
    <2>4. CASE DeleteOne(r)
      <3>1. docs' = {d \in docs : d.id # Row(r).id}
        BY <1>2, <2>4 DEF DeleteOne, Written
      <3>2. RowsOf(s)' = RowsOf(s)
        BY <2>2, <3>1 DEF RowsOf
      <3> QED
        BY <3>2, SameRows
    <2> QED
      BY <2>3, <2>4
  <1> QED
    BY <1>1, <1>2

\* How a step leaves the request it serves.
LEMMA Shapes ==
    ASSUME CatalogueInv, NEW r \in Requests, Step(r)
    PROVE  \/ \E what : Answer(r, what)
           \/ \E a \in Asks : req' = [req EXCEPT ![r].pc = "new", ![r].ask = a]
           \/ \E to : Goes(r, to)
           \/ \E to, x : GoesHolding(r, to, x)
           \/ \E to : RowOf(Of(r)) \in docs /\ GoesWith(r, to, RowOf(Of(r)))
           \/ CreateCheck(r) /\ \E d : d.id = r /\ GoesWith(r, "save", d)
           \/ \E to, h : req' = [req EXCEPT ![r].pc = to, ![r].held = h]
  <1>1. CASE Arrive(r) \/ LookupHit(r) \/ LookupRead(r) \/ LookupFill(r) \/ CodesRead(r) \/ CodesFill(r)
    BY <1>1 DEF Arrive, LookupHit, LookupRead, LookupFill, AfterLookup, CodesRead, CodesFill
  <1>2. CASE ReadRow(r) \/ NoAnswer(r) \/ Reread(r)
    <2>1. RowOf(Of(r)) # None => RowOf(Of(r)) \in docs
      <3>1. req[r].pc \notin Idling
        BY <1>2 DEF ReadRow, NoAnswer, Reread, At, Idling
      <3> QED
        BY <3>1, Asked, RowLookup DEF CatalogueInv, StoresOK
    <2> QED
      BY <1>2, <2>1 DEF ReadRow, NoAnswer, Reread
  <1>3. CASE CreateCheck(r)
    BY <1>3 DEF CreateCheck
  <1>4. CASE Save(r) \/ DeleteCheck(r) \/ DeleteOne(r) \/ Invalidate(r) \/ Upload(r)
    BY <1>4 DEF Save, Written, DeleteCheck, DeleteOne, Invalidate, Upload
  <1>5. CASE Ingest(r) \/ Infer(r) \/ Load(r) \/ Link(r)
    BY <1>5 DEF Ingest, Infer, Load, Link
  <1> QED
    BY <1>1, <1>2, <1>3, <1>4, <1>5 DEF Step

LEMMA RowAfter ==
    ASSUME CatalogueInv, NEW r \in Requests, Step(r)
    PROVE  /\ Others(r)
           /\ \/ Row(r)' \in {None, Row(r)} \cup docs
              \/ Row(r)'.id = r
  <1>1. req \in [Requests -> Request]
    BY DEF CatalogueInv
  <1>2. req[r] \in Request
    BY <1>1
  <1>3. CASE \E what : Answer(r, what)
    BY <1>1, <1>3, Answered DEF Row
  <1>4. CASE (\E to : Goes(r, to)) \/ (\E to, x : GoesHolding(r, to, x))
    BY <1>1, <1>2, <1>4 DEF Goes, GoesHolding, Others, Row, Request
  <1>5. CASE \E to : RowOf(Of(r)) \in docs /\ GoesWith(r, to, RowOf(Of(r)))
    BY <1>1, <1>2, <1>5 DEF GoesWith, Others, Row, Request
  <1>6. CASE \E d : d.id = r /\ GoesWith(r, "save", d)
    BY <1>1, <1>2, <1>6 DEF GoesWith, Others, Row, Request
  <1>7. CASE \/ \E a \in Asks : req' = [req EXCEPT ![r].pc = "new", ![r].ask = a]
             \/ \E to, h : req' = [req EXCEPT ![r].pc = to, ![r].held = h]
    BY <1>1, <1>2, <1>7 DEF Others, Row, Request
  <1> QED
    BY <1>3, <1>4, <1>5, <1>6, <1>7, Shapes

-----------------------------------------------------------------------------
\* Edits are kept: what the generation of a field map has read of a row is still
\* what the row says, unless a write has overtaken it; and a create finds its own
\* id in no row, so that it never writes over one.
Agree(a, b) == /\ a.type = b.type /\ a.linked = b.linked /\ a.logs = b.logs
               /\ a.mutable = b.mutable /\ a.path = b.path /\ a.boards = b.boards
               /\ a.source = b.source
HasRead(r) == IF At(r, "infer") THEN ToModel(Row(r).config) ELSE Last(Held(r))
Unedited(r) == \A s \in Suppliers :
    req[r].pc \in {"infer", "reread", "save"} /\ Kind(r) = "map" /\ r \notin overtaken
    /\ Of(r) = s /\ RowOf(s) # None => Agree(HasRead(r), ToModel(RowOf(s).config))
FreshId(r) ==
    At(r, "save") /\ Kind(r) = "create"
      => /\ Row(r).id = r /\ \A d \in docs : d.id # r
         /\ \A q \in Requests \ {r} : Row(q) # None => Row(q).id # r
Tidy == \A d \in docs : d.config.mutable \subseteq d.config.logs
EditInv == Tidy /\ \A r \in Requests : Unedited(r) /\ FreshId(r)

LEMMA Agreeing ==
    ASSUME NEW a \in Config, NEW b \in Config, Agree(a, b)
    PROVE  a = [b EXCEPT !.map = a.map]
  BY DEF Agree, Config

\* To a row and back a configuration of the catalogue stays what it is.
LEMMA ThereAndBack ==
    ASSUME NEW c \in Config, NEW d \in Config, c.mutable \subseteq c.logs, Agree(d, ToModel(c))
    PROVE  Agree(ToModel(ToRow(d)), ToModel(c))
  <1>1. ToModel(c).mutable = (IF c.mutable = {} THEN {"Packages"} ELSE c.mutable)
        /\ ToModel(c).logs = c.logs
    BY DEF ToModel, Config
  <1>2. /\ d.mutable = (IF c.mutable = {} THEN {"Packages"} ELSE c.mutable) /\ d.logs = c.logs
    BY <1>1 DEF Agree
  <1>3. ToRow(d) = [d EXCEPT !.mutable = d.mutable \cap d.logs]
    BY DEF ToRow
  <1>4. ToModel(ToRow(d)) = [d EXCEPT !.mutable = IF d.mutable \cap d.logs = {} THEN {"Packages"}
                                                   ELSE d.mutable \cap d.logs]
    BY <1>3 DEF ToModel, Config
  <1>5. (IF d.mutable \cap d.logs = {} THEN {"Packages"} ELSE d.mutable \cap d.logs) = d.mutable
    BY <1>2
  <1>6. ToModel(ToRow(d)) = [d EXCEPT !.mutable = d.mutable]
    BY <1>4, <1>5
  <1>7. d = [d EXCEPT !.mutable = d.mutable]
    BY DEF Config
  <1> QED
    BY <1>6, <1>7

LEMMA TidyStep ==
    ASSUME CatalogueInv, Next, Tidy
    PROVE  Tidy'
  <1>1. CASE UNCHANGED docs
    BY <1>1 DEF Tidy
  <1>2. CASE Restart
    BY <1>2, CatalogueAssumption DEF Restart, Seeded, Tidy
  <1>3. ASSUME NEW r \in Requests, Save(r), ~UNCHANGED docs PROVE Tidy'
    <2>1. At(r, "save") /\ docs' = {d \in docs : d.id # NewRow(r).id} \cup {NewRow(r)}
      BY <1>3 DEF Save, Written
    <2>2. \E c \in Config : NewRow(r).config = ToRow(c)
      <3>1. Kind(r) # "map" => req[r].ask.payload \in Config
        BY <2>1, Asked DEF CatalogueInv, Reads, At, Idling
      <3> QED
        BY <2>1, <3>1, SavedRow
    <2>3. \A c \in Config : ToRow(c).mutable \subseteq ToRow(c).logs
      BY DEF ToRow, Config
    <2> QED
      BY <2>1, <2>2, <2>3 DEF Tidy
  <1>4. ASSUME NEW r \in Requests, DeleteOne(r), ~UNCHANGED docs PROVE Tidy'
    BY <1>4 DEF DeleteOne, Written, Tidy
  <1> QED
    BY <1>1, <1>2, <1>3, <1>4, Writers

\* Nothing but its own step or a restart makes a request forget that it was overtaken,
\* and a write overtakes the generations of that supplier's field map.
LEMMA OvertakenStep ==
    ASSUME CatalogueInv, NEW r \in Requests, Step(r), NEW q \in Requests, q # r,
           NEW s, s = Of(q)
    PROVE  /\ q \in overtaken => q \in overtaken'
           /\ \/ RowOf(s)' = RowOf(s)
              \/ q \in overtaken'
              \/ ~(req[q].pc \in {"infer", "reread", "save"} /\ Kind(q) = "map")
  <1>1. CASE Save(r) \/ DeleteOne(r)
    <2>1. UNCHANGED <<docs, overtaken>> \/ overtaken' = (overtaken \cup Overtakes(r, Of(r))) \ {r}
      BY <1>1 DEF Save, DeleteOne, Written
    <2>2. q \in overtaken => q \in overtaken'
      BY <2>1
    <2>3. CASE UNCHANGED <<docs, overtaken>>
      <3>1. RowsOf(s)' = RowsOf(s)
        BY <2>3 DEF RowsOf
      <3> QED
        BY <2>2, <3>1, SameRows
    <2>4. CASE s # Of(r)
      BY <1>1, <2>2, <2>4, WriteKeepsOthers
    <2>5. CASE s = Of(r) /\ ~UNCHANGED <<docs, overtaken>>
      BY <2>1, <2>2, <2>5 DEF Overtakes
    <2> QED
      BY <2>3, <2>4, <2>5
  <1>2. CASE ~(Save(r) \/ DeleteOne(r))
    <2>1. UNCHANGED docs /\ (q \in overtaken => q \in overtaken')
      BY <1>2 DEF Step, Arrive, LookupHit, LookupRead, LookupFill, CodesRead, CodesFill, ReadRow,
                  NoAnswer, CreateCheck, DeleteCheck, Invalidate, Upload, Ingest, Infer, Reread,
                  Load, Link
    <2>2. RowsOf(s)' = RowsOf(s)
      BY <2>1 DEF RowsOf
    <2> QED
      BY <2>1, <2>2, SameRows
  <1> QED
    BY <1>1, <1>2

\* Where a step leads that does not read or make a row.
LEMMA NoSave ==
    ASSUME CatalogueInv, NEW r \in Requests, Step(r),
           ~(ReadRow(r) \/ Infer(r) \/ Reread(r) \/ CreateCheck(r))
    PROVE  req'[r].pc \notin {"infer", "reread", "save"}
  <1>0. req \in [Requests -> Request]
    BY DEF CatalogueInv
  <1>1. \/ \E what : Answer(r, what)
        \/ \E a \in Asks : req' = [req EXCEPT ![r].pc = "new", ![r].ask = a]
        \/ \E to \in {"fill", "fill codes", "look", "invalidate", "remove"} : \E x :
             Goes(r, to) \/ GoesHolding(r, to, x)
        \/ \E to \in {"load", "link"} : \E h : req' = [req EXCEPT ![r].pc = to, ![r].held = h]
    <2>1. CASE Arrive(r) \/ LookupHit(r) \/ LookupRead(r) \/ LookupFill(r)
      BY <2>1 DEF Arrive, LookupHit, LookupRead, LookupFill, AfterLookup
    <2>2. CASE CodesRead(r) \/ CodesFill(r) \/ NoAnswer(r)
      BY <2>2 DEF CodesRead, CodesFill, NoAnswer
    <2>3. CASE Save(r) \/ DeleteCheck(r) \/ DeleteOne(r) \/ Invalidate(r) \/ Upload(r)
      BY <2>3 DEF Save, Written, AfterSave, DeleteCheck, DeleteOne, Invalidate, Upload
    <2>4. CASE Ingest(r) \/ Load(r) \/ Link(r)
      BY <2>4 DEF Ingest, Load, Link
    <2> QED
      BY <2>1, <2>2, <2>3, <2>4 DEF Step
  <1>2. (\E what : Answer(r, what)) \/ req'[r].pc \notin {"infer", "reread", "save"}
    BY <1>0, <1>1, PcAfter DEF Request
  <1> QED
    BY <1>0, <1>2, Answered

\* The generation of a field map reads a row and keeps all of it but the map.
LEMMA UneditedOwn ==
    ASSUME CatalogueInv, EditInv, NEW r \in Requests, Step(r)
    PROVE  Unedited(r)'
  <1>1. req \in [Requests -> Request] /\ req[r] \in Request
    BY DEF CatalogueInv
  <1>2. ASSUME NEW s, s = Of(r), req'[r].ask = req[r].ask, UNCHANGED <<docs, overtaken>>
        PROVE  RowOf(s)' = RowOf(s) /\ Of(r)' = s /\ Kind(r)' = Kind(r)
    <2>1. RowsOf(s)' = RowsOf(s)
      BY <1>2 DEF RowsOf
    <2> QED
      BY <1>2, <2>1, SameRows DEF Of, Kind
  <1>3. CASE ReadRow(r)
    <2>1. req[r].pc = "new" /\ UNCHANGED <<docs, overtaken>> /\ Kind(r) # "create"
      BY <1>3 DEF ReadRow, At, caches
    <2>2. CASE \E what : Answer(r, what)
      BY <1>1, <2>2, Answered DEF Unedited
    <2>3. CASE ~(\E what : Answer(r, what))
      <3>0. PICK s : s = Of(r)
        OBVIOUS
      <3> DEFINE to == AfterReading(r, RowOf(s).config)
      <3>1. RowOf(s) # None /\ GoesWith(r, to, RowOf(s))
        BY <1>3, <2>3, <3>0 DEF ReadRow
      <3>2. Kind(r) = "map" => to = "infer"
        BY DEF AfterReading
      <3> HIDE DEF to
      <3>3. /\ req'[r].pc = to /\ req'[r].ask = req[r].ask /\ req'[r].row = RowOf(s)
        BY <1>1, <3>1 DEF GoesWith, Request
      <3>4. RowOf(s)' = RowOf(s) /\ Of(r)' = s /\ Kind(r)' = Kind(r)
        BY <1>2, <2>1, <3>0, <3>3
      <3>5. Kind(r) = "map" => HasRead(r)' = ToModel(RowOf(s).config)
        BY <3>2, <3>3 DEF HasRead, At, Row
      <3> QED
        BY <3>4, <3>5 DEF Agree, Unedited
    <2> QED
      BY <2>2, <2>3
  <1>4. CASE Infer(r)
    <2>0. PICK s : s = Of(r)
      OBVIOUS
    <2> DEFINE c == ToModel(Row(r).config)
               d == [c EXCEPT !.map = {lt \in c.logs : <<Code(r), lt>> \in disk}]
    <2>1. /\ req[r].pc = "infer" /\ UNCHANGED <<docs, overtaken>>
          /\ GoesHolding(r, "reread", d)
      BY <1>4 DEF Infer, At, caches
    <2>2. Held(r) = <<>> /\ Row(r) \in Documents
      BY <2>1, RequestFields DEF CatalogueInv, Holds, Reads, NoHold, Row
    <2>3. c \in Config
      BY <2>2, ConfigsKept DEF Documents
    <2>4. d \in Config /\ Agree(d, c)
      <3>1. {lt \in c.logs : <<Code(r), lt>> \in disk} \in SUBSET LogTypes
        BY <2>3, ConfigsKept
      <3> HIDE DEF c
      <3>2. d \in Config
        BY <2>3, <3>1, ConfigsKept
      <3> QED
        BY <2>3, <3>2 DEF Agree, Config
    <2> HIDE DEF d
    <2>5. /\ req'[r].pc = "reread" /\ req'[r].ask = req[r].ask
          /\ req'[r].held = Append(Held(r), d)
      BY <1>1, <2>1, <2>4, GoneHolding DEF Places, Holding, Held
    <2>6. Held(r)' = <<d>>
      <3>1. Held(r) \in Holdings
        BY RequestFields DEF CatalogueInv, Held
      <3> QED
        BY <2>2, <2>4, <2>5, <3>1, OneMore DEF Holding, Held
    <2>7. Last(Held(r)') = d
      BY <2>6, LastHeld
    <2>8. HasRead(r)' = d
      BY <2>5, <2>7 DEF HasRead, At
    <2>9. HasRead(r) = c
      BY <2>1 DEF HasRead, At
    <2> HIDE DEF c
    <2>10. RowOf(s)' = RowOf(s) /\ Of(r)' = s /\ Kind(r)' = Kind(r)
      BY <1>2, <2>0, <2>1, <2>5
    <2>11. ASSUME s \in Suppliers, Kind(r) = "map", r \notin overtaken, RowOf(s) # None
           PROVE  Agree(d, ToModel(RowOf(s).config))
      <3>1. Agree(c, ToModel(RowOf(s).config))
        BY <2>0, <2>1, <2>9, <2>11 DEF EditInv, Unedited
      <3> QED
        BY <2>4, <3>1 DEF Agree
    <2> QED
      BY <2>1, <2>8, <2>10, <2>11 DEF Unedited
  <1>5. CASE Reread(r)
    <2>0. PICK s : s = Of(r)
      OBVIOUS
    <2>1. req[r].pc = "reread" /\ UNCHANGED <<docs, overtaken>>
      BY <1>5 DEF Reread, At, caches
    <2>2. CASE \E what : Answer(r, what)
      BY <1>1, <2>2, Answered DEF Unedited
    <2>3. CASE \E d : GoesWith(r, "save", d)
      <3>1. /\ req'[r].pc = "save" /\ req'[r].ask = req[r].ask /\ req'[r].held = req[r].held
        BY <1>1, <2>3 DEF GoesWith, Request
      <3>2. HasRead(r)' = HasRead(r)
        BY <2>1, <3>1 DEF HasRead, At, Held
      <3>3. RowOf(s)' = RowOf(s) /\ Of(r)' = s /\ Kind(r)' = Kind(r)
        BY <1>2, <2>0, <2>1, <3>1
      <3> QED
        BY <2>0, <2>1, <3>2, <3>3 DEF EditInv, Unedited
    <2> QED
      BY <1>5, <2>2, <2>3 DEF Reread
  <1>6. CASE CreateCheck(r)
    <2>1. CASE \E what : Answer(r, what)
      BY <1>1, <2>1, Answered DEF Unedited
    <2>2. CASE \E d : GoesWith(r, "save", d)
      <3>1. req'[r].ask = req[r].ask /\ Kind(r) = "create"
        BY <1>1, <1>6, <2>2 DEF GoesWith, Request, CreateCheck
      <3> QED
        BY <3>1 DEF Unedited, Kind
    <2> QED
      BY <1>6, <2>1, <2>2 DEF CreateCheck
  <1>7. CASE ~(ReadRow(r) \/ Infer(r) \/ Reread(r) \/ CreateCheck(r))
    <2>1. req'[r].pc \notin {"infer", "reread", "save"}
      BY <1>7, NoSave
    <2> QED
      BY <2>1 DEF Unedited
  <1> QED
    BY <1>3, <1>4, <1>5, <1>6, <1>7

LEMMA FreshIdStep ==
    ASSUME CatalogueInv, CatalogueInv', EditInv, NEW r \in Requests, Step(r), NEW q \in Requests
    PROVE  FreshId(q)'
  <1>1. Others(r)
    BY RowAfter
  <1>2. CASE q = r
    <2>1. CASE CreateCheck(r)
      <3>1. At(r, "new") /\ UNCHANGED docs
        BY <2>1 DEF CreateCheck
      <3>2. \A e \in Copies : e.id # r
        BY <3>1 DEF CatalogueInv, IdsKept, At
      <3>3. \A p \in Requests \ {r} : Row(p)' # None => Row(p)' \in Copies
        BY <1>1 DEF Others, Row, Copies
      <3>4. At(r, "save")' => Row(r)'.id = r
        <4>1. CASE \E what : Answer(r, what)
          BY <4>1, Answered DEF CatalogueInv, At
        <4>2. CASE \E d : d.id = r /\ GoesWith(r, "save", d)
          BY <4>2 DEF GoesWith, CatalogueInv, Request, Row
        <4> QED
          BY <2>1, <4>1, <4>2 DEF CreateCheck
      <3> QED
        BY <1>2, <3>1, <3>2, <3>3, <3>4 DEF FreshId, Copies
    <2>2. CASE ~CreateCheck(r)
      <3>1. At(r, "save")' => Kind(r)' # "create"
        <4>1. req \in [Requests -> Request]
          BY DEF CatalogueInv
        <4>2. CASE ReadRow(r)
          <5>1. \/ \E what : Answer(r, what)
                \/ Kind(r) # "create" /\ \E to, d : GoesWith(r, to, d)
            BY <4>2 DEF ReadRow
          <5>2. ASSUME NEW to, NEW d, GoesWith(r, to, d) PROVE req'[r].ask = req[r].ask
            BY <4>1, <5>2 DEF GoesWith, Request
          <5> QED
            BY <4>1, <5>1, <5>2, Answered DEF At, Kind
        <4>3. CASE Reread(r)
          <5>1. \/ \E what : Answer(r, what)
                \/ Kind(r) = "map" /\ \E d : GoesWith(r, "save", d)
            BY <4>3 DEF Reread, CatalogueInv, Reads, At
          <5>2. ASSUME NEW d, GoesWith(r, "save", d) PROVE req'[r].ask = req[r].ask
            BY <4>1, <5>2 DEF GoesWith, Request
          <5> QED
            BY <4>1, <5>1, <5>2, Answered DEF At, Kind
        <4>4. CASE Infer(r)
          BY <4>1, <4>4, PcAfter DEF Infer, At
        <4>5. CASE ~(ReadRow(r) \/ Reread(r) \/ Infer(r))
          BY <2>2, <4>5, NoSave DEF At
        <4> QED
          BY <4>2, <4>3, <4>4, <4>5
      <3> QED
        BY <1>2, <3>1 DEF FreshId
    <2> QED
      BY <2>1, <2>2
  <1>3. CASE q # r
    <2> SUFFICES ASSUME At(q, "save"), Kind(q) = "create"
                 PROVE  /\ Row(q)'.id = q /\ \A d \in docs' : d.id # q
                        /\ \A p \in Requests \ {q} : Row(p)' # None => Row(p)'.id # q
      BY <1>1, <1>3 DEF FreshId, Others, At, Kind
    <2>1. /\ Row(q).id = q /\ \A d \in docs : d.id # q
          /\ \A p \in Requests \ {q} : Row(p) # None => Row(p).id # q
      BY DEF EditInv, FreshId
    <2>2. \A p \in Requests \ {r} : Row(p)' = Row(p)
      BY <1>1 DEF Others, Row
    <2>3. \A d \in docs' : d.id # q
      <3>1. CASE UNCHANGED docs
        BY <2>1, <3>1
      <3>2. CASE Save(r) /\ ~UNCHANGED docs
        <4>1. docs' = {d \in docs : d.id # NewRow(r).id} \cup {NewRow(r)} /\ At(r, "save")
          BY <3>2 DEF Save, Written
        <4>2. NewRow(r).id = Row(r).id /\ Row(r) # None
          BY <4>1, SavedRow, CatalogueAssumption
        <4> QED
          BY <1>3, <2>1, <4>1, <4>2
      <3>3. CASE DeleteOne(r)
        BY <2>1, <3>3 DEF DeleteOne, Written
      <3> QED
        BY <3>1, <3>2, <3>3, NoWrite
    <2>4. Row(r)' # None => Row(r)'.id # q
      BY <1>3, <2>1, RowAfter
    <2> QED
      BY <1>3, <2>1, <2>2, <2>3, <2>4
  <1> QED
    BY <1>2, <1>3

LEMMA EditStep ==
    ASSUME CatalogueInv, CatalogueInv', EditInv, [Next]_vars
    PROVE  EditInv'
  <1>1. CASE UNCHANGED vars
    <2>1. UNCHANGED <<docs, req, overtaken>>
      BY <1>1 DEF vars
    <2>2. \A s : RowOf(s)' = RowOf(s)
      BY <2>1 DEF RowOf, RowsOf
    <2>3. ASSUME NEW q \in Requests PROVE Unedited(q)' /\ FreshId(q)'
      BY <2>1, <2>2 DEF EditInv, Unedited, FreshId, HasRead, At, Kind, Of, Row, Held
    <2> QED
      BY <2>1, <2>3 DEF EditInv, Tidy
  <1>2. CASE Restart
    <2>1. ASSUME NEW q \in Requests PROVE req'[q].pc \in {"idle", "done"}
      BY <1>2, <2>1 DEF Restart, Idle
    <2>2. ASSUME NEW q \in Requests PROVE Unedited(q)' /\ FreshId(q)'
      BY <2>1, <2>2 DEF Unedited, FreshId, At
    <2> QED
      BY <1>2, <2>2, TidyStep DEF EditInv, Next
  <1>3. ASSUME NEW s \in Suppliers, ScenarioStarts(s) \/ ScenarioChanges(s) PROVE EditInv'
    <2>1. UNCHANGED <<docs, req, overtaken>>
      BY <1>3 DEF ScenarioStarts, ScenarioChanges
    <2>2. \A p : RowOf(p)' = RowOf(p)
      BY <2>1 DEF RowOf, RowsOf
    <2>3. ASSUME NEW q \in Requests PROVE Unedited(q)' /\ FreshId(q)'
      BY <2>1, <2>2 DEF EditInv, Unedited, FreshId, HasRead, At, Kind, Of, Row, Held
    <2> QED
      BY <2>1, <2>3 DEF EditInv, Tidy
  <1>4. ASSUME NEW r \in Requests, Step(r) PROVE EditInv'
    <2>1. ASSUME NEW q \in Requests, q # r PROVE Unedited(q)'
      <3>1. req'[q] = req[q]
        BY <1>4, <2>1, RowAfter DEF Others
      <3>2. ASSUME NEW s \in Suppliers, s = Of(q)
            PROVE  /\ q \in overtaken => q \in overtaken'
                   /\ \/ RowOf(s)' = RowOf(s)
                      \/ q \in overtaken'
                      \/ ~(req[q].pc \in {"infer", "reread", "save"} /\ Kind(q) = "map")
        BY <1>4, <2>1, <3>2, OvertakenStep
      <3>3. HasRead(q)' = HasRead(q) /\ Kind(q)' = Kind(q) /\ Of(q)' = Of(q)
        BY <3>1 DEF HasRead, At, Row, Held, Kind, Of
      <3> QED
        BY <2>1, <3>1, <3>2, <3>3 DEF EditInv, Unedited
    <2> QED
      BY <1>4, <2>1, UneditedOwn, FreshIdStep, TidyStep DEF EditInv, Next
  <1> QED
    BY <1>1, <1>2, <1>3, <1>4 DEF Next

LEMMA KeptEdits == Spec => []EditInv
  <1>1. Init => EditInv
    <2> SUFFICES ASSUME Init PROVE EditInv
      OBVIOUS
    <2>1. \A r \in Requests : req[r].pc = "idle"
      BY DEF Init, Idle
    <2>2. Tidy
      BY CatalogueAssumption DEF Init, Seeded, Tidy
    <2> QED
      BY <2>1, <2>2 DEF EditInv, Unedited, FreshId, At
  <1> QED
    BY <1>1, EditStep, Kept, PTL DEF Spec

\* Nothing undoes the edit of a row but another edit of it: a restart inserts only
\* rows that are missing, a create never meets its own id, and what the generation
\* of a field map writes back is, but for the map, what the row says, unless a
\* write has come between its reading and its save.
THEOREM EditsAreKept == Spec => EditsKept
  <1> DEFINE Was(s) == ToModel(RowOf(s).config)
             Is(s) == ToModel(RowOf(s)'.config)
             Keeps == \A s \in Suppliers :
                RowOf(s) # None /\ (RowOf(s) # None)' /\ Was(s) # [Is(s) EXCEPT !.map = Was(s).map]
                  => \E r \in Requests : /\ At(r, "save") /\ Of(r) = s
                                         /\ \/ Kind(r) = "update"
                                            \/ r \in overtaken
  <1>1. CatalogueInv /\ CatalogueInv' /\ EditInv /\ [Next]_vars => [Keeps]_vars
    <2> SUFFICES ASSUME CatalogueInv, CatalogueInv', EditInv, Next, NEW s \in Suppliers,
                        RowOf(s) # None, (RowOf(s) # None)',
                        Was(s) # [Is(s) EXCEPT !.map = Was(s).map]
                 PROVE  \E r \in Requests : /\ At(r, "save") /\ Of(r) = s
                                            /\ \/ Kind(r) = "update"
                                               \/ r \in overtaken
      BY DEF Keeps
    <2>1. /\ docs \subseteq Documents /\ docs' \subseteq Documents
          /\ RowOf(s) \in docs /\ RowOf(s) \in Documents /\ RowOf(s).supplier = s
      BY RowLookup DEF CatalogueInv, StoresOK
    <2>2. Was(s) \in Config /\ RowOf(s).config \in Config
      BY <2>1, ConfigsKept DEF Documents
    <2>3. RowOf(s)' # RowOf(s)
      <3>1. Was(s) = [Was(s) EXCEPT !.map = Was(s).map]
        BY <2>2 DEF Config
      <3> QED
        BY <3>1
    <2>4. RowOf(s)' \in RowsOf(s)'
      <3>1. RowsOf(s)' # {}
        BY DEF RowOf
      <3> QED
        BY <3>1 DEF RowOf
    <2>5. ~UNCHANGED docs
      BY <2>3 DEF RowOf, RowsOf
    <2>6. ~Restart
      BY <2>3, RestartKeepsRows
    <2>7. PICK r \in Requests : Save(r) \/ DeleteOne(r)
      BY <2>5, <2>6, Writers
    <2>8. Of(r) = s
      BY <2>3, <2>7, WriteKeepsOthers
    <2>9. ~DeleteOne(r)
      <3>1. DeleteOne(r) => docs' \subseteq docs
        BY DEF DeleteOne, Written
      <3>2. docs' \subseteq docs => RowOf(s)' = RowOf(s)
        BY <2>1, <2>4 DEF RowsOf, CatalogueInv, OneRow
      <3> QED
        BY <2>3, <3>1, <3>2
    <2>10. /\ At(r, "save") /\ ~Clashes(NewRow(r))
           /\ docs' = {d \in docs : d.id # NewRow(r).id} \cup {NewRow(r)}
      BY <2>5, <2>7, <2>9 DEF Save, Written
    <2>11. /\ Kind(r) \in {"create", "update", "map"}
           /\ NewRow(r).id = Row(r).id /\ NewRow(r).supplier = s
           /\ Kind(r) = "map" => Last(Held(r)) \in Config /\ NewRow(r).config = ToRow(Last(Held(r)))
      BY <2>8, <2>10, SavedRow DEF CatalogueInv, Reads, At
    <2>12. RowOf(s).id = NewRow(r).id
      BY <2>1, <2>10, <2>11 DEF Clashes, RowsOf
    <2>13. RowOf(s)' = NewRow(r)
      BY <2>4, <2>10, <2>11 DEF RowsOf, CatalogueInv, OneRow
    <2>14. Kind(r) # "create"
      BY <2>1, <2>10, <2>11, <2>12 DEF EditInv, FreshId
    <2>15. ASSUME Kind(r) = "map", r \notin overtaken PROVE FALSE
      <3>1. Agree(Last(Held(r)), Was(s))
        BY <2>8, <2>10, <2>15 DEF EditInv, Unedited, HasRead, At
      <3>2. RowOf(s).config.mutable \subseteq RowOf(s).config.logs
        BY <2>1 DEF EditInv, Tidy
      <3>3. Agree(ToModel(ToRow(Last(Held(r)))), Was(s))
        BY <2>2, <2>11, <2>15, <3>1, <3>2, ThereAndBack
      <3>4. Is(s) = ToModel(ToRow(Last(Held(r)))) /\ Is(s) \in Config
        BY <2>11, <2>13, <2>15, ConfigsKept
      <3>5. Agree(Was(s), Is(s))
        BY <3>3, <3>4 DEF Agree
      <3> QED
        BY <2>2, <3>4, <3>5, Agreeing
    <2> QED
      BY <2>8, <2>10, <2>11, <2>14, <2>15
  <1> QED
    BY <1>1, Kept, KeptEdits, PTL DEF Spec, EditsKept

-----------------------------------------------------------------------------
\* The cache is fresh: what a lookup is about to put there is what it would find
\* now, unless a write has overtaken it or the database did not answer it.
FreshRead(r) ==
    /\ \A s \in Suppliers : At(r, "fill") /\ r \notin overtaken /\ Of(r) = s
                              => Last(Held(r)) = Resolve(s)
    /\ \A e \in Envs : At(r, "fill codes") /\ r \notin overtaken /\ Env(r) = e
                         => Last(Held(r)) = ResolveCodes(e)
CacheInv == CacheFresh /\ \A r \in Requests : FreshRead(r)

LEMMA LastAppended ==
    ASSUME NEW h \in Holdings, NEW x \in Holding
    PROVE  Last(Append(h, x)) = x
  BY DEF Last, Holdings

\* What does not change a row changes nothing that is found of it.
LEMMA SameFound ==
    ASSUME UNCHANGED docs
    PROVE  /\ \A s : Resolve(s)' = Resolve(s)
           /\ \A e : ResolveCodes(e)' = ResolveCodes(e)
  <1>1. \A s : RowOf(s)' = RowOf(s)
    BY DEF RowOf, RowsOf
  <1>2. \A e : RowCodes(e)' = RowCodes(e)
    BY DEF RowCodes
  <1> QED
    BY <1>1, <1>2 DEF Resolve, ResolveCodes

\* A write changes what is found of its own supplier, and the codes of its environment.
LEMMA OthersFound ==
    ASSUME CatalogueInv, NEW r \in Requests, Save(r) \/ DeleteOne(r)
    PROVE  /\ \A s : s # Of(r) => Resolve(s)' = Resolve(s)
           /\ \A e : e # Env(r) => ResolveCodes(e)' = ResolveCodes(e)
  <1>1. ASSUME NEW s, s # Of(r) PROVE Resolve(s)' = Resolve(s)
    BY <1>1, WriteKeepsOthers DEF Resolve
  <1>2. ASSUME NEW e, e # Env(r) PROVE ResolveCodes(e)' = ResolveCodes(e)
    <2>1. \A s : EnvOf(s) = e => s # Of(r)
      BY <1>2 DEF Env
    <2>2. \A s : EnvOf(s) = e => RowsOf(s)' = RowsOf(s)
      BY <2>1, WriteKeepsOthers
    <2>3. {d \in docs' : EnvOf(d.supplier) = e} = {d \in docs : EnvOf(d.supplier) = e}
      BY <2>2 DEF RowsOf
    <2>4. RowCodes(e)' = RowCodes(e)
      BY <2>3 DEF RowCodes
    <2> QED
      BY <2>4 DEF ResolveCodes
  <1> QED
    BY <1>1, <1>2

\* Of the requests a step does not serve: what they are to put into the cache.
LEMMA OthersFresh ==
    ASSUME CatalogueInv, CacheInv, NEW r \in Requests, Step(r), NEW q \in Requests, q # r
    PROVE  FreshRead(q)'
  <1>1. req'[q] = req[q]
    BY RowAfter DEF Others
  <1>2. q \in overtaken => q \in overtaken'
    <2>1. PICK s : s = Of(q)
      OBVIOUS
    <2> QED
      BY <2>1, OvertakenStep
  <1>3. CASE UNCHANGED docs
    BY <1>1, <1>2, <1>3, SameFound DEF CacheInv, FreshRead, At, Of, Env, Held
  <1>4. CASE ~UNCHANGED docs
    <2>1. Save(r) \/ DeleteOne(r)
      BY <1>4, NoWrite
    <2>2. overtaken' = (overtaken \cup Overtakes(r, Of(r))) \ {r}
      BY <1>4, <2>1 DEF Save, DeleteOne, Written
    <2>3. At(q, "fill") /\ Of(q) = Of(r) => q \in overtaken'
      BY <2>2 DEF Overtakes
    <2>4. At(q, "fill codes") /\ Env(q) = Env(r) => q \in overtaken'
      BY <2>2 DEF Overtakes, Env
    <2>5. Of(q)' = Of(q) /\ Env(q)' = Env(q) /\ Held(q)' = Held(q)
      BY <1>1 DEF Of, Env, Held
    <2>6. ASSUME NEW s \in Suppliers, At(q, "fill"), q \notin overtaken', Of(q) = s
          PROVE  Last(Held(q)) = Resolve(s)'
      <3>1. s # Of(r)
        BY <2>3, <2>6
      <3> QED
        BY <1>2, <2>1, <2>6, <3>1, OthersFound DEF CacheInv, FreshRead
    <2>7. ASSUME NEW e \in Envs, At(q, "fill codes"), q \notin overtaken', Env(q) = e
          PROVE  Last(Held(q)) = ResolveCodes(e)'
      <3>1. e # Env(r)
        BY <2>4, <2>7
      <3> QED
        BY <1>2, <2>1, <2>7, <3>1, OthersFound DEF CacheInv, FreshRead
    <2> QED
      BY <1>1, <2>5, <2>6, <2>7 DEF FreshRead, At
  <1> QED
    BY <1>3, <1>4

\* Where a step leads that looks nothing up.
LEMMA NoFill ==
    ASSUME CatalogueInv, NEW r \in Requests, Step(r), ~LookupRead(r), ~CodesRead(r)
    PROVE  req'[r].pc \notin {"fill", "fill codes"}
  <1>1. req \in [Requests -> Request]
    BY DEF CatalogueInv
  <1>2. \/ \E what : Answer(r, what)
        \/ \E a \in Asks : req' = [req EXCEPT ![r].pc = "new", ![r].ask = a]
        \/ \E to \in Places \ {"fill", "fill codes"} : \E x :
             Goes(r, to) \/ GoesWith(r, to, x) \/ GoesHolding(r, to, x)
        \/ \E to \in {"load", "link"} : \E h : req' = [req EXCEPT ![r].pc = to, ![r].held = h]
    <2>1. CASE Arrive(r) \/ LookupHit(r) \/ LookupFill(r) \/ CodesFill(r) \/ NoAnswer(r)
      BY <2>1 DEF Arrive, LookupHit, LookupFill, CodesFill, NoAnswer, AfterLookup
    <2>2. CASE ReadRow(r)
      <3>1. CASE \E what : Answer(r, what)
        BY <3>1
      <3>2. CASE ~(\E what : Answer(r, what))
        <4> DEFINE to == AfterReading(r, RowOf(Of(r)).config)
        <4>1. GoesWith(r, to, RowOf(Of(r))) /\ to # "400"
          BY <2>2, <3>2 DEF ReadRow
        <4>2. Kind(r) \in {"update", "delete", "upload", "ingest", "map", "probe"}
          BY <2>2, Asked DEF ReadRow, At, Idling, AllKinds
        <4>3. to \in Places \ {"fill", "fill codes"}
          BY <4>1, <4>2 DEF AfterReading, Places
        <4> HIDE DEF to
        <4> QED
          BY <4>1, <4>3
      <3> QED
        BY <3>1, <3>2
    <2>3. CASE CreateCheck(r) \/ Reread(r)
      BY <2>3 DEF CreateCheck, Reread, Places
    <2>4. CASE Save(r) \/ DeleteCheck(r) \/ DeleteOne(r) \/ Invalidate(r) \/ Upload(r)
      BY <2>4 DEF Save, Written, AfterSave, DeleteCheck, DeleteOne, Invalidate, Upload, Places
    <2>5. CASE Ingest(r) \/ Infer(r) \/ Load(r) \/ Link(r)
      BY <2>5 DEF Ingest, Infer, Load, Link, Places
    <2> QED
      BY <2>1, <2>2, <2>3, <2>4, <2>5 DEF Step
  <1>3. (\E what : Answer(r, what)) \/ req'[r].pc \notin {"fill", "fill codes"}
    BY <1>1, <1>2, PcAfter DEF Request
  <1> QED
    BY <1>1, <1>3, Answered

\* A lookup holds what it has found, or knows that it has not.
LEMMA OwnFresh ==
    ASSUME CatalogueInv, NEW r \in Requests, Step(r)
    PROVE  FreshRead(r)'
  <1>1. req \in [Requests -> Request] /\ req[r] \in Request /\ Held(r) \in Holdings
    BY RequestFields DEF CatalogueInv, Held
  <1>2. CASE ~LookupRead(r) /\ ~CodesRead(r)
    BY <1>2, NoFill DEF FreshRead, At
  <1>3. CASE LookupRead(r)
    <2>0. PICK s : s = Of(r)
      OBVIOUS
    <2>1. Looking(r) /\ UNCHANGED docs
      BY <1>3 DEF LookupRead
    <2>2. PICK found \in {Resolve(s), Seed(s)} :
            IF found = None THEN Answer(r, "unknown") /\ UNCHANGED overtaken
            ELSE /\ GoesHolding(r, "fill", found)
                 /\ overtaken' = IF found = Resolve(s) THEN overtaken ELSE overtaken \cup {r}
      BY <1>3, <2>0 DEF LookupRead
    <2>3. CASE found = None
      BY <1>1, <2>2, <2>3, Answered DEF FreshRead, At
    <2>4. CASE found # None
      <3>1. found \in Config
        BY <2>0, <2>1, <2>4, LooksUp, Asked, Resolved DEF CatalogueInv, StoresOK
      <3>2. /\ req'[r].pc = "fill" /\ req'[r].ask = req[r].ask
            /\ Held(r)' = Append(Held(r), found)
        BY <1>1, <2>2, <2>4, <3>1, GoneHolding DEF Places, Holding, Held
      <3>3. Last(Held(r)') = found
        BY <1>1, <3>1, <3>2, LastAppended DEF Holding
      <3>4. Of(r)' = s
        BY <2>0, <3>2 DEF Of
      <3>5. r \notin overtaken' => found = Resolve(s)'
        BY <2>1, <2>2, <2>4, SameFound
      <3> QED
        BY <3>2, <3>3, <3>4, <3>5 DEF FreshRead, At
    <2> QED
      BY <2>3, <2>4
  <1>4. CASE CodesRead(r)
    <2>0. PICK e : e = Env(r)
      OBVIOUS
    <2>1. At(r, "new") /\ UNCHANGED docs
      BY <1>4 DEF CodesRead
    <2>2. CASE Answer(r, "ok")
      BY <1>1, <2>2, Answered DEF FreshRead, At
    <2>3. CASE \E found \in {ResolveCodes(e), SeedCodes} :
                 /\ GoesHolding(r, "fill codes", found)
                 /\ overtaken' = IF found = ResolveCodes(e) THEN overtaken ELSE overtaken \cup {r}
      <3>1. PICK found \in {ResolveCodes(e), SeedCodes} :
                 /\ GoesHolding(r, "fill codes", found)
                 /\ overtaken' = IF found = ResolveCodes(e) THEN overtaken ELSE overtaken \cup {r}
        BY <2>3
      <3>2. found \in SUBSET Codes
        BY ResolvedCodes DEF CatalogueInv, StoresOK
      <3>3. /\ req'[r].pc = "fill codes" /\ req'[r].ask = req[r].ask
            /\ Held(r)' = Append(Held(r), found)
        BY <1>1, <3>1, <3>2, GoneHolding DEF Places, Holding, Held
      <3>4. Last(Held(r)') = found
        BY <1>1, <3>2, <3>3, LastAppended DEF Holding
      <3>5. Env(r)' = e
        BY <2>0, <3>3 DEF Env, Of
      <3>6. r \notin overtaken' => found = ResolveCodes(e)'
        BY <2>1, <3>1, SameFound
      <3> QED
        BY <3>3, <3>4, <3>5, <3>6 DEF FreshRead, At
    <2> QED
      BY <1>4, <2>0, <2>2, <2>3 DEF CodesRead
  <1> QED
    BY <1>2, <1>3, <1>4

\* A request about to clear the cache stays so until it does.
LEMMA ClearingKept ==
    ASSUME NEW r \in Requests, Others(r), ~At(r, "invalidate"), NEW e, Clearing(e)
    PROVE  Clearing(e)'
  BY DEF Clearing, Others, At, Env, Of

\* A step that leaves the rows and the cache alone.
LEMMA CacheLeft ==
    ASSUME CacheInv, NEW r \in Requests, Others(r), ~At(r, "invalidate"),
           UNCHANGED <<docs, cache, codes, old>>
    PROVE  CacheFresh'
  <1>1. \A e : Clearing(e) => Clearing(e)'
    BY ClearingKept
  <1> QED
    BY <1>1, SameFound DEF CacheInv, CacheFresh

LEMMA CacheFilled ==
    ASSUME CatalogueInv, CacheInv, NEW r \in Requests, LookupFill(r) \/ CodesFill(r), Others(r)
    PROVE  CacheFresh'
  <1>1. /\ req[r].pc \in {"fill", "fill codes"} /\ UNCHANGED docs
        /\ \A e : Clearing(e) => Clearing(e)'
    BY ClearingKept DEF LookupFill, CodesFill, At
  <1>2. Of(r) \in Suppliers /\ Env(r) \in Envs
    BY <1>1, Asked DEF Idling
  <1>3. CASE LookupFill(r)
    <2>1. /\ At(r, "fill") /\ cache' = [cache EXCEPT ![Of(r)] = Last(Held(r))]
          /\ old' = (IF r \in overtaken THEN old \cup {Of(r)} ELSE old) /\ UNCHANGED codes
      BY <1>3 DEF LookupFill
    <2>2. ASSUME NEW s \in Suppliers, cache'[s] # None, s \notin old', ~Clearing(EnvOf(s))'
          PROVE  cache'[s] = Resolve(s)
      <3>1. CASE s = Of(r)
        BY <1>2, <2>1, <2>2, <3>1 DEF CacheInv, FreshRead, CatalogueInv, StoresOK
      <3>2. CASE s # Of(r)
        BY <1>1, <2>1, <2>2, <3>2 DEF CacheInv, CacheFresh, CatalogueInv, StoresOK
      <3> QED
        BY <3>1, <3>2
    <2>3. ASSUME NEW e \in Envs, codes'[e] # None, e \notin old', ~Clearing(e)'
          PROVE  codes'[e] = ResolveCodes(e)
      BY <1>1, <2>1, <2>3 DEF CacheInv, CacheFresh
    <2> QED
      BY <1>1, <2>2, <2>3, SameFound DEF CacheFresh
  <1>4. CASE CodesFill(r)
    <2>1. /\ At(r, "fill codes") /\ codes' = [codes EXCEPT ![Env(r)] = Last(Held(r))]
          /\ old' = (IF r \in overtaken THEN old \cup {Env(r)} ELSE old) /\ UNCHANGED cache
      BY <1>4 DEF CodesFill
    <2>2. ASSUME NEW s \in Suppliers, cache'[s] # None, s \notin old', ~Clearing(EnvOf(s))'
          PROVE  cache'[s] = Resolve(s)
      BY <1>1, <2>1, <2>2 DEF CacheInv, CacheFresh
    <2>3. ASSUME NEW e \in Envs, codes'[e] # None, e \notin old', ~Clearing(e)'
          PROVE  codes'[e] = ResolveCodes(e)
      <3>1. CASE e = Env(r)
        BY <1>2, <2>1, <2>3, <3>1 DEF CacheInv, FreshRead, CatalogueInv, StoresOK
      <3>2. CASE e # Env(r)
        BY <1>1, <2>1, <2>3, <3>2 DEF CacheInv, CacheFresh, CatalogueInv, StoresOK
      <3> QED
        BY <3>1, <3>2
    <2> QED
      BY <1>1, <2>2, <2>3, SameFound DEF CacheFresh
  <1> QED
    BY <1>3, <1>4

LEMMA CacheWritten ==
    ASSUME CatalogueInv, CacheInv, NEW r \in Requests, Save(r) \/ DeleteOne(r), Others(r)
    PROVE  CacheFresh'
  <1>1. ~At(r, "invalidate") /\ UNCHANGED <<cache, codes>> /\ req \in [Requests -> Request]
    BY DEF Save, DeleteOne, At, CatalogueInv
  <1>2. \A e : Clearing(e) => Clearing(e)'
    BY <1>1, ClearingKept
  <1>3. CASE UNCHANGED <<docs, old, overtaken>>
    BY <1>1, <1>3, CacheLeft
  <1>4. CASE ~UNCHANGED <<docs, old, overtaken>>
    <2>1. \/ Goes(r, "invalidate") /\ UNCHANGED old
          \/ old' = old \cup {Of(r), Env(r)}
      BY <1>4 DEF Save, DeleteOne, Written, AfterSave
    <2>0. PICK e : e = Env(r)
      OBVIOUS
    <2>2. old \subseteq old' /\ (Clearing(e)' \/ {Of(r), e} \subseteq old')
      <3>1. CASE Goes(r, "invalidate") /\ UNCHANGED old
        <4>1. req'[r].pc = "invalidate" /\ req'[r].ask = req[r].ask
          BY <1>1, <3>1, Gone DEF Places
        <4>2. Clearing(e)'
          BY <2>0, <4>1 DEF Clearing, At, Env, Of
        <4> QED
          BY <3>1, <4>2
      <3>2. CASE old' = old \cup {Of(r), Env(r)}
        BY <2>0, <3>2
      <3> QED
        BY <2>1, <3>1, <3>2
    <2>3. ASSUME NEW s \in Suppliers, cache'[s] # None, s \notin old', ~Clearing(EnvOf(s))'
          PROVE  cache'[s] = Resolve(s)'
      <3>1. s # Of(r)
        BY <2>0, <2>2, <2>3 DEF Env
      <3> QED
        BY <1>1, <1>2, <2>2, <2>3, <3>1, OthersFound DEF CacheInv, CacheFresh
    <2>4. ASSUME NEW x \in Envs, codes'[x] # None, x \notin old', ~Clearing(x)'
          PROVE  codes'[x] = ResolveCodes(x)'
      <3>1. x # Env(r)
        BY <2>0, <2>2, <2>4
      <3> QED
        BY <1>1, <1>2, <2>2, <2>4, <3>1, OthersFound DEF CacheInv, CacheFresh
    <2> QED
      BY <2>3, <2>4 DEF CacheFresh
  <1> QED
    BY <1>3, <1>4

LEMMA CacheCleared ==
    ASSUME CatalogueInv, CacheInv, NEW r \in Requests, Invalidate(r), Others(r)
    PROVE  CacheFresh'
  <1>1. PICK env : env = Env(r)
    OBVIOUS
  <1>2. /\ cache' = [s \in Suppliers |-> IF EnvOf(s) = env THEN None ELSE cache[s]]
        /\ codes' = [codes EXCEPT ![env] = None] /\ UNCHANGED docs
        /\ old' = old \ ({env} \cup {s \in Suppliers : EnvOf(s) = env})
    BY <1>1 DEF Invalidate
  <1>3. \A e : e # env /\ Clearing(e) => Clearing(e)'
    BY <1>1 DEF Clearing, Others, At, Env, Of
  <1>4. ASSUME NEW s \in Suppliers, cache'[s] # None, s \notin old', ~Clearing(EnvOf(s))'
        PROVE  cache'[s] = Resolve(s)
    <2>1. EnvOf(s) # env /\ s # env /\ cache'[s] = cache[s]
      <3>1. env \in Envs
        BY <1>1, Asked DEF Invalidate, At, Idling
      <3> QED
        BY <1>2, <1>4, <3>1, CatalogueAssumption
    <2> QED
      BY <1>2, <1>3, <1>4, <2>1 DEF CacheInv, CacheFresh
  <1>5. ASSUME NEW e \in Envs, codes'[e] # None, e \notin old', ~Clearing(e)'
        PROVE  codes'[e] = ResolveCodes(e)
    <2>1. e # env /\ codes'[e] = codes[e] /\ e \notin Suppliers
      BY <1>2, <1>5, CatalogueAssumption DEF CatalogueInv, StoresOK
    <2> QED
      BY <1>2, <1>3, <1>5, <2>1 DEF CacheInv, CacheFresh
  <1> QED
    BY <1>2, <1>4, <1>5, SameFound DEF CacheFresh

LEMMA CacheStep ==
    ASSUME CatalogueInv, CacheInv, [Next]_vars
    PROVE  CacheInv'
  <1>1. CASE UNCHANGED vars
    <2>1. UNCHANGED <<docs, cache, codes, old, req, overtaken>>
      BY <1>1 DEF vars
    <2>2. \A e : Clearing(e)' = Clearing(e)
      BY <2>1 DEF Clearing, At, Env, Of
    <2> QED
      BY <2>1, <2>2, SameFound DEF CacheInv, CacheFresh, FreshRead, At, Of, Env, Held
  <1>2. CASE Restart
    <2>1. /\ cache' = [s \in Suppliers |-> None] /\ codes' = [e \in Envs |-> None]
          /\ \A q \in Requests : req'[q].pc \in {"idle", "done"}
      BY <1>2 DEF Restart, Idle
    <2> QED
      BY <2>1 DEF CacheInv, CacheFresh, FreshRead, At
  <1>3. ASSUME NEW s \in Suppliers, ScenarioStarts(s) \/ ScenarioChanges(s) PROVE CacheInv'
    <2>1. UNCHANGED <<docs, cache, codes, old, req, overtaken>>
      BY <1>3 DEF ScenarioStarts, ScenarioChanges, caches
    <2>2. \A e : Clearing(e)' = Clearing(e)
      BY <2>1 DEF Clearing, At, Env, Of
    <2> QED
      BY <2>1, <2>2, SameFound DEF CacheInv, CacheFresh, FreshRead, At, Of, Env, Held
  <1>4. ASSUME NEW r \in Requests, Step(r) PROVE CacheInv'
    <2>1. Others(r)
      BY <1>4, RowAfter
    <2>2. \A q \in Requests : FreshRead(q)'
      BY <1>4, OwnFresh, OthersFresh
    <2>3. CASE LookupFill(r) \/ CodesFill(r) \/ Save(r) \/ DeleteOne(r) \/ Invalidate(r)
      BY <2>1, <2>2, <2>3, CacheFilled, CacheWritten, CacheCleared DEF CacheInv
    <2>4. CASE ~(LookupFill(r) \/ CodesFill(r) \/ Save(r) \/ DeleteOne(r) \/ Invalidate(r))
      <3>1. ~At(r, "invalidate") /\ UNCHANGED <<docs, cache, codes, old>>
        BY <1>4, <2>4 DEF Step, At, caches, Arrive, LookupHit, LookupRead, Looking, CodesRead, ReadRow,
             NoAnswer, CreateCheck, DeleteCheck, Upload, Ingest, Infer, Reread, Load, Link
      <3> QED
        BY <2>1, <2>2, <3>1, CacheLeft DEF CacheInv
    <2> QED
      BY <2>3, <2>4
  <1> QED
    BY <1>1, <1>2, <1>3, <1>4 DEF Next

\* A configuration in the cache, and the codes in the cache, are what the database
\* or the built-ins would give now, but for the exceptions the property names: a
\* fill that a write has overtaken is told from the others, and every write is
\* followed by the clearing of all that it has made stale.
THEOREM CacheIsFresh == Spec => []CacheFresh
  <1>1. Init => CacheInv
    <2> SUFFICES ASSUME Init PROVE CacheInv
      OBVIOUS
    <2>1. \A r \in Requests : req[r].pc = "idle"
      BY DEF Init, Idle
    <2> QED
      BY <2>1 DEF Init, CacheInv, CacheFresh, FreshRead, At
  <1>2. CacheInv => CacheFresh
    BY DEF CacheInv
  <1> QED
    BY <1>1, <1>2, CacheStep, Kept, PTL DEF Spec
=============================================================================
