------------------------- MODULE ScenarioBuildProofs -------------------------
(***************************************************************************)
(* What ScenarioBuild promises of the mocks of a scenario, for any number  *)
(* of namespaces, requests of any number of entries, of booking ids and    *)
(* refreshes.                                                              *)
(***************************************************************************)
EXTENDS ScenarioBuild, FiniteSetTheorems, TLAPS

\* Namespaces are kept apart by build_expectation_id and as path segments.
Apart == \A a, b \in Namespaces : Fold[a] = Fold[b] \/ Segment[a] = Segment[b] => a = b

\* A scenario's own mock, with its present booking id.
Own(ns, n, t) == Expectation(ns, req[ns], n, t, base[ns] + n)

\* A scenario that was built and is not torn down, nor given up.
Standing == Working \cup Settled \cup {"half"}

Shaped ==
    /\ req = [ns \in Namespaces |-> req[ns]] /\ todo = [ns \in Namespaces |-> todo[ns]]
    /\ base = [ns \in Namespaces |-> base[ns]] /\ urls = [ns \in Namespaces |-> urls[ns]]

\* Booking ids: each standing scenario has a range of its own.
Numbered ==
    /\ \A ns \in Namespaces : phase[ns] \in Standing =>
          /\ base[ns] + Len(req[ns]) <= last
          /\ \A n \in DOMAIN req[ns] : Builds(req[ns][n])
    /\ \A a, b \in Namespaces : phase[a] \in Standing /\ phase[b] \in Standing /\ a # b =>
          \A n \in DOMAIN req[a], m \in DOMAIN req[b] : base[a] + n # base[b] + m

\* A mock on the server is one that its scenario made, now or at an earlier
\* refresh, and the ids of another's bookings are not in it.
MadeBy(x, ns, n, t) == \E b \in 1..last : x = Expectation(ns, req[ns], n, t, b)
Made == \A x \in mocks : \E ns \in Namespaces :
           /\ phase[ns] \in Standing \cup {"failed"}
           /\ \E n \in DOMAIN req[ns] : \E t \in Types(ns, n) : MadeBy(x, ns, n, t)
Foreign ==
    \A x \in mocks : \A ns \in Namespaces : phase[ns] \in Standing =>
        \A n \in DOMAIN req[ns] : x.answer.booking = base[ns] + n
            => x.id[1] = Fold[ns] /\ x.id[2] = Key(req[ns], n)

\* What of a scenario is on the server, and up to date, by how far it is.
Awaited(ns, n, t) == \E k \in DOMAIN LogTypes : LogTypes[k] = t /\ <<n, k>> \in todo[ns]
Up(ns, n, t) == \/ Own(ns, n, t) \in mocks
                \/ phase[ns] = "registering" /\ Awaited(ns, n, t)
                \/ phase[ns] = "refreshing" /\ t \in BookingFlow /\ Awaited(ns, n, t)
                \/ phase[ns] = "half" /\ t \in BookingFlow
Served == \A ns \in Namespaces : phase[ns] \in Standing =>
             \A n \in DOMAIN req[ns] : \A t \in Types(ns, n) : Up(ns, n, t)

\* The address that a contract gives for a mock with the booking id b.
ContractPath(ns, n, t, b) ==
    IF req[ns][n].code = "HBS" /\ t = "GetOrder" THEN At(Prefix(ns, req[ns], n), <<"hotel-api", "GetOrder">>)
    ELSE Path(ns, req[ns], n, t, b)
Contracted ==
    \A ns \in Namespaces : phase[ns] \in Standing \ {"registering"} => \A u \in urls[ns] :
        /\ u.entry \in DOMAIN req[ns] /\ u.type \in Types(ns, u.entry)
        /\ \E b \in Nat : /\ u.path = ContractPath(ns, u.entry, u.type, b)
                          /\ phase[ns] = "ready" => b = base[ns] + u.entry

BuildInv == TypeOK /\ Shaped /\ Numbered /\ Made /\ Foreign /\ Served /\ Contracted

-----------------------------------------------------------------------------
\* The operators that the mocks are made of.

LEMMA LogTypeNames ==
    /\ DOMAIN LogTypes = 1..6
    /\ Range(LogTypes) = {"Search", "Packages", "PreBooking", "Booking", "GetOrder", "CancelOrder"}
    /\ \A k, l \in DOMAIN LogTypes : LogTypes[k] = LogTypes[l] => k = l
<1>1. DOMAIN LogTypes = 1..6
  BY DEF LogTypes
<1>2. Range(LogTypes) = {LogTypes[1], LogTypes[2], LogTypes[3], LogTypes[4], LogTypes[5], LogTypes[6]}
  BY <1>1 DEF Range
<1>3. \A k, l \in 1..6 : LogTypes[k] = LogTypes[l] => k = l
  BY DEF LogTypes
<1>4. Range(LogTypes) = {"Search", "Packages", "PreBooking", "Booking", "GetOrder", "CancelOrder"}
  BY <1>2 DEF LogTypes
<1> QED
  BY <1>1, <1>3, <1>4

LEMMA Positions ==
    \A t \in Range(LogTypes) : \E k \in DOMAIN LogTypes : LogTypes[k] = t
BY DEF Range

\* A request's entries are told apart by code and instance.
LEMMA InstanceIsCounted ==
    ASSUME NEW r, NEW n \in Nat
    PROVE  /\ IsFiniteSet({m \in 1..n : r[m].code = r[n].code})
           /\ Instance(r, n) \in Nat
<1>1. IsFiniteSet(1..n)
  BY FS_Interval
<1>2. {m \in 1..n : r[m].code = r[n].code} \in SUBSET (1..n)
  OBVIOUS
<1>3. IsFiniteSet({m \in 1..n : r[m].code = r[n].code})
  BY <1>1, <1>2, FS_Subset
<1> QED
  BY <1>3, FS_CardinalityType DEF Instance

LEMMA LaterInstance ==
    ASSUME NEW r, NEW n \in Nat, NEW m \in Nat, m < n, r[m].code = r[n].code
    PROVE  Instance(r, m) # Instance(r, n)
<1> DEFINE S == {k \in 1..n : r[k].code = r[n].code}
           T == {k \in 1..m : r[k].code = r[m].code}
<1>1. IsFiniteSet(S) /\ T \in SUBSET S
  BY InstanceIsCounted
<1>2. n \in S \ T
  OBVIOUS
<1>3. Cardinality(S) # Cardinality(T)
  <2> HIDE DEF S, T
  <2> QED
    BY <1>1, <1>2, FS_Subset
<1> QED
  BY <1>3 DEF Instance

LEMMA KeyInjective ==
    ASSUME NEW r \in Seq(Entry), NEW n \in DOMAIN r, NEW m \in DOMAIN r, Key(r, n) = Key(r, m)
    PROVE  n = m
<1>1. n \in Nat /\ m \in Nat
  OBVIOUS
<1>2. r[n].code = r[m].code /\ Instance(r, n) = Instance(r, m)
  BY DEF Key
<1>3. ~(n < m)
  BY <1>1, <1>2, LaterInstance
<1>4. ~(m < n)
  BY <1>1, <1>2, LaterInstance
<1> QED
  BY <1>1, <1>3, <1>4

LEMMA KeyShape ==
    ASSUME NEW r \in Seq(Entry), NEW n \in DOMAIN r
    PROVE  /\ r[n] \in Entry /\ r[n].code \in Codes
           /\ Key(r, n) \in Codes \X Nat /\ Key(r, n) # None
<1>1. r[n] \in Entry /\ n \in Nat
  OBVIOUS
<1>2. r[n].code \in Codes
  BY <1>1 DEF Entry
<1>3. Instance(r, n) \in Nat
  BY <1>1, InstanceIsCounted
<1>4. Key(r, n) \in Codes \X Nat
  BY <1>2, <1>3 DEF Key
<1> QED
  BY <1>1, <1>2, <1>4, BuildAssumption

\* An id names a namespace, an entry and a log type.
LEMMA IdInjective ==
    ASSUME Apart, NEW a \in Namespaces, NEW c \in Namespaces,
           NEW r \in Seq(Entry), NEW n \in DOMAIN r, NEW m \in DOMAIN r, NEW t, NEW s, NEW q, NEW k
    PROVE  /\ Id(a, r, n, t) = Id(c, q, k, s) => a = c /\ t = s /\ Key(r, n) = Key(q, k)
           /\ Id(a, r, n, t) = Id(a, r, m, s) => n = m /\ t = s
<1>1. Id(a, r, n, t) = Id(c, q, k, s) => Fold[a] = Fold[c] /\ Key(r, n) = Key(q, k) /\ t = s
  BY DEF Id
<1>2. Id(a, r, n, t) = Id(a, r, m, s) => Key(r, n) = Key(r, m) /\ t = s
  BY DEF Id
<1> QED
  BY <1>1, <1>2, KeyInjective DEF Apart

\* The first segment tells whose path it is.
HeadOf(code) == CASE code = "HBS" -> {"hotel-api"} [] code = "EXP" -> {"search", "package", "v3"}
                  [] code = "CHC" -> {"api/go"} [] code = "EXT" -> {"extranet"}
                  [] code = "RHK" -> {"b2b"} [] code = "GEN" -> {"generic"}

LEMMA EndpointHead ==
    ASSUME NEW e, e.code \in Codes, NEW t \in Range(LogTypes), NEW b
    PROVE  Endpoint(e, t, b)[1] \in HeadOf(e.code)
<1> USE LogTypeNames
<1>1. CASE e.code = "HBS"
  BY <1>1 DEF Endpoint, HeadOf, HbsPath
<1>2. CASE e.code = "EXP"
  BY <1>2 DEF Endpoint, HeadOf, ExpPath
<1>3. CASE e.code = "CHC"
  BY <1>3 DEF Endpoint, HeadOf, DerbyPath
<1>4. CASE e.code = "EXT"
  BY <1>4 DEF Endpoint, HeadOf, ExtPath
<1>5. CASE e.code = "RHK"
  BY <1>5 DEF Endpoint, HeadOf, RhkPath
<1>6. CASE e.code = "GEN"
  BY <1>6 DEF Endpoint, HeadOf
<1> QED
  BY <1>1, <1>2, <1>3, <1>4, <1>5, <1>6 DEF Codes

LEMMA EndpointCode ==
    ASSUME NEW e, e.code \in Codes, NEW f, f.code \in Codes,
           NEW t \in Range(LogTypes), NEW s \in Range(LogTypes), NEW b, NEW c,
           Endpoint(e, t, b) = Endpoint(f, s, c)
    PROVE  e.code = f.code
<1>1. Endpoint(e, t, b)[1] \in HeadOf(e.code) /\ Endpoint(f, s, c)[1] \in HeadOf(f.code)
  BY EndpointHead
<1>2. HeadOf(e.code) \cap HeadOf(f.code) # {}
  BY <1>1
<1> QED
  BY <1>2 DEF HeadOf, Codes

\* Of one supplier, log types have paths of their own, but for RHK's first two.
LEMMA EndpointType ==
    ASSUME NEW e, e.code \in Codes, NEW t \in Range(LogTypes), NEW s \in Range(LogTypes),
           NEW b, NEW c, Endpoint(e, t, b) = Endpoint(e, s, c)
    PROVE  t = s \/ (e.code = "RHK" /\ t \in {"Search", "Packages"} /\ s \in {"Search", "Packages"})
<1> USE LogTypeNames
<1>1. CASE e.code = "HBS"
  BY <1>1 DEF Endpoint, HbsPath
<1>2. CASE e.code = "EXP"
  BY <1>2 DEF Endpoint, ExpPath
<1>3. CASE e.code = "CHC"
  BY <1>3 DEF Endpoint, DerbyPath
<1>4. CASE e.code = "EXT"
  BY <1>4 DEF Endpoint, ExtPath, ExtBase, ExtSuffix, BookingFlow
<1>5. CASE e.code = "RHK"
  BY <1>5 DEF Endpoint, RhkPath
<1>6. CASE e.code = "GEN"
  BY <1>6 DEF Endpoint
<1> QED
  BY <1>1, <1>2, <1>3, <1>4, <1>5, <1>6 DEF Codes

\* Two paths have the booking id in them: HBS's order, and EXP's order and
\* cancellation.
LEMMA EndpointWithoutId ==
    ASSUME NEW e, e.code \in Codes, NEW t \in Range(LogTypes), NEW b, NEW c,
           ~(e.code = "HBS" /\ t = "GetOrder"),
           ~(e.code = "EXP" /\ t \in {"GetOrder", "CancelOrder"})
    PROVE  Endpoint(e, t, b) = Endpoint(e, t, c)
<1> USE LogTypeNames
<1>1. CASE e.code = "HBS"
  BY <1>1 DEF Endpoint, HbsPath
<1>2. CASE e.code = "EXP"
  BY <1>2 DEF Endpoint, ExpPath
<1>3. CASE e.code \in {"CHC", "EXT", "RHK", "GEN"}
  BY <1>3 DEF Endpoint
<1> QED
  BY <1>1, <1>2, <1>3 DEF Codes

\* A path names a scenario, an entry and - but for RHK - a log type.
LEMMA PathInjective ==
    ASSUME Apart, NEW a \in Namespaces, NEW c \in Namespaces,
           NEW r \in Seq(Entry), NEW q \in Seq(Entry), NEW n \in DOMAIN r, NEW m \in DOMAIN q,
           NEW t \in Range(LogTypes), NEW s \in Range(LogTypes), NEW b, NEW d,
           Path(a, r, n, t, b) = Path(c, q, m, s, d), a = c => r = q
    PROVE  /\ a = c /\ n = m
           /\ t = s \/ (r[n].code = "RHK" /\ t \in {"Search", "Packages"} /\ s \in {"Search", "Packages"})
<1>1. Prefix(a, r, n) = Prefix(c, q, m) /\ Endpoint(r[n], t, b) = Endpoint(q[m], s, d)
  BY DEF Path, At
<1>2. Segment[a] = Segment[c]
  BY <1>1 DEF Prefix
<1>3. a = c /\ r = q
  BY <1>2 DEF Apart
<1>4. r[n].code = q[m].code
  BY <1>1, KeyShape, EndpointCode
<1>5. (IF Instance(r, n) = 1 THEN None ELSE Key(r, n)) = (IF Instance(q, m) = 1 THEN None ELSE Key(q, m))
  BY <1>1 DEF Prefix
<1>6. Key(r, n) = Key(q, m)
  <2>1. Key(r, n) # None /\ Key(q, m) # None
    BY KeyShape
  <2>2. CASE Instance(r, n) = 1 /\ Instance(q, m) = 1
    BY <2>2, <1>4 DEF Key
  <2> QED
    BY <2>1, <2>2, <1>5
<1>7. n = m
  BY <1>3, <1>6, KeyInjective
<1>8. Endpoint(r[n], t, b) = Endpoint(r[n], s, d)
  BY <1>1, <1>3, <1>7
<1>9. r[n].code \in Codes
  BY KeyShape
<1>10. t = s \/ (r[n].code = "RHK" /\ t \in {"Search", "Packages"} /\ s \in {"Search", "Packages"})
  BY <1>8, <1>9, EndpointType
<1> QED
  BY <1>3, <1>7, <1>10

-----------------------------------------------------------------------------
\* Types, and what a step leaves alone.

Step(ns) == \/ Create(ns) \/ Build(ns) \/ BuildRaises(ns)
            \/ Register(ns) \/ RegisterFails(ns)
            \/ Contract(ns) \/ ContractFails(ns)
            \/ Refresh(ns) \/ Refreshed(ns) \/ Delete(ns)

RowTyped(ns) ==
    /\ (req[ns] = None) = (phase[ns] = "absent")
    /\ req[ns] # None => req[ns] \in Requests[ns]
    /\ IF phase[ns] \in Working THEN todo[ns] \subseteq Expectations(req[ns], Range(LogTypes))
       ELSE todo[ns] = {}
    /\ base[ns] \in 0..last
OnePerId == \A x, y \in mocks : x.id = y.id => x = y
PhaseTyped == phase \in [Namespaces -> Phases]

LEMMA TypeParts ==
    TypeOK <=> /\ PhaseTyped /\ last \in 0..MaxIds /\ \A ns \in Namespaces : RowTyped(ns)
               /\ OnePerId
BY DEF TypeOK, RowTyped, OnePerId, PhaseTyped

LEMMA TypePartsNext ==
    (PhaseTyped /\ last \in 0..MaxIds /\ (\A ns \in Namespaces : RowTyped(ns)) /\ OnePerId)'
        => TypeOK'
BY DEF TypeOK, RowTyped, OnePerId, PhaseTyped

LEMMA RequestShape ==
    ASSUME NEW ns \in Namespaces, RowTyped(ns), phase[ns] # "absent"
    PROVE  /\ req[ns] \in Requests[ns] /\ req[ns] \in Seq(Entry)
           /\ Len(req[ns]) \in Nat /\ DOMAIN req[ns] = 1..Len(req[ns])
           /\ \A n \in DOMAIN req[ns] :
                /\ req[ns][n].code \in Codes /\ req[ns][n] \in Entry
                /\ PickInRange(req[ns][n].spec) /\ StatusValid(req[ns][n].spec)
                /\ PricingValid(req[ns][n].spec)
<1>1. req[ns] \in Requests[ns]
  BY DEF RowTyped
<1>2. req[ns] \in Seq(Entry)
  BY <1>1, BuildAssumption
<1>3. Len(req[ns]) \in Nat /\ DOMAIN req[ns] = 1..Len(req[ns])
  BY <1>2
<1>4. ASSUME NEW n \in DOMAIN req[ns]
      PROVE  /\ req[ns][n].code \in Codes /\ req[ns][n] \in Entry
             /\ PickInRange(req[ns][n].spec) /\ StatusValid(req[ns][n].spec)
             /\ PricingValid(req[ns][n].spec)
  BY <1>1, <1>2, <1>4, BuildAssumption, KeyShape
<1> QED
  BY <1>1, <1>2, <1>3, <1>4

\* A step is about one scenario: the others keep what they have.
LEMMA OneMoves ==
    ASSUME Shaped, PhaseTyped, NEW ns \in Namespaces, Step(ns)
    PROVE  /\ Shaped' /\ PhaseTyped'
           /\ \A a \in Namespaces \ {ns} :
                /\ req'[a] = req[a] /\ phase'[a] = phase[a] /\ todo'[a] = todo[a]
                /\ base'[a] = base[a] /\ urls'[a] = urls[a]
<1> USE DEF Shaped, PhaseTyped, Become
<1>1. CASE Create(ns)
  BY <1>1 DEF Create, Phases
<1>2. CASE Build(ns)
  BY <1>2 DEF Build, Queue, Phases
<1>3. CASE BuildRaises(ns)
  BY <1>3 DEF BuildRaises, Phases
<1>4. CASE Register(ns)
  BY <1>4 DEF Register
<1>5. CASE RegisterFails(ns)
  BY <1>5 DEF RegisterFails, Phases
<1>6. CASE Contract(ns)
  BY <1>6 DEF Contract, Phases, Settled
<1>7. CASE ContractFails(ns)
  BY <1>7 DEF ContractFails, Phases
<1>8. CASE Refresh(ns)
  BY <1>8 DEF Refresh, Queue, Phases
<1>9. CASE Refreshed(ns)
  BY <1>9 DEF Refreshed, Phases, Settled
<1>10. CASE Delete(ns)
  BY <1>10 DEF Delete, Phases
<1> QED
  BY <1>1, <1>2, <1>3, <1>4, <1>5, <1>6, <1>7, <1>8, <1>9, <1>10 DEF Step

LEMMA IdsGrow ==
    ASSUME last \in 0..MaxIds, NEW ns \in Namespaces, RowTyped(ns), Step(ns)
    PROVE  last' \in 0..MaxIds /\ last' \in Nat /\ last \in Nat /\ last <= last'
<1> USE BuildAssumption
<1>1. ASSUME phase[ns] # "absent", Enough(ns), last' = last + Len(req[ns])
      PROVE  last' \in 0..MaxIds /\ last <= last'
  BY <1>1, RequestShape DEF Enough
<1>2. CASE UNCHANGED last
  BY <1>2
<1>3. CASE Build(ns)
  BY <1>1, <1>3 DEF Build, Queue
<1>4. CASE Refresh(ns)
  BY <1>1, <1>4 DEF Refresh, Queue, Settled
<1> QED
  BY <1>2, <1>3, <1>4 DEF Step, Create, BuildRaises, Register, RegisterFails, Contract,
      ContractFails, Refreshed, Delete

LEMMA RowStep ==
    ASSUME Shaped, PhaseTyped, last \in 0..MaxIds, NEW ns \in Namespaces, RowTyped(ns), Step(ns)
    PROVE  RowTyped(ns)'
<1> USE DEF Shaped, PhaseTyped, Become, RowTyped
<1>0. last' \in Nat /\ last \in Nat /\ last <= last'
  BY IdsGrow
<1>1. CASE Create(ns)
  BY <1>1, <1>0, BuildAssumption DEF Create, Working
<1>2. ASSUME phase[ns] # "absent", req'[ns] = req[ns], phase'[ns] # "absent",
             base'[ns] = base[ns] \/ base'[ns] = last,
             IF phase'[ns] \in Working THEN todo'[ns] \subseteq Expectations(req[ns], Range(LogTypes))
             ELSE todo'[ns] = {}
      PROVE  RowTyped(ns)'
  BY <1>0, <1>2
<1>3. BookingFlow \subseteq Range(LogTypes)
  BY LogTypeNames DEF BookingFlow
<1>4. Expectations(req[ns], RefreshTypes) \subseteq Expectations(req[ns], Range(LogTypes))
  BY <1>3 DEF Expectations, RefreshTypes
<1>5. CASE Build(ns)
  BY <1>2, <1>5 DEF Build, Queue, Working
<1>6. CASE BuildRaises(ns)
  BY <1>2, <1>6 DEF BuildRaises, Working
<1>7. CASE Register(ns)
  BY <1>2, <1>7 DEF Register, Working
<1>8. CASE RegisterFails(ns)
  BY <1>2, <1>8 DEF RegisterFails, Working
<1>9. CASE Contract(ns)
  BY <1>2, <1>9 DEF Contract, Working
<1>10. CASE ContractFails(ns)
  BY <1>2, <1>10 DEF ContractFails, Working
<1>11. CASE Refresh(ns)
  BY <1>2, <1>4, <1>11 DEF Refresh, Queue, Settled, Working
<1>12. CASE Refreshed(ns)
  BY <1>2, <1>12 DEF Refreshed, Working
<1>13. CASE Delete(ns)
  BY <1>2, <1>13 DEF Delete, Settled, Working
<1> QED
  BY <1>1, <1>5, <1>6, <1>7, <1>8, <1>9, <1>10, <1>11, <1>12, <1>13 DEF Step

\* What a registration leaves on the server: the expectation and those of another id.
LEMMA MocksStep ==
    ASSUME NEW ns \in Namespaces, Step(ns)
    PROVE  \/ UNCHANGED mocks
           \/ Register(ns) /\ \E x : mocks' = Put(x)
           \/ Delete(ns) /\ mocks' = {x \in mocks : x.id \notin IdsOf(ns, req[ns])}
BY DEF Step, Create, Build, BuildRaises, Register, RegisterFails, Contract, ContractFails,
       Refresh, Refreshed, Delete

LEMMA OnePerIdStep ==
    ASSUME OnePerId, NEW ns \in Namespaces, Step(ns)
    PROVE  OnePerId'
BY MocksStep DEF OnePerId, Put

LEMMA TypeStep ==
    ASSUME TypeOK, Shaped, [Next]_vars
    PROVE  TypeOK' /\ Shaped'
<1>0. PhaseTyped /\ last \in 0..MaxIds /\ (\A a \in Namespaces : RowTyped(a)) /\ OnePerId
  BY TypeParts
<1>1. ASSUME NEW ns \in Namespaces, Step(ns)
      PROVE  TypeOK' /\ Shaped'
  <2>1. /\ Shaped' /\ PhaseTyped'
        /\ \A a \in Namespaces \ {ns} :
             /\ req'[a] = req[a] /\ phase'[a] = phase[a] /\ todo'[a] = todo[a]
             /\ base'[a] = base[a] /\ urls'[a] = urls[a]
    BY <1>0, <1>1, OneMoves
  <2>2. last' \in 0..MaxIds /\ last' \in Nat /\ last \in Nat /\ last <= last'
    BY <1>0, <1>1, IdsGrow
  <2>3. RowTyped(ns)'
    BY <1>0, <1>1, RowStep
  <2>4. \A a \in Namespaces \ {ns} : RowTyped(a)'
    BY <1>0, <2>1, <2>2 DEF RowTyped
  <2>5. OnePerId'
    BY <1>0, <1>1, OnePerIdStep
  <2>6. \A a \in Namespaces : RowTyped(a)'
    BY <2>3, <2>4
  <2> QED
    BY <2>1, <2>2, <2>5, <2>6, TypePartsNext
<1>2. CASE UNCHANGED vars
  BY <1>2 DEF vars, TypeOK, Shaped
<1>3. Next => \E ns \in Namespaces : Step(ns)
  BY DEF Next, Step
<1> QED
  BY <1>1, <1>2, <1>3

LEMMA TypeInit == Init => TypeOK /\ Shaped
BY BuildAssumption DEF Init, TypeOK, Shaped, Phases, Working

\* A scenario has expectations to be PUT only while it registers or refreshes,
\* and only those it is built with; booking ids stay within those given out; no
\* two expectations on MockServer have one id (expectation_ids_for_namespace).
THEOREM TypeCorrect == Spec => []TypeOK
<1>1. TypeOK /\ Shaped /\ [Next]_vars => (TypeOK /\ Shaped)'
  BY TypeStep
<1> QED
  BY <1>1, TypeInit, PTL DEF Spec

-----------------------------------------------------------------------------
\* How a scenario comes to be standing: by a build or a refresh, with booking ids
\* of its own after all that were given out, or as it was.
LEMMA StandingStep ==
    ASSUME Shaped, PhaseTyped, Numbered, NEW ns \in Namespaces, RowTyped(ns), Step(ns),
           phase'[ns] \in Standing
    PROVE  /\ phase[ns] # "absent" /\ req'[ns] = req[ns]
           /\ \A n \in DOMAIN req[ns] : Builds(req[ns][n])
           /\ \/ /\ base'[ns] = last /\ last' = last + Len(req[ns]) /\ UNCHANGED mocks
              \/ phase[ns] \in Standing /\ base'[ns] = base[ns] /\ UNCHANGED last
<1> USE DEF Shaped, PhaseTyped, Become, RowTyped, Standing, Working, Settled
<1>1. phase[ns] \in Standing => \A n \in DOMAIN req[ns] : Builds(req[ns][n])
  BY DEF Numbered
<1>2. CASE Create(ns)
  BY <1>2 DEF Create
<1>3. CASE Build(ns)
  BY <1>3 DEF Build, Queue
<1>4. CASE BuildRaises(ns)
  BY <1>4 DEF BuildRaises
<1>5. CASE Register(ns)
  BY <1>1, <1>5 DEF Register
<1>6. CASE RegisterFails(ns)
  BY <1>1, <1>6 DEF RegisterFails
<1>7. CASE Contract(ns)
  BY <1>1, <1>7 DEF Contract
<1>8. CASE ContractFails(ns)
  BY <1>8 DEF ContractFails
<1>9. CASE Refresh(ns)
  BY <1>1, <1>9 DEF Refresh, Queue
<1>10. CASE Refreshed(ns)
  BY <1>1, <1>10 DEF Refreshed
<1>11. CASE Delete(ns)
  BY <1>11 DEF Delete
<1> QED
  BY <1>2, <1>3, <1>4, <1>5, <1>6, <1>7, <1>8, <1>9, <1>10, <1>11 DEF Step

LEMMA NumberedStep ==
    ASSUME Shaped, PhaseTyped, last \in 0..MaxIds, \A a \in Namespaces : RowTyped(a), Numbered,
           NEW ns \in Namespaces, Step(ns)
    PROVE  Numbered'
<1>1. \A a \in Namespaces \ {ns} :
         /\ req'[a] = req[a] /\ phase'[a] = phase[a] /\ base'[a] = base[a]
  BY OneMoves
<1>2. last' \in Nat /\ last \in Nat /\ last <= last'
  BY IdsGrow
<1>3. ASSUME NEW a \in Namespaces, phase'[a] \in Standing
      PROVE  /\ req'[a] = req[a] /\ base[a] \in Nat
             /\ Len(req[a]) \in Nat /\ DOMAIN req[a] = 1..Len(req[a])
             /\ \A n \in DOMAIN req[a] : Builds(req[a][n])
             /\ \/ a = ns /\ base'[a] = last /\ last' = last + Len(req[a])
                \/ phase[a] \in Standing /\ base'[a] = base[a] /\ base[a] + Len(req[a]) <= last
  <2>1. phase[a] # "absent" /\ req'[a] = req[a]
    BY <1>1, <1>3, StandingStep DEF Standing, Working, Settled
  <2>2. Len(req[a]) \in Nat /\ DOMAIN req[a] = 1..Len(req[a]) /\ base[a] \in Nat
    BY <2>1, RequestShape, <1>2 DEF RowTyped
  <2>3. CASE a # ns
    BY <2>1, <2>2, <2>3, <1>1, <1>3 DEF Numbered
  <2>4. CASE a = ns
    BY <2>1, <2>2, <2>4, <1>3, StandingStep DEF Numbered
  <2> QED
    BY <2>3, <2>4
<1>4. ASSUME NEW a \in Namespaces, phase'[a] \in Standing
      PROVE  /\ base'[a] + Len(req'[a]) <= last'
             /\ \A n \in DOMAIN req'[a] : Builds(req'[a][n])
  <2>1. \/ a = ns /\ base'[a] = last /\ last' = last + Len(req[a])
        \/ phase[a] \in Standing /\ base'[a] = base[a] /\ base[a] + Len(req[a]) <= last
    BY <1>3, <1>4
  <2>2. req'[a] = req[a] /\ Len(req[a]) \in Nat /\ base[a] \in Nat
    BY <1>3, <1>4
  <2>3. \A n \in DOMAIN req[a] : Builds(req[a][n])
    BY <1>3, <1>4
  <2>4. base'[a] + Len(req[a]) <= last'
    BY <2>1, <2>2, <1>2
  <2> QED
    BY <2>2, <2>3, <2>4
<1>5. ASSUME NEW a \in Namespaces, NEW b \in Namespaces, phase'[a] \in Standing,
             phase'[b] \in Standing, a # b, NEW n \in DOMAIN req'[a], NEW m \in DOMAIN req'[b]
      PROVE  base'[a] + n # base'[b] + m
  <2>1. /\ req'[a] = req[a] /\ req'[b] = req[b] /\ base[a] \in Nat /\ base[b] \in Nat
        /\ n \in 1..Len(req[a]) /\ m \in 1..Len(req[b])
        /\ Len(req[a]) \in Nat /\ Len(req[b]) \in Nat
    BY <1>3, <1>5
  <2>2. CASE a = ns /\ base'[a] = last
    <3>1. base'[b] = base[b] /\ base[b] + Len(req[b]) <= last
      BY <2>2, <1>3, <1>5
    <3> QED
      BY <3>1, <2>1, <2>2, <1>2
  <2>3. CASE b = ns /\ base'[b] = last
    <3>1. base'[a] = base[a] /\ base[a] + Len(req[a]) <= last
      BY <2>3, <1>3, <1>5
    <3> QED
      BY <3>1, <2>1, <2>3, <1>2
  <2>4. CASE /\ phase[a] \in Standing /\ base'[a] = base[a]
             /\ phase[b] \in Standing /\ base'[b] = base[b]
    BY <2>1, <2>4, <1>5 DEF Numbered
  <2> QED
    BY <2>2, <2>3, <2>4, <1>3, <1>5
<1> QED
  BY <1>4, <1>5 DEF Numbered

\* A registration is of a mock the scenario's entry is built with, with its
\* present booking id.
LEMMA RegisterStep ==
    ASSUME Shaped, PhaseTyped, NEW ns \in Namespaces, RowTyped(ns), Register(ns)
    PROVE  /\ phase[ns] \in Working /\ UNCHANGED <<req, phase, base, urls, last>>
           /\ \E n \in DOMAIN req[ns] : \E k \in DOMAIN LogTypes :
                /\ <<n, k>> \in todo[ns] /\ LogTypes[k] \in Types(ns, n)
                /\ mocks' = Put(Own(ns, n, LogTypes[k]))
                /\ todo'[ns] = todo[ns] \ {<<n, k>>}
<1>1. phase[ns] \in Working /\ UNCHANGED <<req, phase, base, urls, last>>
  BY DEF Register
<1>2. PICK x \in todo[ns] :
          /\ mocks' = Put(Expectation(ns, req[ns], x[1], LogTypes[x[2]], base[ns] + x[1]))
          /\ todo' = [todo EXCEPT ![ns] = @ \ {x}]
  BY DEF Register
<1>3. x \in Expectations(req[ns], Range(LogTypes))
  BY <1>1, <1>2 DEF RowTyped
<1>4. /\ x[1] \in DOMAIN req[ns] /\ x[2] \in DOMAIN LogTypes /\ x = <<x[1], x[2]>>
      /\ LogTypes[x[2]] \in Range(LogTypes) /\ Built(req[ns][x[1]], LogTypes[x[2]])
  BY <1>3 DEF Expectations
<1>5. LogTypes[x[2]] \in Types(ns, x[1])
  BY <1>4 DEF Types
<1>6. todo'[ns] = todo[ns] \ {x}
  BY <1>2 DEF Shaped
<1> DEFINE n == x[1]
           k == x[2]
<1>7. /\ <<n, k>> \in todo[ns] /\ LogTypes[k] \in Types(ns, n)
      /\ mocks' = Put(Own(ns, n, LogTypes[k])) /\ todo'[ns] = todo[ns] \ {<<n, k>>}
  BY <1>2, <1>4, <1>5, <1>6 DEF Own
<1>8. n \in DOMAIN req[ns] /\ k \in DOMAIN LogTypes
  BY <1>4
<1> HIDE DEF n, k
<1> QED
  BY <1>1, <1>7, <1>8

Alive(ns) == phase[ns] \in Standing \cup {"failed"}
MadeFor(x, ns) == Alive(ns) /\ \E n \in DOMAIN req[ns] : \E t \in Types(ns, n) : MadeBy(x, ns, n, t)

LEMMA MadeParts == Made <=> \A x \in mocks : \E ns \in Namespaces : MadeFor(x, ns)
BY DEF Made, MadeFor, Alive

LEMMA MadePartsNext == (\A x \in mocks : \E ns \in Namespaces : MadeFor(x, ns))' => Made'
BY DEF Made, MadeFor, Alive

\* A scenario has mocks until it is deleted.
LEMMA AliveStep ==
    ASSUME Shaped, PhaseTyped, NEW ns \in Namespaces, Step(ns), Alive(ns), ~Delete(ns)
    PROVE  Alive(ns)' /\ req'[ns] = req[ns]
<1> USE DEF Shaped, PhaseTyped, Become, Standing, Working, Settled, Alive
<1>1. CASE Create(ns)
  BY <1>1 DEF Create
<1>2. CASE Build(ns)
  BY <1>2 DEF Build, Queue
<1>3. CASE BuildRaises(ns)
  BY <1>3 DEF BuildRaises
<1>4. CASE Register(ns)
  BY <1>4 DEF Register
<1>5. CASE RegisterFails(ns)
  BY <1>5 DEF RegisterFails
<1>6. CASE Contract(ns)
  BY <1>6 DEF Contract
<1>7. CASE ContractFails(ns)
  BY <1>7 DEF ContractFails
<1>8. CASE Refresh(ns)
  BY <1>8 DEF Refresh, Queue
<1>9. CASE Refreshed(ns)
  BY <1>9 DEF Refreshed
<1> QED
  BY <1>1, <1>2, <1>3, <1>4, <1>5, <1>6, <1>7, <1>8, <1>9 DEF Step

LEMMA MadeKept ==
    ASSUME NEW a \in Namespaces, NEW x, MadeFor(x, a), Alive(a)', req'[a] = req[a],
           last \in Nat, last' \in Nat, last <= last'
    PROVE  MadeFor(x, a)'
<1>1. PICK n \in DOMAIN req[a] : \E t \in Types(a, n) : MadeBy(x, a, n, t)
  BY DEF MadeFor
<1>2. PICK t \in Types(a, n) : MadeBy(x, a, n, t)
  BY <1>1
<1>3. PICK b \in 1..last : x = Expectation(a, req[a], n, t, b)
  BY <1>2 DEF MadeBy
<1>4. b \in 1..last' /\ x = Expectation(a, req'[a], n, t, b)
  BY <1>3
<1>5. MadeBy(x, a, n, t)'
  BY <1>4 DEF MadeBy
<1>6. n \in DOMAIN req'[a] /\ t \in Types(a, n)'
  BY <1>2 DEF Types
<1> QED
  BY <1>5, <1>6 DEF MadeFor

LEMMA MadeStep ==
    ASSUME Apart, Shaped, PhaseTyped, last \in 0..MaxIds, \A a \in Namespaces : RowTyped(a),
           Numbered, Made, NEW ns \in Namespaces, Step(ns)
    PROVE  Made'
<1>1. \A a \in Namespaces \ {ns} :
         /\ req'[a] = req[a] /\ phase'[a] = phase[a] /\ base'[a] = base[a]
  BY OneMoves
<1>2. last' \in Nat /\ last \in Nat /\ last <= last'
  BY IdsGrow
<1>3. ASSUME NEW x \in mocks, x \in mocks'
      PROVE  \E a \in Namespaces : MadeFor(x, a)'
  <2>1. PICK a \in Namespaces : MadeFor(x, a)
    BY MadeParts
  <2>2. Alive(a)
    BY <2>1 DEF MadeFor
  <2>3. Alive(a)' /\ req'[a] = req[a]
    <3>1. CASE a # ns
      BY <3>1, <1>1, <2>2 DEF Alive
    <3>2. CASE a = ns /\ ~Delete(ns)
      BY <3>2, <2>2, AliveStep
    <3>3. CASE a = ns /\ Delete(ns)
      <4>1. x.id \notin IdsOf(ns, req[ns])
        BY <1>3, <3>3 DEF Delete
      <4>2. PICK n \in DOMAIN req[ns] : \E t \in Types(ns, n) : MadeBy(x, ns, n, t)
        BY <2>1, <3>3 DEF MadeFor
      <4>3. PICK t \in Types(ns, n) : MadeBy(x, ns, n, t)
        BY <4>2
      <4>4. x.id = Id(ns, req[ns], n, t) /\ t \in Range(LogTypes)
        BY <4>3 DEF MadeBy, Expectation, Types
      <4> QED
        BY <4>1, <4>4 DEF IdsOf
    <3> QED
      BY <3>1, <3>2, <3>3
  <2> QED
    BY <2>1, <2>3, <1>2, MadeKept
<1>4. ASSUME NEW x \in mocks', x \notin mocks
      PROVE  MadeFor(x, ns)'
  <2>1. Register(ns)
    BY <1>4, MocksStep
  <2>2. PICK n \in DOMAIN req[ns], k \in DOMAIN LogTypes :
           LogTypes[k] \in Types(ns, n) /\ mocks' = Put(Own(ns, n, LogTypes[k]))
    BY <2>1, RegisterStep
  <2>3. x = Own(ns, n, LogTypes[k])
    BY <1>4, <2>2 DEF Put
  <2>4. phase[ns] \in Working /\ UNCHANGED <<req, phase, base, urls, last>>
    BY <2>1, RegisterStep
  <2>5. base[ns] + n \in 1..last
    <3>1. base[ns] + Len(req[ns]) <= last
      BY <2>4 DEF Numbered, Standing
    <3>2. base[ns] \in Nat /\ n \in 1..Len(req[ns]) /\ Len(req[ns]) \in Nat
      BY <2>4, <1>2, RequestShape DEF RowTyped, Working
    <3> QED
      BY <3>1, <3>2, <1>2
  <2>6. MadeBy(x, ns, n, LogTypes[k])
    BY <2>3, <2>5 DEF MadeBy, Own
  <2>7. Alive(ns)
    BY <2>4 DEF Alive, Standing
  <2>8. MadeFor(x, ns)
    BY <2>2, <2>6, <2>7 DEF MadeFor
  <2>9. Alive(ns)' /\ req'[ns] = req[ns]
    BY <2>4, <2>7 DEF Alive
  <2> QED
    BY <2>8, <2>9, <1>2, MadeKept
<1>5. \A x \in mocks' : \E a \in Namespaces : MadeFor(x, a)'
  BY <1>3, <1>4
<1> QED
  BY <1>5, MadePartsNext

LEMMA BookingOf ==
    ASSUME NEW ns, NEW r, NEW n, NEW t, NEW b
    PROVE  /\ Expectation(ns, r, n, t, b).id = Id(ns, r, n, t)
           /\ Expectation(ns, r, n, t, b).path = Path(ns, r, n, t, b)
           /\ Expectation(ns, r, n, t, b).href = Href(ns, r, n, t, b)
           /\ Expectation(ns, r, n, t, b).answer = Answer(r[n], t, b)
           /\ Expectation(ns, r, n, t, b).answer.booking = (IF t \in BookingFlow THEN b ELSE None)
           /\ Id(ns, r, n, t)[1] = Fold[ns] /\ Id(ns, r, n, t)[2] = Key(r, n)
           /\ Id(ns, r, n, t)[3] = t
BY DEF Expectation, Answer, Id

LEMMA ForeignStep ==
    ASSUME Apart, Shaped, PhaseTyped, last \in 0..MaxIds, \A a \in Namespaces : RowTyped(a),
           Numbered, Made, Foreign, NEW ns \in Namespaces, Step(ns)
    PROVE  Foreign'
<1>1. \A a \in Namespaces \ {ns} :
         /\ req'[a] = req[a] /\ phase'[a] = phase[a] /\ base'[a] = base[a]
  BY OneMoves
<1>2. last' \in Nat /\ last \in Nat /\ last <= last'
  BY IdsGrow
<1>3. ASSUME NEW x \in mocks', NEW a \in Namespaces, phase'[a] \in Standing,
             NEW n \in DOMAIN req'[a], x.answer.booking = base'[a] + n
      PROVE  x.id[1] = Fold[a] /\ x.id[2] = Key(req'[a], n)
  <2>1. phase[a] # "absent" /\ req'[a] = req[a]
    BY <1>1, <1>3, StandingStep DEF Standing, Working, Settled
  <2>2. base[a] \in Nat /\ n \in 1..Len(req[a]) /\ Len(req[a]) \in Nat
    BY <2>1, <1>2, RequestShape DEF RowTyped
  <2>3. CASE phase[a] \in Standing /\ base'[a] = base[a] /\ x \in mocks
    BY <2>1, <2>3, <1>3 DEF Foreign
  <2>4. CASE phase[a] \in Standing /\ base'[a] = base[a] /\ x \notin mocks
    <3>1. Register(ns)
      BY <1>3, <2>4, MocksStep
    <3>2. PICK m \in DOMAIN req[ns], k \in DOMAIN LogTypes :
             LogTypes[k] \in Types(ns, m) /\ mocks' = Put(Own(ns, m, LogTypes[k]))
      BY <3>1, RegisterStep
    <3>3. phase[ns] \in Working
      BY <3>1, RegisterStep
    <3>4. x = Own(ns, m, LogTypes[k])
      BY <2>4, <3>2, <1>3 DEF Put
    <3>5. /\ x.answer.booking \in {base[ns] + m, None}
          /\ x.id[1] = Fold[ns] /\ x.id[2] = Key(req[ns], m)
      BY <3>4, BookingOf DEF Own
    <3>6. base[ns] \in Nat /\ m \in 1..Len(req[ns]) /\ Len(req[ns]) \in Nat
      BY <3>3, <1>2, RequestShape DEF RowTyped, Working
    <3>7. base[a] + n = base[ns] + m
      <4>1. base[a] + n \in Nat
        BY <2>2
      <4> QED
        BY <4>1, <3>5, <2>4, <1>3, BuildAssumption
    <3>8. a = ns
      <4>1. phase[ns] \in Standing /\ phase[a] \in Standing /\ n \in DOMAIN req[a]
        BY <3>3, <2>4, <2>1 DEF Standing
      <4> QED
        BY <4>1, <3>7, <3>2 DEF Numbered
    <3>9. n = m
      BY <3>7, <3>8, <3>6, <2>2
    <3> QED
      BY <3>5, <3>8, <3>9, <2>1
  <2>5. CASE a = ns /\ base'[a] = last /\ UNCHANGED mocks
    <3>1. x \in mocks
      BY <1>3, <2>5
    <3>2. \E b \in Namespaces : MadeFor(x, b)
      BY <3>1, MadeParts
    <3>3. x.answer.booking \in 1..last \cup {None}
      BY <3>2, BookingOf DEF MadeFor, MadeBy
    <3>4. base'[a] + n > last /\ base'[a] + n \in Nat
      BY <2>5, <2>2, <1>2
    <3>5. x.answer.booking # None
      BY <3>4, <1>3, BuildAssumption
    <3> QED
      BY <3>3, <3>4, <3>5, <1>3, <1>2
  <2>6. \/ phase[a] \in Standing /\ base'[a] = base[a]
        \/ a = ns /\ base'[a] = last /\ UNCHANGED mocks
    BY <1>1, <1>3, StandingStep
  <2> QED
    BY <2>3, <2>4, <2>5, <2>6
<1> QED
  BY <1>3 DEF Foreign

\* What a step takes off the server, or replaces, is the scenario's own.
LEMMA OthersKept ==
    ASSUME Apart, Shaped, PhaseTyped, NEW ns \in Namespaces, RowTyped(ns), Step(ns),
           NEW a \in Namespaces \ {ns}, NEW r, NEW n, NEW t, NEW b,
           Expectation(a, r, n, t, b) \in mocks
    PROVE  Expectation(a, r, n, t, b) \in mocks'
<1> DEFINE x == Expectation(a, r, n, t, b)
<1>1. x.id[1] # Fold[ns]
  BY BookingOf DEF Apart
<1>2. CASE UNCHANGED mocks
  BY <1>2
<1>3. CASE Register(ns)
  <2>1. PICK m \in DOMAIN req[ns], k \in DOMAIN LogTypes : mocks' = Put(Own(ns, m, LogTypes[k]))
    BY <1>3, RegisterStep
  <2>2. Own(ns, m, LogTypes[k]).id[1] = Fold[ns]
    BY BookingOf DEF Own
  <2>3. x.id # Own(ns, m, LogTypes[k]).id
    BY <1>1, <2>2
  <2> HIDE DEF x
  <2> QED
    BY <2>1, <2>3 DEF Put, x
<1>4. CASE Delete(ns)
  <2>1. \A i \in IdsOf(ns, req[ns]) : i[1] = Fold[ns]
    BY DEF IdsOf, Id
  <2>2. x.id \notin IdsOf(ns, req[ns])
    BY <1>1, <2>1
  <2>3. mocks' = {y \in mocks : y.id \notin IdsOf(ns, req[ns])}
    BY <1>4 DEF Delete
  <2> HIDE DEF x
  <2> QED
    BY <2>2, <2>3 DEF x
<1> QED
  BY <1>2, <1>3, <1>4, MocksStep

\* What is not of the booking flow has no booking id, neither in its path nor in
\* its link: a new one leaves it as it is.
LEMMA SameWithoutFlow ==
    ASSUME NEW ns, NEW r \in Seq(Entry), NEW n \in DOMAIN r, NEW t \in Range(LogTypes) \ BookingFlow,
           NEW b, NEW c
    PROVE  Expectation(ns, r, n, t, b) = Expectation(ns, r, n, t, c)
<1>1. r[n].code \in Codes
  BY KeyShape
<1>2. t \in {"Search", "Packages", "PreBooking"}
  BY LogTypeNames DEF BookingFlow
<1>3. Endpoint(r[n], t, b) = Endpoint(r[n], t, c)
  BY <1>1, <1>2, LogTypeNames, EndpointWithoutId
<1>4. NextCall(t) \in {"PreBooking", "Booking"}
  BY <1>2 DEF NextCall
<1>5. Endpoint(r[n], NextCall(t), b) = Endpoint(r[n], NextCall(t), c)
  BY <1>1, <1>4, LogTypeNames, EndpointWithoutId
<1>6. Path(ns, r, n, t, b) = Path(ns, r, n, t, c)
  BY <1>3 DEF Path
<1>7. Href(ns, r, n, t, b) = Href(ns, r, n, t, c)
  BY <1>5 DEF Href
<1>8. Answer(r[n], t, b) = Answer(r[n], t, c)
  BY DEF Answer
<1> QED
  BY <1>6, <1>7, <1>8 DEF Expectation

LEMMA OwnKept ==
    ASSUME NEW ns, req'[ns] = req[ns], base'[ns] = base[ns], NEW n, NEW t
    PROVE  Own(ns, n, t)' = Own(ns, n, t) /\ Types(ns, n)' = Types(ns, n)
BY DEF Own, Types

ServedAt(ns) == phase[ns] \in Standing =>
                    \A n \in DOMAIN req[ns] : \A t \in Types(ns, n) : Up(ns, n, t)

LEMMA ServedByOthers ==
    ASSUME Apart, Shaped, PhaseTyped, NEW ns \in Namespaces, RowTyped(ns), Step(ns),
           NEW a \in Namespaces \ {ns}, ServedAt(a)
    PROVE  ServedAt(a)'
<1>1. /\ req'[a] = req[a] /\ phase'[a] = phase[a] /\ base'[a] = base[a] /\ todo'[a] = todo[a]
  BY OneMoves
<1>2. ASSUME phase[a] \in Standing, NEW n \in DOMAIN req[a], NEW t \in Types(a, n)
      PROVE  Up(a, n, t)'
  <2>1. Up(a, n, t)
    BY <1>2 DEF ServedAt
  <2>2. Own(a, n, t) \in mocks => Own(a, n, t)' \in mocks'
    BY <1>1, OwnKept, OthersKept DEF Own
  <2>3. Awaited(a, n, t) => Awaited(a, n, t)'
    BY <1>1 DEF Awaited
  <2> QED
    BY <2>1, <2>2, <2>3, <1>1 DEF Up
<1>3. \A n : Types(a, n)' = Types(a, n)
  BY <1>1, OwnKept
<1> QED
  BY <1>1, <1>2, <1>3 DEF ServedAt

\* A registration puts up what it takes from what is awaited.
LEMMA ServedByRegister ==
    ASSUME Apart, Shaped, PhaseTyped, NEW ns \in Namespaces, RowTyped(ns), Register(ns),
           ServedAt(ns)
    PROVE  ServedAt(ns)'
<1>1. phase[ns] \in Working /\ UNCHANGED <<req, phase, base, urls, last>>
  BY RegisterStep
<1>2. PICK m \in DOMAIN req[ns], k \in DOMAIN LogTypes :
         /\ mocks' = Put(Own(ns, m, LogTypes[k])) /\ todo'[ns] = todo[ns] \ {<<m, k>>}
  BY RegisterStep
<1>3. req[ns] \in Seq(Entry)
  BY <1>1, RequestShape DEF Working
<1>4. ASSUME NEW n \in DOMAIN req[ns], NEW t \in Types(ns, n)
      PROVE  Up(ns, n, t)'
  <2>1. Up(ns, n, t)
    BY <1>1, <1>4 DEF ServedAt, Standing
  <2>2. Own(ns, n, t)' = Own(ns, n, t)
    BY <1>1, OwnKept
  <2>3. CASE n = m /\ t = LogTypes[k]
    <3>1. Own(ns, n, t) \in mocks'
      BY <1>2, <2>3 DEF Put
    <3> QED
      BY <2>2, <3>1 DEF Up
  <2>4. CASE ~(n = m /\ t = LogTypes[k])
    <3>1. Own(ns, n, t).id # Own(ns, m, LogTypes[k]).id
      <4>1. Id(ns, req[ns], n, t) # Id(ns, req[ns], m, LogTypes[k])
        BY <2>4, <1>3, IdInjective
      <4> QED
        BY <4>1, BookingOf DEF Own
    <3>2. Own(ns, n, t) \in mocks => Own(ns, n, t) \in mocks'
      BY <3>1, <1>2 DEF Put
    <3>3. Awaited(ns, n, t) => Awaited(ns, n, t)'
      <4>1. SUFFICES ASSUME NEW l \in DOMAIN LogTypes, LogTypes[l] = t, <<n, l>> \in todo[ns]
                     PROVE  <<n, l>> \in todo'[ns]
        BY DEF Awaited
      <4>2. <<n, l>> # <<m, k>>
        BY <2>4, <4>1
      <4> QED
        BY <4>1, <4>2, <1>2
    <3> QED
      BY <2>1, <2>2, <3>2, <3>3, <1>1 DEF Up
  <2> QED
    BY <2>3, <2>4
<1>5. \A n : Types(ns, n)' = Types(ns, n)
  BY <1>1, OwnKept
<1> QED
  BY <1>1, <1>4, <1>5 DEF ServedAt

LEMMA ServedStep ==
    ASSUME Apart, Shaped, PhaseTyped, NEW ns \in Namespaces, RowTyped(ns), Step(ns), ServedAt(ns)
    PROVE  ServedAt(ns)'
<1> SUFFICES ASSUME phase'[ns] \in Standing, NEW n \in DOMAIN req'[ns], NEW t \in Types(ns, n)'
             PROVE  Up(ns, n, t)'
  BY DEF ServedAt
<1> USE DEF Shaped, PhaseTyped, Become, Standing, Working, Settled, RowTyped
<1>1. CASE Register(ns)
  BY <1>1, ServedByRegister DEF ServedAt
<1>2. ASSUME req'[ns] = req[ns], base'[ns] = base[ns], UNCHANGED mocks, phase[ns] \in Standing,
             Own(ns, n, t) \in mocks
      PROVE  Up(ns, n, t)'
  BY <1>2, OwnKept DEF Up
<1>3. ASSUME req'[ns] = req[ns], phase[ns] \in Standing
      PROVE  n \in DOMAIN req[ns] /\ t \in Types(ns, n) /\ Up(ns, n, t)
  BY <1>3 DEF Types, ServedAt
<1>4. t \in Range(LogTypes)
  BY DEF Types
<1>5. PICK k \in DOMAIN LogTypes : LogTypes[k] = t
  BY <1>4, Positions
<1>6. ASSUME req'[ns] = req[ns], NEW types, todo'[ns] = Expectations(req[ns], types), t \in types
      PROVE  Awaited(ns, n, t)'
  <2>1. Built(req[ns][n], t) /\ n \in DOMAIN req[ns]
    BY <1>6 DEF Types
  <2>2. <<n, k>> \in Expectations(req[ns], types)
    BY <2>1, <1>5, <1>6 DEF Expectations
  <2> QED
    BY <2>2, <1>5, <1>6 DEF Awaited
<1>7. CASE Build(ns)
  <2>1. phase'[ns] = "registering" /\ req' = req /\ todo'[ns] = Expectations(req[ns], Range(LogTypes))
    BY <1>7 DEF Build, Queue
  <2>2. Awaited(ns, n, t)'
    BY <2>1, <1>4, <1>6
  <2> QED
    BY <2>1, <2>2 DEF Up
<1>8. CASE RegisterFails(ns)
  <2>1. /\ req' = req /\ base' = base /\ mocks' = mocks /\ phase'[ns] = "half"
        /\ phase[ns] = "refreshing"
    BY <1>8 DEF RegisterFails
  <2>2. CASE t \in BookingFlow
    BY <2>1, <2>2 DEF Up
  <2>3. CASE t \notin BookingFlow
    <3>1. Own(ns, n, t) \in mocks
      BY <2>1, <2>3, <1>3 DEF Up
    <3> QED
      BY <3>1, <2>1, <1>2
  <2> QED
    BY <2>2, <2>3
<1>9. CASE Contract(ns) \/ Refreshed(ns)
  <2>1. /\ req' = req /\ base' = base /\ mocks' = mocks /\ phase[ns] \in Working
        /\ todo[ns] = {}
    BY <1>9 DEF Contract, Refreshed
  <2>2. Own(ns, n, t) \in mocks
    BY <2>1, <1>3 DEF Up, Awaited
  <2> QED
    BY <2>1, <2>2, <1>2
<1>10. CASE Refresh(ns)
  <2>1. /\ req' = req /\ mocks' = mocks /\ phase'[ns] = "refreshing"
        /\ todo'[ns] = Expectations(req[ns], BookingFlow) /\ phase[ns] \in Settled \cup {"half"}
    BY <1>10 DEF Refresh, Queue, RefreshTypes
  <2>2. CASE t \in BookingFlow
    <3>1. Awaited(ns, n, t)'
      BY <2>1, <2>2, <1>6
    <3> QED
      BY <2>1, <2>2, <3>1 DEF Up
  <2>3. CASE t \notin BookingFlow
    <3>1. Own(ns, n, t) \in mocks
      BY <2>1, <2>3, <1>3 DEF Up
    <3>2. req[ns] \in Seq(Entry) /\ n \in DOMAIN req[ns]
      BY <2>1, RequestShape, <1>3
    <3>3. Own(ns, n, t)' = Own(ns, n, t)
      BY <3>2, <2>1, <2>3, <1>4, SameWithoutFlow DEF Own
    <3> QED
      BY <3>1, <3>3, <2>1 DEF Up
  <2> QED
    BY <2>2, <2>3
<1>11. CASE Create(ns) \/ BuildRaises(ns) \/ ContractFails(ns) \/ Delete(ns)
  BY <1>11 DEF Create, BuildRaises, ContractFails, Delete
<1> QED
  BY <1>1, <1>7, <1>8, <1>9, <1>10, <1>11 DEF Step

LEMMA FrontOfThree ==
    ASSUME NEW a, NEW b, NEW c
    PROVE  Front(<<a, b, c>>) = <<a, b>>
<1> DEFINE s == Front(<<a, b, c>>)
<1>1. s = SubSeq(<<a, b, c>>, 1, 2)
  BY DEF Front
<1>2. s = [i \in 1..2 |-> <<a, b, c>>[i]]
  BY <1>1
<1>3. s \in Seq({a, b, c}) /\ Len(s) = 2 /\ s[1] = a /\ s[2] = b
  BY <1>2
<1> QED
  BY <1>3

\* With nothing left to be PUT, what bears an entry's id is its present mock.
LEMMA PresentMock ==
    ASSUME Apart, OnePerId, Made, NEW ns \in Namespaces, RowTyped(ns),
           phase[ns] # "absent", NEW n \in DOMAIN req[ns],
           \A t \in Types(ns, n) : Own(ns, n, t) \in mocks,
           NEW x \in mocks, x.id[1] = Fold[ns], x.id[2] = Key(req[ns], n)
    PROVE  x.id[3] \in Types(ns, n) /\ x = Own(ns, n, x.id[3])
<1>1. PICK a \in Namespaces : MadeFor(x, a)
  BY MadeParts
<1>2. PICK m \in DOMAIN req[a] : \E t \in Types(a, m) : MadeBy(x, a, m, t)
  BY <1>1 DEF MadeFor
<1>3. PICK t \in Types(a, m), b \in 1..last : x = Expectation(a, req[a], m, t, b)
  BY <1>2 DEF MadeBy
<1>4. x.id = Id(a, req[a], m, t) /\ x.id[1] = Fold[a] /\ x.id[2] = Key(req[a], m) /\ x.id[3] = t
  BY <1>3, BookingOf
<1>5. a = ns
  BY <1>4 DEF Apart
<1>6. m = n
  <2>1. req[ns] \in Seq(Entry) /\ Key(req[ns], m) = Key(req[ns], n)
    BY <1>4, <1>5, RequestShape
  <2> QED
    BY <2>1, <1>5, KeyInjective
<1>7. Own(ns, n, t) \in mocks /\ Own(ns, n, t).id = x.id
  BY <1>3, <1>4, <1>5, <1>6, BookingOf DEF Own
<1>8. x = Own(ns, n, t)
  BY <1>7 DEF OnePerId
<1> QED
  BY <1>3, <1>4, <1>5, <1>6, <1>8

ContractedAt(ns) ==
    phase[ns] \in Standing \ {"registering"} => \A u \in urls[ns] :
        /\ u.entry \in DOMAIN req[ns] /\ u.type \in Types(ns, u.entry)
        /\ \E b \in Nat : /\ u.path = ContractPath(ns, u.entry, u.type, b)
                          /\ phase[ns] = "ready" => b = base[ns] + u.entry

LEMMA ContractsWritten ==
    ASSUME Apart, Shaped, PhaseTyped, last \in 0..MaxIds, OnePerId, Made,
           NEW ns \in Namespaces, RowTyped(ns), ServedAt(ns), Contract(ns)
    PROVE  ContractedAt(ns)'
<1>1. /\ phase[ns] = "registering" /\ todo[ns] = {} /\ UNCHANGED <<req, base, mocks>>
      /\ urls'[ns] = Urls(ns, req[ns])
  BY DEF Contract, Shaped
<1>2. req[ns] \in Seq(Entry) /\ base[ns] \in Nat
  BY <1>1, RequestShape, BuildAssumption DEF RowTyped
<1>3. ASSUME NEW n \in DOMAIN req[ns], NEW t \in Types(ns, n)
      PROVE  Own(ns, n, t) \in mocks
  BY <1>1, <1>3 DEF ServedAt, Up, Standing, Working, Awaited
<1>4. ASSUME NEW u \in Urls(ns, req[ns])
      PROVE  /\ u.entry \in DOMAIN req[ns] /\ u.type \in Types(ns, u.entry)
             /\ base[ns] + u.entry \in Nat
             /\ u.path = ContractPath(ns, u.entry, u.type, base[ns] + u.entry)
  <2> DEFINE r == req[ns]
             Read(n, x) == [entry |-> n, type |-> x.id[3],
                            path |-> IF r[n].code = "HBS" /\ x.id[3] = "GetOrder"
                                     THEN [x.path EXCEPT !.call = Front(@)] ELSE x.path]
  <2>1. PICK n \in DOMAIN r : \E x \in mocks :
           x.id[1] = Fold[ns] /\ x.id[2] = Key(r, n) /\ u = Read(n, x)
    BY <1>4 DEF Urls
  <2>2. PICK x \in mocks : x.id[1] = Fold[ns] /\ x.id[2] = Key(r, n) /\ u = Read(n, x)
    BY <2>1
  <2> DEFINE t == x.id[3]
             b == base[ns] + n
  <2>3. t \in Types(ns, n) /\ x = Own(ns, n, t)
    BY <2>2, <1>1, <1>3, PresentMock
  <2>4. x.path = At(Prefix(ns, r, n), Endpoint(r[n], t, b))
    BY <2>3, BookingOf DEF Own, Path
  <2>5. CASE r[n].code = "HBS" /\ t = "GetOrder"
    <3>1. x.path = At(Prefix(ns, r, n), <<"hotel-api", "GetOrder", b>>)
      BY <2>4, <2>5 DEF Endpoint, HbsPath
    <3>2. u.path = [x.path EXCEPT !.call = Front(@)]
      BY <2>2, <2>5
    <3>3. u.path = At(Prefix(ns, r, n), <<"hotel-api", "GetOrder">>)
      BY <3>1, <3>2, FrontOfThree DEF At
    <3> QED
      BY <3>3, <2>2, <2>3, <2>5, <1>2 DEF ContractPath
  <2>6. CASE ~(r[n].code = "HBS" /\ t = "GetOrder")
    <3>1. u.path = Path(ns, r, n, t, b)
      BY <2>2, <2>4, <2>6 DEF Path
    <3>2. u.entry = n /\ u.type = t
      BY <2>2
    <3>3. b \in Nat
      BY <1>2
    <3> QED
      BY <3>1, <3>2, <3>3, <2>3, <2>6 DEF ContractPath
  <2> QED
    BY <2>5, <2>6
<1>5. ASSUME NEW u \in urls'[ns]
      PROVE  /\ u.entry \in DOMAIN req'[ns] /\ u.type \in Types(ns, u.entry)'
             /\ \E b \in Nat : /\ u.path = ContractPath(ns, u.entry, u.type, b)'
                               /\ phase'[ns] = "ready" => b = base'[ns] + u.entry
  BY <1>1, <1>4, <1>5 DEF Types, ContractPath
<1> QED
  BY <1>5 DEF ContractedAt

LEMMA ContractedStep ==
    ASSUME Shaped, PhaseTyped, NEW ns \in Namespaces, RowTyped(ns), Step(ns), ~Contract(ns),
           NEW a \in Namespaces, ContractedAt(a)
    PROVE  ContractedAt(a)'
<1>1. ASSUME req'[a] = req[a], urls'[a] = urls[a],
             phase'[a] \in Standing \ {"registering"} => phase[a] \in Standing \ {"registering"},
             phase'[a] = "ready" => phase[a] = "ready" /\ base'[a] = base[a]
      PROVE  ContractedAt(a)'
  BY <1>1 DEF ContractedAt, Types, ContractPath
<1>2. CASE a # ns
  <2>1. /\ req'[a] = req[a] /\ phase'[a] = phase[a] /\ base'[a] = base[a] /\ urls'[a] = urls[a]
    BY <1>2, OneMoves
  <2> QED
    BY <2>1, <1>1
<1>3. CASE a = ns
  <2> USE <1>3 DEF Shaped, PhaseTyped, Become, Standing, Working, Settled
  <2>1. CASE Create(ns) \/ Build(ns) \/ BuildRaises(ns) \/ ContractFails(ns) \/ Delete(ns)
    BY <2>1 DEF Create, Build, BuildRaises, ContractFails, Delete, ContractedAt
  <2>2. CASE Register(ns)
    BY <2>2, <1>1 DEF Register
  <2>3. CASE RegisterFails(ns)
    BY <2>3, <1>1 DEF RegisterFails
  <2>4. CASE Refresh(ns)
    BY <2>4, <1>1 DEF Refresh
  <2>5. CASE Refreshed(ns)
    BY <2>5, <1>1 DEF Refreshed
  <2> QED
    BY <2>1, <2>2, <2>3, <2>4, <2>5 DEF Step
<1> QED
  BY <1>2, <1>3

LEMMA BuildInvParts ==
    BuildInv <=> /\ TypeOK /\ Shaped /\ Numbered /\ Made /\ Foreign
                 /\ \A ns \in Namespaces : ServedAt(ns) /\ ContractedAt(ns)
BY DEF BuildInv, Served, ServedAt, Contracted, ContractedAt

LEMMA BuildInvPartsNext ==
    (/\ TypeOK /\ Shaped /\ Numbered /\ Made /\ Foreign
     /\ \A ns \in Namespaces : ServedAt(ns) /\ ContractedAt(ns))' => BuildInv'
BY DEF BuildInv, Served, ServedAt, Contracted, ContractedAt

LEMMA BuildInvStep ==
    ASSUME Apart, BuildInv, [Next]_vars
    PROVE  BuildInv'
<1>1. /\ TypeOK /\ Shaped /\ Numbered /\ Made /\ Foreign
      /\ \A a \in Namespaces : ServedAt(a) /\ ContractedAt(a)
  BY BuildInvParts
<1>2. PhaseTyped /\ last \in 0..MaxIds /\ (\A a \in Namespaces : RowTyped(a)) /\ OnePerId
  BY <1>1, TypeParts
<1>3. TypeOK' /\ Shaped'
  BY <1>1, TypeStep
<1>4. ASSUME NEW ns \in Namespaces, Step(ns)
      PROVE  BuildInv'
  <2>1. Numbered'
    BY <1>1, <1>2, <1>4, NumberedStep
  <2>2. Made'
    BY <1>1, <1>2, <1>4, MadeStep
  <2>3. Foreign'
    BY <1>1, <1>2, <1>4, ForeignStep
  <2>4. ASSUME NEW a \in Namespaces
        PROVE  ServedAt(a)'
    BY <1>1, <1>2, <1>4, ServedByOthers, ServedStep
  <2>5. ASSUME NEW a \in Namespaces
        PROVE  ContractedAt(a)'
    <3>1. CASE ~Contract(ns)
      BY <3>1, <1>1, <1>2, <1>4, ContractedStep
    <3>2. CASE Contract(ns) /\ a = ns
      BY <3>2, <1>1, <1>2, ContractsWritten
    <3>3. CASE Contract(ns) /\ a # ns
      <4>1. /\ req'[a] = req[a] /\ phase'[a] = phase[a] /\ base'[a] = base[a] /\ urls'[a] = urls[a]
        BY <3>3, <1>1, <1>2, <1>4, OneMoves
      <4> QED
        BY <4>1, <1>1 DEF ContractedAt, Types, ContractPath
    <3> QED
      BY <3>1, <3>2, <3>3
  <2> QED
    BY <1>3, <2>1, <2>2, <2>3, <2>4, <2>5, BuildInvPartsNext
<1>5. CASE UNCHANGED vars
  <2>1. UNCHANGED <<req, phase, todo, base, mocks, urls, last>>
    BY <1>5 DEF vars
  <2>2. Numbered' /\ Foreign'
    BY <1>1, <2>1 DEF Numbered, Foreign
  <2>3. Made'
    BY <1>1, <2>1 DEF Made, MadeBy, Types
  <2>4. ASSUME NEW a \in Namespaces
        PROVE  ServedAt(a)' /\ ContractedAt(a)'
    <3>1. ServedAt(a)'
      BY <1>1, <2>1 DEF ServedAt, Up, Own, Awaited, Types
    <3>2. ContractedAt(a)'
      BY <1>1, <2>1 DEF ContractedAt, ContractPath, Types
    <3> QED
      BY <3>1, <3>2
  <2> QED
    BY <1>3, <2>2, <2>3, <2>4, BuildInvPartsNext
<1>6. Next => \E ns \in Namespaces : Step(ns)
  BY DEF Next, Step
<1> QED
  BY <1>4, <1>5, <1>6

LEMMA BuildInvInit == Init => BuildInv
<1> SUFFICES ASSUME Init PROVE BuildInv
  OBVIOUS
<1>1. TypeOK /\ Shaped
  BY TypeInit
<1>2. mocks = {} /\ \A ns \in Namespaces : phase[ns] = "absent"
  BY DEF Init
<1>3. Numbered /\ Made /\ Foreign /\ Served /\ Contracted
  BY <1>2 DEF Numbered, Made, Foreign, Served, Contracted, Standing, Working, Settled
<1> QED
  BY <1>1, <1>3 DEF BuildInv

\* Each standing scenario has booking ids of its own; what is on the server was
\* made for a scenario that is not deleted, and has the id of no other's booking;
\* and what a scenario is built with is up, or still to be PUT.
THEOREM BuildInvariant == ASSUME Apart PROVE Spec => []BuildInv
<1>1. BuildInv /\ [Next]_vars => BuildInv'
  BY BuildInvStep
<1> QED
  BY <1>1, BuildInvInit, PTL DEF Spec

-----------------------------------------------------------------------------
\* What the adapters meet.

LEMMA InServiceMock ==
    ASSUME BuildInv, NEW ns \in InService, NEW n \in DOMAIN req[ns], NEW t \in Types(ns, n)
    PROVE  Own(ns, n, t) \in mocks /\ Mocks(ns, n, t) = {Own(ns, n, t)} /\ Mock(ns, n, t) = Own(ns, n, t)
<1>1. phase[ns] \in Settled /\ ns \in Namespaces
  BY DEF InService
<1>2. Up(ns, n, t)
  BY <1>1 DEF BuildInv, Served, Standing
<1>3. Own(ns, n, t) \in mocks
  BY <1>1, <1>2 DEF Up, Settled
<1>4. Own(ns, n, t).id = Id(ns, req[ns], n, t)
  BY BookingOf DEF Own
<1>5. Mocks(ns, n, t) = {Own(ns, n, t)}
  BY <1>3, <1>4 DEF Mocks, BuildInv, TypeOK
<1>6. Mock(ns, n, t) = Own(ns, n, t)
  BY <1>5 DEF Mock
<1> QED
  BY <1>3, <1>5, <1>6

LEMMA InServiceShape ==
    ASSUME BuildInv, NEW ns \in InService
    PROVE  /\ ns \in Namespaces /\ RowTyped(ns) /\ phase[ns] \in Settled /\ phase[ns] # "absent"
           /\ req[ns] \in Requests[ns] /\ req[ns] \in Seq(Entry) /\ base[ns] \in Nat
           /\ \A n \in DOMAIN req[ns] : /\ n \in Nat /\ req[ns][n].code \in Codes
                                        /\ Builds(req[ns][n]) /\ req[ns][n] \in Entry
                                        /\ PickInRange(req[ns][n].spec) /\ StatusValid(req[ns][n].spec)
                                        /\ PricingValid(req[ns][n].spec)
<1>1. ns \in Namespaces /\ RowTyped(ns) /\ phase[ns] \in Settled /\ phase[ns] # "absent"
  BY TypeParts DEF InService, BuildInv, Settled
<1>2. \A n \in DOMAIN req[ns] : Builds(req[ns][n])
  BY <1>1 DEF BuildInv, Numbered, Standing
<1>3. base[ns] \in Nat
  BY <1>1, BuildAssumption, TypeParts DEF BuildInv, RowTyped
<1>4. DOMAIN req[ns] \subseteq Nat
  BY <1>1, RequestShape
<1> QED
  BY <1>1, <1>2, <1>3, <1>4, RequestShape

\* What was deleted has no mock left, and a scenario that is READY keeps its own
\* whatever the others do (expectation_ids_for_namespace).
THEOREM GoneIsGone == ASSUME Apart PROVE Spec => []GoneLeavesNothing
<1>1. ASSUME BuildInv PROVE GoneLeavesNothing
  <2>1. ASSUME NEW x \in mocks
        PROVE  \E ns \in Namespaces : x.id[1] = Fold[ns] /\ phase[ns] \notin {"absent", "gone"}
    <3>1. PICK ns \in Namespaces : MadeFor(x, ns)
      BY <1>1, MadeParts DEF BuildInv
    <3>2. x.id[1] = Fold[ns]
      BY <3>1, BookingOf DEF MadeFor, MadeBy
    <3>3. phase[ns] \notin {"absent", "gone"}
      BY <3>1 DEF MadeFor, Alive, Standing, Working, Settled
    <3> QED
      BY <3>2, <3>3
  <2>2. ASSUME NEW ns \in InService, NEW n \in DOMAIN req[ns], NEW t \in Types(ns, n)
        PROVE  Mocks(ns, n, t) # {}
    BY <1>1, InServiceMock
  <2> QED
    BY <2>1, <2>2 DEF GoneLeavesNothing
<1> QED
  BY <1>1, BuildInvariant, PTL

\* Booking, order and cancellation of an entry speak of one booking, and no mock
\* of anything else does (BookingIdInjector, refresh_booking_flow_expectations).
THEOREM OneBooking == ASSUME Apart PROVE Spec => []OneBookingId
<1>1. ASSUME BuildInv, NEW ns \in InService, NEW n \in DOMAIN req[ns], Booked(req[ns][n].spec)
      PROVE  LET own == UNION {Mocks(ns, n, t) : t \in BookingFlow}
                 b == Mock(ns, n, "Booking").answer.booking
             IN  /\ Cardinality(own) = 3
                 /\ \A x \in own : x.answer.booking = b
                 /\ \A x \in mocks \ own : x.answer.booking # b
  <2> DEFINE own == UNION {Mocks(ns, n, t) : t \in BookingFlow}
             id == base[ns] + n
             B == Own(ns, n, "Booking")
             G == Own(ns, n, "GetOrder")
             C == Own(ns, n, "CancelOrder")
  <2>1. BookingFlow \subseteq Types(ns, n)
    BY <1>1, LogTypeNames DEF Types, Built, BookingFlow
  <2>2. \A t \in BookingFlow : Mocks(ns, n, t) = {Own(ns, n, t)} /\ Mock(ns, n, t) = Own(ns, n, t)
    BY <1>1, <2>1, InServiceMock
  <2>3. own = {B, G, C}
    BY <2>2 DEF BookingFlow
  <2>4. \A t \in BookingFlow : Own(ns, n, t).answer.booking = id /\ Own(ns, n, t).id[3] = t
    BY BookingOf DEF Own
  <2>5. B # G /\ B # C /\ G # C
    BY <2>4 DEF BookingFlow
  <2>6. Cardinality(own) = 3
    <3> HIDE DEF own, B, G, C
    <3>1. Cardinality({B}) = 1 /\ IsFiniteSet({B})
      BY FS_Singleton
    <3>2. Cardinality({B} \cup {G}) = 2 /\ IsFiniteSet({B} \cup {G})
      BY <3>1, <2>5, FS_AddElement
    <3>3. Cardinality({B} \cup {G} \cup {C}) = 3
      BY <3>2, <2>5, FS_AddElement
    <3>4. {B} \cup {G} \cup {C} = own
      BY <2>3
    <3> QED
      BY <3>3, <3>4
  <2>7. Mock(ns, n, "Booking").answer.booking = id
    BY <2>2, <2>4 DEF BookingFlow
  <2>8. \A x \in own : x.answer.booking = id
    BY <2>3, <2>4 DEF BookingFlow
  <2>9. ASSUME NEW x \in mocks, x.answer.booking = id
        PROVE  x \in own
    <3>1. /\ ns \in Namespaces /\ phase[ns] \in Standing /\ RowTyped(ns) /\ phase[ns] # "absent"
          /\ req[ns] \in Seq(Entry) /\ id \in Nat
      BY <1>1, InServiceShape DEF Standing
    <3>2. x.id[1] = Fold[ns] /\ x.id[2] = Key(req[ns], n)
      BY <1>1, <2>9, <3>1 DEF BuildInv, Foreign
    <3>3. \A t \in Types(ns, n) : Own(ns, n, t) \in mocks
      BY <1>1, InServiceMock
    <3>4. x.id[3] \in Types(ns, n) /\ x = Own(ns, n, x.id[3])
      BY <1>1, <3>1, <3>2, <3>3, PresentMock, TypeParts DEF BuildInv
    <3>5. x.id[3] \in BookingFlow
      <4>1. x.answer.booking = (IF x.id[3] \in BookingFlow THEN id ELSE None)
        BY <3>4, BookingOf DEF Own
      <4> QED
        BY <4>1, <2>9, <3>1, BuildAssumption
    <3> QED
      BY <3>4, <3>5, <2>3 DEF BookingFlow
  <2> QED
    BY <2>6, <2>7, <2>8, <2>9
<1>2. ASSUME BuildInv PROVE OneBookingId
  BY <1>1, <1>2 DEF OneBookingId
<1> QED
  BY <1>2, BuildInvariant, PTL

LEMMA RhkAnswersAlike ==
    ASSUME NEW e, e.code = "RHK", NEW t \in {"Search", "Packages"}, NEW s \in {"Search", "Packages"},
           NEW b, NEW c
    PROVE  Answer(e, t, b) = Answer(e, s, c)
<1>1. SearchRates(e) = Rates(e)
  BY DEF SearchRates
<1>2. ASSUME NEW u \in {"Search", "Packages"}, NEW d
      PROVE  Answer(e, u, d) = [rates |-> Rates(e), quote |-> <<>>, order |-> None, booking |-> None]
  <2>1. u = "Search" \/ u = "Packages"
    BY <1>2
  <2>2. u \notin BookingFlow
    BY <2>1 DEF BookingFlow
  <2> QED
    BY <1>1, <2>1, <2>2 DEF Answer
<1> QED
  BY <1>2

\* On the path of a mock that is up there is no other answer.
LEMMA OwnPathReaches ==
    ASSUME Apart, BuildInv, NEW ns \in InService, NEW n \in DOMAIN req[ns], NEW t \in Types(ns, n)
    PROVE  Reaches(ns, n, t, Own(ns, n, t).path)
<1> DEFINE own == Own(ns, n, t)
           found == {x \in mocks : x.path = own.path /\ x.method = Method(req[ns][n], t)}
<1>1. own \in mocks /\ Mock(ns, n, t) = own
  BY InServiceMock
<1>2. own.method = Method(req[ns][n], t)
  BY DEF Own, Expectation
<1>3. own \in found
  BY <1>1, <1>2
<1>4. ASSUME NEW x \in found
      PROVE  x.answer = own.answer
  <2>1. PICK a \in Namespaces : MadeFor(x, a)
    BY MadeParts DEF BuildInv
  <2>2. PICK m \in DOMAIN req[a] : \E s \in Types(a, m) : MadeBy(x, a, m, s)
    BY <2>1 DEF MadeFor
  <2>3. PICK s \in Types(a, m), b \in 1..last : x = Expectation(a, req[a], m, s, b)
    BY <2>2 DEF MadeBy
  <2>4. /\ RowTyped(a) /\ phase[a] # "absent" /\ req[a] \in Seq(Entry)
    <3>1. RowTyped(a) /\ phase[a] # "absent"
      BY <2>1, TypeParts DEF BuildInv, MadeFor, Alive, Standing, Working, Settled
    <3> QED
      BY <3>1, RequestShape
  <2>5. ns \in Namespaces /\ req[ns] \in Seq(Entry)
    BY InServiceShape
  <2>6. Path(a, req[a], m, s, b) = Path(ns, req[ns], n, t, base[ns] + n)
    BY <2>3, <1>4, BookingOf DEF Own
  <2>7. s \in Range(LogTypes) /\ t \in Range(LogTypes)
    BY <2>3 DEF Types
  <2>8. /\ a = ns /\ m = n
        /\ s = t \/ (req[a][m].code = "RHK" /\ s \in {"Search", "Packages"} /\ t \in {"Search", "Packages"})
    BY <2>4, <2>5, <2>6, <2>7, PathInjective
  <2>9. CASE s = t
    <3>1. x.id = own.id /\ x \in mocks
      BY <2>3, <2>8, <2>9, BookingOf, <1>4 DEF Own
    <3>2. x = own
      BY <3>1, <1>1, TypeParts DEF BuildInv, OnePerId
    <3> QED
      BY <3>2
  <2>10. CASE req[ns][n].code = "RHK" /\ s \in {"Search", "Packages"} /\ t \in {"Search", "Packages"}
    <3>1. x.answer = Answer(req[ns][n], s, b) /\ own.answer = Answer(req[ns][n], t, base[ns] + n)
      BY <2>3, <2>8, BookingOf DEF Own
    <3> QED
      BY <3>1, <2>10, RhkAnswersAlike
  <2> QED
    BY <2>8, <2>9, <2>10
<1> QED
  BY <1>1, <1>3, <1>4 DEF Reaches

LEMMA LinkIsOwnPath ==
    ASSUME BuildInv, NEW ns \in InService, NEW n \in DOMAIN req[ns], NEW t \in Types(ns, n),
           NEW p \in LinkPaths(ns, n, t)
    PROVE  p = Own(ns, n, t).path
<1>1. PICK s \in Types(ns, n) : Links(req[ns][n], s) /\ NextCall(s) = t /\ p = Mock(ns, n, s).href
  BY DEF LinkPaths
<1>2. p = Own(ns, n, s).href
  BY <1>1, InServiceMock
<1>3. p = Href(ns, req[ns], n, s, base[ns] + n)
  BY <1>2, BookingOf DEF Own
<1>4. p = At(Prefix(ns, req[ns], n), Endpoint(req[ns][n], t, base[ns] + n))
  BY <1>1, <1>3 DEF Href
<1> QED
  BY <1>4, BookingOf DEF Own, Path

LEMMA AppendToTwo ==
    ASSUME NEW a, NEW b, NEW c
    PROVE  Append(<<a, b>>, c) = <<a, b, c>>
<1> DEFINE s == Append(<<a, b>>, c)
<1>1. <<a, b>> \in Seq({a, b, c})
  OBVIOUS
<1>2. s \in Seq({a, b, c}) /\ Len(s) = 3 /\ s[1] = a /\ s[2] = b /\ s[3] = c
  BY <1>1
<1>3. s = [i \in 1..3 |-> s[i]] /\ <<a, b, c>> = [i \in 1..3 |-> <<a, b, c>>[i]]
  BY <1>2
<1>4. \A i \in 1..3 : s[i] = <<a, b, c>>[i]
  BY <1>2
<1> HIDE DEF s
<1>5. s = <<a, b, c>>
  BY <1>3, <1>4
<1> QED
  BY <1>5 DEF s

\* A contract that is not of an order renewed leads to the present mock.
LEMMA ContractIsOwnPath ==
    ASSUME BuildInv, NEW ns \in InService, NEW n \in DOMAIN req[ns], NEW t \in Types(ns, n),
           ~Stranded(ns, n, t), NEW p \in ContractPaths(ns, n, t)
    PROVE  p = Own(ns, n, t).path
<1> DEFINE e == req[ns][n]
           id == base[ns] + n
<1>1. PICK u \in urls[ns] :
         /\ u.entry = n /\ u.type = t
         /\ p = IF e.code = "HBS" /\ t = "GetOrder"
                THEN [u.path EXCEPT !.call = Append(@, Mock(ns, n, "Booking").answer.booking)]
                ELSE u.path
  BY DEF ContractPaths
<1>2. ns \in Namespaces /\ phase[ns] \in Settled /\ e.code \in Codes
  BY InServiceShape
<1>3. PICK b \in Nat : u.path = ContractPath(ns, n, t, b) /\ (phase[ns] = "ready" => b = id)
  BY <1>1, <1>2 DEF BuildInv, Contracted, Standing, Settled
<1>4. Own(ns, n, t).path = At(Prefix(ns, req[ns], n), Endpoint(e, t, id))
  BY BookingOf DEF Own, Path
<1>5. CASE e.code = "HBS" /\ t = "GetOrder"
  <2>1. "Booking" \in Types(ns, n)
    BY <1>5, LogTypeNames DEF Types, Built, BookingFlow
  <2>2. Mock(ns, n, "Booking") = Own(ns, n, "Booking")
    BY <2>1, InServiceMock
  <2>3. Mock(ns, n, "Booking").answer.booking = id
    BY <2>2, BookingOf DEF Own, BookingFlow
  <2>4. u.path = At(Prefix(ns, req[ns], n), <<"hotel-api", "GetOrder">>)
    BY <1>3, <1>5 DEF ContractPath
  <2>5. p = [u.path EXCEPT !.call = Append(@, id)]
    BY <1>1, <1>5, <2>3
  <2>6. p = At(Prefix(ns, req[ns], n), Append(<<"hotel-api", "GetOrder">>, id))
    BY <2>4, <2>5 DEF At
  <2>7. Endpoint(e, t, id) = <<"hotel-api", "GetOrder", id>>
    BY <1>5 DEF Endpoint, HbsPath
  <2> QED
    BY <1>4, <2>6, <2>7, AppendToTwo
<1>6. CASE ~(e.code = "HBS" /\ t = "GetOrder")
  <2>1. p = At(Prefix(ns, req[ns], n), Endpoint(e, t, b))
    BY <1>1, <1>3, <1>6 DEF ContractPath, Path
  <2>2. CASE phase[ns] = "ready"
    BY <2>1, <2>2, <1>3, <1>4
  <2>3. CASE phase[ns] = "renewed"
    <3>1. ~(e.code = "EXP" /\ t \in {"GetOrder", "CancelOrder"})
      BY <2>3 DEF Stranded
    <3>2. t \in Range(LogTypes)
      BY DEF Types
    <3>3. Endpoint(e, t, b) = Endpoint(e, t, id)
      BY <1>2, <1>6, <3>1, <3>2, EndpointWithoutId
    <3> QED
      BY <2>1, <3>3, <1>4
  <2> QED
    BY <2>2, <2>3, <1>2 DEF Settled
<1> QED
  BY <1>5, <1>6

\* In a scenario that is READY every step of the booking flow, by contract or by
\* link, ends at the mock of that very scenario and entry, but for EXP's order in
\* a contract older than the booking id (apply_namespace_path_prefix,
\* instance_path_segment, _hbs_get_order_base_path).
THEOREM FlowIsOwn == ASSUME Apart PROVE Spec => []FlowReachesOwnMocks
<1>1. ASSUME BuildInv, NEW ns \in InService, NEW n \in DOMAIN req[ns], NEW t \in Types(ns, n)
      PROVE  /\ Mocks(ns, n, t) # {}
             /\ \A p \in LinkPaths(ns, n, t) : Reaches(ns, n, t, p)
             /\ ~Stranded(ns, n, t) => \A p \in ContractPaths(ns, n, t) : Reaches(ns, n, t, p)
  <2>1. Mocks(ns, n, t) # {}
    BY <1>1, InServiceMock
  <2>2. Reaches(ns, n, t, Own(ns, n, t).path)
    BY <1>1, OwnPathReaches
  <2>3. \A p \in LinkPaths(ns, n, t) : p = Own(ns, n, t).path
    BY <1>1, LinkIsOwnPath
  <2>4. ~Stranded(ns, n, t) => \A p \in ContractPaths(ns, n, t) : p = Own(ns, n, t).path
    BY <1>1, ContractIsOwnPath
  <2> QED
    BY <2>1, <2>2, <2>3, <2>4
<1>2. ASSUME BuildInv PROVE FlowReachesOwnMocks
  BY <1>1, <1>2 DEF FlowReachesOwnMocks
<1> QED
  BY <1>2, BuildInvariant, PTL

-----------------------------------------------------------------------------
\* What a supplier offers, and asks for it.

LEMMA PickedPackage ==
    ASSUME NEW s \in PackageSpec, PickInRange(s)
    PROVE  s.count \in 1..20 /\ Picked(s) \in 1..s.count
<1>1. s.count \in 1..20 /\ s.pick \in Nat \cup {None}
  BY DEF PackageSpec
<1> QED
  BY <1>1 DEF PickInRange, Picked

\* In an offer price, name, refundability and markup are as asked, but for HBS's
\* price and Derby's names; boards are those each plugin makes.
LEMMA RatesShape ==
    ASSUME NEW e \in Entry
    PROVE  /\ Rates(e) = [i \in 1..e.spec.count |-> Rates(e)[i]]
           /\ \A i \in 1..e.spec.count :
                /\ ~Altered(e, i) => Rates(e)[i].price = Prices(e.spec)[i]
                /\ Rates(e)[i].refundable = Refundable(e.spec)[i]
                /\ e.code # "CHC" => Rates(e)[i].name = RoomNames(e.spec)[i]
                /\ e.code = "HBS" => Rates(e)[i].board = Boards(e.spec)[i]
                /\ e.code = "EXP" => Rates(e)[i].markup = Markups(e.spec)[i]
<1>1. e.code \in Codes
  BY DEF Entry
<1> USE DEF Rates, Offer, Altered
<1>2. CASE e.code = "HBS"
  BY <1>2 DEF HbsRates
<1>3. CASE e.code = "EXP"
  BY <1>3 DEF ExpRates
<1>4. CASE e.code = "CHC"
  BY <1>4 DEF DerbyRates
<1>5. CASE e.code = "EXT"
  BY <1>5 DEF ExtRates
<1>6. CASE e.code = "RHK"
  BY <1>6 DEF RhkRates
<1>7. CASE e.code = "GEN"
  BY <1>7 DEF GenericRates
<1> QED
  BY <1>1, <1>2, <1>3, <1>4, <1>5, <1>6, <1>7 DEF Codes

LEMMA AlwaysBuilt ==
    ASSUME NEW ns, NEW n
    PROVE  "Search" \in Types(ns, n) /\ "Packages" \in Types(ns, n) /\ "PreBooking" \in Types(ns, n)
BY LogTypeNames DEF Types, Built, BookingFlow

LEMMA AnswersInService ==
    ASSUME BuildInv, NEW ns \in InService, NEW n \in DOMAIN req[ns]
    PROVE  /\ Mock(ns, n, "Search").answer.rates = SearchRates(req[ns][n])
           /\ Mock(ns, n, "Packages").answer.rates = Rates(req[ns][n])
           /\ Mock(ns, n, "PreBooking").answer.quote = Quote(req[ns][n])
           /\ Booked(req[ns][n].spec) => Mock(ns, n, "GetOrder").answer.order = Order(req[ns][n])
<1>1. /\ Mock(ns, n, "Search") = Own(ns, n, "Search")
      /\ Mock(ns, n, "Packages") = Own(ns, n, "Packages")
      /\ Mock(ns, n, "PreBooking") = Own(ns, n, "PreBooking")
  BY AlwaysBuilt, InServiceMock
<1>2. ASSUME Booked(req[ns][n].spec)
      PROVE  Mock(ns, n, "GetOrder") = Own(ns, n, "GetOrder")
  <2>1. "GetOrder" \in Types(ns, n)
    BY <1>2, LogTypeNames DEF Types, Built, BookingFlow
  <2> QED
    BY <2>1, InServiceMock
<1>3. \A t : Own(ns, n, t).answer = Answer(req[ns][n], t, base[ns] + n)
  BY BookingOf DEF Own
<1>4. \A b : /\ Answer(req[ns][n], "Search", b).rates = SearchRates(req[ns][n])
             /\ Answer(req[ns][n], "Packages", b).rates = Rates(req[ns][n])
             /\ Answer(req[ns][n], "PreBooking", b).quote = Quote(req[ns][n])
             /\ Answer(req[ns][n], "GetOrder", b).order = Order(req[ns][n])
  BY DEF Answer
<1> QED
  BY <1>1, <1>2, <1>3, <1>4

\* A price check that the engine builds is about the package to be booked, at the
\* price offered or the changed one, and empty when there is nothing left to sell.
LEMMA QuoteOf ==
    ASSUME NEW e \in Entry, Builds(e), PickInRange(e.spec), e.code \in {"HBS", "EXP", "EXT", "CHC"}
    PROVE  Quote(e) = CASE e.spec.status = "sold_out" -> <<>>
                        [] e.spec.status = "price_changed" -> Check(Picked(e.spec), e.spec.changed)
                        [] OTHER -> Check(Picked(e.spec), Rates(e)[Picked(e.spec)].price)
<1>1. e.spec \in PackageSpec /\ e.spec.status \in {"available", "price_changed", "sold_out"}
  BY DEF Entry, PackageSpec
<1>2. Picked(e.spec) \in 1..e.spec.count
  BY <1>1, PickedPackage
<1>3. CASE e.code = "HBS"
  <2>1. e.spec.status = "available"
    BY <1>3 DEF Builds, HasTemplates, OwnStatuses
  <2> QED
    BY <1>3, <2>1 DEF Quote, HbsQuote, Rates
<1>4. CASE e.code = "EXP"
  BY <1>1, <1>2, <1>4, RatesShape DEF Quote, ExpQuote, EffectivePrice, Altered
<1>5. CASE e.code = "CHC"
  BY <1>1, <1>5 DEF Quote, DerbyQuote, Rates, EffectivePrice
<1>6. CASE e.code = "EXT"
  BY <1>1, <1>6 DEF Quote, ExtQuote, Rates, EffectivePrice
<1> QED
  BY <1>3, <1>4, <1>5, <1>6

LEMMA OrderOf ==
    ASSUME NEW e \in Entry, Builds(e), PickInRange(e.spec), e.code \in {"HBS", "EXP", "EXT"},
           Booked(e.spec)
    PROVE  Order(e) = IF e.code = "EXT" THEN Rates(e)[Picked(e.spec)].price ELSE Quote(e)[1].price
<1>1. CASE e.code = "HBS"
  BY <1>1 DEF Order, Quote, HbsOrder, HbsQuote, Check
<1>2. CASE e.code = "EXP"
  BY <1>2 DEF Order, Quote, ExpOrder, ExpQuote, Check, Booked
<1>3. CASE e.code = "EXT"
  BY <1>3 DEF Order, ExtOrder, Rates
<1> QED
  BY <1>1, <1>2, <1>3

\* The price check and the order are about the package to be booked, at the price
\* Packages offers or the changed one; EXT's order has that of Packages
\* (propagate_package_linkage of HBS, EXP, EXT and Derby).
THEOREM QuotesAgree == ASSUME Apart PROVE Spec => []QuoteAndOrderAgree
<1>1. ASSUME BuildInv, NEW ns \in InService, NEW n \in DOMAIN req[ns]
      PROVE  LET e == req[ns][n]
                 quote == Mock(ns, n, "PreBooking").answer.quote
                 offered == Mock(ns, n, "Packages").answer.rates[Picked(e.spec)].price
             IN  /\ e.code \in {"HBS", "EXP", "EXT", "CHC"} =>
                       quote = CASE e.spec.status = "sold_out" -> <<>>
                                 [] e.spec.status = "price_changed" -> Check(Picked(e.spec), e.spec.changed)
                                 [] OTHER -> Check(Picked(e.spec), offered)
                 /\ e.code \in {"HBS", "EXP", "EXT"} /\ Booked(e.spec) =>
                       Mock(ns, n, "GetOrder").answer.order =
                           IF e.code = "EXT" THEN offered ELSE quote[1].price
  <2> DEFINE e == req[ns][n]
  <2>1. e \in Entry /\ Builds(e) /\ PickInRange(e.spec)
    BY <1>1, InServiceShape
  <2>2. /\ Mock(ns, n, "Packages").answer.rates = Rates(e)
        /\ Mock(ns, n, "PreBooking").answer.quote = Quote(e)
        /\ Booked(e.spec) => Mock(ns, n, "GetOrder").answer.order = Order(e)
    BY <1>1, AnswersInService
  <2>3. e.code \in {"HBS", "EXP", "EXT", "CHC"} =>
           Quote(e) = CASE e.spec.status = "sold_out" -> <<>>
                        [] e.spec.status = "price_changed" -> Check(Picked(e.spec), e.spec.changed)
                        [] OTHER -> Check(Picked(e.spec), Rates(e)[Picked(e.spec)].price)
    BY <2>1, QuoteOf
  <2>4. e.code \in {"HBS", "EXP", "EXT"} /\ Booked(e.spec) =>
           Order(e) = IF e.code = "EXT" THEN Rates(e)[Picked(e.spec)].price ELSE Quote(e)[1].price
    BY <2>1, OrderOf
  <2> HIDE DEF e
  <2> QED
    BY <2>2, <2>3, <2>4 DEF e
<1>2. ASSUME BuildInv PROVE QuoteAndOrderAgree
  BY <1>1, <1>2 DEF QuoteAndOrderAgree
<1> QED
  BY <1>2, BuildInvariant, PTL

\* A scenario that is READY offers the packages it was asked for; a board that HBS,
\* Derby, EXT or a supplier without a plugin cannot express, and a markup for a
\* supplier that has none, fail the build (mutate_packages, LinkageValidator,
\* _reject_explicit_pricing_for_net_supplier).
THEOREM OffersAgree == ASSUME Apart PROVE Spec => []OffersAsAsked
<1>1. ASSUME NEW e \in Entry, Builds(e)
      PROVE  LET rates == Rates(e)
             IN  /\ Len(rates) = e.spec.count
                 /\ Range(SearchRates(e)) \subseteq Range(rates)
                 /\ \A i \in DOMAIN rates :
                      /\ ~Altered(e, i) => rates[i].price = Prices(e.spec)[i]
                      /\ rates[i].refundable = Refundable(e.spec)[i]
                      /\ e.code # "CHC" => rates[i].name = RoomNames(e.spec)[i]
                      /\ e.code \notin {"EXP", "RHK"} => rates[i].board = Boards(e.spec)[i]
                      /\ Explicit(e.spec) =>
                            /\ e.code \in Gross
                            /\ e.code = "EXP" => rates[i].markup = Markups(e.spec)[i]
  <2> DEFINE rates == Rates(e)
  <2>1. e.spec.count \in 1..20
    BY DEF Entry, PackageSpec
  <2>2. rates = [i \in 1..e.spec.count |-> rates[i]]
    BY RatesShape
  <2>3. DOMAIN rates = 1..e.spec.count /\ Len(rates) = e.spec.count
    <3> HIDE DEF rates
    <3> QED
      BY <2>1, <2>2
  <2>4. Range(SearchRates(e)) \subseteq Range(rates)
    <3>1. CASE e.code = "EXP"
      <4>1. SearchRates(e) = <<rates[1]>>
        BY <3>1 DEF SearchRates
      <4>2. Range(SearchRates(e)) = {rates[1]}
        <5> HIDE DEF rates
        <5> QED
          BY <4>1 DEF Range
      <4>3. 1 \in DOMAIN rates
        BY <2>1, <2>3
      <4> HIDE DEF rates
      <4> QED
        BY <4>2, <4>3 DEF Range
    <3>2. CASE e.code # "EXP"
      BY <3>2 DEF SearchRates
    <3> QED
      BY <3>1, <3>2
  <2>5. ASSUME NEW i \in 1..e.spec.count
        PROVE  /\ e.code \notin {"EXP", "RHK"} => rates[i].board = Boards(e.spec)[i]
               /\ Explicit(e.spec) => e.code \in Gross
    BY <1>1, <2>5 DEF Builds, Linked, BoardsAsAsked, PricingAllowed
  <2>6. \A i \in 1..e.spec.count :
           /\ ~Altered(e, i) => rates[i].price = Prices(e.spec)[i]
           /\ rates[i].refundable = Refundable(e.spec)[i]
           /\ e.code # "CHC" => rates[i].name = RoomNames(e.spec)[i]
           /\ e.code = "EXP" => rates[i].markup = Markups(e.spec)[i]
    BY RatesShape
  <2> HIDE DEF rates
  <2>7. \A i \in DOMAIN rates :
           /\ ~Altered(e, i) => rates[i].price = Prices(e.spec)[i]
           /\ rates[i].refundable = Refundable(e.spec)[i]
           /\ e.code # "CHC" => rates[i].name = RoomNames(e.spec)[i]
           /\ e.code \notin {"EXP", "RHK"} => rates[i].board = Boards(e.spec)[i]
           /\ Explicit(e.spec) => e.code \in Gross /\ (e.code = "EXP" => rates[i].markup = Markups(e.spec)[i])
    BY <2>3, <2>5, <2>6
  <2> QED
    BY <2>3, <2>4, <2>7 DEF rates
<1>2. ASSUME BuildInv, NEW ns \in InService, NEW n \in DOMAIN req[ns]
      PROVE  /\ req[ns][n] \in Entry /\ Builds(req[ns][n])
             /\ Mock(ns, n, "Search").answer.rates = SearchRates(req[ns][n])
             /\ Mock(ns, n, "Packages").answer.rates = Rates(req[ns][n])
  BY <1>2, InServiceShape, AnswersInService
<1>3. ASSUME BuildInv PROVE OffersAsAsked
  BY <1>1, <1>2, <1>3 DEF OffersAsAsked
<1> QED
  BY <1>3, BuildInvariant, PTL
=============================================================================
