-------------------------- MODULE TestRunStoreProofs --------------------------
(***************************************************************************)
(* What TestRunStore promises, for any number of results, step trees,      *)
(* completes, threads and test methods: no result is lost, the numbers add *)
(* up, and the only steps of a method reach its only result.               *)
(***************************************************************************)
EXTENDS TestRunStore, FiniteSetTheorems, TLAPS

Results(o) == objects[o].results
Single == \A a, b \in DOMAIN objects : a = b

\* Where each kind of request can be, and what it holds there.
Counting == {"readTotal", "writeTotal", "readOne", "writeOne", "done"}
Posting == {"new", "make", "merge", "append"} \cup Counting
Stepping == {"new", "scan", "look", "attach", "buffer", "done"}
Placed ==
    /\ \A p \in Posts : /\ pc[p] \in Posting
                        /\ pc[p] \notin {"new", "make"} => state[p] \in DOMAIN objects
                        /\ p \in DOMAIN objects => pc[p] \notin {"new", "make"}
    /\ \A s \in StepPosts : /\ pc[s] \in Stepping
                            /\ pc[s] \in {"scan", "look", "attach"} => state[s] \in DOMAIN objects
    /\ \A c \in Completes : /\ pc[c] \in {"new", "mark", "done"}
                            /\ pc[c] = "mark" => state[c] \in DOMAIN objects
Stored ==
    /\ store = None => DOMAIN objects = {}
    /\ store # None => store \in DOMAIN objects
    /\ IsFiniteSet(DOMAIN objects)
    /\ IsFiniteSet({p \in Posts : pc[p] # "new"})
Met == \A q, r \in Requests : q # r /\ q \in InProgress /\ r \in InProgress => {q, r} \in met

\* A result is in the object its request works on, once, from its append on.
InRun(p, o) == state[p] = o /\ pc[p] \in Counting
Listed(p, o) == \E i \in 1..Len(Results(o)) : Results(o)[i] = p
Filed ==
    \A o \in DOMAIN objects :
        /\ \A p \in Posts : Listed(p, o) <=> InRun(p, o)
        /\ \A i, j \in 1..Len(Results(o)) : Results(o)[i] = Results(o)[j] => i = j

\* The results that a counter has been raised for.
Counts(p, o, c) == /\ state[p] = o
                   /\ IF c = "total" THEN pc[p] \in {"readOne", "writeOne", "done"}
                      ELSE pc[p] = "done" /\ CounterOf(p) = c
Counted(o, c) == {p \in Posts : Counts(p, o, c)}
FiledIn(o) == {p \in Posts : InRun(p, o)}
Serial == \A p, q \in Posts : p = q \/ ~Overlapped(p, q)
Tallied ==
    \A o \in DOMAIN objects :
        /\ Len(Results(o)) = Cardinality(FiledIn(o))
        /\ objects[o].count["total"] <= Cardinality(Counted(o, "total"))
        /\ \A p \in Posts : At(p, "writeTotal") /\ state[p] = o
                              => number[p] <= Cardinality(Counted(o, "total"))
Exact ==
    Serial =>
        \A o \in DOMAIN objects :
            /\ \A c \in Counters : objects[o].count[c] = Cardinality(Counted(o, c))
            /\ \A p \in Posts : state[p] = o =>
                 /\ At(p, "writeTotal") => number[p] = Cardinality(Counted(o, "total"))
                 /\ At(p, "writeOne") => number[p] = Cardinality(Counted(o, CounterOf(p)))

\* What a request with steps has found so far: at "attach", a result of its method.
Found(s) == /\ At(s, "look") => number[s] \in 0..Len(Results(state[s]))
            /\ At(s, "attach") => /\ number[s] \in 1..Len(Results(state[s]))
                                  /\ MethodOf(Results(state[s])[number[s]]) = MethodOf(s)
Looking == \A s \in StepPosts : Found(s)

\* The only result p and the only steps s of a method.
Before == {"new", "make", "merge"}
Pair(p, s) ==
    /\ pending[MethodOf(s)] \in {None, s} /\ steps[p] \in {None, s}
    /\ s \in {pending[MethodOf(s)], steps[p]} => Done(s)
    /\ pc[p] \in Before => /\ steps[p] = None
                           /\ Done(s) => pending[MethodOf(s)] = s
    /\ pc[p] \notin Before /\ Single /\ ~Overlapped(p, s) =>
          /\ Done(s) => steps[p] = s
          /\ ~At(s, "new") => /\ ~At(s, "buffer")
                              /\ At(s, "look") => \E i \in 1..number[s] : Results(state[s])[i] = p
Paired == \A p \in Posts, s \in StepPosts : Alone(p, s) => Pair(p, s)

StoreInv == /\ TypeOK /\ objects = [o \in DOMAIN objects |-> objects[o]]
            /\ Placed /\ Stored /\ Met /\ Filed /\ Tallied /\ Exact /\ Looking /\ Paired

-----------------------------------------------------------------------------

\* Sets that are no more than their names.
USE DEF Requests, Counters, Statuses

LEMMA TypedBatch ==
    ASSUME TypeOK
    PROVE  /\ \A q \in Posts \cup StepPosts : MethodOf(q) \in Methods
           /\ \A p \in Posts : batch.status[p] \in Statuses /\ CounterOf(p) \in Counters
BY StoreAssumption DEF TypeOK, Batch, MethodOf, CounterOf

LEMMA TypedResults ==
    ASSUME TypeOK, NEW o \in DOMAIN objects
    PROVE  /\ Results(o) \in Seq(Posts) /\ Len(Results(o)) \in Nat
           /\ objects[o].count \in [Counters -> Nat]
           /\ \A i \in 1..Len(Results(o)) : Results(o)[i] \in Posts
BY DEF TypeOK, Object, Results

LEMMA TypedStep ==
    ASSUME StoreInv, NEW q \in Requests,
           \/ Arrive(q) \/ MakeOrphan(q) \/ Merge(q) \/ Append1(q) \/ Count(q)
           \/ Scan(q) \/ Look(q) \/ Attach(q) \/ Buffer(q) \/ Mark(q)
    PROVE  TypeOK' /\ objects' = [o \in DOMAIN objects' |-> objects'[o]]
<1> USE DEF StoreInv
<1>1. CASE Arrive(q)
  <2>1. batch' = batch /\ store' = store /\ objects' = objects /\ steps' = steps
        /\ pending' = pending /\ number' = number
        /\ state' = [state EXCEPT ![q] = store]
        /\ \E to \in PCs : pc' = [pc EXCEPT ![q] = to]
        /\ \E R \in SUBSET InProgress : met' = met \cup {{q, r} : r \in R}
    BY <1>1 DEF Arrive, Get, Goes, PCs
  <2>2. InProgress \subseteq Requests
    BY DEF InProgress
  <2>3. met' \in SUBSET SUBSET Requests
    <3>1. PICK R \in SUBSET InProgress : met' = met \cup {{q, r} : r \in R}
      BY <2>1
    <3>2. \A r \in R : {q, r} \in SUBSET Requests
      BY <2>2
    <3>3. \A x \in met : x \in SUBSET Requests
      BY DEF TypeOK
    <3>4. \A x \in met' : x \in SUBSET Requests
      BY <3>1, <3>2, <3>3
    <3>. QED  BY <3>4
  <2>4. pc' \in [Requests -> PCs]
    BY <2>1 DEF TypeOK
  <2>5. state' \in [Requests -> DOMAIN objects \cup {None}]
    BY <2>1 DEF TypeOK, Stored
  <2>. QED  BY <2>1, <2>3, <2>4, <2>5 DEF TypeOK
<1>2. CASE MakeOrphan(q)
  <2>1. q \in Posts
    BY <1>2, StoreAssumption DEF MakeOrphan, At, Placed, Stepping
  <2>2. Fresh \in Object
    BY DEF Fresh, Object
  <2>. QED  BY <1>2, <2>1, <2>2 DEF MakeOrphan, TypeOK, Moves, Goes, PCs, Adopted, Objects
<1>3. CASE Merge(q)
  <2>1. q \in Posts
    BY <1>3, StoreAssumption DEF Merge, At, Placed, Stepping
  <2>2. MethodOf(q) \in Methods
    BY <2>1, TypedBatch
  <2>. QED  BY <1>3, <2>1, <2>2 DEF Merge, TypeOK, Moves, Goes, PCs, Merged
<1>4. CASE Append1(q)
  <2>1. q \in Posts /\ state[q] \in DOMAIN objects
    BY <1>4, StoreAssumption DEF Append1, At, Placed, Stepping
  <2>2. objects[state[q]] \in Object /\ Append(objects[state[q]].results, q) \in Seq(Posts)
    BY <2>1 DEF TypeOK, Object
  <2>3. [objects[state[q]] EXCEPT !.results = Append(@, q)] \in Object
    BY <2>2 DEF Object
  <2>. QED  BY <1>4, <2>1, <2>3 DEF Append1, TypeOK, Moves, Goes, PCs
<1>5. CASE Count(q)
  <2>1. q \in Posts /\ state[q] \in DOMAIN objects
    BY <1>5, StoreAssumption DEF Count, Read, Write, At, Placed, Stepping
  <2>2. ASSUME NEW c \in Counters, NEW to \in PCs, NEW at \in PCs, Read(q, c, at, to)
        PROVE  TypeOK' /\ objects' = [o \in DOMAIN objects' |-> objects'[o]]
    <3>1. Mine(q).count[c] \in Nat
      BY <2>1, TypedResults DEF Mine
    <3>. QED  BY <2>2, <3>1 DEF Read, TypeOK, Moves, Goes
  <2>3. ASSUME NEW c \in Counters, NEW to \in PCs, NEW at \in PCs, Write(q, c, at, to)
        PROVE  TypeOK' /\ objects' = [o \in DOMAIN objects' |-> objects'[o]]
    <3>1. objects[state[q]] \in Object /\ number[q] + 1 \in Nat
      BY <2>1 DEF TypeOK
    <3>2. [objects[state[q]].count EXCEPT ![c] = number[q] + 1] \in [Counters -> Nat]
      BY <3>1 DEF Object
    <3>3. [objects[state[q]] EXCEPT !.count[c] = number[q] + 1] \in Object
      BY <3>1, <3>2 DEF Object
    <3>. QED  BY <2>1, <2>3, <3>3 DEF Write, TypeOK, Moves, Goes
  <2>4. CounterOf(q) \in Counters /\ "total" \in Counters
    BY <2>1, TypedBatch
  <2>. QED  BY <1>5, <2>2, <2>3, <2>4 DEF Count, PCs
<1>6. CASE Scan(q)
  <2>1. state[q] \in DOMAIN objects
    BY <1>6 DEF Scan, At, Placed, Posting, Counting
  <2>2. Len(Mine(q).results) \in Nat
    BY <2>1, TypedResults DEF Mine, Results
  <2>. QED  BY <1>6, <2>2 DEF Scan, TypeOK, Moves, Goes, PCs
<1>7. CASE Look(q)
  <2>1. number[q] \in Nat /\ (number[q] # 0 => number[q] - 1 \in Nat)
    BY DEF TypeOK
  <2>. QED  BY <1>7, <2>1 DEF Look, TypeOK, Moves, Goes, PCs
<1>8. CASE Attach(q)
  <2>1. q \in StepPosts
    BY <1>8 DEF Attach, At, Placed, Posting, Counting
  <2>. QED  BY <1>8, <2>1 DEF Attach, TypeOK, Moves, Goes, PCs
<1>9. CASE Buffer(q)
  <2>1. q \in StepPosts
    BY <1>9 DEF Buffer, At, Placed, Posting, Counting
  <2>2. MethodOf(q) \in Methods
    BY <2>1, TypedBatch
  <2>. QED  BY <1>9, <2>1, <2>2 DEF Buffer, TypeOK, Moves, Goes, PCs
<1>10. CASE Mark(q)
  <2>1. state[q] \in DOMAIN objects
    BY <1>10 DEF Mark, At, Placed, Posting, Counting, Stepping
  <2>2. [objects[state[q]] EXCEPT !.status = "COMPLETE"] \in Object
    BY <2>1 DEF TypeOK, Object
  <2>. QED  BY <1>10, <2>1, <2>2 DEF Mark, TypeOK, Moves, Goes, PCs
<1>. QED  BY <1>1, <1>2, <1>3, <1>4, <1>5, <1>6, <1>7, <1>8, <1>9, <1>10

\* Where each request goes, in one place.
LEMMA OneMoves ==
    ASSUME StoreInv, NEW q \in Requests,
           \/ Arrive(q) \/ MakeOrphan(q) \/ Merge(q) \/ Append1(q) \/ Count(q)
           \/ Scan(q) \/ Look(q) \/ Attach(q) \/ Buffer(q) \/ Mark(q)
    PROVE  /\ batch' = batch /\ met \subseteq met'
           /\ DOMAIN objects \subseteq DOMAIN objects'
           /\ pc[q] # "done" /\ pc'[q] # "new"
           /\ \A r \in Requests \ {q} : /\ pc'[r] = pc[r] /\ state'[r] = state[r]
                                        /\ number'[r] = number[r]
BY DEF StoreInv, TypeOK, Arrive, Get, MakeOrphan, Merge, Append1, Count, Read, Write, Scan, Look,
       Attach, Buffer, Mark, Moves, Goes, At

LEMMA PlacedStep ==
    ASSUME StoreInv, NEW q \in Requests,
           \/ Arrive(q) \/ MakeOrphan(q) \/ Merge(q) \/ Append1(q) \/ Count(q)
           \/ Scan(q) \/ Look(q) \/ Attach(q) \/ Buffer(q) \/ Mark(q)
    PROVE  Placed'
<1>1. \A r \in Requests \ {q} : pc'[r] = pc[r] /\ state'[r] = state[r]
  BY OneMoves
<1>2. DOMAIN objects \subseteq DOMAIN objects' /\ DOMAIN objects' \subseteq DOMAIN objects \cup {q}
  BY DEF StoreInv, TypeOK, Arrive, Get, MakeOrphan, Merge, Append1, Count, Read, Write, Scan, Look,
         Attach, Buffer, Mark, Moves, Goes, At
<1>3. ASSUME q \in Posts
      PROVE  /\ pc'[q] \in Posting
             /\ pc'[q] \notin {"new", "make"} => state'[q] \in DOMAIN objects'
             /\ q \in DOMAIN objects' => pc'[q] \notin {"new", "make"}
  BY <1>3, StoreAssumption DEF StoreInv, TypeOK, Placed, Stored, Stepping, Posting, Counting, Arrive, Get,
         MakeOrphan, Adopted, Merge, Append1, Count, Read, Write, Scan, Look, Attach, Buffer, Mark, Moves, Goes, At
<1>4. ASSUME q \in StepPosts
      PROVE  /\ pc'[q] \in Stepping
             /\ pc'[q] \in {"scan", "look", "attach"} => state'[q] \in DOMAIN objects'
  BY <1>4, StoreAssumption DEF StoreInv, TypeOK, Placed, Stored, Stepping, Posting, Counting, Arrive, Get,
         MakeOrphan, Merge, Append1, Count, Read, Write, Scan, Look, Attach, Buffer, Mark, Moves, Goes, At
<1>5. ASSUME q \in Completes
      PROVE  /\ pc'[q] \in {"new", "mark", "done"}
             /\ pc'[q] = "mark" => state'[q] \in DOMAIN objects'
  BY <1>5, StoreAssumption DEF StoreInv, TypeOK, Placed, Stored, Stepping, Posting, Counting, Arrive, Get,
         MakeOrphan, Merge, Append1, Count, Read, Write, Scan, Look, Attach, Buffer, Mark, Moves, Goes, At
<1>6. Placed
  BY DEF StoreInv
<1>7. \A p \in Posts : /\ pc'[p] \in Posting
                       /\ pc'[p] \notin {"new", "make"} => state'[p] \in DOMAIN objects'
                       /\ p \in DOMAIN objects' => pc'[p] \notin {"new", "make"}
  BY <1>1, <1>2, <1>3, <1>6 DEF Placed
<1>8. \A s \in StepPosts : /\ pc'[s] \in Stepping
                           /\ pc'[s] \in {"scan", "look", "attach"} => state'[s] \in DOMAIN objects'
  BY <1>1, <1>2, <1>4, <1>6 DEF Placed
<1>9. \A c \in Completes : /\ pc'[c] \in {"new", "mark", "done"}
                           /\ pc'[c] = "mark" => state'[c] \in DOMAIN objects'
  BY <1>1, <1>2, <1>5, <1>6 DEF Placed
<1>. QED  BY <1>7, <1>8, <1>9 DEF Placed

LEMMA StoredStep ==
    ASSUME StoreInv, NEW q \in Requests,
           \/ Arrive(q) \/ MakeOrphan(q) \/ Merge(q) \/ Append1(q) \/ Count(q)
           \/ Scan(q) \/ Look(q) \/ Attach(q) \/ Buffer(q) \/ Mark(q)
    PROVE  Stored'
<1>1. \/ DOMAIN objects' = DOMAIN objects /\ store' = store
      \/ MakeOrphan(q) /\ DOMAIN objects' = DOMAIN objects \cup {q} /\ store' = q
  BY DEF StoreInv, TypeOK, Arrive, Get, MakeOrphan, Adopted, Merge, Append1, Count, Read, Write, Scan, Look,
         Attach, Buffer, Mark, Moves, Goes, At
<1>2. IsFiniteSet(DOMAIN objects')
  BY <1>1, FS_AddElement DEF StoreInv, Stored
<1>3. {p \in Posts : pc'[p] # "new"} \subseteq {p \in Posts : pc[p] # "new"} \cup {q}
  BY OneMoves
<1>4. IsFiniteSet({p \in Posts : pc'[p] # "new"})
  BY <1>3, FS_AddElement, FS_Subset DEF StoreInv, Stored
<1>5. q # None
  BY StoreAssumption
<1>. QED  BY <1>1, <1>2, <1>4, <1>5 DEF StoreInv, Stored

LEMMA MetStep ==
    ASSUME StoreInv, NEW q \in Requests,
           \/ Arrive(q) \/ MakeOrphan(q) \/ Merge(q) \/ Append1(q) \/ Count(q)
           \/ Scan(q) \/ Look(q) \/ Attach(q) \/ Buffer(q) \/ Mark(q)
    PROVE  Met'
<1>1. Met /\ met \subseteq met'
      /\ (\A r \in Requests \ {q} : r \in InProgress' <=> r \in InProgress)
  BY OneMoves DEF StoreInv, InProgress
<1>2. CASE Arrive(q)
  <2>1. met' = met \cup {{q, r} : r \in InProgress}
    BY <1>2 DEF Arrive, Get
  <2>2. q \notin InProgress
    BY <1>2 DEF Arrive, Get, At, InProgress
  <2>3. \A r : {q, r} = {r, q}
    OBVIOUS
  <2>. QED  BY <1>1, <2>1, <2>2, <2>3 DEF Met
<1>3. CASE ~Arrive(q)
  <2>1. q \in InProgress
    BY <1>3 DEF StoreInv, TypeOK, MakeOrphan, Merge, Append1, Count, Read, Write, Scan, Look,
                Attach, Buffer, Mark, At, InProgress
  <2>. QED  BY <1>1, <2>1 DEF Met
<1>. QED  BY <1>2, <1>3

\* A list of results with one more at its end.
LEMMA OneMore ==
    ASSUME NEW seq \in Seq(Posts), NEW q \in Posts
    PROVE  /\ Append(seq, q) \in Seq(Posts) /\ Len(Append(seq, q)) = Len(seq) + 1
           /\ \A i \in 1..Len(seq) + 1 : Append(seq, q)[i] = IF i <= Len(seq) THEN seq[i] ELSE q
           /\ Len(seq) \in Nat
OBVIOUS

\* Who changes the results of an object, and how.
LEMMA ResultsStep ==
    ASSUME StoreInv, NEW q \in Requests,
           \/ Arrive(q) \/ MakeOrphan(q) \/ Merge(q) \/ Append1(q) \/ Count(q)
           \/ Scan(q) \/ Look(q) \/ Attach(q) \/ Buffer(q) \/ Mark(q)
    PROVE  /\ \A o \in DOMAIN objects :
                 Results(o)' = IF Append1(q) /\ state[q] = o THEN Append(Results(o), q) ELSE Results(o)
           /\ \A o \in DOMAIN objects' \ DOMAIN objects :
                 /\ MakeOrphan(q) /\ o = q /\ Results(o)' = <<>>
                 /\ objects'[o].count = [c \in Counters |-> 0]
<1>1. CASE MakeOrphan(q)
  <2>1. q \in Posts /\ pc[q] = "make"
    BY <1>1, StoreAssumption DEF MakeOrphan, At, StoreInv, Placed, Stepping
  <2>2. ~Append1(q) /\ q \notin DOMAIN objects
    BY <2>1 DEF Append1, At, StoreInv, Placed
  <2>3. objects' = [o \in DOMAIN objects \cup {q} |-> IF o = q THEN Fresh ELSE objects[o]]
    BY <1>1 DEF MakeOrphan
  <2>. QED  BY <1>1, <2>2, <2>3 DEF Results, Fresh
<1>2. CASE Append1(q)
  BY <1>2 DEF Append1, Results, StoreInv, TypeOK, Object, Moves
<1>3. CASE Count(q) \/ Mark(q)
  <2>1. ~Append1(q)
    BY <1>3 DEF Count, Read, Write, Mark, Append1, At
  <2>2. DOMAIN objects' = DOMAIN objects
    BY <1>3 DEF Count, Read, Write, Mark, Moves
  <2>3. ASSUME NEW c, NEW at, NEW to, Read(q, c, at, to) \/ Write(q, c, at, to), NEW o \in DOMAIN objects
        PROVE  objects'[o].results = objects[o].results
    <3>1. DOMAIN objects[o] = {"results", "count", "status"}
      BY DEF StoreInv, TypeOK, Object
    <3>. QED  BY <2>3, <3>1 DEF Read, Write, Moves
  <2>4. ASSUME Mark(q), NEW o \in DOMAIN objects
        PROVE  objects'[o].results = objects[o].results
    BY <2>4 DEF Mark, StoreInv, TypeOK, Object
  <2>. QED  BY <1>3, <2>1, <2>2, <2>3, <2>4 DEF Count, Results
<1>4. CASE Arrive(q) \/ Merge(q) \/ Scan(q) \/ Look(q) \/ Attach(q) \/ Buffer(q)
  <2>1. ~Append1(q) /\ objects' = objects
    BY <1>4 DEF Arrive, Get, Merge, Scan, Look, Attach, Buffer, Append1, At, Moves
  <2>. QED  BY <2>1 DEF Results
<1>. QED  BY <1>1, <1>2, <1>3, <1>4

LEMMA InRunStep ==
    ASSUME StoreInv, NEW q \in Requests,
           \/ Arrive(q) \/ MakeOrphan(q) \/ Merge(q) \/ Append1(q) \/ Count(q)
           \/ Scan(q) \/ Look(q) \/ Attach(q) \/ Buffer(q) \/ Mark(q)
    PROVE  /\ \A p \in Posts, o \in DOMAIN objects :
                 InRun(p, o)' <=> InRun(p, o) \/ (Append1(q) /\ p = q /\ state[q] = o)
           /\ \A p \in Posts : ~InRun(p, q)' \/ q \in DOMAIN objects
           /\ Append1(q) => q \in Posts /\ state[q] \in DOMAIN objects /\ ~InRun(q, state[q])
<1>1. Append1(q) => q \in Posts /\ state[q] \in DOMAIN objects /\ ~InRun(q, state[q])
  BY StoreAssumption DEF StoreInv, Append1, At, Placed, Stepping, InRun, Counting
<1>2. \A p \in Posts \ {q} : \A o : InRun(p, o)' <=> InRun(p, o)
  BY OneMoves DEF InRun
<1>3. \A p \in Posts : InRun(p, q) => q \in DOMAIN objects
  BY DEF InRun, StoreInv, Placed, Counting
<1>4. ASSUME q \in Posts, NEW o \in DOMAIN objects
      PROVE  InRun(q, o)' <=> InRun(q, o) \/ (Append1(q) /\ state[q] = o)
  BY <1>4, StoreAssumption DEF StoreInv, TypeOK, Placed, Posting, Counting, InRun, Arrive, Get, MakeOrphan, Merge,
         Append1, Count, Read, Write, Scan, Look, Attach, Buffer, Mark, Moves, Goes, At
<1>5. q \in Posts /\ q \notin DOMAIN objects => ~InRun(q, q)'
  BY StoreAssumption DEF StoreInv, TypeOK, Placed, Posting, Counting, InRun, Arrive, Get, MakeOrphan, Merge,
         Append1, Count, Read, Write, Scan, Look, Attach, Buffer, Mark, Moves, Goes, At
<1>. QED  BY <1>1, <1>2, <1>3, <1>4, <1>5

LEMMA FiledStep ==
    ASSUME StoreInv, NEW q \in Requests,
           \/ Arrive(q) \/ MakeOrphan(q) \/ Merge(q) \/ Append1(q) \/ Count(q)
           \/ Scan(q) \/ Look(q) \/ Attach(q) \/ Buffer(q) \/ Mark(q)
    PROVE  Filed'
<1>1. ASSUME NEW o \in DOMAIN objects' \ DOMAIN objects
      PROVE  /\ \A p \in Posts : Listed(p, o)' <=> InRun(p, o)'
             /\ \A i, j \in 1..Len(Results(o)') : Results(o)'[i] = Results(o)'[j] => i = j
  <2>1. o = q /\ Results(o)' = <<>>
    BY ResultsStep
  <2>2. \A p \in Posts : ~InRun(p, o)'
    BY <2>1, InRunStep
  <2>. QED  BY <2>1, <2>2 DEF Listed
<1>2. ASSUME NEW o \in DOMAIN objects
      PROVE  /\ \A p \in Posts : Listed(p, o)' <=> InRun(p, o)'
             /\ \A i, j \in 1..Len(Results(o)') : Results(o)'[i] = Results(o)'[j] => i = j
  <2>1. /\ \A p \in Posts : Listed(p, o) <=> InRun(p, o)
        /\ \A i, j \in 1..Len(Results(o)) : Results(o)[i] = Results(o)[j] => i = j
    BY DEF StoreInv, Filed
  <2>2. CASE Append1(q) /\ state[q] = o
    <3>1. q \in Posts /\ ~InRun(q, o) /\ Results(o)' = Append(Results(o), q) /\ Results(o) \in Seq(Posts)
      BY <2>2, ResultsStep, InRunStep, TypedResults DEF StoreInv
    <3>2. /\ Len(Results(o)') = Len(Results(o)) + 1 /\ Len(Results(o)) \in Nat
          /\ \A i \in 1..Len(Results(o)) + 1 : Results(o)'[i] = IF i <= Len(Results(o)) THEN Results(o)[i] ELSE q
      BY <3>1, OneMore
    <3>3. \A p \in Posts : InRun(p, o)' <=> InRun(p, o) \/ p = q
      BY <2>2, InRunStep
    <3>4. \A i \in 1..Len(Results(o)) : Results(o)[i] # q
      BY <2>1, <3>1 DEF Listed
    <3>5. \A p \in Posts : Listed(p, o)' <=> Listed(p, o) \/ p = q
      BY <3>2 DEF Listed
    <3>. QED  BY <2>1, <3>2, <3>3, <3>4, <3>5
  <2>3. CASE ~(Append1(q) /\ state[q] = o)
    <3>1. Results(o)' = Results(o)
      BY <2>3, ResultsStep
    <3>2. \A p \in Posts : InRun(p, o)' <=> InRun(p, o)
      BY <2>3, InRunStep
    <3>. QED  BY <2>1, <3>1, <3>2 DEF Listed
  <2>. QED  BY <2>2, <2>3
<1>. QED  BY <1>1, <1>2 DEF Filed

\* The results that a counter stands for are finitely many.
LEMMA FiniteTallies ==
    ASSUME IsFiniteSet({p \in Posts : pc[p] # "new"}), NEW o, NEW c
    PROVE  /\ IsFiniteSet(FiledIn(o)) /\ IsFiniteSet(Counted(o, c))
           /\ Cardinality(FiledIn(o)) \in Nat /\ Cardinality(Counted(o, c)) \in Nat
<1>1. FiledIn(o) \subseteq {p \in Posts : pc[p] # "new"}
  BY DEF FiledIn, InRun, Counting
<1>2. Counted(o, c) \subseteq {p \in Posts : pc[p] # "new"}
  BY DEF Counted, Counts
<1>. QED  BY <1>1, <1>2, FS_Subset, FS_CardinalityType

\* A set that a step has grown by q, or has left.
LEMMA Grown ==
    ASSUME NEW S, NEW T, NEW q, NEW grows \in BOOLEAN, IsFiniteSet(S), grows => q \notin S,
           \A p : p \in T <=> p \in S \/ (grows /\ p = q)
    PROVE  /\ Cardinality(S) \in Nat /\ Cardinality(T) = Cardinality(S) + (IF grows THEN 1 ELSE 0)
<1>1. CASE grows
  <2>1. T = S \cup {q}
    BY <1>1
  <2>. QED  BY <1>1, <2>1, FS_AddElement, FS_CardinalityType
<1>2. CASE ~grows
  <2>1. T = S
    BY <1>2
  <2>. QED  BY <1>2, <2>1, FS_CardinalityType
<1>. QED  BY <1>1, <1>2

\* The counter that a request is about to write.
Writes(q, c) == \/ c = "total" /\ At(q, "writeTotal")
                \/ c = CounterOf(q) /\ At(q, "writeOne")

LEMMA CountsStep ==
    ASSUME StoreInv, NEW q \in Requests,
           \/ Arrive(q) \/ MakeOrphan(q) \/ Merge(q) \/ Append1(q) \/ Count(q)
           \/ Scan(q) \/ Look(q) \/ Attach(q) \/ Buffer(q) \/ Mark(q)
    PROVE  /\ \A p \in Posts, o \in DOMAIN objects, c \in Counters :
                 Counts(p, o, c)' <=> Counts(p, o, c) \/ (p = q /\ state[q] = o /\ Writes(q, c))
           /\ \A p \in Posts, c \in Counters : ~Counts(p, q, c)' \/ q \in DOMAIN objects
           /\ \A c \in Counters : Writes(q, c) => /\ Count(q) /\ q \in Posts /\ state[q] \in DOMAIN objects
                                                  /\ ~Counts(q, state[q], c)
<1>0. \A p \in Posts : CounterOf(p) \in Counters \ {"total"} /\ CounterOf(p)' = CounterOf(p)
  BY OneMoves, TypedBatch DEF CounterOf, StoreInv
<1>1. \A p \in Posts \ {q} : \A o, c : Counts(p, o, c)' <=> Counts(p, o, c)
  BY <1>0, OneMoves DEF Counts
<1>2. \A p \in Posts : \A c : Counts(p, q, c) => q \in DOMAIN objects
  BY DEF Counts, StoreInv, Placed
<1>3. ASSUME q \in Posts, NEW o \in DOMAIN objects, NEW c \in Counters
      PROVE  Counts(q, o, c)' <=> Counts(q, o, c) \/ (state[q] = o /\ Writes(q, c))
  BY <1>0, <1>3, StoreAssumption DEF StoreInv, TypeOK, Placed, Posting, Counting, Counts, Writes, Arrive, Get,
         MakeOrphan, Merge, Append1, Count, Read, Write, Scan, Look, Attach, Buffer, Mark, Moves, Goes, At
<1>4. q \in Posts /\ q \notin DOMAIN objects => \A c : ~Counts(q, q, c)'
  BY StoreAssumption DEF StoreInv, TypeOK, Placed, Posting, Counting, Counts, Arrive, Get, MakeOrphan, Merge,
         Append1, Count, Read, Write, Scan, Look, Attach, Buffer, Mark, Moves, Goes, At
<1>5. ASSUME NEW c \in Counters, Writes(q, c)
      PROVE  Count(q) /\ q \in Posts /\ state[q] \in DOMAIN objects /\ ~Counts(q, state[q], c)
  <2>1. pc[q] \in {"writeTotal", "writeOne"}
    BY <1>5 DEF Writes, At
  <2>2. q \in Posts
    BY <2>1, StoreAssumption DEF StoreInv, Placed, Stepping
  <2>3. state[q] \in DOMAIN objects /\ ~Counts(q, state[q], c)
    BY <1>0, <1>5, <2>1, <2>2 DEF StoreInv, Placed, Writes, Counts, At
  <2>4. Count(q)
    BY <2>1, <2>2 DEF Arrive, Get, MakeOrphan, Merge, Append1, Scan, Look, Attach, Buffer, Mark, At
  <2>. QED  BY <2>2, <2>3, <2>4
<1>. QED  BY <1>1, <1>2, <1>3, <1>4, <1>5

\* What a step makes of a counter, and of the number a request holds.
LEMMA CounterStep ==
    ASSUME StoreInv, NEW q \in Requests,
           \/ Arrive(q) \/ MakeOrphan(q) \/ Merge(q) \/ Append1(q) \/ Count(q)
           \/ Scan(q) \/ Look(q) \/ Attach(q) \/ Buffer(q) \/ Mark(q)
    PROVE  /\ \A o \in DOMAIN objects, c \in Counters :
                 objects'[o].count[c] = IF Writes(q, c) /\ state[q] = o THEN number[q] + 1
                                        ELSE objects[o].count[c]
           /\ q \in Posts /\ pc'[q] = "writeTotal" =>
                 /\ state'[q] = state[q] /\ state[q] \in DOMAIN objects /\ objects' = objects
                 /\ number'[q] = objects[state[q]].count["total"]
           /\ q \in Posts /\ pc'[q] = "writeOne" =>
                 /\ state'[q] = state[q] /\ state[q] \in DOMAIN objects /\ objects' = objects
                 /\ number'[q] = objects[state[q]].count[CounterOf(q)]
<1>1. \A p \in Posts : CounterOf(p) \in Counters \ {"total"}
  BY TypedBatch DEF CounterOf, StoreInv
<1>2. ASSUME NEW o \in DOMAIN objects, NEW c \in Counters
      PROVE  objects'[o].count[c] = IF Writes(q, c) /\ state[q] = o THEN number[q] + 1
                                    ELSE objects[o].count[c]
  <2>0. DOMAIN objects[o] = {"results", "count", "status"} /\ DOMAIN objects[o].count = Counters
    BY DEF StoreInv, TypeOK, Object
  <2>1. CASE Count(q)
    <3>1. q \in Posts
      BY <2>1, StoreAssumption DEF Count, Read, Write, At, StoreInv, Placed, Stepping
    <3>2. CASE At(q, "writeTotal")
      <4>1. Writes(q, c) <=> c = "total"
        BY <1>1, <3>1, <3>2 DEF Writes, At
      <4>2. objects' = [objects EXCEPT ![state[q]].count["total"] = number[q] + 1]
        BY <2>1, <3>2 DEF Count, Read, Write, At
      <4>. QED  BY <2>0, <4>1, <4>2
    <3>3. CASE At(q, "writeOne")
      <4>1. Writes(q, c) <=> c = CounterOf(q)
        BY <1>1, <3>1, <3>3 DEF Writes, At
      <4>2. objects' = [objects EXCEPT ![state[q]].count[CounterOf(q)] = number[q] + 1]
        BY <2>1, <3>3 DEF Count, Read, Write, At
      <4>. QED  BY <2>0, <4>1, <4>2
    <3>4. CASE At(q, "readTotal") \/ At(q, "readOne")
      <4>1. ~Writes(q, c) /\ objects' = objects
        BY <2>1, <3>4 DEF Count, Read, Write, At, Writes, Moves
      <4>. QED  BY <4>1
    <3>. QED  BY <2>1, <3>2, <3>3, <3>4 DEF Count, Read, Write
  <2>2. CASE ~Count(q)
    <3>1. ~Writes(q, c)
      BY <2>2, CountsStep
    <3>2. CASE MakeOrphan(q)
      <4>1. q \in Posts /\ q \notin DOMAIN objects
        BY <3>2, StoreAssumption DEF MakeOrphan, At, StoreInv, Placed, Stepping
      <4>. QED  BY <3>1, <3>2, <4>1 DEF MakeOrphan
    <3>3. CASE Append1(q) \/ Mark(q)
      BY <2>0, <3>1, <3>3 DEF Append1, Mark, StoreInv
    <3>4. CASE Arrive(q) \/ Merge(q) \/ Scan(q) \/ Look(q) \/ Attach(q) \/ Buffer(q)
      <4>1. objects' = objects
        BY <3>4 DEF Arrive, Get, Merge, Scan, Look, Attach, Buffer, Moves
      <4>. QED  BY <3>1, <4>1
    <3>. QED  BY <2>2, <3>2, <3>3, <3>4
  <2>. QED  BY <2>1, <2>2
<1>3. ASSUME q \in Posts, pc'[q] \in {"writeTotal", "writeOne"}
      PROVE  /\ Count(q) /\ state' = state /\ objects' = objects
             /\ pc'[q] = "writeTotal" => Read(q, "total", "readTotal", "writeTotal")
             /\ pc'[q] = "writeOne" => Read(q, CounterOf(q), "readOne", "writeOne")
  BY <1>3, StoreAssumption DEF StoreInv, TypeOK, Arrive, Get, MakeOrphan, Merge, Append1, Count, Read, Write,
         Scan, Look, Attach, Buffer, Mark, Moves, Goes, At
<1>4. ASSUME q \in Posts, pc'[q] \in {"writeTotal", "writeOne"}
      PROVE  state[q] \in DOMAIN objects
  BY <1>3, <1>4 DEF StoreInv, Placed, Read, At
<1>. QED  BY <1>2, <1>3, <1>4 DEF Read, Mine, StoreInv, TypeOK

\* How the tallies of an object grow with a step.
LEMMA TalliesStep ==
    ASSUME StoreInv, NEW q \in Requests,
           \/ Arrive(q) \/ MakeOrphan(q) \/ Merge(q) \/ Append1(q) \/ Count(q)
           \/ Scan(q) \/ Look(q) \/ Attach(q) \/ Buffer(q) \/ Mark(q)
    PROVE  /\ \A o \in DOMAIN objects :
                 /\ Cardinality(FiledIn(o)) \in Nat
                 /\ Cardinality(FiledIn(o)') = Cardinality(FiledIn(o))
                                               + (IF Append1(q) /\ state[q] = o THEN 1 ELSE 0)
                 /\ \A c \in Counters :
                       /\ Cardinality(Counted(o, c)) \in Nat
                       /\ Cardinality(Counted(o, c)') = Cardinality(Counted(o, c))
                                                        + (IF Writes(q, c) /\ state[q] = o THEN 1 ELSE 0)
           /\ q \in DOMAIN objects' \ DOMAIN objects =>
                 Cardinality(FiledIn(q)') = 0 /\ \A c \in Counters : Cardinality(Counted(q, c)') = 0
<1>1. IsFiniteSet({p \in Posts : pc[p] # "new"})
  BY DEF StoreInv, Stored
<1>2. ASSUME NEW o \in DOMAIN objects
      PROVE  /\ Cardinality(FiledIn(o)) \in Nat
             /\ Cardinality(FiledIn(o)') = Cardinality(FiledIn(o))
                                           + (IF Append1(q) /\ state[q] = o THEN 1 ELSE 0)
  <2> DEFINE grows == Append1(q) /\ state[q] = o
  <2>1. IsFiniteSet(FiledIn(o))
    BY <1>1, FiniteTallies
  <2>2. grows => q \notin FiledIn(o)
    BY InRunStep DEF FiledIn
  <2>3. \A p : p \in FiledIn(o)' <=> p \in FiledIn(o) \/ (grows /\ p = q)
    BY InRunStep DEF FiledIn
  <2>4. grows \in BOOLEAN
    BY DEF Append1
  <2> HIDE DEF grows
  <2>5. /\ Cardinality(FiledIn(o)) \in Nat
        /\ Cardinality(FiledIn(o)') = Cardinality(FiledIn(o)) + (IF grows THEN 1 ELSE 0)
    BY <2>1, <2>2, <2>3, <2>4, Grown
  <2>. QED  BY <2>5 DEF grows
<1>3. ASSUME NEW o \in DOMAIN objects, NEW c \in Counters
      PROVE  /\ Cardinality(Counted(o, c)) \in Nat
             /\ Cardinality(Counted(o, c)') = Cardinality(Counted(o, c))
                                              + (IF Writes(q, c) /\ state[q] = o THEN 1 ELSE 0)
  <2> DEFINE grows == Writes(q, c) /\ state[q] = o
  <2>1. IsFiniteSet(Counted(o, c))
    BY <1>1, FiniteTallies
  <2>2. grows => q \notin Counted(o, c)
    BY CountsStep DEF Counted
  <2>3. \A p : p \in Counted(o, c)' <=> p \in Counted(o, c) \/ (grows /\ p = q)
    BY CountsStep DEF Counted
  <2>4. grows \in BOOLEAN
    BY DEF Writes
  <2> HIDE DEF grows
  <2>5. /\ Cardinality(Counted(o, c)) \in Nat
        /\ Cardinality(Counted(o, c)') = Cardinality(Counted(o, c)) + (IF grows THEN 1 ELSE 0)
    BY <2>1, <2>2, <2>3, <2>4, Grown
  <2>. QED  BY <2>5 DEF grows
<1>4. ASSUME q \in DOMAIN objects' \ DOMAIN objects
      PROVE  Cardinality(FiledIn(q)') = 0 /\ \A c \in Counters : Cardinality(Counted(q, c)') = 0
  <2>1. FiledIn(q)' = {}
    BY <1>4, InRunStep DEF FiledIn
  <2>2. \A c \in Counters : Counted(q, c)' = {}
    BY <1>4, CountsStep DEF Counted
  <2>. QED  BY <2>1, <2>2, FS_EmptySet
<1>. QED  BY <1>2, <1>3, <1>4

LEMMA TalliedStep ==
    ASSUME StoreInv, NEW q \in Requests,
           \/ Arrive(q) \/ MakeOrphan(q) \/ Merge(q) \/ Append1(q) \/ Count(q)
           \/ Scan(q) \/ Look(q) \/ Attach(q) \/ Buffer(q) \/ Mark(q)
    PROVE  Tallied'
<1>1. ASSUME NEW o \in DOMAIN objects' \ DOMAIN objects
      PROVE  /\ Len(Results(o)') = Cardinality(FiledIn(o)')
             /\ objects'[o].count["total"] <= Cardinality(Counted(o, "total")')
             /\ \A p \in Posts : ~(At(p, "writeTotal")' /\ state'[p] = o)
  <2>1. o = q /\ Results(o)' = <<>> /\ objects'[o].count["total"] = 0 /\ MakeOrphan(q)
    BY ResultsStep
  <2>2. Cardinality(FiledIn(o)') = 0 /\ Cardinality(Counted(o, "total")') = 0
    BY <2>1, TalliesStep
  <2>3. \A p \in Posts : ~(At(p, "writeTotal")' /\ state'[p] = o)
    BY <2>1, InRunStep DEF InRun, Counting, At
  <2>. QED  BY <2>1, <2>2, <2>3
<1>2. ASSUME NEW o \in DOMAIN objects
      PROVE  /\ Len(Results(o)') = Cardinality(FiledIn(o)')
             /\ objects'[o].count["total"] <= Cardinality(Counted(o, "total")')
             /\ \A p \in Posts : At(p, "writeTotal")' /\ state'[p] = o
                                    => number'[p] <= Cardinality(Counted(o, "total")')
  <2>1. /\ Len(Results(o)) = Cardinality(FiledIn(o))
        /\ objects[o].count["total"] <= Cardinality(Counted(o, "total"))
        /\ \A p \in Posts : At(p, "writeTotal") /\ state[p] = o
                              => number[p] <= Cardinality(Counted(o, "total"))
    BY DEF StoreInv, Tallied
  <2>2. Results(o) \in Seq(Posts) /\ objects[o].count["total"] \in Nat /\ \A p \in Posts : number[p] \in Nat
    BY TypedResults DEF StoreInv, TypeOK
  <2>3. Len(Results(o)') = Cardinality(FiledIn(o)')
    <3>1. CASE Append1(q) /\ state[q] = o
      <4>1. Results(o)' = Append(Results(o), q) /\ q \in Posts
        BY <3>1, ResultsStep, InRunStep
      <4>2. Len(Results(o)') = Len(Results(o)) + 1
        BY <2>2, <4>1, OneMore
      <4>. QED  BY <2>1, <3>1, <4>2, TalliesStep
    <3>2. CASE ~(Append1(q) /\ state[q] = o)
      <4>1. Results(o)' = Results(o) /\ Cardinality(FiledIn(o)') = Cardinality(FiledIn(o)) + 0
        BY <3>2, ResultsStep, TalliesStep
      <4>. QED  BY <2>1, <4>1, TalliesStep
    <3>. QED  BY <3>1, <3>2
  <2>4. /\ Cardinality(Counted(o, "total")) \in Nat
        /\ Cardinality(Counted(o, "total")') = Cardinality(Counted(o, "total"))
                                                + (IF Writes(q, "total") /\ state[q] = o THEN 1 ELSE 0)
    BY TalliesStep
  <2>5. objects'[o].count["total"] <= Cardinality(Counted(o, "total")')
    <3>1. CASE Writes(q, "total") /\ state[q] = o
      <4>1. q \in Posts /\ At(q, "writeTotal")
        BY <3>1, TypedBatch, CountsStep DEF Writes, StoreInv, CounterOf
      <4>2. objects'[o].count["total"] = number[q] + 1
        BY <3>1, CounterStep
      <4>. QED  BY <2>1, <2>2, <2>4, <3>1, <4>1, <4>2
    <3>2. CASE ~(Writes(q, "total") /\ state[q] = o)
      <4>1. objects'[o].count["total"] = objects[o].count["total"]
        BY <3>2, CounterStep
      <4>. QED  BY <2>1, <2>2, <2>4, <3>2, <4>1
    <3>. QED  BY <3>1, <3>2
  <2>6. ASSUME NEW p \in Posts, At(p, "writeTotal")', state'[p] = o
        PROVE  number'[p] <= Cardinality(Counted(o, "total")')
    <3>1. CASE p = q
      <4>1. state[q] = o /\ number'[q] = objects[o].count["total"]
        BY <2>6, <3>1, CounterStep DEF At
      <4>. QED  BY <2>1, <2>2, <2>4, <3>1, <4>1
    <3>2. CASE p # q
      <4>1. At(p, "writeTotal") /\ state[p] = o /\ number'[p] = number[p]
        BY <2>6, <3>2, OneMoves DEF At
      <4>. QED  BY <2>1, <2>2, <2>4, <4>1
    <3>. QED  BY <3>1, <3>2
  <2>. QED  BY <2>3, <2>5, <2>6
<1>. QED  BY <1>1, <1>2 DEF Tallied

LEMMA ExactStep ==
    ASSUME StoreInv, NEW q \in Requests,
           \/ Arrive(q) \/ MakeOrphan(q) \/ Merge(q) \/ Append1(q) \/ Count(q)
           \/ Scan(q) \/ Look(q) \/ Attach(q) \/ Buffer(q) \/ Mark(q)
    PROVE  Exact'
<1> SUFFICES ASSUME Serial'
             PROVE  \A o \in DOMAIN objects' :
                       /\ \A c \in Counters : objects'[o].count[c] = Cardinality(Counted(o, c)')
                       /\ \A p \in Posts : state'[p] = o =>
                            /\ At(p, "writeTotal")' => number'[p] = Cardinality(Counted(o, "total")')
                            /\ At(p, "writeOne")' => number'[p] = Cardinality(Counted(o, CounterOf(p))')
  BY DEF Exact
<1>1. Serial
  BY OneMoves DEF Serial, Overlapped
<1>2. \A p \in Posts : CounterOf(p) \in Counters \ {"total"} /\ CounterOf(p)' = CounterOf(p)
  BY OneMoves, TypedBatch DEF CounterOf, StoreInv
<1>3. ASSUME NEW o \in DOMAIN objects' \ DOMAIN objects
      PROVE  /\ \A c \in Counters : objects'[o].count[c] = Cardinality(Counted(o, c)')
             /\ \A p \in Posts : ~(state'[p] = o /\ (At(p, "writeTotal")' \/ At(p, "writeOne")'))
  <2>1. o = q /\ objects'[o].count = [c \in Counters |-> 0]
    BY <1>3, ResultsStep
  <2>2. \A c \in Counters : Cardinality(Counted(o, c)') = 0
    BY <2>1, TalliesStep
  <2>3. \A p \in Posts : ~(state'[p] = o /\ (At(p, "writeTotal")' \/ At(p, "writeOne")'))
    BY <2>1, InRunStep DEF InRun, Counting, At
  <2>. QED  BY <2>1, <2>2, <2>3
<1>4. ASSUME NEW o \in DOMAIN objects
      PROVE  /\ \A c \in Counters : objects'[o].count[c] = Cardinality(Counted(o, c)')
             /\ \A p \in Posts : state'[p] = o =>
                   /\ At(p, "writeTotal")' => number'[p] = Cardinality(Counted(o, "total")')
                   /\ At(p, "writeOne")' => number'[p] = Cardinality(Counted(o, CounterOf(p))')
  <2>1. /\ \A c \in Counters : objects[o].count[c] = Cardinality(Counted(o, c))
        /\ \A p \in Posts : state[p] = o =>
             /\ At(p, "writeTotal") => number[p] = Cardinality(Counted(o, "total"))
             /\ At(p, "writeOne") => number[p] = Cardinality(Counted(o, CounterOf(p)))
    BY <1>1 DEF StoreInv, Exact
  <2>2. \A c \in Counters : Cardinality(Counted(o, c)') = Cardinality(Counted(o, c))
                               + (IF Writes(q, c) /\ state[q] = o THEN 1 ELSE 0)
    BY TalliesStep
  <2>3. \A c \in Counters : Cardinality(Counted(o, c)) \in Nat
    BY TalliesStep
  <2>4. ASSUME NEW c \in Counters
        PROVE  objects'[o].count[c] = Cardinality(Counted(o, c)')
    <3>1. CASE Writes(q, c) /\ state[q] = o
      <4>1. q \in Posts /\ objects'[o].count[c] = number[q] + 1
        BY <3>1, CountsStep, CounterStep
      <4>2. number[q] = Cardinality(Counted(o, c))
        BY <2>1, <3>1, <4>1 DEF Writes
      <4>. QED  BY <2>2, <3>1, <4>1, <4>2
    <3>2. CASE ~(Writes(q, c) /\ state[q] = o)
      <4>1. objects'[o].count[c] = objects[o].count[c]
        BY <3>2, CounterStep
      <4>. QED  BY <2>1, <2>2, <2>3, <3>2, <4>1
    <3>. QED  BY <3>1, <3>2
  <2>5. ASSUME NEW p \in Posts, state'[p] = o, pc'[p] \in {"writeTotal", "writeOne"}
        PROVE  /\ At(p, "writeTotal")' => number'[p] = Cardinality(Counted(o, "total")')
               /\ At(p, "writeOne")' => number'[p] = Cardinality(Counted(o, CounterOf(p))')
    <3>0. \A c \in Counters : ~Writes(q, c)
      <4>1. CASE p = q
        <5>1. SUFFICES ASSUME NEW c \in Counters, Writes(q, c)
                       PROVE  FALSE
          OBVIOUS
        <5>2. Count(q) /\ pc[q] \in {"writeTotal", "writeOne"}
          BY <5>1, CountsStep DEF Writes, At
        <5>3. pc' = [pc EXCEPT ![q] = "readOne"] \/ pc' = [pc EXCEPT ![q] = "done"]
          BY <5>2 DEF Count, Read, Write, At, Moves, Goes
        <5>. QED  BY <2>5, <4>1, <5>3 DEF StoreInv, TypeOK
      <4>2. CASE p # q
        <5>1. p \in InProgress
          BY <2>5, <4>2, OneMoves DEF InProgress
        <5>2. \A c \in Counters : Writes(q, c) => q \in Posts /\ q \in InProgress
          BY CountsStep DEF Writes, At, InProgress
        <5>. QED  BY <1>1, <4>2, <5>1, <5>2 DEF Serial, Overlapped, StoreInv, Met
      <4>. QED  BY <4>1, <4>2
    <3>1. \A c \in Counters : Cardinality(Counted(o, c)') = Cardinality(Counted(o, c))
      BY <2>2, <2>3, <3>0
    <3>2. CASE p = q
      <4>1. state[q] = o
        BY <2>5, <3>2, CounterStep
      <4>2. /\ pc'[p] = "writeTotal" => number'[p] = objects[o].count["total"]
            /\ pc'[p] = "writeOne" => number'[p] = objects[o].count[CounterOf(p)]
        BY <3>2, <4>1, CounterStep
      <4>. QED  BY <1>2, <2>1, <3>1, <4>2 DEF At
    <3>3. CASE p # q
      <4>1. state[p] = o /\ number'[p] = number[p] /\ pc'[p] = pc[p]
        BY <2>5, <3>3, OneMoves
      <4>. QED  BY <1>2, <2>1, <3>1, <4>1 DEF At
    <3>. QED  BY <3>2, <3>3
  <2>. QED  BY <2>4, <2>5 DEF At
<1>. QED  BY <1>3, <1>4 DEF At

\* A list of results is only ever added to.
LEMMA ResultsExtend ==
    ASSUME StoreInv, NEW q \in Requests,
           \/ Arrive(q) \/ MakeOrphan(q) \/ Merge(q) \/ Append1(q) \/ Count(q)
           \/ Scan(q) \/ Look(q) \/ Attach(q) \/ Buffer(q) \/ Mark(q),
           NEW o \in DOMAIN objects
    PROVE  /\ Len(Results(o)) \in Nat /\ Len(Results(o)') \in Nat /\ Len(Results(o)) <= Len(Results(o)')
           /\ \A i \in 1..Len(Results(o)) : Results(o)'[i] = Results(o)[i]
<1>1. Results(o) \in Seq(Posts)
  BY TypedResults DEF StoreInv
<1>2. CASE Append1(q) /\ state[q] = o
  <2>1. Results(o)' = Append(Results(o), q) /\ q \in Posts
    BY <1>2, ResultsStep, InRunStep
  <2>. QED  BY <1>1, <2>1, OneMore
<1>3. CASE ~(Append1(q) /\ state[q] = o)
  <2>1. Results(o)' = Results(o)
    BY <1>3, ResultsStep
  <2>. QED  BY <1>1, <2>1
<1>. QED  BY <1>2, <1>3

LEMMA LookingStep ==
    ASSUME StoreInv, NEW q \in Requests,
           \/ Arrive(q) \/ MakeOrphan(q) \/ Merge(q) \/ Append1(q) \/ Count(q)
           \/ Scan(q) \/ Look(q) \/ Attach(q) \/ Buffer(q) \/ Mark(q)
    PROVE  Looking'
<1>1. Looking /\ Placed
  BY DEF StoreInv
<1>2. \A r \in Requests : MethodOf(r)' = MethodOf(r)
  BY OneMoves DEF MethodOf
<1>3. \A o \in DOMAIN objects :
         /\ Len(Results(o)) \in Nat /\ Len(Results(o)') \in Nat /\ Len(Results(o)) <= Len(Results(o)')
         /\ \A i \in 1..Len(Results(o)) : Results(o)'[i] = Results(o)[i]
  BY ResultsExtend
<1>4. ASSUME NEW s \in StepPosts \ {q}
      PROVE  Found(s)'
  <2>1. pc'[s] = pc[s] /\ number'[s] = number[s] /\ state'[s] = state[s]
    BY OneMoves
  <2>2. CASE pc[s] \in {"look", "attach"}
    <3>1. state[s] \in DOMAIN objects
      BY <1>1, <2>2 DEF Placed
    <3>2. Found(s)
      BY <1>1 DEF Looking
    <3>3. batch' = batch
      BY OneMoves
    <3>. QED  BY <1>3, <2>1, <2>2, <3>1, <3>2, <3>3 DEF At, MethodOf, Found, Results
  <2>3. CASE pc[s] \notin {"look", "attach"}
    BY <2>1, <2>3 DEF At, Found
  <2>. QED  BY <2>2, <2>3
<1>5. ASSUME q \in StepPosts, pc'[q] \in {"look", "attach"}
      PROVE  /\ state' = state /\ state[q] \in DOMAIN objects /\ objects' = objects /\ batch' = batch
             /\ pc'[q] = "look" => number'[q] \in 0..Len(Results(state[q]))
             /\ pc'[q] = "attach" => /\ number'[q] \in 1..Len(Results(state[q]))
                                     /\ MethodOf(Results(state[q])[number'[q]]) = MethodOf(q)
  <2>0. Scan(q) \/ Look(q)
    BY <1>5, StoreAssumption DEF StoreInv, TypeOK, Arrive, Get, MakeOrphan, Merge, Append1, Count, Read, Write,
         Attach, Buffer, Mark, Moves, Goes, At
  <2>1. pc[q] \in {"scan", "look"} /\ state' = state /\ objects' = objects /\ batch' = batch
    BY <2>0 DEF Scan, Look, At, Moves
  <2>2. state[q] \in DOMAIN objects
    BY <1>1, <1>5, <2>1 DEF Placed
  <2>3. Len(Results(state[q])) \in Nat
    BY <2>2, <1>3
  <2>4. CASE Scan(q)
    BY <2>1, <2>2, <2>3, <2>4 DEF Scan, Moves, Goes, Mine, Results, StoreInv, TypeOK
  <2>5. CASE Look(q)
    <3>1. number[q] \in 0..Len(Results(state[q]))
      BY <1>1, <1>5, <2>5 DEF Looking, Found, Look
    <3>2. CASE number[q] = 0
      BY <1>5, <2>5, <3>2 DEF Look, Moves, Goes, StoreInv, TypeOK
    <3>3. CASE number[q] # 0 /\ Match(q, Mine(q).results[number[q]])
      BY <2>1, <2>2, <2>3, <2>5, <3>1, <3>3 DEF Look, Moves, Goes, Match, Mine, Results, StoreInv, TypeOK
    <3>4. CASE number[q] # 0 /\ ~Match(q, Mine(q).results[number[q]])
      BY <2>1, <2>2, <2>3, <2>5, <3>1, <3>4 DEF Look, Moves, Goes, StoreInv, TypeOK
    <3>. QED  BY <3>2, <3>3, <3>4
  <2>. QED  BY <2>0, <2>1, <2>2, <2>4, <2>5
<1>6. q \in StepPosts => Found(q)'
  BY <1>5 DEF Found, At, Results, MethodOf
<1>. QED  BY <1>4, <1>6 DEF Looking

\* A step of a request that is not about the method of a pair, or of its result
\* when it is filed, leaves the pair as it is.
LEMMA PairFrame ==
    ASSUME StoreInv, NEW q \in Requests,
           \/ Arrive(q) \/ MakeOrphan(q) \/ Merge(q) \/ Append1(q) \/ Count(q)
           \/ Scan(q) \/ Look(q) \/ Attach(q) \/ Buffer(q) \/ Mark(q),
           NEW p \in Posts, NEW s \in StepPosts \ {q}, Pair(p, s), steps'[p] = steps[p],
           pending'[MethodOf(s)] = pending[MethodOf(s)], (pc'[p] \in Before) <=> (pc[p] \in Before)
    PROVE  Pair(p, s)'
<1>1. /\ MethodOf(s)' = MethodOf(s) /\ pc'[s] = pc[s] /\ number'[s] = number[s] /\ state'[s] = state[s]
      /\ Single' => Single
      /\ ~Overlapped(p, s)' => ~Overlapped(p, s)
  BY OneMoves DEF MethodOf, Single, Overlapped
<1>2. ASSUME At(s, "look"), NEW i \in 1..number[s]
      PROVE  Results(state[s])'[i] = Results(state[s])[i]
  <2>1. state[s] \in DOMAIN objects /\ number[s] \in 0..Len(Results(state[s]))
    BY <1>2 DEF StoreInv, Placed, Looking, Found, At
  <2>2. i \in 1..Len(Results(state[s]))
    BY <2>1, TypedResults DEF StoreInv
  <2>3. objects'[state[s]].results[i] = objects[state[s]].results[i]
    BY <2>1, <2>2, ResultsExtend DEF Results
  <2>. QED  BY <1>1, <2>3 DEF Results
<1>. QED  BY <1>1, <1>2 DEF Pair, Done, At

\* The result of a pair is the one an "attach" of its steps has found.
LEMMA FoundOwn ==
    ASSUME StoreInv, NEW s \in StepPosts, At(s, "attach"), NEW p \in Posts, NEW t \in StepPosts, Alone(p, t)
    PROVE  LET found == Results(state[s])[number[s]]
           IN  /\ found \in Posts /\ (found = p <=> s = t)
               /\ s = t => pc[p] \in Counting
<1> DEFINE found == Results(state[s])[number[s]]
<1>1. state[s] \in DOMAIN objects /\ number[s] \in 1..Len(Results(state[s])) /\ MethodOf(found) = MethodOf(s)
  BY DEF StoreInv, Placed, Looking, Found, At
<1>2. found \in Posts
  BY <1>1, TypedResults DEF StoreInv
<1>3. found = p <=> s = t
  BY <1>1, <1>2, StoreAssumption DEF Alone
<1>4. found = p => Listed(p, state[s])
  BY <1>1 DEF Listed
<1>5. Listed(p, state[s]) => pc[p] \in Counting
  BY <1>1 DEF StoreInv, Filed, InRun
<1>. QED  BY <1>2, <1>3, <1>4, <1>5

\* A result that is there before its steps come is found by them.
LEMMA Awaits ==
    ASSUME StoreInv, NEW p \in Posts, NEW s \in StepPosts, pc[p] \notin Before, Single,
           ~Overlapped(p, s), s \in InProgress, pc[s] # "buffer"
    PROVE  state[s] \in DOMAIN objects /\ Listed(p, state[s])
<1>1. state[s] \in DOMAIN objects
  BY DEF StoreInv, Placed, Stepping, InProgress
<1>2. p \notin InProgress
  BY StoreAssumption DEF StoreInv, Met, Overlapped
<1>3. pc[p] = "done"
  BY <1>2 DEF InProgress, Before
<1>4. state[p] = state[s]
  BY <1>1, <1>3 DEF StoreInv, Placed, Single
<1>. QED  BY <1>1, <1>3, <1>4 DEF StoreInv, Filed, InRun, Counting

LEMMA PairedStep ==
    ASSUME StoreInv, NEW q \in Requests,
           \/ Arrive(q) \/ MakeOrphan(q) \/ Merge(q) \/ Append1(q) \/ Count(q)
           \/ Scan(q) \/ Look(q) \/ Attach(q) \/ Buffer(q) \/ Mark(q)
    PROVE  Paired'
<1> SUFFICES ASSUME NEW p \in Posts, NEW s \in StepPosts, Alone(p, s)'
             PROVE  Pair(p, s)'
  BY DEF Paired
<1>1. Alone(p, s) /\ MethodOf(s)' = MethodOf(s)
  BY OneMoves DEF Alone, MethodOf
<1>2. Pair(p, s)
  BY <1>1 DEF StoreInv, Paired
<1>3. p # s /\ None \notin {p, s}
  BY StoreAssumption
<1>4. /\ MethodOf(p) = MethodOf(s) /\ MethodOf(s) \in Methods
      /\ \A r \in (Posts \cup StepPosts) \ {p, s} : MethodOf(r) # MethodOf(s)
  BY <1>1, TypedBatch DEF Alone, StoreInv
<1>5. Single' => Single
  BY OneMoves DEF Single
<1>6. Overlapped(p, s) => Overlapped(p, s)'
  BY OneMoves DEF Overlapped
<1>7. CASE Arrive(q)
  <2>1. steps' = steps /\ pending' = pending /\ pc[q] = "new" /\ state'[q] = store
    BY <1>7 DEF Arrive, Get, At, StoreInv, TypeOK
  <2>2. CASE q = s
    <3>1. pc'[s] = IF store = None THEN "buffer" ELSE "scan"
      BY <1>7, <2>2, StoreAssumption DEF Arrive, Get, Goes, StoreInv, TypeOK
    <3>2. pc'[p] = pc[p]
      BY <1>3, <2>2, OneMoves
    <3>3. pc[p] \notin Before => store # None
      BY DEF Before, StoreInv, Placed, Stored
    <3>. QED  BY <1>1, <1>2, <2>1, <2>2, <3>1, <3>2, <3>3 DEF Pair, Done, At
  <2>3. CASE q # s
    <3>1. (pc'[p] \in Before) <=> (pc[p] \in Before)
      BY <1>7, <2>1, OneMoves, StoreAssumption DEF Arrive, Get, Goes, StoreInv, TypeOK, Before
    <3>. QED  BY <1>2, <1>7, <2>1, <2>3, <3>1, PairFrame
  <2>. QED  BY <2>2, <2>3
<1>8. CASE MakeOrphan(q)
  <2>1. q \in Posts /\ q # s
    BY <1>8, StoreAssumption DEF MakeOrphan, At, StoreInv, Placed, Stepping
  <2>2. steps' = steps /\ pending' = pending
    BY <1>8 DEF MakeOrphan
  <2>3. (pc'[p] \in Before) <=> (pc[p] \in Before)
    BY <1>8 DEF MakeOrphan, Moves, Goes, StoreInv, TypeOK, Before, At
  <2>. QED  BY <1>2, <1>8, <2>1, <2>2, <2>3, PairFrame
<1>9. CASE Merge(q)
  <2>1. q \in Posts /\ q # s /\ pc[q] = "merge"
    BY <1>9, StoreAssumption DEF Merge, At, StoreInv, Placed, Stepping
  <2>2. CASE q = p
    <3>1. /\ steps'[p] = pending[MethodOf(s)] /\ pending'[MethodOf(s)] = None /\ pc'[p] = "append"
          /\ pc'[s] = pc[s]
      BY <1>4, <1>9, <2>1, <2>2, OneMoves DEF Merge, Merged, Moves, Goes, StoreInv, TypeOK
    <3>2. ~Overlapped(p, s) => s \notin InProgress
      BY <1>3, <2>1, <2>2 DEF StoreInv, Met, Overlapped, InProgress
    <3>. QED  BY <1>1, <1>2, <1>3, <1>6, <2>1, <2>2, <3>1, <3>2 DEF Pair, Done, At, Before, InProgress
  <2>3. CASE q # p
    <3>1. steps'[p] = steps[p] /\ pending'[MethodOf(s)] = pending[MethodOf(s)] /\ pc'[p] = pc[p]
      BY <1>4, <1>9, <2>1, <2>3, OneMoves DEF Merge, StoreInv, TypeOK
    <3>. QED  BY <1>2, <1>9, <2>1, <3>1, PairFrame
  <2>. QED  BY <2>2, <2>3
<1>10. CASE Append1(q) \/ Count(q)
  <2>1. q \in Posts /\ q # s
    BY <1>10, StoreAssumption DEF Append1, Count, Read, Write, At, StoreInv, Placed, Stepping
  <2>2. steps' = steps /\ pending' = pending
    BY <1>10 DEF Append1, Count, Read, Write
  <2>3. (pc'[p] \in Before) <=> (pc[p] \in Before)
    BY <1>10 DEF Append1, Count, Read, Write, Moves, Goes, StoreInv, TypeOK, Before, At
  <2>. QED  BY <1>2, <1>10, <2>1, <2>2, <2>3, PairFrame
<1>11. CASE Scan(q) \/ Look(q)
  <2>1. q \in StepPosts /\ pc[q] \in {"scan", "look"}
    BY <1>11 DEF Scan, Look, At, StoreInv, Placed, Posting, Counting
  <2>2. steps' = steps /\ pending' = pending /\ met' = met
    BY <1>11 DEF Scan, Look, Moves
  <2>3. pc'[p] = pc[p]
    BY <2>1, OneMoves, StoreAssumption
  <2>4. CASE q = s
    <3>1. ~Done(s) /\ ~Done(s)' /\ ~At(s, "new")'
      BY <1>11, <2>1, <2>4 DEF Scan, Look, Moves, Goes, StoreInv, TypeOK, Done, At
    <3>2. steps[p] = None /\ pending[MethodOf(s)] # s
      BY <1>2, <3>1 DEF Pair
    <3>3. ASSUME pc[p] \notin Before, Single, ~Overlapped(p, s)
          PROVE  ~At(s, "buffer")' /\ (At(s, "look")' => \E i \in 1..number'[s] : Results(state[s])'[i] = p)
      <4>1. state[s] \in DOMAIN objects /\ Listed(p, state[s])
        BY <2>1, <2>4, <3>3, Awaits DEF InProgress
      <4>2. Results(state[s])' = Results(state[s]) /\ Results(state[s]) \in Seq(Posts)
        BY <1>11, <4>1, TypedResults DEF Scan, Look, Results, Moves, StoreInv
      <4>3. CASE Scan(q)
        BY <2>4, <4>1, <4>2, <4>3 DEF Scan, Moves, Goes, Mine, Results, Listed, At, StoreInv, TypeOK
      <4>4. CASE Look(q)
        <5>1. number[s] \in 0..Len(Results(state[s])) /\ \E i \in 1..number[s] : Results(state[s])[i] = p
          BY <1>2, <2>1, <2>4, <3>3, <4>4 DEF StoreInv, Looking, Found, Pair, Look, At
        <5>2. PICK i \in 1..number[s] : Results(state[s])[i] = p
          BY <5>1
        <5>3. number[s] # 0
          BY <5>1
        <5>4. CASE Match(s, Mine(s).results[number[s]])
          BY <2>4, <4>4, <5>3, <5>4 DEF Look, Moves, Goes, At, StoreInv, TypeOK
        <5>5. CASE ~Match(s, Mine(s).results[number[s]])
          <6>1. Results(state[s])[number[s]] # p
            BY <1>4, <3>2, <5>5 DEF Match, Mine, Results
          <6>2. i \in 1..number[s] - 1
            BY <5>1, <5>2, <6>1
          <6>3. pc'[s] = "look" /\ number'[s] = number[s] - 1
            BY <2>4, <4>4, <5>3, <5>5 DEF Look, Moves, Goes, StoreInv, TypeOK
          <6>. QED  BY <4>2, <5>2, <6>2, <6>3 DEF At
        <5>. QED  BY <5>4, <5>5
      <4>. QED  BY <1>11, <4>3, <4>4
    <3>. QED  BY <1>1, <1>2, <1>5, <1>6, <2>2, <2>3, <3>1, <3>2, <3>3 DEF Pair
  <2>5. CASE q # s
    BY <1>2, <1>11, <2>2, <2>3, <2>5, PairFrame
  <2>. QED  BY <2>4, <2>5
<1>12. CASE Attach(q)
  <2>1. q \in StepPosts /\ At(q, "attach") /\ pc'[q] = "done"
    BY <1>12 DEF Attach, At, StoreInv, TypeOK, Placed, Posting, Counting, Moves, Goes
  <2>2. pc'[p] = pc[p]
    BY <2>1, OneMoves, StoreAssumption
  <2>3. pending' = pending /\ steps' = [steps EXCEPT ![Results(state[q])[number[q]]] = q]
    BY <1>12 DEF Attach, Mine, Results
  <2>4. /\ Results(state[q])[number[q]] = p <=> q = s
        /\ q = s => pc[p] \in Counting
    BY <1>1, <2>1, FoundOwn
  <2>5. CASE q = s
    <3>1. steps'[p] = s
      BY <2>3, <2>4, <2>5 DEF StoreInv, TypeOK
    <3>2. pc'[p] \notin Before
      BY <2>2, <2>4, <2>5 DEF Counting, Before
    <3>. QED  BY <1>1, <1>2, <2>1, <2>3, <2>5, <3>1, <3>2 DEF Pair, Done, At
  <2>6. CASE q # s
    <3>1. steps'[p] = steps[p]
      BY <2>3, <2>4, <2>6 DEF StoreInv, TypeOK
    <3>. QED  BY <1>2, <1>12, <2>2, <2>3, <2>6, <3>1, PairFrame
  <2>. QED  BY <2>5, <2>6
<1>13. CASE Buffer(q)
  <2>1. q \in StepPosts /\ pc[q] = "buffer" /\ pc'[q] = "done"
    BY <1>13 DEF Buffer, At, StoreInv, TypeOK, Placed, Posting, Counting, Moves, Goes
  <2>2. pc'[p] = pc[p]
    BY <2>1, OneMoves, StoreAssumption
  <2>3. steps' = steps /\ pending' = [pending EXCEPT ![MethodOf(q)] = q]
    BY <1>13 DEF Buffer
  <2>4. CASE q = s
    <3>1. pending'[MethodOf(s)] = s
      BY <1>4, <2>3, <2>4 DEF StoreInv, TypeOK
    <3>. QED  BY <1>1, <1>2, <1>5, <1>6, <2>1, <2>2, <2>3, <2>4, <3>1 DEF Pair, Done, At
  <2>5. CASE q # s
    <3>1. pending'[MethodOf(s)] = pending[MethodOf(s)]
      <4>1. MethodOf(q) # MethodOf(s)
        BY <1>4, <2>1, <2>5, StoreAssumption
      <4>. QED  BY <2>3, <4>1 DEF StoreInv, TypeOK
    <3>. QED  BY <1>2, <1>13, <2>2, <2>3, <2>5, <3>1, PairFrame
  <2>. QED  BY <2>4, <2>5
<1>14. CASE Mark(q)
  <2>1. q \notin Posts \cup StepPosts
    BY <1>14 DEF Mark, At, StoreInv, Placed, Posting, Counting, Stepping
  <2>2. steps' = steps /\ pending' = pending
    BY <1>14 DEF Mark
  <2>3. pc'[p] = pc[p]
    BY <2>1, OneMoves
  <2>. QED  BY <1>2, <1>14, <2>1, <2>2, <2>3, PairFrame
<1>. QED  BY <1>7, <1>8, <1>9, <1>10, <1>11, <1>12, <1>13, <1>14

LEMMA StoreInit == Init => StoreInv
<1> SUFFICES ASSUME Init  PROVE StoreInv
  OBVIOUS
<1>1. /\ store = None => objects = <<>>
      /\ store # None => store = "start" /\ objects = [o \in {"start"} |-> Fresh]
  BY StoreAssumption DEF Init
<1>2. DOMAIN objects = IF store = None THEN {} ELSE {"start"}
  BY <1>1
<1>3. /\ \A o \in DOMAIN objects : objects[o] = Fresh
      /\ objects = [o \in DOMAIN objects |-> objects[o]]
  <2>1. CASE store = None
    <3>1. <<>> = [o \in {} |-> Fresh]
      OBVIOUS
    <3>. QED  BY <1>1, <1>2, <2>1, <3>1
  <2>2. CASE store # None
    BY <1>1, <1>2, <2>2
  <2>. QED  BY <2>1, <2>2
<1>4. \A q \in Requests : pc[q] = "new"
  BY DEF Init
<1>5. TypeOK
  <2>1. Fresh \in Object
    BY DEF Fresh, Object
  <2>. QED  BY <1>2, <1>3, <2>1 DEF Init, TypeOK, Objects, PCs
<1>6. Placed
  BY <1>2, <1>4, StoreAssumption DEF Placed, Posting, Stepping
<1>7. Stored
  <2>1. {p \in Posts : pc[p] # "new"} = {}
    BY <1>4
  <2>. QED  BY <1>2, <2>1, FS_EmptySet, FS_Singleton DEF Init, Stored
<1>8. Met
  BY <1>4 DEF Met, InProgress
<1>9. \A o \in DOMAIN objects : Results(o) = <<>> /\ objects[o].count = [c \in Counters |-> 0]
  BY <1>3 DEF Results, Fresh
<1>10. Filed
  BY <1>4, <1>9 DEF Filed, Listed, InRun, Counting
<1>11. \A o, c : FiledIn(o) = {} /\ Counted(o, c) = {}
  BY <1>4 DEF FiledIn, InRun, Counting, Counted, Counts
<1>12. Tallied
  <2>1. Cardinality({}) = 0 /\ Len(<<>>) = 0
    BY FS_EmptySet
  <2>2. \A o \in DOMAIN objects : Len(Results(o)) = 0 /\ objects[o].count["total"] = 0
    <3>1. \A o \in DOMAIN objects : Len(Results(o)) = 0
      BY <1>9, <2>1, Zenon
    <3>2. \A o \in DOMAIN objects : objects[o].count["total"] = 0
      BY <1>9
    <3>. QED  BY <3>1, <3>2
  <2>3. \A p \in Posts : ~At(p, "writeTotal")
    BY <1>4 DEF At
  <2>4. \A o \in DOMAIN objects : Cardinality(FiledIn(o)) = 0 /\ Cardinality(Counted(o, "total")) = 0
    BY <1>11, <2>1, Zenon
  <2>. QED  BY <2>2, <2>3, <2>4 DEF Tallied
<1>13. Exact
  BY <1>4, <1>9, <1>11, FS_EmptySet DEF Exact, At
<1>14. Looking
  BY <1>4 DEF Looking, Found, At
<1>15. Paired
  <2>1. \A p \in Posts, s \in StepPosts : Alone(p, s) => MethodOf(s) \in Methods
    BY <1>5, TypedBatch
  <2>2. \A p \in Posts : steps[p] = None
    BY DEF Init
  <2>3. \A m \in Methods : pending[m] = None
    BY DEF Init
  <2>. QED  BY <1>4, <2>1, <2>2, <2>3, StoreAssumption DEF Paired, Pair, Done, At, Before
<1>. QED  BY <1>3, <1>5, <1>6, <1>7, <1>8, <1>10, <1>12, <1>13, <1>14, <1>15 DEF StoreInv

LEMMA StoreNext == StoreInv /\ [Next]_vars => StoreInv'
<1>1. ASSUME StoreInv, Next
      PROVE  StoreInv'
  <2>1. PICK q \in Requests :
          \/ Arrive(q) \/ MakeOrphan(q) \/ Merge(q) \/ Append1(q) \/ Count(q)
          \/ Scan(q) \/ Look(q) \/ Attach(q) \/ Buffer(q) \/ Mark(q)
    BY <1>1 DEF Next
  <2>2. TypeOK' /\ objects' = [o \in DOMAIN objects' |-> objects'[o]]
    BY <1>1, <2>1, TypedStep
  <2>3. Placed' /\ Stored' /\ Met'
    BY <1>1, <2>1, PlacedStep, StoredStep, MetStep
  <2>4. Filed' /\ Tallied' /\ Exact'
    BY <1>1, <2>1, FiledStep, TalliedStep, ExactStep
  <2>5. Looking' /\ Paired'
    BY <1>1, <2>1, LookingStep, PairedStep
  <2>. QED  BY <2>2, <2>3, <2>4, <2>5 DEF StoreInv
<1>2. ASSUME StoreInv, UNCHANGED vars
      PROVE  StoreInv'
  <2>0. UNCHANGED <<batch, store, objects, steps, pending, pc, state, number, met>>
    BY <1>2 DEF vars
  <2>1. TypeOK'
    BY <1>2, <2>0 DEF StoreInv, TypeOK
  <2>2. Placed' /\ Stored' /\ Met'
    BY <1>2, <2>0 DEF StoreInv, Placed, Stored, Met, InProgress
  <2>3. Filed'
    BY <1>2, <2>0 DEF StoreInv, Filed, Listed, InRun, Results
  <2>4. \A o, c : FiledIn(o)' = FiledIn(o) /\ Counted(o, c)' = Counted(o, c)
    BY <2>0 DEF FiledIn, InRun, Counted, Counts, CounterOf
  <2>5. Tallied'
    BY <1>2, <2>0, <2>4 DEF StoreInv, Tallied, Results, At
  <2>6. Exact'
    <3>1. (Serial' <=> Serial) /\ \A p : CounterOf(p)' = CounterOf(p)
      BY <2>0 DEF Serial, Overlapped, CounterOf
    <3>. QED  BY <1>2, <2>0, <2>4, <3>1 DEF StoreInv, Exact, At
  <2>7. Looking'
    BY <1>2, <2>0 DEF StoreInv, Looking, Found, At, Results, MethodOf
  <2>8. Paired'
    BY <1>2, <2>0 DEF StoreInv, Paired, Pair, Alone, MethodOf, Single, Overlapped, Results, Done, At
  <2>. QED  BY <1>2, <2>0, <2>1, <2>2, <2>3, <2>5, <2>6, <2>7, <2>8 DEF StoreInv
<1>. QED  BY <1>1, <1>2

\* Every reachable state satisfies the invariant.
THEOREM StoreInvariant == Spec => []StoreInv
<1>. QED  BY StoreInit, StoreNext, PTL DEF Spec

\* One object, or more than one.
LEMMA NotOrphanedTwice ==
    ASSUME IsFiniteSet(DOMAIN objects), ~OrphanedTwice
    PROVE  Single
<1> SUFFICES ASSUME NEW a \in DOMAIN objects, NEW b \in DOMAIN objects, a # b
             PROVE  FALSE
  BY DEF Single
<1>1. IsFiniteSet({a}) /\ Cardinality({a}) = 1
  BY FS_Singleton
<1>2. b \notin {a}
  OBVIOUS
<1>3. Cardinality({a} \cup {b}) = Cardinality({a}) + 1
  BY <1>1, <1>2, FS_AddElement
<1>4. {a} \cup {b} \in SUBSET DOMAIN objects
  OBVIOUS
<1>5. Cardinality({a} \cup {b}) <= Cardinality(DOMAIN objects)
  BY <1>4, FS_Subset
<1>6. Cardinality(DOMAIN objects) \in Nat
  BY FS_CardinalityType
<1>7. ~(Cardinality(DOMAIN objects) > 1)
  BY DEF OrphanedTwice
<1>. QED  BY <1>1, <1>3, <1>5, <1>6, <1>7

\* The lost run_id does not lose results: each result that was posted is in the
\* run exactly once, unless two posts made the run at once (post_result).
THEOREM NoResultLost == Spec => []ResultsKept
<1>1. StoreInv => ResultsKept
  <2> SUFFICES ASSUME StoreInv, NEW p \in Posts, Done(p), ~OrphanedTwice
               PROVE  store # None /\ Times(p, objects[store].results) = 1
    BY DEF ResultsKept
  <2>1. state[p] \in DOMAIN objects
    BY DEF StoreInv, Placed, Done
  <2>2. Single
    BY NotOrphanedTwice DEF StoreInv, Stored
  <2>3. store # None /\ store = state[p]
    BY <2>1, <2>2 DEF StoreInv, Stored, Single
  <2>4. Listed(p, store)
    BY <2>1, <2>3 DEF StoreInv, Filed, InRun, Counting, Done
  <2>5. PICK i \in 1..Len(Results(store)) : Results(store)[i] = p
    BY <2>4 DEF Listed
  <2>6. Results(store) \in Seq(Posts)
    BY <2>1, <2>3, TypedResults DEF StoreInv
  <2>7. {j \in DOMAIN Results(store) : Results(store)[j] = p} = {i}
    BY <2>1, <2>3, <2>5, <2>6 DEF StoreInv, Filed
  <2>. QED  BY <2>3, <2>7, FS_Singleton DEF Times, Results
<1>. QED  BY <1>1, StoreInvariant, PTL

\* The dashboard's numbers are those of the results of each run, whenever no
\* request is in progress and no two results were posted at once; and no total is
\* ever ahead of the results, whatever overlaps (post_result).
THEOREM NumbersAddUp == Spec => []CountersAddUp
<1>1. StoreInv => CountersAddUp
  <2> SUFFICES ASSUME StoreInv, NEW o \in DOMAIN objects
               PROVE  LET run == objects[o]
                          Posted(status) == {p \in Posts : p \in ToSet(run.results)
                                                           /\ batch.status[p] \in status}
                      IN /\ run.count["total"] <= Len(run.results)
                         /\ InProgress = {} /\ (\A p, q \in Posts : p = q \/ ~Overlapped(p, q)) =>
                              /\ run.count["total"] = Len(run.results)
                              /\ run.count["passed"] = Cardinality(Posted({"PASSED"}))
                              /\ run.count["failed"] = Cardinality(Posted({"FAILED"}))
                              /\ run.count["skipped"] = Cardinality(Posted({"SKIPPED", "ABORTED"}))
    BY DEF CountersAddUp
  <2> DEFINE Posted(status) == {p \in Posts : p \in ToSet(Results(o)) /\ batch.status[p] \in status}
  <2>1. Results(o) \in Seq(Posts) /\ objects[o].count["total"] \in Nat
    BY TypedResults DEF StoreInv
  <2>2. IsFiniteSet(FiledIn(o)) /\ Cardinality(FiledIn(o)) \in Nat /\ Cardinality(Counted(o, "total")) \in Nat
    BY FiniteTallies DEF StoreInv, Stored
  <2>3. Len(Results(o)) = Cardinality(FiledIn(o))
        /\ objects[o].count["total"] <= Cardinality(Counted(o, "total"))
    BY DEF StoreInv, Tallied
  <2>4. Counted(o, "total") \subseteq FiledIn(o)
    BY DEF Counted, Counts, FiledIn, InRun, Counting
  <2>5. objects[o].count["total"] <= Len(Results(o))
    BY <2>1, <2>2, <2>3, <2>4, FS_Subset
  <2>6. ASSUME InProgress = {}, Serial
        PROVE  /\ objects[o].count["total"] = Len(Results(o))
               /\ objects[o].count["passed"] = Cardinality(Posted({"PASSED"}))
               /\ objects[o].count["failed"] = Cardinality(Posted({"FAILED"}))
               /\ objects[o].count["skipped"] = Cardinality(Posted({"SKIPPED", "ABORTED"}))
    <3>1. \A c \in Counters : objects[o].count[c] = Cardinality(Counted(o, c))
      BY <2>6 DEF StoreInv, Exact
    <3>2. \A p \in Posts : pc[p] \in {"new", "done"}
      BY <2>6 DEF InProgress
    <3>3. \A p \in Posts : p \in ToSet(Results(o)) <=> (state[p] = o /\ pc[p] = "done")
      BY <2>1, <3>2 DEF StoreInv, Filed, Listed, InRun, Counting, ToSet
    <3>4. \A p \in Posts : batch.status[p] \in Statuses
      BY TypedBatch DEF StoreInv
    <3>5. Counted(o, "total") = FiledIn(o)
      BY <3>2 DEF Counted, Counts, FiledIn, InRun, Counting
    <3>6. Counted(o, "passed") = Posted({"PASSED"})
      BY <3>3, <3>4 DEF Counted, Counts, CounterOf
    <3>7. Counted(o, "failed") = Posted({"FAILED"})
      BY <3>3, <3>4 DEF Counted, Counts, CounterOf
    <3>8. Counted(o, "skipped") = Posted({"SKIPPED", "ABORTED"})
      BY <3>3, <3>4 DEF Counted, Counts, CounterOf
    <3>. QED  BY <2>3, <3>1, <3>5, <3>6, <3>7, <3>8
  <2>. QED  BY <2>5, <2>6 DEF Results, Serial
<1>. QED  BY <1>1, StoreInvariant, PTL

\* The only steps of a method end in its only result, whichever came first, unless
\* the two were posted at once (post_result and attach_steps).
THEOREM StepsFindTheirResult == Spec => []StepsMerged
<1>1. StoreInv => StepsMerged
  <2> SUFFICES ASSUME StoreInv, NEW p \in Posts, NEW s \in StepPosts, Alone(p, s), Done(p), Done(s),
                      ~OrphanedTwice, ~Overlapped(p, s)
               PROVE  steps[p] = s
    BY DEF StepsMerged
  <2>1. Single
    BY NotOrphanedTwice DEF StoreInv, Stored
  <2>. QED  BY <2>1 DEF StoreInv, Paired, Pair, Done, Before
<1>. QED  BY <1>1, StoreInvariant, PTL
=============================================================================
