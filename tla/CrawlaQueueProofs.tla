-------------------------- MODULE CrawlaQueueProofs --------------------------
(***************************************************************************)
(* The queue of Crawla scenarios clears every bucket it is past, for any   *)
(* number of loops, buckets and attempts, whatever fails and whenever the  *)
(* user stops a queue or leaves the tab.                                   *)
(***************************************************************************)
EXTENDS CrawlaQueue, Integers, TLAPS

\* What a scenario's row, mocks and tasks have to do with each other, and with what
\* the loop has been told, unless a call failed or a teardown overlapped the create.
Served(s) ==
    /\ "create" \in task[s] => row[s] \in {"PENDING", "TORN_DOWN", "none"}
    /\ s \notin hurt /\ "teardown" \in task[s] =>
           task[s] = {"teardown"} /\ row[s] \notin {"TORN_DOWN", "none"}
    /\ s \notin hurt /\ "deleteRow" \in task[s] =>
           task[s] = {"deleteRow"} /\ row[s] = "TORN_DOWN" /\ s \notin mocks
    /\ asked[s] = "accepted" /\ s \notin hurt /\ task[s] \cap {"teardown", "deleteRow"} = {} =>
           task[s] = {} /\ row[s] = "none" /\ s \notin mocks
    /\ item[s] = "completed" =>
           asked[s] = "accepted" /\ "create" \notin task[s] /\ row[s] \in {"TORN_DOWN", "none"}

\* The loop has not come to the bucket of s, or has not asked for its scenario.
Fresh(s) == \/ at[s[1]] < s[2]
            \/ at[s[1]] = s[2] /\ pc[s[1]] \in {"idle", "next", "create", "ended"}
Untouched(s) == row[s] = "none" /\ s \notin mocks /\ task[s] = {}

\* A scenario is untouched until its loop has come to it; later it is the one the
\* loop knows, or lost, or it was never made, or its teardown has been asked for.
Kept(s) ==
    /\ Fresh(s) => /\ Untouched(s) /\ asked[s] = "no" /\ item[s] \in {"pending", "running"}
                   /\ s \notin lost /\ s \notin hurt
    /\ asked[s] = "no" /\ s \notin lost =>
           (at[s[1]] = s[2] /\ s[1] \in known) \/ Untouched(s)

\* What the loop knows of its bucket at each phase.
Tracked(l) ==
    /\ l \in known => pc[l] \in {"poll", "run", "delete", "verify", "finally"}
    /\ pc[l] \in {"poll", "run", "delete", "verify"} => l \in known
    /\ l \in torn => asked[Here(l)] = "accepted" /\ pc[l] \in {"verify", "finally"}
    /\ pc[l] = "verify" => l \in torn
    /\ l \in known \ torn => item[Here(l)] # "completed"
    /\ pc[l] \in {"create", "poll", "run", "delete", "verify", "finally"} => at[l] <= Buckets
    /\ pc[l] \in {"run", "delete", "verify"} => "create" \notin task[Here(l)]

QueueInv == /\ TypeOK
            /\ \A s \in Scenarios : Served(s) /\ Kept(s)
            /\ \A l \in Loops : Tracked(l)

LEMMA Pairs ==
    /\ \A s \in Scenarios : s[1] \in Loops /\ s[2] \in 1..Buckets /\ s = <<s[1], s[2]>>
    /\ \A l \in Loops, k \in 1..Buckets : <<l, k>> \in Scenarios /\ <<l, k>>[1] = l /\ <<l, k>>[2] = k
  BY DEF Scenarios

LEMMA InvInit == Init => QueueInv
  <1> SUFFICES ASSUME Init PROVE QueueInv
    OBVIOUS
  <1>1. TypeOK
    BY QueueAssumption DEF Init, TypeOK, Phases, Items, Rows, Tasks
  <1>2. ASSUME NEW s \in Scenarios PROVE Served(s) /\ Kept(s)
    BY <1>2, Pairs DEF Init, Served, Kept, Fresh, Untouched
  <1>3. ASSUME NEW l \in Loops PROVE Tracked(l)
    BY <1>3 DEF Init, Tracked
  <1> QED
    BY <1>1, <1>2, <1>3 DEF QueueInv

LEMMA InvCleared == QueueInv => BucketsCleared
  <1> SUFFICES ASSUME QueueInv, NEW l \in Loops, NEW k \in 1..Buckets
               PROVE  LET s == <<l, k>>
                          over == at[l] > k /\ task[s] = {}
                      IN  /\ over /\ s \notin lost /\ asked[s] = "no" => row[s] = "none" /\ s \notin mocks
                          /\ over /\ asked[s] = "accepted" /\ s \notin hurt => row[s] = "none" /\ s \notin mocks
                          /\ item[s] = "completed" => row[s] \in {"TORN_DOWN", "none"} /\ s \notin mocks \ hurt
    BY Pairs DEF BucketsCleared, Scenarios
  <1> DEFINE s == <<l, k>>
  <1>1. s \in Scenarios /\ s[1] = l /\ s[2] = k
    BY Pairs
  <1>2. Served(s) /\ Kept(s) /\ at[l] \in 1..Buckets + 1
    BY <1>1 DEF QueueInv, TypeOK
  <1> QED
    BY <1>1, <1>2, QueueAssumption DEF Served, Kept, Untouched

-----------------------------------------------------------------------------
\* A step changes one loop and the scenario it is at, or one scenario.

SameLoop(l) == /\ pc'[l] = pc[l] /\ at'[l] = at[l]
               /\ l \in known' <=> l \in known
               /\ l \in torn' <=> l \in torn
SameScenario(s) == /\ row'[s] = row[s] /\ task'[s] = task[s] /\ asked'[s] = asked[s]
                   /\ item'[s] = item[s]
                   /\ s \in mocks' <=> s \in mocks
                   /\ s \in hurt' <=> s \in hurt
                   /\ s \in lost' <=> s \in lost

LEMMA ServedSame ==
    ASSUME NEW s \in Scenarios, Served(s), SameScenario(s)
    PROVE  Served(s)'
  BY DEF Served, SameScenario

LEMMA KeptSame ==
    ASSUME NEW s \in Scenarios, Kept(s), SameScenario(s), SameLoop(s[1])
    PROVE  Kept(s)'
  BY DEF Kept, Fresh, Untouched, SameScenario, SameLoop

LEMMA TrackedSame ==
    ASSUME TypeOK, NEW l \in Loops, Tracked(l), SameLoop(l),
           Here(l) \in Scenarios => SameScenario(Here(l))
    PROVE  Tracked(l)'
  <1>1. CASE Here(l) \in Scenarios
    BY <1>1 DEF Tracked, SameLoop, SameScenario, Here
  <1>2. CASE Here(l) \notin Scenarios
    <2>1. ~(at[l] <= Buckets)
      BY <1>2, Pairs, QueueAssumption DEF TypeOK, Here
    <2> QED
      BY <2>1 DEF Tracked, SameLoop, TypeOK
  <1> QED
    BY <1>1, <1>2

LEMMA HereOfOthers ==
    ASSUME NEW l \in Loops, NEW x \in Loops, x # l
    PROVE  Here(x) # Here(l)
  BY DEF Here

\* A loop that stays at its bucket.
LEMMA StayStep ==
    ASSUME QueueInv, NEW l \in Loops, at' = at,
           \A x \in Loops \ {l} : SameLoop(x),
           \A s \in Scenarios \ {Here(l)} : SameScenario(s),
           Here(l) \in Scenarios => Served(Here(l))' /\ Kept(Here(l))',
           Tracked(l)'
    PROVE  /\ \A s \in Scenarios : Served(s)' /\ Kept(s)'
           /\ \A x \in Loops : Tracked(x)'
  <1>1. ASSUME NEW s \in Scenarios PROVE Served(s)' /\ Kept(s)'
    <2>1. CASE s = Here(l)
      BY <1>1, <2>1 DEF Here
    <2>2. CASE s # Here(l) /\ s[1] # l
      BY <1>1, <2>2, Pairs, ServedSame, KeptSame DEF QueueInv
    <2>3. CASE s # Here(l) /\ s[1] = l
      <3>1. s[2] # at[l] /\ SameScenario(s) /\ Kept(s) /\ Served(s)
        BY <1>1, <2>3, Pairs DEF Here, QueueInv
      <3> QED
        BY <1>1, <2>3, <3>1, ServedSame DEF Kept, Fresh, Untouched, SameScenario
    <2> QED
      BY <2>1, <2>2, <2>3
  <1>2. ASSUME NEW x \in Loops PROVE Tracked(x)'
    <2>1. CASE x # l
      BY <1>2, <2>1, HereOfOthers, TrackedSame DEF QueueInv
    <2> QED
      BY <2>1
  <1> QED
    BY <1>1, <1>2

\* The tasks of one scenario.
LEMMA ServerStep ==
    ASSUME QueueInv, NEW s \in Scenarios,
           \A x \in Loops : SameLoop(x),
           \A t \in Scenarios \ {s} : SameScenario(t),
           Served(s)', Kept(s)',
           Here(s[1]) = s => Tracked(s[1])'
    PROVE  /\ \A t \in Scenarios : Served(t)' /\ Kept(t)'
           /\ \A x \in Loops : Tracked(x)'
  <1>1. ASSUME NEW t \in Scenarios PROVE Served(t)' /\ Kept(t)'
    BY <1>1, Pairs, ServedSame, KeptSame DEF QueueInv
  <1>2. ASSUME NEW x \in Loops PROVE Tracked(x)'
    <2>1. CASE Here(x) = s
      BY <1>2, <2>1, Pairs DEF Here
    <2>2. CASE Here(x) # s
      BY <1>2, <2>2, TrackedSame DEF QueueInv
    <2> QED
      BY <2>1, <2>2
  <1> QED
    BY <1>1, <1>2

-----------------------------------------------------------------------------
\* Type correctness, step by step.

LEMMA HereInScenarios ==
    ASSUME QueueInv, NEW l \in Loops,
           pc[l] \in {"create", "poll", "run", "delete", "verify", "finally"}
    PROVE  at[l] \in 1..Buckets /\ Here(l) \in Scenarios /\ Here(l)[1] = l /\ Here(l)[2] = at[l]
  BY Pairs, QueueAssumption DEF QueueInv, TypeOK, Tracked, Here

LEMMA TypedUser ==
    ASSUME QueueInv, Leave \/ Stop \/ \E l \in Loops : Start(l)
    PROVE  TypeOK'
  BY DEF QueueInv, TypeOK, Leave, Stop, Start, Goto, Phases, serverVars

LEMMA TypedLoop ==
    ASSUME QueueInv, NEW l \in Loops, Answered(l) \/ Failing(l)
    PROVE  TypeOK'
  <1> USE DEF serverVars, Phases, Items, Rows, Tasks, Goto, Mark, Onward
  <1>1. CASE NextBucket(l) \/ End(l)
    BY <1>1 DEF QueueInv, TypeOK, NextBucket, End, Here
  <1>2. CASE Create(l)
    BY <1>2, HereInScenarios DEF QueueInv, TypeOK, Create, Accepted
  <1>3. CASE CreateFails(l)
    BY <1>3, HereInScenarios DEF QueueInv, TypeOK, CreateFails, Accepted, Caught
  <1>4. CASE Ready(l) \/ Run(l)
    BY <1>4 DEF QueueInv, TypeOK, Ready, Run
  <1>5. CASE NotYet(l) \/ StillThere(l)
    BY <1>5 DEF QueueInv, TypeOK, NotYet, StillThere, Tries
  <1>6. CASE PollThrows(l) \/ PollFails(l) \/ RunFails(l)
    BY <1>6 DEF QueueInv, TypeOK, PollThrows, PollFails, RunFails, Caught
  <1>7. CASE Delete(l)
    BY <1>7, HereInScenarios DEF QueueInv, TypeOK, Delete, Teardown, Tracked
  <1>8. CASE DeleteFails(l)
    BY <1>8, HereInScenarios DEF QueueInv, TypeOK, DeleteFails, TeardownFails, Teardown
  <1>9. CASE Verified(l) \/ Unverified(l) \/ VerifyFails(l)
    BY <1>9 DEF QueueInv, TypeOK, Verified, Unverified, VerifyFails, Warned
  <1>10. CASE Finally(l)
    <2>1. at[l] + 1 \in 1..Buckets + 1
      BY <1>10, HereInScenarios, QueueAssumption DEF Finally, NextAfter
    <2> QED
      BY <1>10, <2>1, HereInScenarios
         DEF QueueInv, TypeOK, Finally, NextAfter, TeardownFails, Teardown
  <1> QED
    BY <1>1, <1>2, <1>3, <1>4, <1>5, <1>6, <1>7, <1>8, <1>9, <1>10 DEF Answered, Failing

LEMMA TypedServer ==
    ASSUME QueueInv, NEW s \in Scenarios,
           Register(s) \/ CreateEnds(s) \/ ClearMocks(s) \/ DeleteRow(s) \/ OthersClear(s)
    PROVE  TypeOK'
  BY DEF QueueInv, TypeOK, Register, CreateEnds, ClearMocks, DeleteRow, OthersClear, loopVars,
         Rows, Tasks

-----------------------------------------------------------------------------
\* The steps of the server.

LEMMA ServerFrame ==
    ASSUME QueueInv, NEW s \in Scenarios,
           Register(s) \/ CreateEnds(s) \/ ClearMocks(s) \/ DeleteRow(s) \/ OthersClear(s)
    PROVE  /\ \A x \in Loops : SameLoop(x)
           /\ \A t \in Scenarios \ {s} : SameScenario(t)
  BY DEF QueueInv, TypeOK, Register, CreateEnds, ClearMocks, DeleteRow, OthersClear, loopVars,
         SameLoop, SameScenario

LEMMA ServerServes ==
    ASSUME QueueInv, NEW s \in Scenarios,
           Register(s) \/ CreateEnds(s) \/ ClearMocks(s) \/ DeleteRow(s) \/ OthersClear(s)
    PROVE  Served(s)' /\ Kept(s)' /\ (Here(s[1]) = s => Tracked(s[1])')
  <1> USE Pairs DEF QueueInv, TypeOK, Served, Kept, Fresh, Untouched, Tracked, Here, loopVars,
                    Tasks, Rows
  <1>1. CASE Register(s)
    BY <1>1 DEF Register
  <1>2. CASE CreateEnds(s)
    BY <1>2 DEF CreateEnds
  <1>3. CASE ClearMocks(s)
    BY <1>3 DEF ClearMocks
  <1>4. CASE DeleteRow(s)
    BY <1>4 DEF DeleteRow
  <1>5. CASE OthersClear(s)
    BY <1>5 DEF OthersClear
  <1> QED
    BY <1>1, <1>2, <1>3, <1>4, <1>5

-----------------------------------------------------------------------------
\* The steps of a loop.

\* What a loop that stays at its bucket leaves alone.
Stays(l) == /\ at' = at
            /\ \A x \in Loops \ {l} : SameLoop(x)
            /\ \A s \in Scenarios \ {Here(l)} : SameScenario(s)

LEMMA LoopFrame ==
    ASSUME QueueInv, NEW l \in Loops, Start(l) \/ (Answered(l) /\ ~Finally(l)) \/ Failing(l)
    PROVE  Stays(l)
  <1> USE DEF QueueInv, TypeOK, Stays, SameLoop, SameScenario, serverVars, Goto, Mark, Onward,
              Accepted, Caught
  <1>1. CASE Start(l) \/ NextBucket(l) \/ End(l)
    BY <1>1 DEF Start, NextBucket, End
  <1>2. CASE Create(l) \/ CreateFails(l)
    BY <1>2 DEF Create, CreateFails
  <1>3. CASE Ready(l) \/ Run(l) \/ NotYet(l) \/ StillThere(l)
    BY <1>3 DEF Ready, Run, NotYet, StillThere
  <1>4. CASE PollThrows(l) \/ PollFails(l) \/ RunFails(l)
    BY <1>4 DEF PollThrows, PollFails, RunFails
  <1>5. CASE Delete(l) \/ DeleteFails(l)
    BY <1>5 DEF Delete, DeleteFails, TeardownFails, Teardown
  <1>6. CASE Verified(l) \/ Unverified(l) \/ VerifyFails(l)
    BY <1>6 DEF Verified, Unverified, VerifyFails, Warned
  <1> QED
    BY <1>1, <1>2, <1>3, <1>4, <1>5, <1>6 DEF Answered, Failing

LEMMA LoopServes ==
    ASSUME QueueInv, NEW l \in Loops, Start(l) \/ (Answered(l) /\ ~Finally(l)) \/ Failing(l)
    PROVE  /\ Here(l) \in Scenarios => Served(Here(l))' /\ Kept(Here(l))'
           /\ Tracked(l)'
  <1> DEFINE h == Here(l)
  <1>0. /\ Tracked(l) /\ TypeOK
        /\ h \in Scenarios => Served(h) /\ Kept(h) /\ h[1] = l /\ h[2] = at[l]
        /\ pc[l] \in {"create", "poll", "run", "delete", "verify", "finally"} => h \in Scenarios
    BY HereInScenarios DEF QueueInv, Here
  <1>s. Stays(l)
    BY LoopFrame
  <1>h. Here(l)' = h /\ at' = at
    BY <1>s DEF Stays, Here
  <1> HIDE DEF h
  <1> USE <1>0, <1>h DEF TypeOK, serverVars, Goto, Onward, Served, Kept, Fresh, Untouched, Tracked
  <1>1. CASE Start(l)
    BY <1>1 DEF Start, h
  <1>2. CASE NextBucket(l)
    BY <1>2, QueueAssumption DEF NextBucket, Mark, h
  <1>3. CASE End(l)
    BY <1>3 DEF End, h
  <1>4. CASE Create(l)
    BY <1>4 DEF Create, Accepted, h
  <1>5. CASE CreateFails(l)
    BY <1>5 DEF CreateFails, Accepted, Caught, Mark, h
  <1>6. CASE Ready(l) \/ Run(l)
    BY <1>6 DEF Ready, Run, h
  <1>7. CASE NotYet(l) \/ StillThere(l)
    BY <1>7 DEF NotYet, StillThere, h
  <1>8. CASE PollThrows(l) \/ PollFails(l) \/ RunFails(l)
    BY <1>8 DEF PollThrows, PollFails, RunFails, Caught, Mark, h
  <1>9. CASE Delete(l)
    BY <1>9 DEF Delete, Teardown, h, Tasks
  <1>10. CASE DeleteFails(l)
    BY <1>10 DEF DeleteFails, TeardownFails, Teardown, Mark, h, Tasks
  <1>11. CASE Verified(l)
    BY <1>11 DEF Verified, Mark, h
  <1>12. CASE Unverified(l) \/ VerifyFails(l)
    BY <1>12 DEF Unverified, VerifyFails, Warned, Mark, h
  <1> QED
    BY <1>1, <1>2, <1>3, <1>4, <1>5, <1>6, <1>7, <1>8, <1>9, <1>10, <1>11, <1>12
       DEF Answered, Failing, h

\* The bucket is left: its scenario is untouched, or lost, or its teardown was asked for.
LEMMA FinallyStep ==
    ASSUME QueueInv, NEW l \in Loops, Finally(l)
    PROVE  /\ \A s \in Scenarios : Served(s)' /\ Kept(s)'
           /\ \A x \in Loops : Tracked(x)'
  <1>h. Here(l) \in Scenarios /\ Here(l)[1] = l /\ Here(l)[2] = at[l] /\ at[l] \in 1..Buckets
    BY HereInScenarios DEF Finally, NextAfter
  <1> SUFFICES ASSUME NEW h \in Scenarios, h = Here(l)
               PROVE  /\ \A s \in Scenarios : Served(s)' /\ Kept(s)'
                      /\ \A x \in Loops : Tracked(x)'
    BY <1>h
  <1>0. TypeOK /\ Tracked(l) /\ Served(h) /\ Kept(h)
    BY DEF QueueInv
  <1>1. h[1] = l /\ h[2] = at[l] /\ at[l] \in 1..Buckets
    BY <1>h
  <1>2. /\ \A x \in Loops \ {l} : SameLoop(x)
        /\ \A s \in Scenarios \ {h} : SameScenario(s)
    BY <1>0, <1>1 DEF TypeOK, SameLoop, SameScenario, serverVars, Goto, Finally, NextAfter,
                      TeardownFails, Teardown
  <1>3. pc'[l] = "next" /\ at'[l] = at[l] + 1 /\ l \notin known' /\ l \notin torn'
    BY <1>0 DEF TypeOK, Goto, Finally, NextAfter
  <1>4. Served(h)' /\ Kept(h)'
    <2> USE <1>0, <1>1, <1>3, QueueAssumption
        DEF TypeOK, Served, Kept, Fresh, Untouched, Tasks, serverVars
    <2>1. CASE Leftover(l)
      <3>1. Teardown(h, "accepted") \/ TeardownFails(h)
        BY <2>1 DEF Finally
      <3>2. item' = item
        BY DEF Finally, NextAfter
      <3>3. ASSUME NEW answer \in {"accepted", "failed"}, Teardown(h, answer)
            PROVE  Served(h)' /\ Kept(h)'
        <4>1. task'[h] = task[h] \cup {"teardown"} /\ asked'[h] = answer
          BY <3>3 DEF Teardown
        <4>2. Served(h)'
          BY <3>2, <3>3, <4>1 DEF Teardown
        <4> QED
          BY <3>3, <4>1, <4>2 DEF Teardown
      <3>4. CASE asked' = [asked EXCEPT ![h] = "failed"] /\ UNCHANGED serverVars
        BY <3>2, <3>4, <2>1 DEF Leftover, Tracked
      <3> QED
        BY <3>1, <3>3, <3>4 DEF TeardownFails
    <2>2. CASE ~Leftover(l)
      <3>1. l \notin known \/ asked[h] = "accepted"
        BY <2>2 DEF Leftover, Tracked
      <3> QED
        BY <2>2, <3>1 DEF Finally, NextAfter
    <2> QED
      BY <2>1, <2>2
  <1>5. ASSUME NEW s \in Scenarios, s # h PROVE Served(s)' /\ Kept(s)'
    <2>1. SameScenario(s) /\ Served(s) /\ Kept(s)
      BY <1>2, <1>5 DEF QueueInv
    <2>2. CASE s[1] # l
      BY <1>2, <1>5, <2>1, <2>2, Pairs, ServedSame, KeptSame
    <2>3. CASE s[1] = l
      <3>1. s[2] # at[l] /\ s[2] \in 1..Buckets
        BY <1>5, <2>3, Pairs DEF Here
      <3> QED
        BY <1>0, <1>1, <1>3, <1>5, <2>1, <2>3, <3>1, ServedSame, QueueAssumption
           DEF Kept, Fresh, Untouched, SameScenario
    <2> QED
      BY <2>2, <2>3
  <1>6. ASSUME NEW x \in Loops PROVE Tracked(x)'
    <2>1. CASE x = l
      BY <1>3, <2>1 DEF Tracked
    <2>2. CASE x # l
      BY <1>0, <1>2, <1>6, <2>2, HereOfOthers, TrackedSame DEF QueueInv
    <2> QED
      BY <2>1, <2>2
  <1> QED
    BY <1>4, <1>5, <1>6

-----------------------------------------------------------------------------
\* Every step.

LEMMA UserStep ==
    ASSUME QueueInv, Leave \/ Stop \/ UNCHANGED vars
    PROVE  /\ TypeOK'
           /\ \A s \in Scenarios : Served(s)' /\ Kept(s)'
           /\ \A x \in Loops : Tracked(x)'
  <1>1. TypeOK'
    BY TypedUser DEF QueueInv, TypeOK, vars, loopVars, serverVars
  <1>2. /\ \A x \in Loops : SameLoop(x)
        /\ \A s \in Scenarios : SameScenario(s)
    BY DEF SameLoop, SameScenario, Leave, Stop, vars, loopVars, serverVars
  <1> QED
    BY <1>1, <1>2, Pairs, ServedSame, KeptSame, TrackedSame DEF QueueInv

LEMMA InvNext == QueueInv /\ [Next]_vars => QueueInv'
  <1> SUFFICES ASSUME QueueInv, [Next]_vars PROVE QueueInv'
    OBVIOUS
  <1>1. CASE Leave \/ Stop \/ UNCHANGED vars
    BY <1>1, UserStep DEF QueueInv
  <1>2. ASSUME NEW l \in Loops, Start(l) \/ Answered(l) \/ Failing(l) PROVE QueueInv'
    <2>1. TypeOK'
      BY <1>2, TypedUser, TypedLoop
    <2>2. CASE Finally(l)
      BY <1>2, <2>1, <2>2, FinallyStep DEF QueueInv
    <2>3. CASE ~Finally(l)
      <3>1. Stays(l)
        BY <1>2, <2>3, LoopFrame
      <3>2. (Here(l) \in Scenarios => Served(Here(l))' /\ Kept(Here(l))') /\ Tracked(l)'
        BY <1>2, <2>3, LoopServes
      <3> QED
        BY <1>2, <2>1, <3>1, <3>2, StayStep DEF QueueInv, Stays
    <2> QED
      BY <2>2, <2>3
  <1>3. ASSUME NEW s \in Scenarios,
               Register(s) \/ CreateEnds(s) \/ ClearMocks(s) \/ DeleteRow(s) \/ OthersClear(s)
        PROVE  QueueInv'
    BY <1>3, TypedServer, ServerFrame, ServerServes, ServerStep DEF QueueInv
  <1> QED
    BY <1>1, <1>2, <1>3 DEF Next

\* Types: what a loop records is of its type whatever fails; no loop runs past the end
\* of its list of buckets, and only a scenario it knows counts as torn down.
THEOREM QueueTyped == Spec => []TypeOK
  <1>1. QueueInv => TypeOK
    BY DEF QueueInv
  <1> QED
    BY <1>1, InvInit, InvNext, PTL DEF Spec

\* A queue leaves nothing of a bucket it is past, and a bucket shown as completed
\* without a warning stays cleared (runAll's finally, and run_teardown), but for lost
\* ids, failed calls and teardowns that overlap the create: for any loops and buckets.
THEOREM QueueClears == Spec => []BucketsCleared
  BY InvInit, InvNext, InvCleared, PTL DEF Spec

-----------------------------------------------------------------------------
\* How long a queue can go on.

\* How many steps a loop can have left: BucketSteps for a bucket, with all the attempts
\* of its two polls.
BucketSteps == PollReady + PollTorn + 5
InBucket(l) == CASE pc[l] = "next" -> BucketSteps
                 [] pc[l] = "create" -> PollReady + PollTorn + 4
                 [] pc[l] = "poll" -> PollTorn + 3 + (PollReady - polls[l])
                 [] pc[l] = "run" -> PollTorn + 3
                 [] pc[l] = "delete" -> PollTorn + 2
                 [] pc[l] = "verify" -> 1 + (PollTorn - polls[l])
                 [] OTHER -> 1
MostSteps == Buckets * BucketSteps + 2
StepsLeft(l) == CASE pc[l] = "idle" -> MostSteps
                  [] pc[l] = "ended" -> 0
                  [] OTHER -> (Buckets - at[l]) * BucketSteps + InBucket(l) + 1

\* A step of loop l uses one up, and no other step gives one back.
LoopStep(l) == Start(l) \/ Answered(l) \/ Failing(l)
Bounded == \A l \in Loops : /\ StepsLeft(l) \in 0..MostSteps
                            /\ LoopStep(l) => StepsLeft(l)' < StepsLeft(l)
                            /\ ~LoopStep(l) => StepsLeft(l)' = StepsLeft(l)

\* A poll under way has an attempt left, and a loop that has not started is at its
\* first bucket.
Polling(l) == /\ pc[l] = "poll" => polls[l] < PollReady
              /\ pc[l] = "verify" => polls[l] < PollTorn
              /\ pc[l] = "idle" => at[l] = 1
CountInv == QueueInv /\ \A l \in Loops : Polling(l)

LEMMA LoopPolls ==
    ASSUME CountInv, NEW l \in Loops, LoopStep(l)
    PROVE  Polling(l)' /\ \A x \in Loops \ {l} : pc'[x] = pc[x] /\ polls'[x] = polls[x] /\ at'[x] = at[x]
  <1> USE QueueAssumption DEF CountInv, QueueInv, TypeOK, Polling, Goto, Mark, Onward, serverVars
  <1>1. CASE Start(l) \/ NextBucket(l) \/ End(l)
    BY <1>1 DEF Start, NextBucket, End
  <1>2. CASE Create(l) \/ CreateFails(l)
    BY <1>2 DEF Create, CreateFails, Accepted, Caught
  <1>3. CASE Ready(l) \/ Run(l) \/ NotYet(l) \/ StillThere(l)
    BY <1>3 DEF Ready, Run, NotYet, StillThere, Tries
  <1>4. CASE PollThrows(l) \/ PollFails(l) \/ RunFails(l)
    BY <1>4 DEF PollThrows, PollFails, RunFails, Caught
  <1>5. CASE Delete(l) \/ DeleteFails(l)
    BY <1>5 DEF Delete, DeleteFails, TeardownFails, Teardown
  <1>6. CASE Verified(l) \/ Unverified(l) \/ VerifyFails(l)
    BY <1>6 DEF Verified, Unverified, VerifyFails, Warned
  <1>7. CASE Finally(l)
    BY <1>7 DEF Finally, NextAfter
  <1> QED
    BY <1>1, <1>2, <1>3, <1>4, <1>5, <1>6, <1>7 DEF LoopStep, Answered, Failing

\* What anyone else does leaves the place of a loop as it is.
OthersStep == \/ Leave \/ Stop
              \/ \E s \in Scenarios : \/ Register(s) \/ CreateEnds(s) \/ ClearMocks(s)
                                      \/ DeleteRow(s) \/ OthersClear(s)
LEMMA OthersPolls ==
    ASSUME OthersStep \/ UNCHANGED vars
    PROVE  pc' = pc /\ polls' = polls /\ at' = at
  BY DEF OthersStep, Leave, Stop, Register, CreateEnds, ClearMocks, DeleteRow, OthersClear,
         loopVars, vars

LEMMA CountInit == Init => CountInv
  BY InvInit, QueueAssumption DEF CountInv, Polling, Init

LEMMA CountNext == CountInv /\ [Next]_vars => CountInv'
  <1> SUFFICES ASSUME CountInv, [Next]_vars PROVE \A l \in Loops : Polling(l)'
    BY InvNext DEF CountInv
  <1>1. CASE OthersStep \/ UNCHANGED vars
    BY <1>1, OthersPolls DEF CountInv, Polling
  <1>2. ASSUME NEW l \in Loops, LoopStep(l) PROVE \A x \in Loops : Polling(x)'
    BY <1>2, LoopPolls DEF CountInv, Polling
  <1> QED
    BY <1>1, <1>2 DEF Next, OthersStep, LoopStep

\* One bucket less is BucketSteps steps less.
LEMMA OneBucketLess ==
    ASSUME NEW n \in Int, NEW k \in Int
    PROVE  (n - 1) * k = n * k - k
  OBVIOUS

LEMMA BucketsLeft ==
    ASSUME NEW n \in Nat, NEW m \in Nat, NEW k \in Nat, n <= m
    PROVE  n * k \in Nat /\ n * k <= m * k
  OBVIOUS

LEMMA StepsInRange ==
    ASSUME CountInv, NEW l \in Loops
    PROVE  /\ StepsLeft(l) \in 0..MostSteps /\ BucketSteps \in Nat /\ InBucket(l) \in 1..BucketSteps
           /\ (Buckets - at[l]) * BucketSteps \in Int
           /\ pc[l] \notin {"idle", "next", "ended"} => (Buckets - at[l]) * BucketSteps \in Nat
  <1>1. /\ BucketSteps \in Nat \ {0} /\ Buckets \in Nat \ {0} /\ at[l] \in 1..Buckets + 1
        /\ PollReady \in Nat \ {0} /\ PollTorn \in Nat \ {0} /\ polls[l] \in Nat /\ pc[l] \in Phases
    BY QueueAssumption DEF CountInv, QueueInv, TypeOK, BucketSteps
  <1>2. InBucket(l) \in 1..BucketSteps /\ (pc[l] = "next" => InBucket(l) = BucketSteps)
    BY <1>1 DEF InBucket, BucketSteps, CountInv, Polling
  <1>3. pc[l] \notin {"idle", "next", "ended"} => at[l] <= Buckets
    BY <1>1 DEF CountInv, QueueInv, Tracked, Phases
  <1> DEFINE n == Buckets - at[l]
  <1>4. CASE at[l] <= Buckets
    <2>1. n \in Nat /\ n <= Buckets - 1 /\ Buckets - 1 \in Nat
      BY <1>1, <1>4
    <2>2. n * BucketSteps \in Nat /\ n * BucketSteps <= (Buckets - 1) * BucketSteps
      BY <1>1, <2>1, BucketsLeft
    <2>3. (Buckets - 1) * BucketSteps = Buckets * BucketSteps - BucketSteps
          /\ Buckets * BucketSteps \in Nat
      BY <1>1, OneBucketLess, BucketsLeft
    <2> QED
      BY <1>1, <1>2, <2>2, <2>3 DEF StepsLeft, MostSteps
  <1>5. CASE at[l] = Buckets + 1
    <2>1. n = 0 - 1 /\ pc[l] \in {"idle", "next", "ended"}
      BY <1>1, <1>3, <1>5
    <2>2. n * BucketSteps = 0 - BucketSteps
      BY <1>1, <2>1, OneBucketLess
    <2>3. Buckets * BucketSteps \in Nat
      BY <1>1, BucketsLeft
    <2> QED
      BY <1>1, <1>2, <2>1, <2>2, <2>3 DEF StepsLeft, MostSteps
  <1> QED
    BY <1>1, <1>4, <1>5

LEMMA LoopLeft ==
    ASSUME CountInv, NEW l \in Loops, LoopStep(l)
    PROVE  StepsLeft(l)' < StepsLeft(l)
  <1> DEFINE rest == (Buckets - at[l]) * BucketSteps
  <1>1. /\ BucketSteps \in Nat \ {0} /\ Buckets \in Nat \ {0} /\ at[l] \in 1..Buckets + 1
        /\ PollReady \in Nat \ {0} /\ PollTorn \in Nat \ {0} /\ polls[l] \in Nat
        /\ pc \in [Loops -> Phases] /\ polls \in [Loops -> Nat] /\ at \in [Loops -> 1..Buckets + 1]
    BY QueueAssumption DEF CountInv, QueueInv, TypeOK, BucketSteps
  <1>2. /\ StepsLeft(l) \in Nat /\ rest \in Int /\ InBucket(l) \in 1..BucketSteps /\ Polling(l)
        /\ pc[l] \notin {"idle", "next", "ended"} => rest \in Nat
    BY StepsInRange, <1>1 DEF CountInv, MostSteps
  \* A step inside a bucket: what is left of it gets less.
  <1>3. ASSUME at' = at, pc[l] \notin {"idle", "ended"}, pc'[l] \notin {"idle", "ended"},
               InBucket(l)' \in Nat, InBucket(l)' < InBucket(l)
        PROVE  StepsLeft(l)' < StepsLeft(l)
    <2>1. StepsLeft(l) = rest + InBucket(l) + 1 /\ StepsLeft(l)' = rest + InBucket(l)' + 1
      BY <1>3 DEF StepsLeft, BucketSteps
    <2> HIDE DEF rest
    <2> QED
      BY <1>2, <1>3, <2>1
  <1>4. ASSUME at' = at, pc'[l] = "finally", pc[l] \in {"create", "poll", "run", "delete", "verify"}
        PROVE  StepsLeft(l)' < StepsLeft(l)
    <2>1. InBucket(l)' = 1 /\ InBucket(l) > 1
      BY <1>1, <1>2, <1>4 DEF InBucket, Polling
    <2> QED
      BY <1>2, <1>3, <1>4, <2>1
  <1> USE DEF Goto, Onward
  <1>5. CASE Start(l)
    <2>1. pc[l] = "idle" /\ pc'[l] = "next" /\ at' = at /\ at[l] = 1
      BY <1>1, <1>2, <1>5 DEF Start, Polling
    <2>2. StepsLeft(l)' = (Buckets - 1) * BucketSteps + BucketSteps + 1
      BY <2>1 DEF StepsLeft, InBucket, BucketSteps
    <2>3. (Buckets - 1) * BucketSteps = Buckets * BucketSteps - BucketSteps
          /\ Buckets * BucketSteps \in Nat
      BY <1>1, OneBucketLess, BucketsLeft
    <2>4. StepsLeft(l) = Buckets * BucketSteps + 2
      BY <2>1 DEF StepsLeft, MostSteps
    <2> QED
      BY <1>1, <2>2, <2>3, <2>4
  <1>6. CASE NextBucket(l)
    <2>1. pc[l] = "next" /\ pc'[l] = "create" /\ at' = at
      BY <1>1, <1>6 DEF NextBucket
    <2>2. InBucket(l) = PollReady + PollTorn + 5 /\ InBucket(l)' = PollReady + PollTorn + 4
      BY <2>1 DEF InBucket, BucketSteps
    <2> QED
      BY <1>1, <1>3, <2>1, <2>2
  <1>7. CASE End(l)
    <2>1. pc[l] = "next" /\ pc'[l] = "ended" /\ at' = at
      BY <1>1, <1>7 DEF End
    <2>2. StepsLeft(l)' = 0 /\ StepsLeft(l) = rest + BucketSteps + 1
      BY <2>1 DEF StepsLeft, InBucket
    <2>3. rest \in Nat \/ rest = 0 - BucketSteps
      <3>1. CASE at[l] <= Buckets
        BY <1>1, <3>1, BucketsLeft
      <3>2. CASE at[l] = Buckets + 1
        <4>1. Buckets - at[l] = 0 - 1
          BY <1>1, <3>2
        <4> QED
          BY <1>1, <4>1, OneBucketLess
      <3> QED
        BY <1>1, <3>1, <3>2
    <2> HIDE DEF rest
    <2> QED
      BY <1>1, <2>2, <2>3
  <1>8. CASE Create(l)
    <2>1. pc[l] = "create" /\ pc'[l] \in {"finally", "poll"} /\ at' = at /\ polls'[l] = 0
      BY <1>1, <1>8 DEF Create
    <2>2. CASE pc'[l] = "poll"
      <3>1. InBucket(l) = PollReady + PollTorn + 4 /\ InBucket(l)' = PollTorn + 3 + PollReady
        BY <1>1, <2>1, <2>2 DEF InBucket
      <3> QED
        BY <1>1, <1>3, <2>1, <2>2, <3>1
    <2> QED
      BY <1>4, <2>1, <2>2
  <1>9. CASE CreateFails(l) \/ PollThrows(l) \/ PollFails(l) \/ RunFails(l) \/ DeleteFails(l)
             \/ Verified(l) \/ Unverified(l) \/ VerifyFails(l)
    <2>1. pc[l] \in {"create", "poll", "run", "delete", "verify"} /\ pc'[l] = "finally" /\ at' = at
      BY <1>1, <1>9 DEF CreateFails, PollThrows, PollFails, RunFails, DeleteFails, Verified,
                        Unverified, VerifyFails, Caught, Warned
    <2> QED
      BY <1>4, <2>1
  <1>10. CASE Ready(l) \/ Run(l)
    <2>1. /\ at' = at
          /\ \/ pc[l] = "poll" /\ pc'[l] \in {"finally", "run"}
             \/ pc[l] = "run" /\ pc'[l] \in {"finally", "delete"}
      BY <1>1, <1>10 DEF Ready, Run
    <2>2. CASE pc'[l] # "finally"
      <3>1. InBucket(l)' \in Nat /\ InBucket(l)' < InBucket(l)
        BY <1>1, <1>2, <2>1, <2>2 DEF InBucket, Polling
      <3> QED
        BY <1>3, <2>1, <3>1
    <2> QED
      BY <1>4, <2>1, <2>2
  <1>11. CASE NotYet(l) \/ StillThere(l)
    <2>1. /\ at' = at /\ pc' = pc /\ polls'[l] = polls[l] + 1
          /\ \/ pc[l] = "poll" /\ polls[l] + 1 < PollReady
             \/ pc[l] = "verify" /\ polls[l] + 1 < PollTorn
      BY <1>1, <1>11 DEF NotYet, StillThere, Tries
    <2>2. InBucket(l)' \in Nat /\ InBucket(l)' < InBucket(l)
      BY <1>1, <2>1 DEF InBucket
    <2> QED
      BY <1>3, <2>1, <2>2
  <1>12. CASE Delete(l)
    <2>1. pc[l] = "delete" /\ pc'[l] = "verify" /\ at' = at /\ polls'[l] = 0
      BY <1>1, <1>12 DEF Delete
    <2>2. InBucket(l) = PollTorn + 2 /\ InBucket(l)' = 1 + PollTorn
      BY <1>1, <2>1 DEF InBucket
    <2> QED
      BY <1>1, <1>3, <2>1, <2>2
  <1>13. CASE Finally(l)
    <2>1. pc[l] = "finally" /\ pc'[l] = "next" /\ at'[l] = at[l] + 1
      BY <1>1, <1>13 DEF Finally, NextAfter
    <2>2. StepsLeft(l) = rest + 2 /\ StepsLeft(l)' = (Buckets - (at[l] + 1)) * BucketSteps + BucketSteps + 1
      BY <1>1, <2>1 DEF StepsLeft, InBucket, BucketSteps
    <2>3. Buckets - (at[l] + 1) = (Buckets - at[l]) - 1
      BY <1>1
    <2>4. ((Buckets - at[l]) - 1) * BucketSteps = rest - BucketSteps
      BY <1>1, OneBucketLess
    <2> HIDE DEF rest
    <2> QED
      BY <1>1, <1>2, <2>2, <2>3, <2>4
  <1> QED
    BY <1>5, <1>6, <1>7, <1>8, <1>9, <1>10, <1>11, <1>12, <1>13 DEF LoopStep, Answered, Failing

\* A queue is over after MostSteps steps of its own, whatever the backend, the user and
\* others do in between: no poll and no bucket can go on for ever (runAll and
\* pollUntilStatus), so that what QueueEnds needs besides is that no step is refused.
THEOREM QueuesAreBounded == Spec => [][Bounded]_vars
  <1>1. ASSUME CountInv, Next PROVE Bounded
    <2>1. ASSUME NEW l \in Loops, ~LoopStep(l)
          PROVE  pc'[l] = pc[l] /\ polls'[l] = polls[l] /\ at'[l] = at[l]
      <3>1. CASE OthersStep
        BY <3>1, OthersPolls
      <3>2. ASSUME NEW x \in Loops, LoopStep(x)
            PROVE  pc'[l] = pc[l] /\ polls'[l] = polls[l] /\ at'[l] = at[l]
        BY <1>1, <2>1, <3>2, LoopPolls
      <3> QED
        BY <1>1, <3>1, <3>2 DEF Next, OthersStep, LoopStep
    <2>2. ASSUME NEW l \in Loops, ~LoopStep(l) PROVE StepsLeft(l)' = StepsLeft(l)
      BY <2>1, <2>2 DEF StepsLeft, InBucket, BucketSteps, MostSteps
    <2> QED
      BY <1>1, <2>2, StepsInRange, LoopLeft DEF Bounded
  <1>2. CountInv /\ [Next]_vars => [Bounded]_vars
    BY <1>1
  <1> QED
    BY <1>2, CountInit, CountNext, PTL DEF Spec
=============================================================================
